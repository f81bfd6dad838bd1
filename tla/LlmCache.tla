------------------------------ MODULE LlmCache ------------------------------
(***************************************************************************)
(* plugins/llm_enrich/cache.py: the flat directory of <key>.json files     *)
(* behind Cache.get, Cache.put and Cache.get_or_compute.  Any number of    *)
(* threads of any number of mapping processes share it (the default is one *)
(* directory per user), and a process can be killed between any two steps. *)
(*                                                                         *)
(* Files are modelled as the file system has them: a name refers to an     *)
(* inode, an open file keeps its inode when the name is replaced, and a    *)
(* write reaches the inode in pieces.                                      *)
(***************************************************************************)
EXTENDS Integers, FiniteSets

CONSTANTS
  Keys,      \* composed keys
  Values,    \* record dicts, as put() serialises them
  Clients,   \* threads calling get_or_compute
  Absent,    \* None
  BadJson,   \* damage get() takes for a miss: not JSON, not a dict, other "v"
  BadUtf8,   \* damage that is not UTF-8 text
  MaxPuts    \* bound: calls of put() (each draws from _TMP_SEQ)

Damages == {BadJson, BadUtf8}
Files == 0 .. MaxPuts        \* inodes; 0 is no file
Pieces == {1, 2}             \* a file is written in two pieces
Blank == [i \in Pieces |-> Absent]

ASSUME LlmCacheAssumption ==
  /\ MaxPuts \in Nat
  /\ Absent \notin Values \cup Damages
  /\ BadJson \notin Values /\ BadUtf8 \notin Values /\ BadJson # BadUtf8

VARIABLES
  pc,        \* next step of each client
  key, val,  \* the key it asks for, the record it has produced
  seq, file, \* of its put: the number in the temporary name; its open file
  name,      \* directory: inode of each <key>.json, 0 if there is none
  tmp,       \* directory: inode of each temporary name, 0 if there is none
  data,      \* contents of each inode, piece by piece
  puts       \* _TMP_SEQ

vars == <<pc, key, val, seq, file, name, tmp, data, puts>>

Steps == {"idle", "read", "compute", "write", "first", "second", "replace",
          "getRaised", "putRaised"}

\* The temporary name of the n-th put.
\* Mutant: <key>.tmp, shared by every writer of the key.
SharedTmpName(k, n) == <<k, 0>>

\* Writer-unique: pid, thread and _TMP_SEQ all go into it.
TmpName(k, n) == <<k, n>>

\* json.loads of a file's contents: whole or damaged.
Parse(f) ==
  IF f = 0 THEN Absent
  ELSE IF data[f][1] = data[f][2] /\ data[f][1] # Absent THEN data[f][1]
  ELSE BadJson

Init ==
  /\ pc = [c \in Clients |-> "idle"]
  /\ key \in [Clients -> Keys]
  /\ val = [c \in Clients |-> Absent]
  /\ seq = [c \in Clients |-> 0]
  /\ file = [c \in Clients |-> 0]
  /\ name = [k \in Keys |-> 0]
  /\ tmp = [n \in Keys \X Files |-> 0]
  /\ data = [f \in Files |-> Blank]
  /\ puts = 0

Goto(c, p) == pc' = [pc EXCEPT ![c] = p]

\* The call is over, at p: nothing of it is left but what is in the directory.
Leave(c, p) ==
  /\ Goto(c, p)
  /\ val' = [val EXCEPT ![c] = Absent]
  /\ seq' = [seq EXCEPT ![c] = 0]
  /\ file' = [file EXCEPT ![c] = 0]

-----------------------------------------------------------------------------
\* get(): read_text opens <key>.json, or finds no file and it is a miss ...
Open(c, k) ==
  /\ pc[c] = "idle"
  /\ key' = [key EXCEPT ![c] = k]
  /\ file' = [file EXCEPT ![c] = name[k]]
  /\ Goto(c, IF name[k] = 0 THEN "compute" ELSE "read")
  /\ UNCHANGED <<val, seq, name, tmp, data, puts>>

\* ... then reads and parses the open file, whatever <key>.json is by now.
Read(c) ==
  /\ pc[c] = "read"
  /\ \/ Parse(file[c]) \in Values /\ Goto(c, "idle")
     \/ Parse(file[c]) = BadJson /\ Goto(c, "compute")
     \/ Parse(file[c]) = BadUtf8 /\ Goto(c, "getRaised")
  /\ file' = [file EXCEPT ![c] = 0]
  /\ UNCHANGED <<key, val, seq, name, tmp, data, puts>>

\* compute(): the model answers, or the call fails and nothing is written.
Compute(c) ==
  /\ pc[c] = "compute"
  /\ \/ /\ \E v \in Values : val' = [val EXCEPT ![c] = v]
        /\ Goto(c, "write")
     \/ /\ Goto(c, "idle")
        /\ UNCHANGED val
  /\ UNCHANGED <<key, seq, file, name, tmp, data, puts>>

\* put(): write_text creates the temporary file, or truncates the one there.
OpenTmp(c) ==
  LET n == TmpName(key[c], puts + 1)
      f == IF tmp[n] = 0 THEN puts + 1 ELSE tmp[n] IN
  /\ pc[c] = "write"
  /\ puts < MaxPuts
  /\ puts' = puts + 1
  /\ seq' = [seq EXCEPT ![c] = puts + 1]
  /\ tmp' = [tmp EXCEPT ![n] = f]
  /\ data' = [data EXCEPT ![f] = Blank]
  /\ file' = [file EXCEPT ![c] = f]
  /\ Goto(c, "first")
  /\ UNCHANGED <<key, val, name>>

\* The bytes reach the open file a piece at a time.
WritePiece(c, i) ==
  /\ pc[c] = IF i = 1 THEN "first" ELSE "second"
  /\ data' = [data EXCEPT ![file[c]][i] = val[c]]
  /\ Goto(c, IF i = 1 THEN "second" ELSE "replace")
  /\ UNCHANGED <<key, val, seq, file, name, tmp, puts>>

\* os.replace(tmp, p): the name moves in one step.
Replace(c) ==
  LET n == TmpName(key[c], seq[c]) IN
  /\ pc[c] = "replace"
  /\ tmp[n] # 0
  /\ name' = [name EXCEPT ![key[c]] = tmp[n]]
  /\ tmp' = [tmp EXCEPT ![n] = 0]
  /\ Leave(c, "idle")
  /\ UNCHANGED <<key, data, puts>>

\* The disk is full, or the replace fails: put() raises, its tmp file stays.
PutFails(c) ==
  /\ pc[c] \in {"write", "first", "second", "replace"}
  /\ Leave(c, "putRaised")
  /\ UNCHANGED <<key, name, tmp, data, puts>>

\* The process is killed, or ends after an exception; another takes its place.
Restart(c) ==
  /\ pc[c] # "idle"
  /\ Leave(c, "idle")
  /\ UNCHANGED <<key, name, tmp, data, puts>>

\* Outside damage to a published file: bit rot, a torn page after power loss,
\* another program.
Damage(k, d) ==
  /\ name[k] # 0
  /\ data' = [data EXCEPT ![name[k]] = [i \in Pieces |-> d]]
  /\ UNCHANGED <<pc, key, val, seq, file, name, tmp, puts>>

Next ==
  \/ \E c \in Clients :
       \/ \E k \in Keys : Open(c, k)
       \/ Read(c) \/ Compute(c)
       \/ OpenTmp(c) \/ (\E i \in Pieces : WritePiece(c, i)) \/ Replace(c)
       \/ PutFails(c) \/ Restart(c)
  \/ \E k \in Keys, d \in Damages : Damage(k, d)

Spec == Init /\ [][Next]_vars

-----------------------------------------------------------------------------
TypeOK ==
  /\ pc \in [Clients -> Steps]
  /\ key \in [Clients -> Keys]
  /\ val \in [Clients -> Values \cup {Absent}]
  /\ seq \in [Clients -> Files]
  /\ file \in [Clients -> Files]
  /\ name \in [Keys -> Files]
  /\ tmp \in [Keys \X Files -> Files]
  /\ data \in [Files -> [Pieces -> Values \cup Damages \cup {Absent}]]
  /\ puts \in Files

Writing(c) == pc[c] \in {"first", "second", "replace"}

\* "Concurrent writers of the same key must never share a tmp path": no two
\* puts in progress write to one file, and none writes to a published one.
WritersApart ==
  \A c \in Clients : Writing(c) =>
     /\ \A d \in Clients \ {c} : Writing(d) => file[c] # file[d]
     /\ \A k \in Keys : name[k] # file[c]

\* "One thread can atomically publish another's half-written bytes" is what
\* must not happen: a published file is whole, unless damaged from outside.
PublishedWhole ==
  \A k \in Keys : name[k] # 0 =>
     /\ data[name[k]][1] = data[name[k]][2]
     /\ data[name[k]][1] # Absent

\* The directory implements the map of AtomicCache: every step of a put but
\* the replace, a crash included, leaves the map alone.
Map == INSTANCE AtomicCache WITH
  store <- [k \in Keys |-> Parse(name[k])],
  seen  <- [c \in Clients |->
              IF pc[c] = "read" THEN Parse(file[c]) ELSE Absent]

ImplementsAtomicCache == Map!Spec

=============================================================================
