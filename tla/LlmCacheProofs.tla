--------------------------- MODULE LlmCacheProofs ---------------------------
(***************************************************************************)
(* The cache directory of module LlmCache, for any keys, records, clients  *)
(* and number of puts: writers keep apart, what is published is whole, and *)
(* the directory implements the map of AtomicCache.  All three come down   *)
(* to numbering: the n-th put writes inode n, under a temporary name only  *)
(* it has, until the replace takes the name away.                          *)
(***************************************************************************)
EXTENDS LlmCache, TLAPS

\* A temporary name refers to the inode of the put it is numbered after, and
\* no two names of a number are in use.
NumbersOK ==
  /\ \A k \in Keys, n \in Files :
       /\ tmp[<<k, n>>] \in {0, n}
       /\ n > puts => tmp[<<k, n>>] = 0
  /\ \A k, l \in Keys, n \in Files :
       tmp[<<k, n>>] # 0 /\ tmp[<<l, n>>] # 0 => k = l

\* A put in progress owns its number, its file and its temporary name.
WriterOK(c) ==
  /\ pc[c] = "write" => val[c] \in Values
  /\ Writing(c) => /\ val[c] \in Values
                   /\ seq[c] \in 1 .. puts /\ file[c] = seq[c]
                   /\ tmp[<<key[c], seq[c]>>] = seq[c]
  /\ pc[c] = "second" => data[file[c]][1] = val[c]
  /\ pc[c] = "replace" =>
       data[file[c]][1] = val[c] /\ data[file[c]][2] = val[c]

WritersOK ==
  /\ \A c \in Clients : WriterOK(c)
  /\ \A c, d \in Clients :
       Writing(c) /\ Writing(d) /\ seq[c] = seq[d] => c = d

\* A file that is complete and that no temporary name refers to: nobody
\* writes to it any more.
Final(f) ==
  /\ f \in 1 .. puts
  /\ data[f][1] = data[f][2] /\ data[f][1] # Absent
  /\ \A k \in Keys, n \in Files : tmp[<<k, n>>] # f

FinalsOK ==
  /\ \A k \in Keys : name[k] # 0 => Final(name[k])
  /\ \A k, l \in Keys : name[k] # 0 /\ name[k] = name[l] => k = l
  /\ \A c \in Clients : pc[c] = "read" => Final(file[c])

Inv == TypeOK /\ NumbersOK /\ WritersOK /\ FinalsOK

-----------------------------------------------------------------------------
\* What the proofs need of the constants.
LEMMA Constants ==
  /\ MaxPuts \in Nat
  /\ Absent \notin Values /\ Absent \notin Damages
  /\ Values \cap Damages = {}
  BY LlmCacheAssumption DEF Damages

\* The directory starts empty and nobody is in a call.
LEMMA InitInv == Init => Inv
<1> SUFFICES ASSUME Init PROVE Inv
  OBVIOUS
<1>1. TypeOK
  BY Constants DEF Init, TypeOK, Files, Pieces, Blank, Steps
<1>2. NumbersOK
  BY DEF Init, NumbersOK
<1>3. WritersOK
  BY DEF Init, WritersOK, WriterOK, Writing
<1>4. FinalsOK
  BY DEF Init, FinalsOK
<1> QED
  BY <1>1, <1>2, <1>3, <1>4 DEF Inv

\* Every step keeps every variable in its type.
LEMMA TypeStep == Inv /\ [Next]_vars => TypeOK'
<1> SUFFICES ASSUME Inv, [Next]_vars PROVE TypeOK'
  OBVIOUS
<1> USE DEF Inv, TypeOK, Steps
<1>0. 0 \in Files
  BY Constants DEF Files
<1>1. ASSUME NEW c \in Clients, NEW k \in Keys, Open(c, k) PROVE TypeOK'
  BY <1>1 DEF Open, Goto
<1>2. ASSUME NEW c \in Clients, Read(c) PROVE TypeOK'
  BY <1>0, <1>2 DEF Read, Goto
<1>3. ASSUME NEW c \in Clients, Compute(c) PROVE TypeOK'
  BY <1>3 DEF Compute, Goto
<1>4. ASSUME NEW c \in Clients, OpenTmp(c) PROVE TypeOK'
  <2>1. puts + 1 \in Files
    BY <1>4, Constants DEF OpenTmp, Files
  <2>2. <<key[c], puts + 1>> \in Keys \X Files
    BY <2>1
  <2>3. Blank \in [Pieces -> Values \cup Damages \cup {Absent}]
    BY DEF Blank
  <2> QED
    BY <1>4, <2>1, <2>2, <2>3 DEF OpenTmp, Goto, TmpName
<1>5. ASSUME NEW c \in Clients, NEW i \in Pieces, WritePiece(c, i)
      PROVE  TypeOK'
  BY <1>5 DEF WritePiece, Goto
<1>6. ASSUME NEW c \in Clients, Replace(c) PROVE TypeOK'
  <2>1. pc' \in [Clients -> Steps] /\ val' \in [Clients -> Values \cup {Absent}]
    BY <1>6 DEF Replace, Leave, Goto
  <2>2. seq' \in [Clients -> Files] /\ file' \in [Clients -> Files]
    BY <1>0, <1>6 DEF Replace, Leave, Goto
  <2>3. tmp[TmpName(key[c], seq[c])] \in Files
    BY <1>6 DEF TmpName
  <2>4. name' \in [Keys -> Files]
    BY <1>6, <2>3 DEF Replace
  <2>5. tmp' \in [Keys \X Files -> Files]
    BY <1>0, <1>6 DEF Replace
  <2> QED
    BY <1>6, <2>1, <2>2, <2>4, <2>5 DEF Replace
<1>7. ASSUME NEW c \in Clients, PutFails(c) \/ Restart(c) PROVE TypeOK'
  <2>1. pc' \in [Clients -> Steps]
    BY <1>7 DEF PutFails, Restart, Leave, Goto
  <2>2. val' \in [Clients -> Values \cup {Absent}]
    BY <1>7 DEF PutFails, Restart, Leave
  <2>3. seq' \in [Clients -> Files] /\ file' \in [Clients -> Files]
    BY <1>0, <1>7 DEF PutFails, Restart, Leave
  <2> QED
    BY <1>7, <2>1, <2>2, <2>3 DEF PutFails, Restart
<1>8. ASSUME NEW k \in Keys, NEW d \in Damages, Damage(k, d) PROVE TypeOK'
  BY <1>8 DEF Damage
<1>9. CASE UNCHANGED vars
  BY <1>9 DEF vars
<1> QED
  BY <1>1, <1>2, <1>3, <1>4, <1>5, <1>6, <1>7, <1>8, <1>9 DEF Next

-----------------------------------------------------------------------------
\* The number a put draws is new, so it creates its file: it never truncates
\* one that is there.
LEMMA OpenTmpFresh ==
  ASSUME Inv, NEW c \in Clients, OpenTmp(c)
  PROVE  /\ puts + 1 \in Files /\ puts' = puts + 1
         /\ tmp' = [tmp EXCEPT ![<<key[c], puts + 1>>] = puts + 1]
         /\ data' = [data EXCEPT ![puts + 1] = Blank]
         /\ file' = [file EXCEPT ![c] = puts + 1]
         /\ seq' = [seq EXCEPT ![c] = puts + 1]
<1>1. puts \in Nat /\ puts + 1 \in Files /\ puts + 1 > puts
  BY Constants DEF Inv, TypeOK, OpenTmp, Files
<1>2. tmp[<<key[c], puts + 1>>] = 0
  BY <1>1 DEF Inv, TypeOK, NumbersOK
<1> QED
  BY <1>1, <1>2 DEF OpenTmp, TmpName

\* The temporary names keep to their numbers.
LEMMA NumbersStep == Inv /\ [Next]_vars => NumbersOK'
<1> SUFFICES ASSUME Inv, [Next]_vars PROVE NumbersOK'
  OBVIOUS
<1>0. NumbersOK /\ TypeOK /\ puts \in Nat
  BY Constants DEF Inv, TypeOK, Files
<1>1. ASSUME NEW c \in Clients, OpenTmp(c) PROVE NumbersOK'
  <2>1. /\ puts + 1 \in Files /\ puts' = puts + 1
        /\ tmp' = [tmp EXCEPT ![<<key[c], puts + 1>>] = puts + 1]
        /\ key[c] \in Keys
    BY <1>1, OpenTmpFresh DEF Inv, TypeOK
  <2>2. \A k \in Keys, n \in Files :
          tmp'[<<k, n>>] = IF k = key[c] /\ n = puts + 1 THEN puts + 1
                                                         ELSE tmp[<<k, n>>]
    BY <1>0, <2>1 DEF TypeOK
  <2>3. \A k \in Keys, n \in Files :
          /\ tmp'[<<k, n>>] \in {0, n}
          /\ n > puts' => tmp'[<<k, n>>] = 0
    <3> SUFFICES ASSUME NEW k \in Keys, NEW n \in Files
                 PROVE  /\ tmp'[<<k, n>>] \in {0, n}
                        /\ n > puts' => tmp'[<<k, n>>] = 0
      OBVIOUS
    <3>1. /\ n \in Nat
          /\ tmp[<<k, n>>] \in {0, n}
          /\ n > puts => tmp[<<k, n>>] = 0
      BY <1>0, Constants DEF NumbersOK, Files
    <3>2. tmp'[<<k, n>>] = IF k = key[c] /\ n = puts + 1 THEN puts + 1
                                                         ELSE tmp[<<k, n>>]
      BY <2>2
    <3> QED
      BY <1>0, <2>1, <3>1, <3>2
  <2>4. \A k, l \in Keys, n \in Files :
          tmp'[<<k, n>>] # 0 /\ tmp'[<<l, n>>] # 0 => k = l
    <3>1. \A k \in Keys : tmp[<<k, puts + 1>>] = 0
      BY <1>0, <2>1 DEF NumbersOK
    <3> QED
      BY <1>0, <2>1, <2>2, <3>1 DEF NumbersOK
  <2> QED
    BY <2>3, <2>4 DEF NumbersOK
<1>2. ASSUME NEW c \in Clients, Replace(c) PROVE NumbersOK'
  <2>1. tmp' = [tmp EXCEPT ![<<key[c], seq[c]>>] = 0] /\ UNCHANGED puts
    BY <1>2 DEF Replace, TmpName
  <2>2. \A k \in Keys, n \in Files :
          tmp'[<<k, n>>] = 0 \/ tmp'[<<k, n>>] = tmp[<<k, n>>]
    BY <1>0, <2>1 DEF TypeOK
  <2> QED
    BY <1>0, <2>1, <2>2 DEF NumbersOK
<1>3. CASE UNCHANGED <<tmp, puts>>
  BY <1>0, <1>3 DEF NumbersOK
<1> QED
  BY <1>1, <1>2, <1>3 DEF Next, Open, Read, Compute, WritePiece, PutFails,
     Restart, Damage, vars

\* Every put keeps what it owns, and what it has written.
LEMMA WritersStep == Inv /\ [Next]_vars => WritersOK'
<1> SUFFICES ASSUME Inv, [Next]_vars PROVE WritersOK'
  OBVIOUS
<1>0. TypeOK /\ NumbersOK /\ WritersOK /\ FinalsOK /\ puts \in Nat /\ TypeOK'
  BY Constants, TypeStep DEF Inv, TypeOK, Files
<1>1. ASSUME NEW c \in Clients, OpenTmp(c) PROVE WritersOK'
  <2>1. /\ puts + 1 \in Files /\ puts' = puts + 1
        /\ tmp' = [tmp EXCEPT ![<<key[c], puts + 1>>] = puts + 1]
        /\ data' = [data EXCEPT ![puts + 1] = Blank]
        /\ file' = [file EXCEPT ![c] = puts + 1]
        /\ seq' = [seq EXCEPT ![c] = puts + 1]
        /\ key[c] \in Keys
    BY <1>1, OpenTmpFresh DEF Inv, TypeOK
  <2>2. /\ pc[c] = "write" /\ pc' = [pc EXCEPT ![c] = "first"]
        /\ UNCHANGED <<key, val>>
    BY <1>1 DEF OpenTmp, Goto
  <2>3. WriterOK(c)'
    <3>1. /\ pc'[c] = "first" /\ seq'[c] = puts + 1 /\ file'[c] = puts + 1
          /\ val[c] \in Values
      BY <1>0, <2>1, <2>2 DEF TypeOK, WritersOK, WriterOK
    <3>2. tmp'[<<key[c], puts + 1>>] = puts + 1
      BY <1>0, <2>1 DEF TypeOK
    <3> QED
      BY <1>0, <2>1, <2>2, <3>1, <3>2 DEF WriterOK, Writing
  <2>4. ASSUME NEW d \in Clients, d # c
        PROVE  WriterOK(d)' /\ (Writing(d) => seq[d] # puts + 1)
    <3>1. pc'[d] = pc[d] /\ val'[d] = val[d] /\ seq'[d] = seq[d]
          /\ file'[d] = file[d] /\ key'[d] = key[d]
      BY <1>0, <2>1, <2>2, <2>4 DEF TypeOK
    <3>2. Writing(d) => /\ seq[d] \in 1 .. puts
                        /\ tmp'[<<key[d], seq[d]>>] = seq[d]
                        /\ data'[file[d]] = data[file[d]]
      BY <1>0, <2>1 DEF TypeOK, WritersOK, WriterOK, Files
    <3> QED
      BY <1>0, <2>1, <3>1, <3>2 DEF WritersOK, WriterOK, Writing
  <2> QED
    BY <1>0, <2>1, <2>2, <2>3, <2>4 DEF TypeOK, WritersOK, Writing
<1>2. ASSUME NEW c \in Clients, Replace(c) PROVE WritersOK'
  <2>1. /\ tmp' = [tmp EXCEPT ![<<key[c], seq[c]>>] = 0]
        /\ pc' = [pc EXCEPT ![c] = "idle"]
        /\ val' = [val EXCEPT ![c] = Absent]
        /\ seq' = [seq EXCEPT ![c] = 0] /\ file' = [file EXCEPT ![c] = 0]
        /\ UNCHANGED <<key, data, puts>> /\ Writing(c)
    BY <1>2 DEF Replace, TmpName, Leave, Goto, Writing
  <2>2. WriterOK(c)' /\ ~Writing(c)'
    BY <1>0, <2>1 DEF TypeOK, WriterOK, Writing
  <2>3. ASSUME NEW d \in Clients, d # c PROVE WriterOK(d)'
    <3>1. pc'[d] = pc[d] /\ val'[d] = val[d] /\ seq'[d] = seq[d]
          /\ file'[d] = file[d] /\ key'[d] = key[d]
      BY <1>0, <2>1, <2>3 DEF TypeOK
    <3>2. Writing(d) => tmp'[<<key[d], seq[d]>>] = tmp[<<key[d], seq[d]>>]
      <4>1. Writing(d) => seq[d] # seq[c]
        BY <1>0, <2>1, <2>3 DEF WritersOK
      <4> QED
        BY <1>0, <2>1, <4>1 DEF TypeOK
    <3> QED
      BY <1>0, <2>1, <3>1, <3>2 DEF WritersOK, WriterOK, Writing
  <2> QED
    BY <1>0, <2>1, <2>2, <2>3 DEF TypeOK, WritersOK, Writing
<1>3. ASSUME NEW c \in Clients, NEW i \in Pieces, WritePiece(c, i)
      PROVE  WritersOK'
  <2>1. /\ data' = [data EXCEPT ![file[c]][i] = val[c]]
        /\ pc[c] = IF i = 1 THEN "first" ELSE "second"
        /\ pc' = [pc EXCEPT ![c] = IF i = 1 THEN "second" ELSE "replace"]
        /\ UNCHANGED <<key, val, seq, file, tmp, puts>> /\ Writing(c)
    BY <1>3 DEF WritePiece, Goto, Writing
  <2>2. WriterOK(c)'
    <3>1. data'[file[c]] = [data[file[c]] EXCEPT ![i] = val[c]]
      BY <1>0, <2>1 DEF TypeOK
    <3>2. data[file[c]] \in [Pieces -> Values \cup Damages \cup {Absent}]
      BY <1>0 DEF TypeOK
    <3> QED
      BY <1>0, <2>1, <3>1, <3>2
         DEF TypeOK, WritersOK, WriterOK, Writing, Pieces
  <2>3. ASSUME NEW d \in Clients, d # c PROVE WriterOK(d)'
    <3>1. pc'[d] = pc[d] /\ (Writing(d) => data'[file[d]] = data[file[d]])
      BY <1>0, <2>1, <2>3 DEF TypeOK, WritersOK, WriterOK
    <3>2. WriterOK(d)
      BY <1>0 DEF WritersOK
    <3> QED
      BY <2>1, <3>1, <3>2 DEF WriterOK, Writing
  <2> QED
    BY <1>0, <2>1, <2>2, <2>3 DEF TypeOK, WritersOK, Writing
<1>4. ASSUME NEW k \in Keys, NEW d \in Damages, Damage(k, d) PROVE WritersOK'
  <2>1. /\ data' = [data EXCEPT ![name[k]] = [i \in Pieces |-> d]]
        /\ name[k] # 0 /\ UNCHANGED <<pc, key, val, seq, file, tmp, puts>>
    BY <1>4 DEF Damage
  <2>2. ASSUME NEW c \in Clients, Writing(c)
        PROVE  data'[file[c]] = data[file[c]]
    <3>1. tmp[<<key[c], seq[c]>>] = file[c]
          /\ key[c] \in Keys /\ seq[c] \in Files
      BY <1>0, <2>2 DEF TypeOK, WritersOK, WriterOK
    <3>2. Final(name[k])
      BY <1>0, <2>1 DEF FinalsOK
    <3>3. name[k] # file[c]
      BY <3>1, <3>2 DEF Final
    <3> QED
      BY <1>0, <2>1, <3>3 DEF TypeOK
  <2> QED
    BY <1>0, <2>1, <2>2 DEF WritersOK, WriterOK, Writing
<1>5. ASSUME NEW c \in Clients, NEW k \in Keys, Open(c, k) PROVE WritersOK'
  <2>1. /\ ~Writing(c) /\ ~Writing(c)' /\ WriterOK(c)'
        /\ UNCHANGED <<val, seq, tmp, data, puts>>
    BY <1>0, <1>5 DEF Open, Goto, TypeOK, WriterOK, Writing
  <2>2. \A d \in Clients : d # c =>
          pc'[d] = pc[d] /\ file'[d] = file[d] /\ key'[d] = key[d]
    BY <1>0, <1>5 DEF Open, Goto, TypeOK
  <2> QED
    BY <1>0, <2>1, <2>2 DEF WritersOK, WriterOK, Writing
<1>6. ASSUME NEW c \in Clients, Read(c) \/ Compute(c) PROVE WritersOK'
  <2>1. /\ ~Writing(c) /\ ~Writing(c)' /\ WriterOK(c)'
        /\ UNCHANGED <<key, seq, tmp, data, puts>>
    BY <1>0, <1>6 DEF Read, Compute, Goto, TypeOK, WriterOK, Writing
  <2>2. \A d \in Clients : d # c =>
          pc'[d] = pc[d] /\ file'[d] = file[d] /\ val'[d] = val[d]
    BY <1>0, <1>6 DEF Read, Compute, Goto, TypeOK
  <2> QED
    BY <1>0, <2>1, <2>2 DEF WritersOK, WriterOK, Writing
<1>7. ASSUME NEW c \in Clients, PutFails(c) \/ Restart(c) PROVE WritersOK'
  <2>1. /\ ~Writing(c)' /\ WriterOK(c)'
        /\ UNCHANGED <<key, tmp, data, puts>>
    BY <1>0, <1>7 DEF PutFails, Restart, Leave, Goto, TypeOK, WriterOK, Writing
  <2>2. \A d \in Clients : d # c =>
          /\ pc'[d] = pc[d] /\ file'[d] = file[d]
          /\ val'[d] = val[d] /\ seq'[d] = seq[d]
    BY <1>0, <1>7 DEF PutFails, Restart, Leave, Goto, TypeOK
  <2> QED
    BY <1>0, <2>1, <2>2 DEF WritersOK, WriterOK, Writing
<1>8. CASE UNCHANGED vars
  BY <1>0, <1>8 DEF vars, WritersOK, WriterOK, Writing
<1> QED
  BY <1>1, <1>2, <1>3, <1>4, <1>5, <1>6, <1>7, <1>8 DEF Next

-----------------------------------------------------------------------------
\* The file a put is writing has its temporary name.
LEMMA WritingHasName ==
  ASSUME Inv, NEW c \in Clients, Writing(c)
  PROVE  /\ file[c] \in 1 .. puts /\ file[c] \in Files /\ key[c] \in Keys
         /\ file[c] = seq[c] /\ tmp[<<key[c], file[c]>>] = file[c]
         /\ ~Final(file[c])
<1>1. /\ file[c] \in 1 .. puts /\ file[c] \in Files /\ key[c] \in Keys
      /\ file[c] = seq[c] /\ tmp[<<key[c], file[c]>>] = file[c]
  BY DEF Inv, TypeOK, WritersOK, WriterOK
<1> QED
  BY <1>1 DEF Final

\* A final file is final for good: only outside damage reaches it, and that
\* leaves it whole.
LEMMA FinalStays ==
  ASSUME Inv, [Next]_vars, NEW f \in Files, Final(f)
  PROVE  Final(f)'
<1>0. TypeOK /\ puts \in Nat /\ f \in 1 .. puts
  BY Constants DEF Inv, TypeOK, Files, Final
<1>1. ASSUME NEW c \in Clients, OpenTmp(c) PROVE Final(f)'
  <2>1. /\ puts' = puts + 1 /\ puts + 1 \in Files /\ key[c] \in Keys
        /\ tmp' = [tmp EXCEPT ![<<key[c], puts + 1>>] = puts + 1]
        /\ data' = [data EXCEPT ![puts + 1] = Blank]
    BY <1>1, OpenTmpFresh DEF Inv, TypeOK
  <2>2. data'[f] = data[f]
    BY <1>0, <2>1 DEF TypeOK
  <2>3. \A k \in Keys, n \in Files :
          tmp'[<<k, n>>] = puts + 1 \/ tmp'[<<k, n>>] = tmp[<<k, n>>]
    BY <1>0, <2>1 DEF TypeOK
  <2> QED
    BY <1>0, <2>1, <2>2, <2>3 DEF Final
<1>2. ASSUME NEW c \in Clients, Replace(c) PROVE Final(f)'
  <2>1. /\ tmp' = [tmp EXCEPT ![<<key[c], seq[c]>>] = 0]
        /\ UNCHANGED <<data, puts>>
    BY <1>2 DEF Replace, TmpName
  <2>2. \A k \in Keys, n \in Files :
          tmp'[<<k, n>>] = 0 \/ tmp'[<<k, n>>] = tmp[<<k, n>>]
    BY <1>0, <2>1 DEF TypeOK
  <2> QED
    BY <1>0, <2>1, <2>2 DEF Final
<1>3. ASSUME NEW c \in Clients, NEW i \in Pieces, WritePiece(c, i)
      PROVE  Final(f)'
  <2>1. /\ data' = [data EXCEPT ![file[c]][i] = val[c]]
        /\ UNCHANGED <<tmp, puts>> /\ Writing(c)
    BY <1>3 DEF WritePiece, Writing
  <2>2. f # file[c]
    BY <2>1, WritingHasName
  <2>3. data'[f] = data[f]
    BY <1>0, <2>1, <2>2 DEF TypeOK
  <2> QED
    BY <2>1, <2>3 DEF Final
<1>4. ASSUME NEW k \in Keys, NEW d \in Damages, Damage(k, d) PROVE Final(f)'
  <2>1. /\ data' = [data EXCEPT ![name[k]] = [i \in Pieces |-> d]]
        /\ UNCHANGED <<tmp, puts>>
    BY <1>4 DEF Damage
  <2>2. data'[f] = data[f] \/ data'[f] = [i \in Pieces |-> d]
    BY <1>0, <2>1 DEF TypeOK
  <2>3. d # Absent
    BY Constants
  <2> QED
    BY <2>1, <2>2, <2>3 DEF Final, Pieces
<1>5. CASE UNCHANGED <<data, tmp, puts>>
  BY <1>5 DEF Final
<1> QED
  BY <1>1, <1>2, <1>3, <1>4, <1>5 DEF Next, Open, Read, Compute, PutFails,
     Restart, vars

\* Published and open files are final; the replace publishes a file that has
\* just become so.
LEMMA FinalsStep == Inv /\ [Next]_vars => FinalsOK'
<1> SUFFICES ASSUME Inv, [Next]_vars PROVE FinalsOK'
  OBVIOUS
<1>0. TypeOK /\ NumbersOK /\ WritersOK /\ FinalsOK
  BY DEF Inv
<1>9. /\ \A f \in Files : Final(f) => Final(f)'
      /\ \A k \in Keys : name[k] \in Files
      /\ \A d \in Clients : file[d] \in Files
  BY FinalStays DEF Inv, TypeOK
<1>1. ASSUME NEW c \in Clients, Replace(c) PROVE FinalsOK'
  <2>0. PICK f \in Files : f = file[c]
    BY <1>9
  <2>1. /\ f \in 1 .. puts /\ f \in Files /\ key[c] \in Keys /\ f = seq[c]
        /\ tmp[<<key[c], f>>] = f /\ ~Final(f)
    BY <1>1, <2>0, WritingHasName DEF Replace, Writing
  <2>2. /\ name' = [name EXCEPT ![key[c]] = f]
        /\ tmp' = [tmp EXCEPT ![<<key[c], f>>] = 0]
        /\ pc' = [pc EXCEPT ![c] = "idle"] /\ file' = [file EXCEPT ![c] = 0]
        /\ UNCHANGED <<data, puts>>
    BY <1>1, <2>1 DEF Replace, TmpName, Leave, Goto
  <2>3. Final(f)'
    <3>1. data[f][1] = data[f][2] /\ data[f][1] # Absent
      <4>1. pc[c] = "replace" /\ Writing(c) /\ WriterOK(c)
        BY <1>0, <1>1 DEF Replace, WritersOK, Writing
      <4>2. /\ val[c] \in Values
            /\ data[f][1] = val[c] /\ data[f][2] = val[c]
        BY <2>0, <4>1 DEF WriterOK
      <4> QED
        BY <4>2, Constants
    <3>2. ASSUME NEW k \in Keys, NEW n \in Files PROVE tmp'[<<k, n>>] # f
      <4>1. tmp[<<k, n>>] = f => n = f /\ k = key[c]
        BY <1>0, <2>1 DEF NumbersOK
      <4>2. tmp'[<<k, n>>] = IF k = key[c] /\ n = f THEN 0 ELSE tmp[<<k, n>>]
        BY <1>0, <2>1, <2>2 DEF TypeOK
      <4> QED
        BY <2>1, <4>1, <4>2
    <3> QED
      BY <2>1, <2>2, <3>1, <3>2 DEF Final
  <2>4. \A k \in Keys : name'[k] = IF k = key[c] THEN f ELSE name[k]
    BY <1>0, <2>2 DEF TypeOK
  <2>5. ASSUME NEW k \in Keys, name'[k] # 0 PROVE Final(name[k])'
    <3>1. CASE k = key[c]
      BY <2>3, <2>4, <3>1 DEF Final
    <3>2. CASE k # key[c]
      BY <1>0, <1>9, <2>4, <2>5, <3>2 DEF FinalsOK, Final
    <3> QED
      BY <3>1, <3>2
  <2>6. \A k, l \in Keys : name'[k] # 0 /\ name'[k] = name'[l] => k = l
    <3>1. \A k \in Keys : name[k] # f
      BY <1>0, <2>1 DEF FinalsOK
    <3> QED
      BY <1>0, <2>4, <3>1 DEF FinalsOK
  <2>7. ASSUME NEW d \in Clients, pc'[d] = "read" PROVE Final(file[d])'
    <3>1. pc[d] = "read" /\ file'[d] = file[d]
      BY <1>0, <2>2, <2>7 DEF TypeOK
    <3> QED
      BY <1>0, <1>9, <3>1 DEF FinalsOK, Final
  <2> QED
    BY <2>5, <2>6, <2>7 DEF FinalsOK
<1>2. ASSUME NEW c \in Clients, NEW k \in Keys, Open(c, k) PROVE FinalsOK'
  <2>1. /\ UNCHANGED name
        /\ \A d \in Clients : pc'[d] = "read" =>
             \/ pc[d] = "read" /\ file'[d] = file[d]
             \/ name[k] # 0 /\ file'[d] = name[k]
    BY <1>0, <1>2 DEF Open, Goto, TypeOK
  <2> QED
    BY <1>0, <1>9, <2>1 DEF FinalsOK, Final
<1>3. CASE /\ UNCHANGED name
           /\ \A d \in Clients : pc'[d] = "read" =>
                pc[d] = "read" /\ file'[d] = file[d]
  BY <1>0, <1>9, <1>3 DEF FinalsOK, Final
<1>4. ASSUME NEW c \in Clients, \/ Read(c) \/ Compute(c) \/ OpenTmp(c)
                                \/ PutFails(c) \/ Restart(c)
                                \/ \E i \in Pieces : WritePiece(c, i)
      PROVE  FinalsOK'
  <2>1. /\ UNCHANGED name
        /\ \A d \in Clients : pc'[d] = "read" =>
             pc[d] = "read" /\ file'[d] = file[d]
    BY <1>0, <1>4 DEF Read, Compute, OpenTmp, PutFails, Restart, WritePiece,
       Leave, Goto, TypeOK
  <2> QED
    BY <2>1, <1>3
<1>5. ASSUME NEW k \in Keys, NEW d \in Damages, Damage(k, d) PROVE FinalsOK'
  BY <1>3, <1>5 DEF Damage
<1>6. CASE UNCHANGED vars
  BY <1>3, <1>6 DEF vars
<1> QED
  BY <1>1, <1>2, <1>4, <1>5, <1>6 DEF Next

-----------------------------------------------------------------------------
\* No step of a client, and no crash or damage, breaks any part of it.
LEMMA InvStep == Inv /\ [Next]_vars => Inv'
  BY TypeStep, NumbersStep, WritersStep, FinalsStep DEF Inv

\* So every state of every history of the directory has it.
THEOREM Invariance == Spec => []Inv
  BY InitInv, InvStep, PTL DEF Spec

\* Every variable keeps its type.
THEOREM Typing == Spec => []TypeOK
<1>1. Inv => TypeOK
  BY DEF Inv
<1> QED
  BY <1>1, Invariance, PTL

\* Whoever writes and however writers die, no two puts in progress share a
\* file, and none writes to a published one.
THEOREM Apart == Spec => []WritersApart
<1>1. Inv => WritersApart
  <2> SUFFICES ASSUME Inv, NEW c \in Clients, Writing(c)
               PROVE  /\ \A d \in Clients \ {c} :
                           Writing(d) => file[c] # file[d]
                      /\ \A k \in Keys : name[k] # file[c]
    BY DEF WritersApart
  <2>1. file[c] \in 1 .. puts /\ ~Final(file[c])
    BY WritingHasName
  <2>2. \A k \in Keys : name[k] # file[c]
    BY <2>1 DEF Inv, FinalsOK
  <2>3. \A d \in Clients \ {c} : Writing(d) => file[c] # file[d]
    BY DEF Inv, WritersOK, WriterOK
  <2> QED
    BY <2>2, <2>3
<1> QED
  BY <1>1, Invariance, PTL

\* A published file is never half-written.
THEOREM Whole == Spec => []PublishedWhole
<1>1. Inv => PublishedWhole
  BY DEF Inv, FinalsOK, Final, PublishedWhole
<1> QED
  BY <1>1, Invariance, PTL

-----------------------------------------------------------------------------
\* What a get that has the file f open is going to see: the record of a whole
\* file, whoever wrote it.
LEMMA ParseFinal ==
  ASSUME NEW f \in Files, Final(f)
  PROVE  Parse(f) = data[f][1]
  BY DEF Final, Parse

\* The directory starts as the empty map.
LEMMA RefinesInit == Init => Map!Init
<1> SUFFICES ASSUME Init PROVE Map!Init
  OBVIOUS
<1>1. \A k \in Keys : Parse(name[k]) = Absent
  BY DEF Init, Parse
<1> QED
  BY <1>1 DEF Init, Map!Init, Map!Entries

\* A step that writes to no final file leaves every one as it parses.
LEMMA SameParse ==
  ASSUME Inv, UNCHANGED name,
         \A f \in Files : Final(f) => data'[f] = data[f]
  PROVE  /\ \A k \in Keys : Parse(name[k])' = Parse(name[k])
         /\ \A c \in Clients : pc[c] = "read" /\ file'[c] = file[c] =>
              Parse(file[c])' = Parse(file[c])
<1>1. ASSUME NEW k \in Keys PROVE Parse(name[k])' = Parse(name[k])
  <2>1. CASE name[k] = 0
    BY <2>1 DEF Parse
  <2>2. CASE name[k] # 0
    BY <2>2 DEF Inv, TypeOK, FinalsOK, Parse
  <2> QED
    BY <2>1, <2>2
<1>2. ASSUME NEW c \in Clients, pc[c] = "read", file'[c] = file[c]
      PROVE  Parse(file[c])' = Parse(file[c])
  BY <1>2 DEF Inv, TypeOK, FinalsOK, Parse
<1> QED
  BY <1>1, <1>2

\* What a client's get in progress observes.
Sees(c) == IF pc[c] = "read" THEN Parse(file[c]) ELSE Absent

\* A step under which every published file and every reader stays as it is
\* leaves the map alone.
LEMMA Stutter ==
  ASSUME \A k \in Keys : Parse(name[k])' = Parse(name[k]),
         \A c \in Clients : Sees(c)' = Sees(c)
  PROVE  UNCHANGED Map!vars
  BY DEF Map!vars, Sees

\* The end of a read, however it ends, forgets what was observed.
LEMMA RefinesForget ==
  ASSUME NEW c \in Clients,
         \A k \in Keys : Parse(name[k])' = Parse(name[k]),
         \A d \in Clients \ {c} : Sees(d)' = Sees(d),
         Sees(c)' = Absent
  PROVE  Map!Forget(c)
  BY DEF Map!Forget, Sees

\* Opening a published file observes the map at that instant.
LEMMA RefinesObserve ==
  ASSUME NEW c \in Clients, NEW k \in Keys,
         \A l \in Keys : Parse(name[l])' = Parse(name[l]),
         \A d \in Clients \ {c} : Sees(d)' = Sees(d),
         Sees(c)' = Parse(name[k])
  PROVE  Map!Observe(c, k)
  BY DEF Map!Observe, Sees

\* The replace is the instant at which the put takes effect.
LEMMA RefinesPut ==
  ASSUME NEW k \in Keys, NEW v,
         \A l \in Keys \ {k} : Parse(name[l])' = Parse(name[l]),
         Parse(name[k])' = v,
         \A d \in Clients : Sees(d)' = Sees(d)
  PROVE  Map!Put(k, v)
  BY DEF Map!Put, Sees

\* Every step of the directory is a step of the map, or none.
LEMMA RefinesStep == Inv /\ Inv' /\ [Next]_vars => [Map!Next]_(Map!vars)
<1> SUFFICES ASSUME Inv, Inv', [Next]_vars PROVE [Map!Next]_(Map!vars)
  OBVIOUS
<1>0. TypeOK /\ NumbersOK /\ WritersOK /\ FinalsOK
  BY DEF Inv
<1>1. ASSUME NEW c \in Clients, NEW k \in Keys, Open(c, k)
      PROVE  [Map!Next]_(Map!vars)
  <2>1. /\ UNCHANGED <<name, data>> /\ pc[c] = "idle"
        /\ pc' = [pc EXCEPT ![c] = IF name[k] = 0 THEN "compute" ELSE "read"]
        /\ file' = [file EXCEPT ![c] = name[k]]
    BY <1>1 DEF Open, Goto
  <2>2. \A l \in Keys : Parse(name[l])' = Parse(name[l])
    BY <2>1 DEF Parse
  <2>3. \A d \in Clients \ {c} : Sees(d)' = Sees(d)
    BY <1>0, <2>1 DEF TypeOK, Sees, Parse
  <2>4. CASE name[k] = 0
    <3>1. Sees(c)' = Sees(c)
      BY <1>0, <2>1, <2>4 DEF TypeOK, Sees
    <3> QED
      BY <2>2, <2>3, <3>1, Stutter
  <2>5. CASE name[k] # 0
    <3>1. Sees(c)' = Parse(name[k])
      BY <1>0, <2>1, <2>5 DEF TypeOK, Sees, Parse
    <3>2. Map!Observe(c, k)
      BY <2>2, <2>3, <3>1, RefinesObserve
    <3> QED
      BY <3>2 DEF Map!Next
  <2> QED
    BY <2>4, <2>5
<1>2. ASSUME NEW c \in Clients,
             Read(c) \/ Restart(c) \/ PutFails(c) \/ Compute(c)
      PROVE  [Map!Next]_(Map!vars)
  <2>1. /\ UNCHANGED <<name, data>> /\ pc'[c] # "read"
        /\ \A d \in Clients \ {c} : pc'[d] = pc[d] /\ file'[d] = file[d]
    BY <1>0, <1>2 DEF Read, Restart, PutFails, Compute, Leave, Goto, TypeOK
  <2>2. \A l \in Keys : Parse(name[l])' = Parse(name[l])
    BY <2>1 DEF Parse
  <2>3. \A d \in Clients \ {c} : Sees(d)' = Sees(d)
    BY <2>1 DEF Sees, Parse
  <2>4. Sees(c)' = Absent
    BY <2>1 DEF Sees
  <2>5. Map!Forget(c)
    BY <2>2, <2>3, <2>4, RefinesForget
  <2> QED
    BY <2>5 DEF Map!Next
<1>3. ASSUME NEW c \in Clients, OpenTmp(c) PROVE [Map!Next]_(Map!vars)
  <2>1. /\ data' = [data EXCEPT ![puts + 1] = Blank] /\ puts \in Nat
        /\ pc[c] = "write" /\ pc' = [pc EXCEPT ![c] = "first"]
        /\ file' = [file EXCEPT ![c] = puts + 1] /\ UNCHANGED name
    <3>1. puts \in Nat
      BY <1>0, Constants DEF TypeOK, Files
    <3>2. /\ data' = [data EXCEPT ![puts + 1] = Blank]
          /\ file' = [file EXCEPT ![c] = puts + 1]
      BY <1>3, OpenTmpFresh
    <3> QED
      BY <1>3, <3>1, <3>2 DEF OpenTmp, Goto
  <2>2. \A f \in Files : Final(f) => data'[f] = data[f]
    BY <1>0, <2>1 DEF TypeOK, Final
  <2>3. \A l \in Keys : Parse(name[l])' = Parse(name[l])
    BY <2>1, <2>2, SameParse
  <2>4. ASSUME NEW d \in Clients PROVE Sees(d)' = Sees(d)
    <3>1. (pc'[d] = "read" <=> pc[d] = "read")
          /\ (pc[d] = "read" => file'[d] = file[d])
      BY <1>0, <2>1 DEF TypeOK
    <3> QED
      BY <2>1, <2>2, <3>1, SameParse DEF Sees
  <2> QED
    BY <2>3, <2>4, Stutter
<1>4. ASSUME NEW c \in Clients, NEW i \in Pieces, WritePiece(c, i)
      PROVE  [Map!Next]_(Map!vars)
  <2>1. /\ data' = [data EXCEPT ![file[c]][i] = val[c]]
        /\ Writing(c)
        /\ pc' = [pc EXCEPT ![c] = IF i = 1 THEN "second" ELSE "replace"]
        /\ UNCHANGED <<file, name>>
    BY <1>4 DEF WritePiece, Goto, Writing
  <2>2. \A f \in Files : Final(f) => data'[f] = data[f]
    BY <1>0, <2>1, WritingHasName DEF TypeOK
  <2>3. \A l \in Keys : Parse(name[l])' = Parse(name[l])
    BY <2>1, <2>2, SameParse
  <2>4. ASSUME NEW d \in Clients PROVE Sees(d)' = Sees(d)
    <3>1. pc'[d] = "read" <=> pc[d] = "read"
      BY <1>0, <2>1 DEF TypeOK, Writing
    <3> QED
      BY <2>1, <2>2, <3>1, SameParse DEF Sees
  <2> QED
    BY <2>3, <2>4, Stutter
<1>5. ASSUME NEW c \in Clients, Replace(c) PROVE [Map!Next]_(Map!vars)
  <2>1. /\ Writing(c) /\ pc[c] = "replace"
        /\ pc' = [pc EXCEPT ![c] = "idle"] /\ file' = [file EXCEPT ![c] = 0]
        /\ name' = [name EXCEPT ![key[c]] = file[c]]
        /\ UNCHANGED data
    BY <1>5, WritingHasName DEF Replace, TmpName, Leave, Goto, Writing
  <2>2. PICK k \in Keys, v \in Values, f \in Files :
          /\ k = key[c] /\ v = val[c] /\ f = file[c] /\ f # 0
          /\ data[f][1] = v /\ data[f][2] = v
    <3>1. WriterOK(c)
      BY <1>0 DEF WritersOK
    <3>2. /\ val[c] \in Values
          /\ data[file[c]][1] = val[c] /\ data[file[c]][2] = val[c]
      BY <2>1, <3>1 DEF WriterOK
    <3>3. file[c] \in Files /\ file[c] # 0 /\ key[c] \in Keys
      <4>1. puts \in Nat
        BY <1>0, Constants DEF TypeOK, Files
      <4>2. file[c] \in 1 .. puts /\ file[c] \in Files /\ key[c] \in Keys
        BY <2>1, WritingHasName
      <4> QED
        BY <4>1, <4>2
    <3> QED
      BY <3>2, <3>3
  <2>3. Parse(name[k])' = v
    <3>1. name'[k] = f /\ UNCHANGED data /\ v # Absent
      BY <1>0, <2>1, <2>2, Constants DEF TypeOK
    <3> QED
      BY <2>2, <3>1 DEF Parse
  <2>4. \A l \in Keys \ {k} : Parse(name[l])' = Parse(name[l])
    BY <1>0, <2>1, <2>2 DEF TypeOK, Parse
  <2>5. \A d \in Clients : Sees(d)' = Sees(d)
    BY <1>0, <2>1 DEF TypeOK, Sees, Parse
  <2>6. Map!Put(k, v)
    BY <2>3, <2>4, <2>5, RefinesPut
  <2> QED
    BY <2>6 DEF Map!Next
<1>6. ASSUME NEW k \in Keys, NEW d \in Damages, Damage(k, d)
      PROVE  [Map!Next]_(Map!vars)
  <2>1. /\ data' = [data EXCEPT ![name[k]] = [i \in Pieces |-> d]]
        /\ name[k] # 0 /\ UNCHANGED <<pc, file, name>>
    BY <1>6 DEF Damage
  <2>2. \A f \in Files :
          data'[f] = IF f = name[k] THEN [i \in Pieces |-> d] ELSE data[f]
    BY <1>0, <2>1 DEF TypeOK
  <2>3. Parse(name[k]) # Absent /\ d # Absent
    BY <1>0, <2>1, Constants DEF TypeOK, FinalsOK, Final, Parse
  <2>4. \A f \in Files : Parse(f)' = IF f = name[k] THEN d ELSE Parse(f)
    BY <2>1, <2>2, <2>3 DEF Parse, Pieces
  <2>5. \A l \in Keys :
          Parse(name[l])' = IF l = k THEN d ELSE Parse(name[l])
    BY <1>0, <2>1, <2>4 DEF TypeOK, FinalsOK, Parse
  <2>6. \A e \in Clients : Sees(e)' \in {Sees(e), d}
    BY <1>0, <2>1, <2>4 DEF TypeOK, Sees, Parse
  <2>7. \A e \in Clients : Sees(e)' \in Map!Entries
    <3>1. \A f \in Files : Final(f) => Parse(f) \in Values \cup Damages
      BY <1>0, ParseFinal DEF TypeOK, Final, Pieces
    <3>2. \A e \in Clients : Sees(e) \in Values \cup Damages \cup {Absent}
      BY <1>0, <3>1 DEF TypeOK, FinalsOK, Sees
    <3> QED
      BY <2>6, <3>2 DEF Map!Entries
  <2>8. Map!Damage(k, d)
    BY <2>3, <2>5, <2>6, <2>7 DEF Map!Damage, Sees
  <2> QED
    BY <2>8 DEF Map!Next
<1>7. CASE UNCHANGED vars
  <2>1. \A l \in Keys : Parse(name[l])' = Parse(name[l])
    BY <1>7 DEF vars, Parse
  <2>2. \A d \in Clients : Sees(d)' = Sees(d)
    BY <1>7 DEF vars, Sees, Parse
  <2> QED
    BY <2>1, <2>2, Stutter
<1> QED
  BY <1>1, <1>2, <1>3, <1>4, <1>5, <1>6, <1>7 DEF Next

\* The directory implements the map: whatever is read, written, killed or
\* damaged, callers see puts that take effect at one instant and whole.
THEOREM Implementation == Spec => ImplementsAtomicCache
<1>1. Init => Map!Init
  BY RefinesInit
<1>2. Inv /\ Inv' /\ [Next]_vars => [Map!Next]_(Map!vars)
  BY RefinesStep
<1> QED
  BY <1>1, <1>2, Invariance, PTL DEF Spec, ImplementsAtomicCache, Map!Spec

=============================================================================
