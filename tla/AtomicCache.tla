----------------------------- MODULE AtomicCache -----------------------------
(***************************************************************************)
(* What plugins/llm_enrich/cache.py promises its callers: a map from keys  *)
(* to records.  A put takes effect at one instant and whole; a reader sees *)
(* what was in the map at one instant of its get; nothing but a put or     *)
(* damage to the file from outside changes an entry.                       *)
(***************************************************************************)
CONSTANTS
  Keys,      \* composed keys
  Values,    \* record dicts
  Clients,   \* threads of any number of mapping processes
  Absent,    \* nothing under the key
  Damages    \* what outside damage can make of an entry

VARIABLES
  store,     \* the entry under each key
  seen       \* what each client's get in progress has observed

vars == <<store, seen>>

Entries == Values \cup Damages \cup {Absent}

Init ==
  /\ store \in [Keys -> Entries]
  /\ seen = [c \in Clients |-> Absent]

Observe(c, k) ==
  /\ seen' = [seen EXCEPT ![c] = store[k]]
  /\ UNCHANGED store

Forget(c) ==
  /\ seen' = [seen EXCEPT ![c] = Absent]
  /\ UNCHANGED store

Put(k, v) ==
  /\ store' = [store EXCEPT ![k] = v]
  /\ UNCHANGED seen

\* Damage in place reaches the readers that already have the file open.
Damage(k, d) ==
  /\ store[k] # Absent
  /\ store' = [store EXCEPT ![k] = d]
  /\ seen' \in [Clients -> Entries]
  /\ \A c \in Clients : seen'[c] \in {seen[c], d}

Next ==
  \/ \E c \in Clients : Forget(c) \/ \E k \in Keys : Observe(c, k)
  \/ \E k \in Keys : \/ \E v \in Values : Put(k, v)
                     \/ \E d \in Damages : Damage(k, d)

Spec == Init /\ [][Next]_vars

=============================================================================
