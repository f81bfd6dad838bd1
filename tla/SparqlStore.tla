----------------------------- MODULE SparqlStore -----------------------------
(***************************************************************************)
(* mcp_server/sparql.py: the triple stores behind the SPARQL tool.  Server *)
(* processes (every client starts one) share directories under the system  *)
(* temp directory, one per generation of an inventory; in a process the    *)
(* registry _STORES and the lru_cache of _load_graph keep the handles, and *)
(* tool calls run in worker threads that a time budget abandons but does   *)
(* not stop: an abandoned call takes all its steps.                        *)
(*                                                                         *)
(* RocksDB locks a directory for as long as the Store object lives, that   *)
(* is, while anything refers to it; bulk_load writes in batches, and what  *)
(* it has written stays if it raises or the process dies (external).  One  *)
(* inventory is modelled; other bundles show up as evictions.              *)
(***************************************************************************)
EXTENDS Naturals, FiniteSets

CONSTANTS
  Process,
  Thread,       \* worker threads
  HomeOf,       \* the process of each
  MaxGen,       \* bound: generations of inventory.ttl
  KeyOf,        \* whole seconds of the mtime and size of each generation
  MaxFaults,    \* bound: kills of a process, and loads that raise
  NoKey

Gen == 1 .. MaxGen
Key == {KeyOf[g] : g \in Gen}

ASSUME StoreAssumption ==
  /\ HomeOf \in [Thread -> Process]
  /\ MaxGen \in Nat \ {0}
  /\ MaxFaults \in Nat
  /\ DOMAIN KeyOf = Gen
  /\ NoKey \notin Key

VARIABLES
  gen,      \* the generation of inventory.ttl on disk
  holds,    \* per directory: generations it has triples of, ...
  whole,    \* ... and those it has all triples of
  stores,   \* per process: _STORES
  cached,   \* per process: the handle in the lru_cache
  pc, key,  \* per thread: where it is, and the directory it deals with
  reading,  \* per thread: the generation its bulk_load has opened
  faults,
  torn,     \* directories that a load left half-way
  dropped   \* processes that took a handle in use off the registry

disk == <<gen, holds, whole>>
vars == <<gen, holds, whole, stores, cached, pc, key, reading, faults, torn,
          dropped>>

\* What keeps the Store object of directory k alive in process p.
Busy(p, k) ==
  \/ cached[p] = k
  \/ \E t \in Thread : /\ HomeOf[t] = p /\ key[t] = k
                       /\ pc[t] \in {"look", "build", "batch", "return",
                                     "query"}
Open(p, k) == k \in stores[p] \/ Busy(p, k)

Goes(t, where) == pc' = [pc EXCEPT ![t] = where]

-----------------------------------------------------------------------------
\* _load_graph on a hit: the handle is queried.
Hit(t) ==
  /\ pc[t] = "idle"
  /\ cached[HomeOf[t]] # NoKey
  /\ key' = [key EXCEPT ![t] = cached[HomeOf[t]]]
  /\ Goes(t, "query")
  /\ UNCHANGED <<disk, stores, cached, reading, faults, torn, dropped>>

\* On a miss the inventory is stat'ed.
Miss(t) ==
  /\ pc[t] = "idle"
  /\ cached[HomeOf[t]] = NoKey
  /\ key' = [key EXCEPT ![t] = KeyOf[gen]]
  /\ Goes(t, "open")
  /\ UNCHANGED <<disk, stores, cached, reading, faults, torn, dropped>>

\* Mutant: a store on the registry is taken to have been loaded.
ReuseLoaded(t) ==
  /\ pc[t] = "open"
  /\ key[t] \in stores[HomeOf[t]]
  /\ Goes(t, "return")
  /\ UNCHANGED <<disk, stores, cached, key, reading, faults, torn, dropped>>

\* _open_store, under its lock: the handle there is, ...
Reuse(t) ==
  /\ pc[t] = "open"
  /\ key[t] \in stores[HomeOf[t]]
  /\ Goes(t, "look")
  /\ UNCHANGED <<disk, stores, cached, key, reading, faults, torn, dropped>>

\* ... or a new one, after the handles of other generations have been taken
\* off the registry.
Supersede(p) ==
  dropped' = IF \E k \in stores[p] : Busy(p, k) THEN dropped \cup {p}
             ELSE dropped

OpenNew(t) ==
  LET p == HomeOf[t] IN
  /\ pc[t] = "open"
  /\ key[t] \notin stores[p]
  /\ \A q \in Process : ~Open(q, key[t])
  /\ Supersede(p)
  /\ stores' = [stores EXCEPT ![p] = {key[t]}]
  /\ Goes(t, "look")
  /\ UNCHANGED <<disk, cached, key, reading, faults, torn>>

\* OSError: the directory is locked.  The stale handles are gone by then.
OpenFails(t) ==
  LET p == HomeOf[t] IN
  /\ pc[t] = "open"
  /\ key[t] \notin stores[p]
  /\ \E q \in Process : Open(q, key[t])
  /\ Supersede(p)
  /\ stores' = [stores EXCEPT ![p] = {}]
  /\ Goes(t, "idle")
  /\ key' = [key EXCEPT ![t] = NoKey]
  /\ UNCHANGED <<disk, cached, reading, faults, torn>>

\* len(store) == 0, outside the lock.
Look(t) ==
  /\ pc[t] = "look"
  /\ Goes(t, IF holds[key[t]] = {} THEN "build" ELSE "return")
  /\ UNCHANGED <<disk, stores, cached, key, reading, faults, torn, dropped>>

\* bulk_load opens the inventory that is there by now and writes a batch ...
Build(t) ==
  /\ pc[t] = "build"
  /\ reading' = [reading EXCEPT ![t] = gen]
  /\ holds' = [holds EXCEPT ![key[t]] = @ \cup {gen}]
  /\ Goes(t, "batch")
  /\ UNCHANGED <<gen, whole, stores, cached, key, faults, torn, dropped>>

\* ... and the rest.
Built(t) ==
  /\ pc[t] = "batch"
  /\ whole' = [whole EXCEPT ![key[t]] = @ \cup {reading[t]}]
  /\ reading' = [reading EXCEPT ![t] = 0]
  /\ Goes(t, "return")
  /\ UNCHANGED <<gen, holds, stores, cached, key, faults, torn, dropped>>

\* Or it raises half-way.
BuildFails(t) ==
  /\ pc[t] = "batch"
  /\ faults < MaxFaults
  /\ faults' = faults + 1
  /\ torn' = torn \cup {key[t]}
  /\ reading' = [reading EXCEPT ![t] = 0]
  /\ Goes(t, "idle")
  /\ key' = [key EXCEPT ![t] = NoKey]
  /\ UNCHANGED <<disk, stores, cached, dropped>>

\* The lru_cache keeps an entry another thread has put there meanwhile.
Return(t) ==
  LET p == HomeOf[t] IN
  /\ pc[t] = "return"
  /\ cached' = [cached EXCEPT ![p] = IF @ = NoKey THEN key[t] ELSE @]
  /\ Goes(t, "query")
  /\ UNCHANGED <<disk, stores, key, reading, faults, torn, dropped>>

\* The store is read as it is by now.
Query(t) ==
  /\ pc[t] = "query"
  /\ Goes(t, "idle")
  /\ key' = [key EXCEPT ![t] = NoKey]
  /\ UNCHANGED <<disk, stores, cached, reading, faults, torn, dropped>>

\* Mutant: clear_graph_cache closes the stores too.
ClearStores(p) ==
  /\ cached[p] # NoKey
  /\ cached' = [cached EXCEPT ![p] = NoKey]
  /\ stores' = [stores EXCEPT ![p] = {}]
  /\ UNCHANGED <<disk, pc, key, reading, faults, torn, dropped>>

\* clear_graph_cache, or four other bundles: the registry stays.
Clear(p) ==
  /\ cached[p] # NoKey
  /\ cached' = [cached EXCEPT ![p] = NoKey]
  /\ UNCHANGED <<disk, stores, pc, key, reading, faults, torn, dropped>>

-----------------------------------------------------------------------------

Emit ==
  /\ gen < MaxGen
  /\ gen' = gen + 1
  /\ UNCHANGED <<holds, whole, stores, cached, pc, key, reading, faults, torn,
                 dropped>>

\* A server is killed, and started anew for the next call.
Kill(p) ==
  /\ faults < MaxFaults
  /\ faults' = faults + 1
  /\ torn' = torn \cup {key[t] : t \in {s \in Thread : /\ HomeOf[s] = p
                                                       /\ pc[s] = "batch"}}
  /\ stores' = [stores EXCEPT ![p] = {}]
  /\ cached' = [cached EXCEPT ![p] = NoKey]
  /\ pc'  = [t \in Thread |-> IF HomeOf[t] = p THEN "idle" ELSE pc[t]]
  /\ key' = [t \in Thread |-> IF HomeOf[t] = p THEN NoKey ELSE key[t]]
  /\ reading' = [t \in Thread |-> IF HomeOf[t] = p THEN 0 ELSE reading[t]]
  /\ dropped' = dropped \ {p}
  /\ UNCHANGED disk

Call(t) ==
  \/ Hit(t) \/ Miss(t) \/ Reuse(t) \/ OpenNew(t) \/ OpenFails(t) \/ Look(t)
  \/ Build(t) \/ Built(t) \/ BuildFails(t) \/ Return(t) \/ Query(t)

Next ==
  \/ \E t \in Thread : Call(t)
  \/ \E p \in Process : Clear(p) \/ Kill(p)
  \/ Emit

Init ==
  /\ gen = 1
  /\ holds = [k \in Key |-> {}]
  /\ whole = [k \in Key |-> {}]
  /\ stores = [p \in Process |-> {}]
  /\ cached = [p \in Process |-> NoKey]
  /\ pc = [t \in Thread |-> "idle"]
  /\ key = [t \in Thread |-> NoKey]
  /\ reading = [t \in Thread |-> 0]
  /\ faults = 0
  /\ torn = {}
  /\ dropped = {}

Spec == Init /\ [][Next]_vars

-----------------------------------------------------------------------------

TypeOK ==
  /\ gen \in Gen
  /\ holds \in [Key -> SUBSET Gen]
  /\ whole \in [Key -> SUBSET Gen]
  /\ stores \in [Process -> SUBSET Key]
  /\ cached \in [Process -> Key \cup {NoKey}]
  /\ pc \in [Thread -> {"idle", "open", "look", "build", "batch", "return",
                        "query"}]
  /\ key \in [Thread -> Key \cup {NoKey}]
  /\ reading \in [Thread -> Gen \cup {0}]
  /\ faults \in 0 .. MaxFaults
  /\ torn \subseteq Key
  /\ dropped \subseteq Process

\* Some thread is at the load of directory k.
Loading(k) == \E t \in Thread : key[t] = k /\ pc[t] = "batch"

(***************************************************************************)
(* What a query can be answered from: a store that has every triple of a   *)
(* generation.  It has only some while another call - which may have been  *)
(* given up by its client - is still loading it, and for good once a load  *)
(* has raised or its process has died: len(store) == 0 is the only test.   *)
(***************************************************************************)
PartialOnlyOn ==
  \A k \in Key :
    /\ (\E p \in Process : cached[p] = k) => holds[k] # {}
    /\ holds[k] # {} /\ whole[k] = {} => Loading(k) \/ k \in torn

(***************************************************************************)
(* The comment on _STORES: reuse, never reopen.  A process runs into the   *)
(* lock of another, or into its own only after a call with another         *)
(* generation has taken a handle still in use off the registry.            *)
(***************************************************************************)
LockedOutOnlyOn ==
  [][ \A t \in Thread : OpenFails(t) =>
        \/ \E q \in Process \ {HomeOf[t]} : Open(q, key[t])
        \/ HomeOf[t] \in dropped ]_vars

=============================================================================
