-------------------------- MODULE SparqlStoreProofs --------------------------
(***************************************************************************)
(* What a query can be answered from, and what a process can be locked out *)
(* by, for any processes, threads, generations and keys.  Two arguments: a *)
(* thread gets past the load with a store that has something, and the one  *)
(* that began it is still at it unless it finished or left the store torn; *)
(* and a handle leaves the registry while it is in use only when another   *)
(* generation's store is opened.                                           *)
(***************************************************************************)
EXTENDS SparqlStore, TLAPS

\* A call has a directory until it is over.
KeyOK == \A t \in Thread : pc[t] # "idle" => key[t] \in Key

\* Who is past the load, or at it, has a store with something in it; so has
\* the lru_cache.
LoadedOK ==
  /\ \A t \in Thread :
       pc[t] \in {"batch", "return", "query"} => holds[key[t]] # {}
  /\ \A p \in Process : cached[p] # NoKey => holds[cached[p]] # {}

\* Who is at a load has a generation to load.
BatchOK == \A t \in Thread : pc[t] = "batch" => reading[t] \in Gen

\* A store with something but no whole generation is being loaded, or torn.
PartOK ==
  \A k \in Key : holds[k] # {} /\ whole[k] = {} => Loading(k) \/ k \in torn

\* A handle in use is on the registry of a process that has dropped none.
RegistryOK ==
  \A p \in Process \ dropped, k \in Key : Busy(p, k) => k \in stores[p]

Inv ==
  /\ TypeOK /\ KeyOK /\ BatchOK /\ LoadedOK
  /\ PartOK /\ RegistryOK

-----------------------------------------------------------------------------

LEMMA Constants ==
  /\ MaxGen \in Nat \ {0} /\ MaxFaults \in Nat /\ NoKey \notin Key
  /\ \A g \in Gen : KeyOf[g] \in Key
  /\ \A t \in Thread : HomeOf[t] \in Process
  /\ 1 \in Gen /\ 0 \notin Gen
  BY StoreAssumption DEF Gen, Key

LEMMA InitInv == Init => Inv
<1> SUFFICES ASSUME Init PROVE Inv
  OBVIOUS
<1> USE Constants DEF Init
<1>1. TypeOK
  BY DEF TypeOK
<1>2. KeyOK /\ BatchOK /\ LoadedOK /\ PartOK
  BY DEF KeyOK, BatchOK, LoadedOK, PartOK
<1>3. RegistryOK
  BY DEF RegistryOK, Busy
<1> QED
  BY <1>1, <1>2, <1>3 DEF Inv

-----------------------------------------------------------------------------
\* The types.

LEMMA TypeStep == Inv /\ [Next]_vars => TypeOK'
<1> SUFFICES ASSUME Inv, [Next]_vars PROVE TypeOK'
  OBVIOUS
<1> USE Constants DEF Inv, TypeOK, disk, Goes
<1>1. ASSUME NEW t \in Thread, Hit(t) PROVE TypeOK'
  BY <1>1 DEF Hit
<1>2. ASSUME NEW t \in Thread, Miss(t) PROVE TypeOK'
  BY <1>2 DEF Miss
<1>3. ASSUME NEW t \in Thread, Reuse(t) PROVE TypeOK'
  BY <1>3 DEF Reuse
<1>4. ASSUME NEW t \in Thread, OpenNew(t) PROVE TypeOK'
  <2>1. key[t] \in Key
    BY <1>4 DEF OpenNew, KeyOK
  <2>2. stores' \in [Process -> SUBSET Key]
    BY <1>4, <2>1 DEF OpenNew
  <2>3. dropped' \subseteq Process
    BY <1>4 DEF OpenNew, Supersede
  <2> QED
    BY <1>4, <2>2, <2>3 DEF OpenNew
<1>5. ASSUME NEW t \in Thread, OpenFails(t) PROVE TypeOK'
  <2>1. dropped' \subseteq Process
    BY <1>5 DEF OpenFails, Supersede
  <2> QED
    BY <1>5, <2>1 DEF OpenFails
<1>6. ASSUME NEW t \in Thread, Look(t) PROVE TypeOK'
  BY <1>6 DEF Look
<1>7. ASSUME NEW t \in Thread, Build(t) PROVE TypeOK'
  BY <1>7 DEF Build
<1>8. ASSUME NEW t \in Thread, Built(t) PROVE TypeOK'
  <2>1. whole' \in [Key -> SUBSET Gen]
    BY <1>8 DEF Built, BatchOK
  <2> QED
    BY <1>8, <2>1 DEF Built
<1>9. ASSUME NEW t \in Thread, BuildFails(t) PROVE TypeOK'
  <2>1. key[t] \in Key
    BY <1>9 DEF BuildFails, KeyOK
  <2> QED
    BY <1>9, <2>1 DEF BuildFails
<1>10. ASSUME NEW t \in Thread, Return(t) PROVE TypeOK'
  BY <1>10 DEF Return
<1>11. ASSUME NEW t \in Thread, Query(t) PROVE TypeOK'
  BY <1>11 DEF Query
<1>12. ASSUME NEW p \in Process, Clear(p) PROVE TypeOK'
  BY <1>12 DEF Clear
<1>13. ASSUME NEW p \in Process, Kill(p) PROVE TypeOK'
  <2>1. torn' \subseteq Key
    BY <1>13 DEF Kill, KeyOK
  <2>2. /\ pc' \in [Thread -> {"idle", "open", "look", "build", "batch",
                               "return", "query"}]
        /\ key' \in [Thread -> Key \cup {NoKey}]
        /\ reading' \in [Thread -> Gen \cup {0}]
    BY <1>13 DEF Kill
  <2> QED
    BY <1>13, <2>1, <2>2 DEF Kill
<1>14. CASE Emit
  BY <1>14 DEF Emit, Gen
<1>15. CASE UNCHANGED vars
  BY <1>15 DEF vars
<1> QED
  BY <1>1, <1>2, <1>3, <1>4, <1>5, <1>6, <1>7, <1>8, <1>9, <1>10, <1>11,
     <1>12, <1>13, <1>14, <1>15 DEF Next, Call

-----------------------------------------------------------------------------
\* Where the threads are, and what their stores have.

\* Loads are only ever added to.
LEMMA Grows ==
  ASSUME Inv, [Next]_vars
  PROVE  \A k \in Key : holds[k] \subseteq holds'[k]
<1> USE DEF Inv, TypeOK, disk
<1>1. ASSUME NEW t \in Thread, Build(t)
      PROVE  \A k \in Key : holds[k] \subseteq holds'[k]
  BY <1>1 DEF Build
<1>2. CASE ~\E t \in Thread : Build(t)
  <2>1. holds' = holds
    BY <1>2 DEF Next, Call, Hit, Miss, Reuse, OpenNew, OpenFails, Look,
       Built, BuildFails, Return, Query, Clear, Kill, Emit, vars
  <2> QED
    BY <2>1
<1> QED
  BY <1>1, <1>2

LEMMA ThreadStep == Inv /\ [Next]_vars => KeyOK' /\ LoadedOK' /\ BatchOK'
<1> SUFFICES ASSUME Inv, [Next]_vars PROVE KeyOK' /\ LoadedOK' /\ BatchOK'
  OBVIOUS
<1>0. \A k \in Key : holds[k] # {} => holds'[k] # {}
  BY Grows
<1> USE Constants DEF Inv, TypeOK, KeyOK, LoadedOK, BatchOK, disk, Goes
<1>1. ASSUME NEW t \in Thread, Hit(t) PROVE KeyOK' /\ LoadedOK' /\ BatchOK'
  BY <1>1 DEF Hit
<1>2. ASSUME NEW t \in Thread, Miss(t) PROVE KeyOK' /\ LoadedOK' /\ BatchOK'
  BY <1>2 DEF Miss
<1>3. ASSUME NEW t \in Thread, Reuse(t) PROVE KeyOK' /\ LoadedOK' /\ BatchOK'
  BY <1>3 DEF Reuse
<1>4. ASSUME NEW t \in Thread, OpenNew(t)
      PROVE  KeyOK' /\ LoadedOK' /\ BatchOK'
  BY <1>4 DEF OpenNew
<1>5. ASSUME NEW t \in Thread, OpenFails(t)
      PROVE  KeyOK' /\ LoadedOK' /\ BatchOK'
  BY <1>5 DEF OpenFails
<1>6. ASSUME NEW t \in Thread, Look(t) PROVE KeyOK' /\ LoadedOK' /\ BatchOK'
  BY <1>6 DEF Look
<1>7. ASSUME NEW t \in Thread, Build(t) PROVE KeyOK' /\ LoadedOK' /\ BatchOK'
  <2>1. key[t] \in Key /\ holds'[key[t]] # {}
    BY <1>7 DEF Build
  <2>2. KeyOK' /\ BatchOK'
    BY <1>7 DEF Build
  <2>3. LoadedOK'
    BY <1>0, <1>7, <2>1 DEF Build
  <2> QED
    BY <2>2, <2>3
<1>8. ASSUME NEW t \in Thread, Built(t) PROVE KeyOK' /\ LoadedOK' /\ BatchOK'
  BY <1>8 DEF Built
<1>9. ASSUME NEW t \in Thread, BuildFails(t)
      PROVE  KeyOK' /\ LoadedOK' /\ BatchOK'
  BY <1>9 DEF BuildFails
<1>10. ASSUME NEW t \in Thread, Return(t)
       PROVE  KeyOK' /\ LoadedOK' /\ BatchOK'
  BY <1>10 DEF Return
<1>11. ASSUME NEW t \in Thread, Query(t)
       PROVE  KeyOK' /\ LoadedOK' /\ BatchOK'
  BY <1>11 DEF Query
<1>12. ASSUME NEW p \in Process, Clear(p)
       PROVE  KeyOK' /\ LoadedOK' /\ BatchOK'
  BY <1>12 DEF Clear
<1>13. ASSUME NEW p \in Process, Kill(p)
       PROVE  KeyOK' /\ LoadedOK' /\ BatchOK'
  BY <1>13 DEF Kill
<1>14. CASE Emit
  BY <1>14 DEF Emit
<1>15. CASE UNCHANGED vars
  BY <1>15 DEF vars
<1> QED
  BY <1>1, <1>2, <1>3, <1>4, <1>5, <1>6, <1>7, <1>8, <1>9, <1>10, <1>11,
     <1>12, <1>13, <1>14, <1>15 DEF Next, Call

-----------------------------------------------------------------------------
\* Who is at a load.

\* A step of a thread that is not at a load, or of none, leaves the loads
\* under way.
LEMMA StillLoading ==
  ASSUME NEW k \in Key, Loading(k),
         \A t \in Thread :
           pc[t] = "batch" => pc'[t] = "batch" /\ key'[t] = key[t]
  PROVE  Loading(k)'
  BY DEF Loading

LEMMA PartStep == Inv /\ [Next]_vars => PartOK'
<1> SUFFICES ASSUME Inv, [Next]_vars PROVE PartOK'
  OBVIOUS
<1> DEFINE Steady == \A t \in Thread :
                       pc[t] = "batch" => pc'[t] = "batch" /\ key'[t] = key[t]
<1> USE DEF Inv
<1>1. ASSUME Steady, holds' = holds, whole' = whole, torn' = torn
      PROVE  PartOK'
  BY <1>1, StillLoading DEF PartOK
<1> USE DEF TypeOK, disk, Goes
<1>2. CASE \E t \in Thread : \/ Hit(t) \/ Miss(t) \/ Reuse(t) \/ OpenNew(t)
                             \/ OpenFails(t) \/ Look(t) \/ Return(t)
                             \/ Query(t)
  <2>1. PICK t \in Thread : \/ Hit(t) \/ Miss(t) \/ Reuse(t) \/ OpenNew(t)
                            \/ OpenFails(t) \/ Look(t) \/ Return(t)
                            \/ Query(t)
    BY <1>2
  <2>2. pc[t] # "batch" /\ holds' = holds /\ whole' = whole /\ torn' = torn
    BY <2>1 DEF Hit, Miss, Reuse, OpenNew, OpenFails, Look, Return, Query
  <2>3. \A s \in Thread \ {t} : pc'[s] = pc[s] /\ key'[s] = key[s]
    BY <2>1 DEF Hit, Miss, Reuse, OpenNew, OpenFails, Look, Return, Query
  <2> QED
    BY <1>1, <2>2, <2>3
<1>3. ASSUME NEW t \in Thread, Build(t) PROVE PartOK'
  <2>1. /\ pc[t] = "build" /\ pc'[t] = "batch" /\ key' = key
        /\ whole' = whole /\ torn' = torn
        /\ \A k \in Key \ {key[t]} : holds'[k] = holds[k]
    BY <1>3 DEF Build
  <2>2. Loading(key[t])'
    BY <2>1 DEF Loading
  <2>3. Steady
    BY <1>3 DEF Build
  <2> QED
    BY <2>1, <2>2, <2>3, StillLoading DEF PartOK
<1>4. ASSUME NEW t \in Thread, Built(t) PROVE PartOK'
  <2>1. /\ pc[t] = "batch" /\ key' = key /\ holds' = holds /\ torn' = torn
        /\ \A s \in Thread \ {t} : pc'[s] = pc[s]
        /\ \A k \in Key \ {key[t]} : whole'[k] = whole[k]
    BY <1>4 DEF Built
  <2>2. key[t] \in Key /\ whole'[key[t]] # {}
    BY <1>4 DEF Built, KeyOK
  <2>3. ASSUME NEW k \in Key \ {key[t]}, Loading(k) PROVE Loading(k)'
    BY <2>1, <2>3 DEF Loading
  <2> QED
    BY <2>1, <2>2, <2>3 DEF PartOK
<1>5. ASSUME NEW t \in Thread, BuildFails(t) PROVE PartOK'
  <2>1. /\ holds' = holds /\ whole' = whole /\ torn' = torn \cup {key[t]}
        /\ \A s \in Thread \ {t} : pc'[s] = pc[s] /\ key'[s] = key[s]
    BY <1>5 DEF BuildFails
  <2>2. ASSUME NEW k \in Key \ {key[t]}, Loading(k) PROVE Loading(k)'
    BY <2>1, <2>2 DEF Loading
  <2> QED
    BY <2>1, <2>2 DEF PartOK
<1>6. ASSUME NEW p \in Process, Kill(p) PROVE PartOK'
  <2>1. /\ holds' = holds /\ whole' = whole
        /\ \A t \in Thread :
             HomeOf[t] # p => pc'[t] = pc[t] /\ key'[t] = key[t]
    BY <1>6 DEF Kill
  <2>2. /\ torn \subseteq torn'
        /\ \A t \in Thread :
             HomeOf[t] = p /\ pc[t] = "batch" => key[t] \in torn'
    BY <1>6 DEF Kill
  <2>3. ASSUME NEW k \in Key, Loading(k) PROVE Loading(k)' \/ k \in torn'
    BY <2>1, <2>2, <2>3 DEF Loading
  <2> QED
    BY <2>1, <2>2, <2>3 DEF PartOK
<1>7. CASE (\E p \in Process : Clear(p)) \/ Emit \/ UNCHANGED vars
  <2>1. /\ pc' = pc /\ key' = key /\ holds' = holds /\ whole' = whole
        /\ torn' = torn
    BY <1>7 DEF Clear, Emit, vars
  <2> QED
    BY <1>1, <2>1
<1> QED
  BY <1>2, <1>3, <1>4, <1>5, <1>6, <1>7 DEF Next, Call

-----------------------------------------------------------------------------
\* The registry.

\* The process that takes handles off its registry without being noted in
\* dropped has none in use.
LEMMA NoneInUse ==
  ASSUME Inv, NEW p \in Process, Supersede(p), p \notin dropped'
  PROVE  p \notin dropped /\ \A k \in Key : ~Busy(p, k)
  BY DEF Inv, TypeOK, RegistryOK, Supersede

LEMMA RegistryStep == Inv /\ [Next]_vars => RegistryOK'
<1> SUFFICES ASSUME Inv, [Next]_vars,
                    NEW p \in Process, p \notin dropped', NEW k \in Key,
                    Busy(p, k)'
             PROVE  k \in stores'[p]
  BY DEF RegistryOK
<1>0. p \notin dropped /\ Busy(p, k) => k \in stores[p]
  BY DEF Inv, RegistryOK
<1> USE Constants DEF Inv, TypeOK, KeyOK, disk, Goes
<1>1. ASSUME NEW t \in Thread, Hit(t) PROVE k \in stores'[p]
  BY <1>0, <1>1 DEF Hit, Busy
<1>2. ASSUME NEW t \in Thread, Miss(t) PROVE k \in stores'[p]
  BY <1>0, <1>2 DEF Miss, Busy
<1>3. ASSUME NEW t \in Thread, Reuse(t) PROVE k \in stores'[p]
  BY <1>0, <1>3 DEF Reuse, Busy
<1>4. ASSUME NEW t \in Thread, OpenNew(t) PROVE k \in stores'[p]
  <2>1. CASE HomeOf[t] = p
    <3>1. \A j \in Key : ~Busy(p, j)
      BY <1>4, <2>1, NoneInUse DEF OpenNew
    <3> QED
      BY <1>4, <2>1, <3>1 DEF OpenNew, Busy
  <2>2. CASE HomeOf[t] # p
    <3>1. stores'[p] = stores[p] /\ p \notin dropped
      BY <1>4, <2>2 DEF OpenNew, Supersede
    <3>2. Busy(p, k)
      BY <1>4, <2>2 DEF OpenNew, Busy
    <3> QED
      BY <1>0, <3>1, <3>2
  <2> QED
    BY <2>1, <2>2
<1>5. ASSUME NEW t \in Thread, OpenFails(t) PROVE k \in stores'[p]
  <2>1. Busy(p, k)
    BY <1>5 DEF OpenFails, Busy
  <2>2. CASE HomeOf[t] = p
    BY <1>5, <2>1, <2>2, NoneInUse DEF OpenFails
  <2>3. CASE HomeOf[t] # p
    <3>1. stores'[p] = stores[p] /\ p \notin dropped
      BY <1>5, <2>3 DEF OpenFails, Supersede
    <3> QED
      BY <1>0, <2>1, <3>1
  <2> QED
    BY <2>2, <2>3
<1>6. ASSUME NEW t \in Thread, Look(t) PROVE k \in stores'[p]
  BY <1>0, <1>6 DEF Look, Busy
<1>7. ASSUME NEW t \in Thread, Build(t) PROVE k \in stores'[p]
  BY <1>0, <1>7 DEF Build, Busy
<1>8. ASSUME NEW t \in Thread, Built(t) PROVE k \in stores'[p]
  BY <1>0, <1>8 DEF Built, Busy
<1>9. ASSUME NEW t \in Thread, BuildFails(t) PROVE k \in stores'[p]
  BY <1>0, <1>9 DEF BuildFails, Busy
<1>10. ASSUME NEW t \in Thread, Return(t) PROVE k \in stores'[p]
  BY <1>0, <1>10 DEF Return, Busy
<1>11. ASSUME NEW t \in Thread, Query(t) PROVE k \in stores'[p]
  BY <1>0, <1>11 DEF Query, Busy
<1>12. ASSUME NEW q \in Process, Clear(q) PROVE k \in stores'[p]
  BY <1>0, <1>12 DEF Clear, Busy
<1>13. ASSUME NEW q \in Process, Kill(q) PROVE k \in stores'[p]
  <2>1. q # p
    BY <1>13 DEF Kill, Busy
  <2>2. Busy(p, k)
    BY <1>13, <2>1 DEF Kill, Busy
  <2>3. stores'[p] = stores[p] /\ p \notin dropped
    BY <1>13, <2>1 DEF Kill
  <2> QED
    BY <1>0, <2>2, <2>3
<1>14. CASE Emit
  BY <1>0, <1>14 DEF Emit, Busy
<1>15. CASE UNCHANGED vars
  BY <1>0, <1>15 DEF vars, Busy
<1> QED
  BY <1>1, <1>2, <1>3, <1>4, <1>5, <1>6, <1>7, <1>8, <1>9, <1>10, <1>11,
     <1>12, <1>13, <1>14, <1>15 DEF Next, Call

-----------------------------------------------------------------------------

LEMMA NextInv == Inv /\ [Next]_vars => Inv'
  BY TypeStep, ThreadStep, PartStep, RegistryStep DEF Inv

\* The inductive invariant.
THEOREM StoreInvariant == Spec => []Inv
  BY InitInv, NextInv, PTL DEF Spec

\* Types, for every value of the constants.
THEOREM StoreTypes == Spec => []TypeOK
<1>1. Inv => TypeOK
  BY DEF Inv
<1> QED
  BY <1>1, StoreInvariant, PTL

\* The cache never has an empty store; a store without one whole generation
\* is being loaded, or a load of it was broken off.
THEOREM StorePartialOnlyOn == Spec => []PartialOnlyOn
<1>1. Inv => PartialOnlyOn
  BY Constants DEF Inv, LoadedOK, PartOK, PartialOnlyOn
<1> QED
  BY <1>1, StoreInvariant, PTL

\* A directory that cannot be opened is held by another process, or by a
\* handle this one took off its registry while it was in use.
THEOREM StoreLockedOutOnlyOn == Spec => LockedOutOnlyOn
<1>1. ASSUME Inv, NEW t \in Thread, OpenFails(t)
      PROVE  \/ \E q \in Process \ {HomeOf[t]} : Open(q, key[t])
             \/ HomeOf[t] \in dropped
  <2>1. key[t] \in Key /\ HomeOf[t] \in Process
    BY <1>1, Constants DEF OpenFails, Inv, KeyOK
  <2>2. key[t] \notin stores[HomeOf[t]]
    BY <1>1 DEF OpenFails
  <2>3. Open(HomeOf[t], key[t]) => HomeOf[t] \in dropped
    BY <1>1, <2>1, <2>2 DEF Open, Inv, RegistryOK
  <2>4. \E q \in Process : Open(q, key[t])
    BY <1>1 DEF OpenFails
  <2> QED
    BY <2>3, <2>4
<1>2. Inv /\ [Next]_vars =>
        [ \A t \in Thread : OpenFails(t) =>
            \/ \E q \in Process \ {HomeOf[t]} : Open(q, key[t])
            \/ HomeOf[t] \in dropped ]_vars
  BY <1>1
<1> QED
  BY <1>2, StoreInvariant, PTL DEF Spec, LockedOutOnlyOn
=============================================================================
