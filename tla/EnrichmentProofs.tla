-------------------------- MODULE EnrichmentProofs --------------------------
(***************************************************************************)
(* The safety properties of module Enrichment, proved for pools of any     *)
(* size over any set of files.  Each is a consequence of the invariant Inv *)
(* below, whose conjuncts are proved to be preserved one lemma at a time.  *)
(***************************************************************************)
EXTENDS Enrichment, FiniteSetTheorems, SequenceTheorems, TLAPS

\* A busy thread is alone on its record, which it has judged to be worth a
\* summary once it is past the gates; the thread in _disable() has the lock.
ThreadOK(w) ==
  /\ pc[w] # "idle" => cur[w] \in Records /\ fate[cur[w]] = "running"
  /\ pc[w] \in {"put", "judge"} => got[w] \in Texts
  /\ pc[w] = "count" => degradation # 0 /\ cur[w] \in Eligible
  /\ pc[w] \in {"get", "chat", "put", "judge", "disable", "register"} =>
       cur[w] \in Eligible \cap Decodable
  /\ pc[w] = "register" <=> reporterLock = w

ThreadsOK ==
  /\ \A w \in Workers : ThreadOK(w)
  /\ \A v, w \in Workers :
       pc[v] # "idle" /\ pc[w] # "idle" /\ cur[v] = cur[w] => v = w

\* Every entry is the one its cause's reference points to.
EntriesOK ==
  /\ \A i \in DOMAIN degradations :
       /\ degradations[i].skipped > 0
       /\ degradations[i].reason = "client_failure_self_disabled" =>
            degradation = i
       /\ degradations[i].reason = "output_failed_validation" =>
            rejection = i
  /\ degradation # 0 =>
       degradations[degradation].reason = "client_failure_self_disabled"
  /\ rejection # 0 =>
       degradations[rejection].reason = "output_failed_validation"

\* What has become of a record tells whether it has a summary, and whether
\* the enricher is disabled or has an entry that can count it.
FateOK(r) ==
  /\ fate[r] = "enriched" <=> fileSummary[r] # Absent
  /\ fate[r] \in {"counted", "rejected"} => r \in Eligible
  /\ fate[r] = "counted" => degradation # 0
  /\ fate[r] = "rejected" => rejection # 0 /\ r \in Decodable
  /\ fate[r] = "silent" => disabled
  /\ fate[r] = "passed" => r \notin Eligible \cap Decodable

FatesOK ==
  /\ \A r \in Records : FateOK(r)
  /\ degradation # 0 => disabled
  /\ disabled => degradation # 0 \/ reporterLock # NoThread
  /\ \A w \in Workers : pc[w] \in {"degraded", "register"} => disabled
  /\ status = "done" => Idle /\ \A r \in Records : fate[r] \in Settled

\* What the cache holds for a record that was summarised in this run or in
\* the last completed one, or is about to be: a text, and that very text if
\* no other record has its key.
CachedAs(r, t) ==
  /\ cache[Key(r)] \in Texts
  /\ Unshared(r) => cache[Key(r)] = t

CacheOK ==
  /\ \A r \in Records :
       /\ fileSummary[r] # Absent => CachedAs(r, fileSummary[r])
       /\ prior[r] # Absent => CachedAs(r, prior[r])
  /\ \A w \in Workers : pc[w] = "judge" => CachedAs(cur[w], got[w])
  /\ NoRepeatedCall

\* Threads past their check of _disabled that may still call the model.
Gets == {w \in Workers : pc[w] = "get"}

LateOK ==
  /\ degradation = 0 => lateCalls = 0
  /\ degradation # 0 =>
       lateCalls + Cardinality(Gets) < Cardinality(Workers)

Inv ==
  /\ TypeOK /\ ThreadsOK /\ EntriesOK /\ FatesOK /\ CacheOK /\ LateOK
  /\ TalliesExact

\* What the proofs need of the constants.
LEMMA Constants ==
  /\ NumRecords \in Nat /\ MaxRuns \in Nat \ {0}
  /\ Absent \notin Texts /\ NoThread \notin Workers
  BY EnrichmentAssumption

-----------------------------------------------------------------------------
\* The initial states satisfy the typing and the thread invariant.
LEMMA InitTyped == Init => TypeOK /\ ThreadsOK /\ EntriesOK
<1> SUFFICES ASSUME Init PROVE TypeOK /\ ThreadsOK /\ EntriesOK
  OBVIOUS
<1>1. degradations \in Seq(Entry) /\ Len(degradations) = 0
  BY DEF Init
<1>2. TypeOK
  <2>1. run \in 1 .. MaxRuns /\ fate \in [Records -> Fates]
    BY Constants DEF Init, Fates
  <2>2. pc \in [Workers -> Steps] /\ cur \in [Workers -> 0 .. NumRecords]
    BY Constants DEF Init, Steps
  <2>3. got \in [Workers -> Texts \cup {Absent}]
    BY DEF Init
  <2>4. degradation \in 0 .. Len(degradations)
        /\ rejection \in 0 .. Len(degradations)
    BY <1>1 DEF Init
  <2>5. /\ fileSummary \in [Records -> Texts \cup {Absent}]
        /\ prior \in [Records -> Texts \cup {Absent}]
    BY DEF Init
  <2> QED
    BY <1>1, <2>1, <2>2, <2>3, <2>4, <2>5 DEF Init, TypeOK
<1>3. ThreadsOK
  BY Constants DEF Init, ThreadsOK, ThreadOK
<1>4. EntriesOK
  BY <1>1 DEF Init, EntriesOK
<1> QED
  BY <1>2, <1>3, <1>4

\* The types of what the pool knows of its threads and records, and of the
\* entries and references the enricher keeps.
PoolTypeOK ==
  /\ fate \in [Records -> Fates]
  /\ pc \in [Workers -> Steps]
  /\ cur \in [Workers -> 0 .. NumRecords]
  /\ got \in [Workers -> Texts \cup {Absent}]

EntriesTypeOK ==
  /\ degradations \in Seq(Entry)
  /\ degradation \in 0 .. Len(degradations)
  /\ rejection \in 0 .. Len(degradations)

\* enrich() returns: the thread and its record keep their types.
LEMMA FinishTyped ==
  ASSUME TypeOK, NEW w \in Workers, NEW f \in Fates, Finish(w, f)
  PROVE  PoolTypeOK'
<1>1. fate' \in [Records -> Fates]
  BY DEF TypeOK, Finish
<1>2. pc' \in [Workers -> Steps]
  BY DEF TypeOK, Finish, Steps
<1>3. cur' \in [Workers -> 0 .. NumRecords]
  BY Constants DEF TypeOK, Finish
<1>4. got' \in [Workers -> Texts \cup {Absent}]
  BY DEF TypeOK, Finish
<1> QED
  BY <1>1, <1>2, <1>3, <1>4 DEF PoolTypeOK

\* A bump keeps the entries and the references to them typed.
LEMMA TallyTyped ==
  ASSUME TypeOK, NEW i \in DOMAIN degradations, degradations' = Tally(i)
  PROVE  /\ degradations' \in Seq(Entry)
         /\ Len(degradations') = Len(degradations)
         /\ \A j \in 1 .. Len(degradations) :
              /\ degradations'[j].reason = degradations[j].reason
              /\ degradations'[j].skipped =
                   degradations[j].skipped + (IF j = i THEN 1 ELSE 0)
<1> DEFINE bumped == [degradations[i] EXCEPT !.skipped = @ + 1]
<1>1. degradations \in Seq(Entry) /\ i \in 1 .. Len(degradations)
  BY DEF TypeOK
<1>2. degradations[i] \in Entry
  BY <1>1, ElementOfSeq
<1>3. bumped \in Entry
  BY <1>2 DEF Entry
<1>4. degradations' = [degradations EXCEPT ![i] = bumped]
  BY DEF Tally
<1>5. /\ bumped.reason = degradations[i].reason
      /\ bumped.skipped = degradations[i].skipped + 1
  BY <1>2 DEF Entry
<1>6. \A j \in 1 .. Len(degradations) : degradations[j].skipped \in Nat
  <2>1. \A j \in 1 .. Len(degradations) : degradations[j] \in Entry
    BY <1>1, ElementOfSeq
  <2> QED
    BY <2>1 DEF Entry
<1> HIDE DEF bumped
<1>7. /\ degradations' \in Seq(Entry) /\ Len(degradations') = Len(degradations)
      /\ \A j \in 1 .. Len(degradations) :
           degradations'[j] = IF j = i THEN bumped ELSE degradations[j]
  BY <1>1, <1>3, <1>4, ExceptSeq
<1> QED
  BY <1>5, <1>6, <1>7

\* Registering an entry adds it after the ones there are.
LEMMA AppendTyped ==
  ASSUME TypeOK, NEW e \in Entry, degradations' = Append(degradations, e)
  PROVE  /\ degradations' \in Seq(Entry)
         /\ Len(degradations') = Len(degradations) + 1
         /\ \A j \in 1 .. Len(degradations) :
              degradations'[j] = degradations[j]
         /\ degradations'[Len(degradations) + 1] = e
  BY AppendProperties DEF TypeOK

\* No step of a thread or of the pool leaves the types.
LEMMA TypeStep == TypeOK /\ ThreadsOK /\ [Next]_vars => TypeOK'
<1> SUFFICES ASSUME TypeOK, ThreadsOK, [Next]_vars PROVE TypeOK'
  OBVIOUS
<1>0. {"enriched", "rejected", "counted", "silent", "passed", "raised"}
        \subseteq Fates
  BY DEF Fates, Settled
<1>1. ASSUME NEW w \in Workers, NEW r \in Records, Start(w, r) PROVE TypeOK'
  BY <1>1, Constants
     DEF Start, Goto, Records, TypeOK, Fates, Settled, Steps, runVars
<1>2. ASSUME NEW w \in Workers, Degraded(w) PROVE TypeOK'
  <2>1. PoolTypeOK'
    BY <1>0, <1>2, FinishTyped DEF Degraded, Goto, TypeOK, PoolTypeOK, Steps
  <2> QED
    BY <1>2, <2>1 DEF Degraded, TypeOK, PoolTypeOK, runVars
<1>3. ASSUME NEW w \in Workers, Count(w) PROVE TypeOK'
  <2>1. PoolTypeOK'
    BY <1>0, <1>3, FinishTyped DEF Count
  <2>2. degradation \in DOMAIN degradations
    BY <1>3 DEF Count, ThreadsOK, ThreadOK, TypeOK
  <2> QED
    BY <1>3, <2>1, <2>2, TallyTyped DEF Count, TypeOK, PoolTypeOK
<1>4. ASSUME NEW w \in Workers, Recheck(w) PROVE TypeOK'
  <2>1. PoolTypeOK'
    BY <1>0, <1>4, FinishTyped DEF Recheck, Goto, TypeOK, PoolTypeOK, Steps
  <2> QED
    BY <1>4, <2>1 DEF Recheck, TypeOK, PoolTypeOK, runVars
<1>5. ASSUME NEW w \in Workers, CacheGet(w) PROVE TypeOK'
  <2>1. PoolTypeOK'
    BY <1>0, <1>5, FinishTyped DEF CacheGet, Goto, TypeOK, PoolTypeOK, Steps
  <2> QED
    BY <1>5, <2>1 DEF CacheGet, TypeOK, PoolTypeOK
<1>6. ASSUME NEW w \in Workers, ChatAnswers(w) PROVE TypeOK'
  BY <1>6 DEF ChatAnswers, Goto, TypeOK, Steps, runVars
<1>7. ASSUME NEW w \in Workers, ChatUnavailable(w) PROVE TypeOK'
  BY <1>7 DEF ChatUnavailable, Goto, TypeOK, Steps, runVars
<1>8. ASSUME NEW w \in Workers, ChatFails(w) PROVE TypeOK'
  <2>1. PoolTypeOK'
    BY <1>0, <1>8, FinishTyped DEF ChatFails
  <2> QED
    BY <1>8, <2>1 DEF ChatFails, TypeOK, PoolTypeOK, runVars
<1>9. ASSUME NEW w \in Workers, CachePut(w) PROVE TypeOK'
  <2>1. got[w] \in Texts
    BY <1>9 DEF CachePut, ThreadsOK, ThreadOK
  <2> QED
    BY <1>9, <2>1 DEF CachePut, Goto, TypeOK, Steps, runVars
<1>10. ASSUME NEW w \in Workers, CachePutFails(w) PROVE TypeOK'
  <2>1. PoolTypeOK'
    BY <1>0, <1>10, FinishTyped DEF CachePutFails
  <2> QED
    BY <1>10, <2>1 DEF CachePutFails, TypeOK, PoolTypeOK, runVars
<1>11. ASSUME NEW w \in Workers, Accept(w) PROVE TypeOK'
  <2>1. PoolTypeOK'
    BY <1>0, <1>11, FinishTyped DEF Accept
  <2> QED
    BY <1>11, <2>1 DEF Accept, TypeOK, PoolTypeOK
<1>12. ASSUME NEW w \in Workers, Reject(w) PROVE TypeOK'
  <2>1. PoolTypeOK'
    BY <1>0, <1>12, FinishTyped DEF Reject
  <2>2. EntriesTypeOK'
    <3>1. CASE rejection = 0
      BY <1>12, <3>1, AppendTyped DEF Reject, Entry, EntriesTypeOK, TypeOK
    <3>2. CASE rejection # 0
      <4>1. rejection \in DOMAIN degradations
        BY <3>2 DEF TypeOK
      <4> QED
        BY <1>12, <3>2, <4>1, TallyTyped DEF Reject, EntriesTypeOK, TypeOK
    <3> QED
      BY <3>1, <3>2
  <2> QED
    BY <1>12, <2>1, <2>2 DEF Reject, TypeOK, PoolTypeOK, EntriesTypeOK
<1>13. ASSUME NEW w \in Workers, Disable(w) PROVE TypeOK'
  BY <1>13 DEF Disable, Goto, TypeOK, Steps
<1>14. ASSUME NEW w \in Workers, Register(w) PROVE TypeOK'
  <2>1. PoolTypeOK'
    BY <1>0, <1>14, FinishTyped DEF Register
  <2>2. EntriesTypeOK'
    <3>1. CASE degradation = 0
      BY <1>14, <3>1, AppendTyped DEF Register, Entry, EntriesTypeOK, TypeOK
    <3>2. CASE degradation # 0
      <4>1. degradation \in DOMAIN degradations
        BY <3>2 DEF TypeOK
      <4> QED
        BY <1>14, <3>2, <4>1, TallyTyped DEF Register, EntriesTypeOK, TypeOK
    <3> QED
      BY <3>1, <3>2
  <2> QED
    BY <1>14, <2>1, <2>2 DEF Register, TypeOK, PoolTypeOK, EntriesTypeOK
<1>15. CASE Abort
  BY <1>15 DEF Abort, TypeOK, Fates, threadVars, runVars
<1>16. CASE PoolExit
  BY <1>16 DEF PoolExit, TypeOK, threadVars, runVars
<1>17. CASE NextRun
  <2>1. PoolTypeOK'
    BY <1>17, Constants DEF NextRun, PoolTypeOK, Fates, Steps
  <2>2. /\ run' \in 1 .. MaxRuns
        /\ fileSummary' \in [Records -> Texts \cup {Absent}]
        /\ prior' \in [Records -> Texts \cup {Absent}]
    BY <1>17, Constants DEF NextRun, TypeOK
  <2>3. EntriesTypeOK'
    BY <1>17 DEF NextRun, EntriesTypeOK
  <2> QED
    BY <1>17, <2>1, <2>2, <2>3 DEF NextRun, PoolTypeOK, EntriesTypeOK, TypeOK
<1>18. CASE UNCHANGED vars
  BY <1>18 DEF vars, threadVars, runVars, TypeOK
<1> QED
  BY <1>1, <1>2, <1>3, <1>4, <1>5, <1>6, <1>7, <1>8, <1>9, <1>10, <1>11,
     <1>12, <1>13, <1>14, <1>15, <1>16, <1>17, <1>18 DEF Next, ThreadStep

-----------------------------------------------------------------------------
\* A thread that returns from enrich() gives its record up, and the lock if
\* it has it; the others keep theirs.
LEMMA FinishThreads ==
  ASSUME TypeOK, ThreadsOK, NEW w \in Workers, NEW f, Finish(w, f),
         pc[w] # "idle",
         degradation # 0 => degradation' # 0,
         IF pc[w] = "register" THEN reporterLock' = NoThread
                               ELSE reporterLock' = reporterLock
  PROVE  ThreadsOK'
<1>1. /\ pc' = [pc EXCEPT ![w] = "idle"] /\ pc'[w] = "idle"
      /\ \A v \in Workers \ {w} : /\ pc'[v] = pc[v] /\ cur'[v] = cur[v]
                                  /\ got'[v] = got[v]
  BY DEF Finish, TypeOK
<1>2. \A v \in Workers \ {w} :
        pc[v] # "idle" => cur[v] # cur[w] /\ fate'[cur[v]] = fate[cur[v]]
  BY DEF Finish, TypeOK, ThreadsOK, ThreadOK
<1>3. \A v \in Workers \ {w} : (reporterLock' = v) <=> (reporterLock = v)
  BY Constants DEF ThreadsOK, ThreadOK
<1>4. reporterLock' # w
  BY Constants DEF ThreadsOK, ThreadOK
<1>5. ThreadOK(w)'
  BY <1>1, <1>4 DEF ThreadOK
<1>6. ASSUME NEW v \in Workers \ {w} PROVE ThreadOK(v)'
  BY <1>1, <1>2, <1>3 DEF ThreadsOK, ThreadOK
<1>7. \A v, u \in Workers :
        pc'[v] # "idle" /\ pc'[u] # "idle" /\ cur'[v] = cur'[u] => v = u
  BY <1>1 DEF ThreadsOK
<1> QED
  BY <1>5, <1>6, <1>7 DEF ThreadsOK

\* A thread that goes on with its record disturbs no other.
LEMMA GotoThreads ==
  ASSUME TypeOK, ThreadsOK, NEW w \in Workers, NEW p \in Steps \ {"idle"},
         Goto(w, p), pc[w] # "idle", UNCHANGED <<fate, cur>>,
         got' \in [Workers -> Texts \cup {Absent}],
         \A v \in Workers \ {w} : got'[v] = got[v],
         degradation # 0 => degradation' # 0,
         \A v \in Workers \ {w} : (reporterLock' = v) <=> (reporterLock = v),
         ThreadOK(w)'
  PROVE  ThreadsOK'
<1>1. \A v \in Workers \ {w} : pc'[v] = pc[v]
  BY DEF Goto, TypeOK
<1>2. ASSUME NEW v \in Workers \ {w} PROVE ThreadOK(v)'
  BY <1>1 DEF ThreadsOK, ThreadOK
<1>3. \A v, u \in Workers :
        pc'[v] # "idle" /\ pc'[u] # "idle" /\ cur'[v] = cur'[u] => v = u
  BY <1>1 DEF ThreadsOK
<1> QED
  BY <1>2, <1>3 DEF ThreadsOK

\* No step gives a record to two threads or lets one pass a gate it should
\* not, and the lock is held in _disable() only.
LEMMA ThreadsStep == TypeOK /\ ThreadsOK /\ [Next]_vars => ThreadsOK'
<1> SUFFICES ASSUME TypeOK, ThreadsOK, [Next]_vars PROVE ThreadsOK'
  OBVIOUS
<1>0. \A w \in Workers : pc[w] \in Steps /\ NoThread # w
  BY Constants DEF TypeOK
<1>1. ASSUME NEW w \in Workers, NEW r \in Records, Start(w, r)
      PROVE  ThreadsOK'
  <2>1. /\ pc'[w] \in {"degraded", "recheck"} /\ cur'[w] = r
        /\ fate'[r] = "running"
        /\ \A v \in Workers \ {w} : pc'[v] = pc[v] /\ cur'[v] = cur[v]
    BY <1>1 DEF Start, Goto, TypeOK
  <2>2. \A v \in Workers \ {w} : pc[v] # "idle" => cur[v] # r
    BY <1>1 DEF Start, ThreadsOK, ThreadOK
  <2>3. \A q \in Records \ {r} : fate'[q] = fate[q]
    BY <1>1 DEF Start, TypeOK
  <2>4. UNCHANGED <<got, degradation, reporterLock>>
    BY <1>1 DEF Start, runVars
  <2>5. ThreadOK(w)'
    BY <1>1, <2>1, <2>4 DEF Start, ThreadsOK, ThreadOK
  <2>6. ASSUME NEW v \in Workers \ {w} PROVE ThreadOK(v)'
    BY <2>1, <2>2, <2>3, <2>4 DEF ThreadsOK, ThreadOK
  <2>7. \A v, u \in Workers :
          pc'[v] # "idle" /\ pc'[u] # "idle" /\ cur'[v] = cur'[u] => v = u
    BY <2>1, <2>2 DEF ThreadsOK
  <2> QED
    BY <2>5, <2>6, <2>7 DEF ThreadsOK
<1>2. ASSUME NEW w \in Workers, Degraded(w) PROVE ThreadsOK'
  <2>0. UNCHANGED runVars /\ pc[w] = "degraded"
    BY <1>2 DEF Degraded
  <2>1. CASE degradation # 0 /\ cur[w] \in Eligible /\ Goto(w, "count")
             /\ UNCHANGED <<fate, cur, got>>
    <3>1. ThreadOK(w)'
      BY <2>0, <2>1 DEF Goto, ThreadsOK, ThreadOK, TypeOK, runVars
    <3> QED
      BY <2>0, <2>1, <3>1, GotoThreads DEF TypeOK, Steps, runVars
  <2>2. CASE \E f : Finish(w, f)
    BY <2>0, <2>2, FinishThreads DEF runVars
  <2> QED
    BY <1>2, <2>1, <2>2 DEF Degraded
<1>3. ASSUME NEW w \in Workers, Count(w) PROVE ThreadsOK'
  BY <1>3, FinishThreads DEF Count
<1>4. ASSUME NEW w \in Workers, Recheck(w) PROVE ThreadsOK'
  <2>0. UNCHANGED runVars /\ pc[w] = "recheck"
    BY <1>4 DEF Recheck
  <2>1. CASE cur[w] \in Eligible \cap Decodable /\ Goto(w, "get")
             /\ UNCHANGED <<fate, cur, got>>
    <3>1. ThreadOK(w)'
      BY <2>0, <2>1 DEF Goto, ThreadsOK, ThreadOK, TypeOK, runVars
    <3> QED
      BY <2>0, <2>1, <3>1, GotoThreads DEF TypeOK, Steps, runVars
  <2>2. CASE \E f : Finish(w, f)
    BY <2>0, <2>2, FinishThreads DEF runVars
  <2> QED
    BY <1>4, <2>1, <2>2 DEF Recheck
<1>5. ASSUME NEW w \in Workers, CacheGet(w) PROVE ThreadsOK'
  <2>0. /\ UNCHANGED <<reporterLock, degradation>> /\ pc[w] = "get"
    BY <1>5 DEF CacheGet
  <2>1. CASE /\ cache[Key(cur[w])] \in Texts
             /\ got' = [got EXCEPT ![w] = cache[Key(cur[w])]]
             /\ Goto(w, "judge") /\ UNCHANGED <<fate, cur>>
    <3>1. got'[w] \in Texts /\ \A v \in Workers \ {w} : got'[v] = got[v]
      BY <2>1 DEF TypeOK
    <3>2. ThreadOK(w)'
      BY <2>0, <2>1, <3>1 DEF Goto, ThreadsOK, ThreadOK, TypeOK
    <3>3. got' \in [Workers -> Texts \cup {Absent}]
      BY <2>1 DEF TypeOK
    <3> QED
      BY <2>0, <2>1, <3>1, <3>2, <3>3, GotoThreads DEF Steps
  <2>2. CASE Goto(w, "chat") /\ UNCHANGED <<fate, cur, got>>
    <3>1. ThreadOK(w)'
      BY <2>0, <2>2 DEF Goto, ThreadsOK, ThreadOK, TypeOK
    <3> QED
      BY <2>0, <2>2, <3>1, GotoThreads DEF TypeOK, Steps
  <2>3. CASE \E f : Finish(w, f)
    BY <2>0, <2>3, FinishThreads
  <2> QED
    BY <1>5, <2>1, <2>2, <2>3 DEF CacheGet
<1>6. ASSUME NEW w \in Workers, ChatAnswers(w) PROVE ThreadsOK'
  <2>1. /\ got' \in [Workers -> Texts \cup {Absent}] /\ got'[w] \in Texts
        /\ \A v \in Workers \ {w} : got'[v] = got[v]
    BY <1>6 DEF ChatAnswers, TypeOK
  <2>2. ThreadOK(w)'
    BY <1>6, <2>1 DEF ChatAnswers, Goto, ThreadsOK, ThreadOK, TypeOK, runVars
  <2> QED
    BY <1>6, <2>1, <2>2, GotoThreads DEF ChatAnswers, Steps, runVars
<1>7. ASSUME NEW w \in Workers, ChatUnavailable(w) PROVE ThreadsOK'
  <2>1. ThreadOK(w)'
    BY <1>7 DEF ChatUnavailable, Goto, ThreadsOK, ThreadOK, TypeOK, runVars
  <2> QED
    BY <1>7, <2>1, GotoThreads DEF ChatUnavailable, TypeOK, Steps, runVars
<1>8. ASSUME NEW w \in Workers, ChatFails(w) PROVE ThreadsOK'
  BY <1>8, FinishThreads DEF ChatFails, runVars
<1>9. ASSUME NEW w \in Workers, CachePut(w) PROVE ThreadsOK'
  <2>1. ThreadOK(w)'
    BY <1>9 DEF CachePut, Goto, ThreadsOK, ThreadOK, TypeOK, runVars
  <2> QED
    BY <1>9, <2>1, GotoThreads DEF CachePut, TypeOK, Steps, runVars
<1>10. ASSUME NEW w \in Workers, CachePutFails(w) PROVE ThreadsOK'
  BY <1>10, FinishThreads DEF CachePutFails, runVars
<1>11. ASSUME NEW w \in Workers, Accept(w) PROVE ThreadsOK'
  BY <1>11, FinishThreads DEF Accept
<1>12. ASSUME NEW w \in Workers, Reject(w) PROVE ThreadsOK'
  BY <1>12, FinishThreads DEF Reject
<1>13. ASSUME NEW w \in Workers, Disable(w) PROVE ThreadsOK'
  <2>1. /\ reporterLock = NoThread /\ reporterLock' = w
        /\ \A v \in Workers \ {w} : reporterLock' # v /\ reporterLock # v
    BY <1>0, <1>13 DEF Disable
  <2>2. ThreadOK(w)'
    BY <1>13, <2>1 DEF Disable, Goto, ThreadsOK, ThreadOK, TypeOK
  <2> QED
    BY <1>13, <2>1, <2>2, GotoThreads DEF Disable, TypeOK, Steps
<1>14. ASSUME NEW w \in Workers, Register(w) PROVE ThreadsOK'
  <2>1. degradation # 0 => degradation' # 0
    BY <1>14 DEF Register
  <2> QED
    BY <1>14, <2>1, FinishThreads DEF Register
<1>15. CASE Abort
  <2>1. \A r \in Records : fate[r] = "running" => fate'[r] = "running"
    BY <1>15 DEF Abort
  <2> QED
    BY <1>15, <2>1 DEF Abort, ThreadsOK, ThreadOK, threadVars, runVars
<1>16. CASE PoolExit
  BY <1>16 DEF PoolExit, ThreadsOK, ThreadOK, threadVars, runVars
<1>17. CASE NextRun
  BY <1>0, <1>17 DEF NextRun, ThreadsOK, ThreadOK
<1>18. CASE UNCHANGED vars
  BY <1>18 DEF vars, threadVars, runVars, ThreadsOK, ThreadOK
<1> QED
  BY <1>1, <1>2, <1>3, <1>4, <1>5, <1>6, <1>7, <1>8, <1>9, <1>10, <1>11,
     <1>12, <1>13, <1>14, <1>15, <1>16, <1>17, <1>18 DEF Next, ThreadStep

-----------------------------------------------------------------------------
\* The steps that touch an entry or a reference to one.
Registers(w) == Count(w) \/ Reject(w) \/ Register(w)

\* Every other step of a run leaves the entries and references alone.
LEMMA EntriesFrame ==
  ASSUME [Next]_vars, ~NextRun, \A w \in Workers : ~Registers(w)
  PROVE  UNCHANGED <<degradations, degradation, rejection>>
<1>1. ASSUME NEW w \in Workers, ThreadStep(w)
      PROVE  UNCHANGED <<degradations, degradation, rejection>>
  BY <1>1 DEF ThreadStep, Registers, Start, Degraded, Recheck, CacheGet,
     ChatAnswers, ChatUnavailable, ChatFails, CachePut, CachePutFails, Accept,
     Disable, runVars
<1> QED
  BY <1>1 DEF Next, Abort, PoolExit, vars, runVars

\* Entries are registered under their own reference, once per cause.
LEMMA EntriesStep ==
  TypeOK /\ ThreadsOK /\ EntriesOK /\ [Next]_vars => EntriesOK'
<1> SUFFICES ASSUME TypeOK, ThreadsOK, EntriesOK, [Next]_vars PROVE EntriesOK'
  OBVIOUS
<1>0. /\ degradations \in Seq(Entry) /\ Len(degradations) \in Nat
      /\ DOMAIN degradations = 1 .. Len(degradations)
      /\ degradation \in 0 .. Len(degradations)
      /\ rejection \in 0 .. Len(degradations)
  BY LenProperties DEF TypeOK
<1>1. ASSUME NEW i \in DOMAIN degradations, degradations' = Tally(i),
             UNCHANGED <<degradation, rejection>>
      PROVE  EntriesOK'
  <2>1. /\ DOMAIN degradations' = DOMAIN degradations
        /\ \A j \in DOMAIN degradations :
             /\ degradations'[j].reason = degradations[j].reason
             /\ degradations'[j].skipped =
                  degradations[j].skipped + (IF j = i THEN 1 ELSE 0)
    BY <1>0, <1>1, TallyTyped, LenProperties
  <2>2. \A j \in DOMAIN degradations : degradations[j].skipped \in Nat
    <3>1. \A j \in DOMAIN degradations : degradations[j] \in Entry
      BY <1>0, ElementOfSeq
    <3> QED
      BY <3>1 DEF Entry
  <2>3. \A j \in DOMAIN degradations : degradations'[j].skipped > 0
    BY <2>1, <2>2 DEF EntriesOK
  <2> QED
    BY <1>0, <1>1, <2>1, <2>3 DEF EntriesOK
<1>2. ASSUME NEW e \in Entry, degradations' = Append(degradations, e),
             e.skipped = 1,
             \/ /\ e.reason = "output_failed_validation" /\ rejection = 0
                /\ rejection' = Len(degradations) + 1 /\ UNCHANGED degradation
             \/ /\ e.reason = "client_failure_self_disabled" /\ degradation = 0
                /\ degradation' = Len(degradations) + 1 /\ UNCHANGED rejection
      PROVE  EntriesOK'
  <2>1. /\ DOMAIN degradations' = 1 .. Len(degradations) + 1
        /\ \A j \in 1 .. Len(degradations) : degradations'[j] = degradations[j]
        /\ degradations'[Len(degradations) + 1] = e
    BY <1>2, AppendTyped, LenProperties
  <2> QED
    BY <1>0, <1>2, <2>1 DEF EntriesOK
<1>3. ASSUME NEW w \in Workers, Count(w) PROVE EntriesOK'
  <2>1. degradation \in DOMAIN degradations
    BY <1>0, <1>3 DEF Count, ThreadsOK, ThreadOK
  <2> QED
    BY <1>1, <1>3, <2>1 DEF Count
<1>4. ASSUME NEW w \in Workers, Reject(w) PROVE EntriesOK'
  <2>1. CASE rejection = 0
    BY <1>2, <1>4, <2>1 DEF Reject, Entry
  <2>2. CASE rejection # 0
    BY <1>0, <1>1, <1>4, <2>2 DEF Reject
  <2> QED
    BY <2>1, <2>2
<1>5. ASSUME NEW w \in Workers, Register(w) PROVE EntriesOK'
  <2>1. CASE degradation = 0
    BY <1>2, <1>5, <2>1 DEF Register, Entry
  <2>2. CASE degradation # 0
    BY <1>0, <1>1, <1>5, <2>2 DEF Register
  <2> QED
    BY <2>1, <2>2
<1>6. CASE NextRun
  BY <1>6 DEF NextRun, EntriesOK
<1>7. CASE UNCHANGED <<degradations, degradation, rejection>>
  BY <1>7 DEF EntriesOK
<1> QED
  BY <1>3, <1>4, <1>5, <1>6, <1>7, EntriesFrame DEF Registers

-----------------------------------------------------------------------------
\* enrich() returns with outcome f, and the pool still knows why.
LEMMA FinishFates ==
  ASSUME TypeOK, ThreadsOK, FatesOK,
         NEW w \in Workers, NEW f \in Settled \cup {"raised"}, Finish(w, f),
         pc[w] # "idle", UNCHANGED status,
         \/ f # "enriched" /\ UNCHANGED fileSummary
         \/ /\ f = "enriched"
            /\ \E t \in Texts :
                 fileSummary' = [fileSummary EXCEPT ![cur[w]] = t],
         f \in {"counted", "rejected"} => cur[w] \in Eligible,
         f = "counted" => degradation' # 0,
         f = "rejected" => rejection' # 0 /\ cur[w] \in Decodable,
         f = "silent" => disabled,
         f = "passed" => cur[w] \notin Eligible \cap Decodable,
         UNCHANGED disabled,
         degradation # 0 => degradation' # 0,
         rejection # 0 => rejection' # 0,
         degradation' # 0 => disabled,
         disabled => degradation' # 0 \/ reporterLock' # NoThread
  PROVE  FatesOK'
<1>1. cur[w] \in Records /\ fate[cur[w]] = "running"
  BY DEF ThreadsOK, ThreadOK
<1>2. /\ fate'[cur[w]] = f
      /\ \A r \in Records \ {cur[w]} : fate'[r] = fate[r]
  BY <1>1 DEF Finish, TypeOK
<1>3. \A r \in Records \ {cur[w]} : fileSummary'[r] = fileSummary[r]
  BY <1>1 DEF TypeOK
<1>4. f = "enriched" <=> fileSummary'[cur[w]] # Absent
  <2>1. fileSummary[cur[w]] = Absent
    BY <1>1 DEF FatesOK, FateOK
  <2>2. \A t \in Texts : [fileSummary EXCEPT ![cur[w]] = t][cur[w]] = t
    BY <1>1 DEF TypeOK
  <2> QED
    BY <2>1, <2>2, Constants
<1>5. ASSUME NEW r \in Records, r = cur[w] PROVE FateOK(r)'
  BY <1>2, <1>4, <1>5 DEF FateOK
<1>6. ASSUME NEW r \in Records, r # cur[w] PROVE FateOK(r)'
  <2>1. FateOK(r)
    BY DEF FatesOK
  <2> QED
    BY <1>2, <1>3, <1>6, <2>1 DEF FateOK
<1>7. \A v \in Workers : pc'[v] # "idle" => pc'[v] = pc[v]
  BY DEF Finish, TypeOK
<1>8. status # "done"
  BY DEF FatesOK, Idle
<1> QED
  BY <1>5, <1>6, <1>7, <1>8 DEF FatesOK

\* A thread goes on with its record.
LEMMA GotoFates ==
  ASSUME TypeOK, FatesOK, NEW w \in Workers, NEW p, Goto(w, p),
         pc[w] # "idle", UNCHANGED <<fate, status, fileSummary, degradation,
                                     rejection, degradations>>,
         disabled => disabled', disabled' \in BOOLEAN,
         p \in {"degraded", "register"} => disabled',
         disabled' => degradation # 0 \/ reporterLock' # NoThread
  PROVE  FatesOK'
<1>1. \A v \in Workers : pc'[v] = pc[v] \/ (v = w /\ pc'[v] = p)
  BY DEF Goto, TypeOK
<1>2. \A r \in Records : FateOK(r)'
  BY DEF FatesOK, FateOK
<1>3. status # "done"
  BY DEF FatesOK, Idle
<1> QED
  BY <1>1, <1>2, <1>3 DEF FatesOK

\* No step loses track of what became of a record.
LEMMA FatesStep ==
  TypeOK /\ ThreadsOK /\ FatesOK /\ [Next]_vars => FatesOK'
<1> SUFFICES ASSUME TypeOK, ThreadsOK, FatesOK, [Next]_vars PROVE FatesOK'
  OBVIOUS
<1>0. /\ degradation # 0 => disabled
      /\ disabled => degradation # 0 \/ reporterLock # NoThread
      /\ {"enriched", "rejected", "counted", "silent", "passed", "raised"}
           \subseteq Settled \cup {"raised"}
      /\ disabled \in BOOLEAN /\ Len(degradations) \in Nat
  BY DEF FatesOK, Settled, TypeOK
<1>1. ASSUME NEW w \in Workers, NEW r \in Records, Start(w, r)
      PROVE  FatesOK'
  <2>1. /\ pc'[w] \in {"degraded", "recheck"}
        /\ pc'[w] = "degraded" => disabled
        /\ \A v \in Workers \ {w} : pc'[v] = pc[v]
        /\ fate[r] = "queued" /\ fate'[r] = "running"
        /\ \A q \in Records \ {r} : fate'[q] = fate[q]
    BY <1>1 DEF Start, Goto, TypeOK
  <2>2. UNCHANGED <<status, disabled, degradation, rejection, fileSummary,
                    reporterLock>>
    BY <1>1 DEF Start, runVars
  <2>3. ASSUME NEW q \in Records PROVE FateOK(q)'
    BY <2>1, <2>2 DEF FatesOK, FateOK
  <2>4. status # "done"
    BY <2>1 DEF FatesOK, Settled
  <2> QED
    BY <1>0, <2>1, <2>2, <2>3, <2>4 DEF FatesOK
<1>2. ASSUME NEW w \in Workers, Degraded(w) PROVE FatesOK'
  <2>0. UNCHANGED <<runVars, status>> /\ pc[w] = "degraded" /\ disabled
    BY <1>2 DEF Degraded, FatesOK
  <2>1. CASE Goto(w, "count") /\ UNCHANGED <<fate, cur, got>>
    BY <1>0, <2>0, <2>1, GotoFates DEF runVars
  <2>2. CASE Finish(w, IF cur[w] \in Eligible \cap Decodable
                       THEN "silent" ELSE "passed")
    BY <1>0, <2>0, <2>2, FinishFates DEF runVars
  <2> QED
    BY <1>2, <2>1, <2>2 DEF Degraded
<1>3. ASSUME NEW w \in Workers, Count(w) PROVE FatesOK'
  <2>1. degradation # 0 /\ cur[w] \in Eligible
    BY <1>3 DEF Count, ThreadsOK, ThreadOK
  <2> QED
    BY <1>0, <1>3, <2>1, FinishFates DEF Count
<1>4. ASSUME NEW w \in Workers, Recheck(w) PROVE FatesOK'
  <2>0. UNCHANGED <<runVars, status>> /\ pc[w] = "recheck"
    BY <1>4 DEF Recheck
  <2>1. CASE Goto(w, "get") /\ UNCHANGED <<fate, cur, got>>
    BY <1>0, <2>0, <2>1, GotoFates DEF runVars
  <2>2. CASE /\ disabled \/ cur[w] \notin Eligible \cap Decodable
             /\ Finish(w, IF cur[w] \in Eligible \cap Decodable
                          THEN "silent" ELSE "passed")
    BY <1>0, <2>0, <2>2, FinishFates DEF runVars
  <2> QED
    BY <1>4, <2>1, <2>2 DEF Recheck
<1>5. ASSUME NEW w \in Workers, CacheGet(w) PROVE FatesOK'
  <2>0. /\ UNCHANGED <<status, reporterLock, disabled, degradation, rejection,
                       degradations, fileSummary>>
        /\ pc[w] = "get"
    BY <1>5 DEF CacheGet
  <2>1. CASE \E p \in {"judge", "chat"} : Goto(w, p) /\ UNCHANGED fate
    BY <1>0, <2>0, <2>1, GotoFates
  <2>2. CASE Finish(w, "raised")
    BY <1>0, <2>0, <2>2, FinishFates
  <2> QED
    BY <1>5, <2>1, <2>2 DEF CacheGet
<1>6. ASSUME NEW w \in Workers, ChatAnswers(w) PROVE FatesOK'
  BY <1>0, <1>6, GotoFates DEF ChatAnswers, runVars
<1>7. ASSUME NEW w \in Workers, ChatUnavailable(w) PROVE FatesOK'
  BY <1>0, <1>7, GotoFates DEF ChatUnavailable, runVars
<1>8. ASSUME NEW w \in Workers, ChatFails(w) PROVE FatesOK'
  BY <1>0, <1>8, FinishFates DEF ChatFails, runVars
<1>9. ASSUME NEW w \in Workers, CachePut(w) PROVE FatesOK'
  BY <1>0, <1>9, GotoFates DEF CachePut, runVars
<1>10. ASSUME NEW w \in Workers, CachePutFails(w) PROVE FatesOK'
  BY <1>0, <1>10, FinishFates DEF CachePutFails, runVars
<1>11. ASSUME NEW w \in Workers, Accept(w) PROVE FatesOK'
  <2>1. got[w] \in Texts
    BY <1>11 DEF Accept, ThreadsOK, ThreadOK
  <2> QED
    BY <1>0, <1>11, <2>1, FinishFates DEF Accept
<1>12. ASSUME NEW w \in Workers, Reject(w) PROVE FatesOK'
  <2>1. cur[w] \in Eligible \cap Decodable
    BY <1>12 DEF Reject, ThreadsOK, ThreadOK
  <2>2. rejection' # 0
    BY <1>0, <1>12 DEF Reject
  <2> QED
    BY <1>0, <1>12, <2>1, <2>2, FinishFates DEF Reject
<1>13. ASSUME NEW w \in Workers, Disable(w) PROVE FatesOK'
  <2>1. reporterLock' # NoThread
    BY <1>13, Constants DEF Disable
  <2> QED
    BY <1>0, <1>13, <2>1, GotoFates DEF Disable
<1>14. ASSUME NEW w \in Workers, Register(w) PROVE FatesOK'
  <2>1. cur[w] \in Eligible /\ disabled
    BY <1>14 DEF Register, ThreadsOK, ThreadOK, FatesOK
  <2>2. degradation' # 0
    BY <1>0, <1>14 DEF Register
  <2> QED
    BY <1>0, <1>14, <2>1, <2>2, FinishFates DEF Register
<1>15. CASE Abort
  <2>1. \A r \in Records : \/ fate'[r] = fate[r]
                           \/ fate'[r] = "cancelled" /\ fate[r] = "queued"
    BY <1>15 DEF Abort, TypeOK
  <2>2. /\ UNCHANGED <<pc, disabled, degradation, rejection, fileSummary,
                       reporterLock>>
        /\ status' = "aborting"
    BY <1>15 DEF Abort, threadVars, runVars
  <2>3. ASSUME NEW r \in Records PROVE FateOK(r)'
    BY <2>1, <2>2 DEF FatesOK, FateOK
  <2> QED
    BY <2>2, <2>3 DEF FatesOK
<1>16. CASE PoolExit
  <2>1. UNCHANGED <<fate, threadVars, runVars>> /\ Idle
    BY <1>16 DEF PoolExit
  <2>2. \A r \in Records : FateOK(r)'
    BY <2>1 DEF FatesOK, FateOK, runVars
  <2>3. status' = "done" => \A r \in Records : fate[r] \in Settled
    BY <1>16 DEF PoolExit
  <2> QED
    BY <2>1, <2>2, <2>3 DEF FatesOK, Idle, threadVars, runVars
<1>17. CASE NextRun
  <2>1. \A r \in Records : FateOK(r)'
    BY <1>17 DEF NextRun, FateOK
  <2> QED
    BY <1>17, <2>1 DEF NextRun, FatesOK
<1>18. CASE UNCHANGED vars
  BY <1>18 DEF vars, threadVars, runVars, FatesOK, FateOK, Idle
<1> QED
  BY <1>1, <1>2, <1>3, <1>4, <1>5, <1>6, <1>7, <1>8, <1>9, <1>10, <1>11,
     <1>12, <1>13, <1>14, <1>15, <1>16, <1>17, <1>18 DEF Next, ThreadStep

-----------------------------------------------------------------------------
\* What is under a record's key stays what it was, unless the record's own
\* thread, or that of a record with the same key, puts a text there.
LEMMA CacheStep ==
  TypeOK /\ ThreadsOK /\ FatesOK /\ CacheOK /\ [Next]_vars => CacheOK'
<1> SUFFICES ASSUME TypeOK, ThreadsOK, FatesOK, CacheOK, [Next]_vars
             PROVE  CacheOK'
  OBVIOUS
<1>0. \A r \in Records :
        /\ fileSummary[r] # Absent => CachedAs(r, fileSummary[r])
        /\ prior[r] # Absent => CachedAs(r, prior[r])
        /\ fate[r] = "running" => fileSummary[r] = Absent
  BY DEF CacheOK, FatesOK, FateOK
<1> DEFINE Calling == {"judge", "chat", "put"}
<1>1. ASSUME UNCHANGED <<cache, fileSummary, prior>>,
             \A v \in Workers : pc'[v] \in Calling =>
                /\ pc'[v] = pc[v] /\ cur'[v] = cur[v] /\ got'[v] = got[v]
      PROVE  CacheOK'
  <2>1. \A r, t : CachedAs(r, t)' <=> CachedAs(r, t)
    BY <1>1 DEF CachedAs, Key, Unshared
  <2> QED
    BY <1>0, <1>1, <2>1 DEF CacheOK, NoRepeatedCall
<1>2. ASSUME NEW w \in Workers, NEW f, Finish(w, f)
      PROVE  \A v \in Workers : pc'[v] \in Calling =>
                /\ pc'[v] = pc[v] /\ cur'[v] = cur[v] /\ got'[v] = got[v]
  BY <1>2 DEF Finish, TypeOK
<1>3. ASSUME NEW w \in Workers, NEW p, Goto(w, p), UNCHANGED <<cur, got>>,
             p \notin Calling
      PROVE  \A v \in Workers : pc'[v] \in Calling =>
                /\ pc'[v] = pc[v] /\ cur'[v] = cur[v] /\ got'[v] = got[v]
  BY <1>3 DEF Goto, TypeOK
<1>4. ASSUME NEW w \in Workers, NEW r \in Records, Start(w, r) PROVE CacheOK'
  <2>1. \A v \in Workers : pc'[v] \in Calling =>
          /\ pc'[v] = pc[v] /\ cur'[v] = cur[v] /\ got'[v] = got[v]
    BY <1>4 DEF Start, Goto, TypeOK
  <2> QED
    BY <1>1, <1>4, <2>1 DEF Start, runVars
<1>5. ASSUME NEW w \in Workers,
             \/ Degraded(w) \/ Count(w) \/ Recheck(w)
             \/ ChatUnavailable(w) \/ ChatFails(w)
             \/ CachePutFails(w) \/ Reject(w) \/ Disable(w) \/ Register(w)
      PROVE  CacheOK'
  <2>1. UNCHANGED <<cache, fileSummary, prior>>
    BY <1>5 DEF Degraded, Count, Recheck, ChatUnavailable, ChatFails,
       CachePutFails, Reject, Disable, Register, runVars
  <2>2. \/ \E f : Finish(w, f)
        \/ \E p : Goto(w, p) /\ UNCHANGED <<cur, got>> /\ p \notin Calling
    BY <1>5 DEF Degraded, Count, Recheck, ChatUnavailable, ChatFails,
       CachePutFails, Reject, Disable, Register
  <2> QED
    BY <1>1, <1>2, <1>3, <2>1, <2>2
<1>6. ASSUME NEW w \in Workers, CacheGet(w) PROVE CacheOK'
  <2>0. UNCHANGED <<cache, fileSummary, prior>> /\ cur[w] \in Records
    BY <1>6 DEF CacheGet, ThreadsOK, ThreadOK
  <2>1. \A r, t : CachedAs(r, t)' <=> CachedAs(r, t)
    BY <2>0 DEF CachedAs, Key, Unshared
  <2>2. CASE /\ cache[Key(cur[w])] \in Texts
             /\ got' = [got EXCEPT ![w] = cache[Key(cur[w])]]
             /\ Goto(w, "judge") /\ UNCHANGED cur
    <3>1. /\ pc'[w] = "judge" /\ got'[w] = cache[Key(cur[w])]
          /\ \A v \in Workers \ {w} : pc'[v] = pc[v] /\ got'[v] = got[v]
      BY <2>2 DEF Goto, TypeOK
    <3>2. CachedAs(cur[w], got'[w])
      BY <2>2, <3>1 DEF CachedAs
    <3> QED
      BY <1>0, <2>0, <2>1, <2>2, <3>1, <3>2 DEF CacheOK, NoRepeatedCall
  <2>3. CASE /\ cache[Key(cur[w])] = Absent
             /\ Goto(w, "chat") /\ UNCHANGED <<cur, got>>
    <3>1. /\ pc'[w] = "chat"
          /\ \A v \in Workers \ {w} : pc'[v] = pc[v]
      BY <2>3 DEF Goto, TypeOK
    <3>2. prior[cur[w]] = Absent
      BY <1>0, <2>0, <2>3, Constants DEF CachedAs
    <3> QED
      BY <1>0, <2>0, <2>1, <2>3, <3>1, <3>2 DEF CacheOK, NoRepeatedCall
  <2>4. CASE \E f : Finish(w, f)
    BY <1>1, <1>2, <2>0, <2>4
  <2> QED
    BY <1>6, <2>2, <2>3, <2>4 DEF CacheGet
<1>7. ASSUME NEW w \in Workers, ChatAnswers(w) PROVE CacheOK'
  <2>0. UNCHANGED <<cache, fileSummary, prior, cur>> /\ pc[w] = "chat"
    BY <1>7 DEF ChatAnswers, runVars
  <2>1. \A r, t : CachedAs(r, t)' <=> CachedAs(r, t)
    BY <2>0 DEF CachedAs, Key, Unshared
  <2>2. /\ pc'[w] = "put"
        /\ \A v \in Workers \ {w} : pc'[v] = pc[v] /\ got'[v] = got[v]
    BY <1>7 DEF ChatAnswers, Goto, TypeOK
  <2> QED
    BY <1>0, <2>0, <2>1, <2>2 DEF CacheOK, NoRepeatedCall
<1>8. ASSUME NEW w \in Workers, CachePut(w) PROVE CacheOK'
  <2>0. /\ UNCHANGED <<fileSummary, prior, cur, got>> /\ pc[w] = "put"
        /\ cache' = [cache EXCEPT ![Key(cur[w])] = got[w]]
        /\ cur[w] \in Records /\ got[w] \in Texts /\ fate[cur[w]] = "running"
    BY <1>8 DEF CachePut, runVars, ThreadsOK, ThreadOK
  <2>1. /\ pc'[w] = "judge"
        /\ \A v \in Workers \ {w} : pc'[v] = pc[v]
    BY <1>8 DEF CachePut, Goto, TypeOK
  <2>2. Key(cur[w]) \in Keys /\ \A r \in Records : Key(r) \in Keys
    BY <2>0, EnrichmentAssumption DEF Key
  <2>3. CachedAs(cur[w], got[w])'
    BY <2>0, <2>2 DEF CachedAs, Key, TypeOK
  <2>4. ASSUME NEW r \in Records, NEW t, CachedAs(r, t), r # cur[w]
        PROVE  CachedAs(r, t)'
    BY <2>0, <2>2, <2>4 DEF CachedAs, Key, Unshared, TypeOK
  <2>5. fileSummary[cur[w]] = Absent /\ prior[cur[w]] = Absent
    BY <1>0, <2>0 DEF CacheOK, NoRepeatedCall
  <2>6. \A v \in Workers \ {w} : pc[v] = "judge" =>
          cur[v] \in Records /\ cur[v] # cur[w]
    BY <2>0 DEF ThreadsOK, ThreadOK
  <2> QED
    BY <1>0, <2>0, <2>1, <2>3, <2>4, <2>5, <2>6 DEF CacheOK, NoRepeatedCall
<1>9. ASSUME NEW w \in Workers, Accept(w) PROVE CacheOK'
  <2>0. /\ UNCHANGED <<cache, prior>> /\ pc[w] = "judge"
        /\ fileSummary' = [fileSummary EXCEPT ![cur[w]] = got[w]]
        /\ \A v \in Workers : pc'[v] \in Calling =>
             /\ pc'[v] = pc[v] /\ cur'[v] = cur[v] /\ got'[v] = got[v]
    BY <1>2, <1>9 DEF Accept
  <2>1. \A r, t : CachedAs(r, t)' <=> CachedAs(r, t)
    BY <2>0 DEF CachedAs, Key, Unshared
  <2>2. CachedAs(cur[w], got[w])
    BY <2>0 DEF CacheOK
  <2>3. \A r \in Records :
          fileSummary'[r] = IF r = cur[w] THEN got[w] ELSE fileSummary[r]
    BY <2>0 DEF TypeOK
  <2> QED
    BY <1>0, <2>0, <2>1, <2>2, <2>3 DEF CacheOK, NoRepeatedCall
<1>10. CASE Abort \/ PoolExit
  BY <1>1, <1>10 DEF Abort, PoolExit, threadVars, runVars
<1>11. CASE NextRun
  <2>1. \A r, t : CachedAs(r, t)' <=> CachedAs(r, t)
    BY <1>11 DEF NextRun, CachedAs, Key, Unshared
  <2>2. /\ \A w \in Workers : pc'[w] = "idle"
        /\ \A r \in Records : fileSummary'[r] = Absent
        /\ prior' = fileSummary \/ prior' = prior
    BY <1>11 DEF NextRun
  <2> QED
    BY <1>0, <2>1, <2>2 DEF CacheOK, NoRepeatedCall
<1>12. CASE UNCHANGED vars
  BY <1>1, <1>12 DEF vars, threadVars, runVars
<1> QED
  BY <1>4, <1>5, <1>6, <1>7, <1>8, <1>9, <1>10, <1>11, <1>12
     DEF Next, ThreadStep

-----------------------------------------------------------------------------
\* A thread between its check of _disabled and the cache is the only one that
\* can still begin a call, and the thread that registered is not one.
LEMMA LateStep ==
  TypeOK /\ ThreadsOK /\ FatesOK /\ LateOK /\ [Next]_vars => LateOK'
<1> SUFFICES ASSUME TypeOK, ThreadsOK, FatesOK, LateOK, [Next]_vars
             PROVE  LateOK'
  OBVIOUS
<1>0. /\ IsFiniteSet(Workers) /\ Cardinality(Workers) \in Nat
      /\ IsFiniteSet(Gets) /\ Cardinality(Gets) \in Nat
      /\ lateCalls \in Nat
  BY EnrichmentAssumption, FS_CardinalityType, FS_Subset DEF Gets, TypeOK
<1>1. ASSUME Gets' = Gets, UNCHANGED <<degradation, lateCalls>>
      PROVE  LateOK'
  BY <1>1 DEF LateOK
<1>2. ASSUME NEW w \in Workers, NEW p, pc' = [pc EXCEPT ![w] = p],
             pc[w] # "get", p # "get"
      PROVE  Gets' = Gets
  BY <1>2 DEF Gets, TypeOK
<1>3. ASSUME NEW w \in Workers, NEW r \in Records, Start(w, r) PROVE LateOK'
  <2>1. pc[w] # "get" /\ \E p \in {"degraded", "recheck"} : Goto(w, p)
    BY <1>3 DEF Start
  <2> QED
    BY <1>1, <1>2, <1>3, <2>1 DEF Start, Goto, runVars
<1>4. ASSUME NEW w \in Workers,
             \/ Degraded(w) \/ Count(w) \/ ChatAnswers(w)
             \/ ChatUnavailable(w) \/ ChatFails(w) \/ CachePut(w)
             \/ CachePutFails(w) \/ Accept(w) \/ Reject(w) \/ Disable(w)
      PROVE  LateOK'
  <2>1. UNCHANGED <<degradation, lateCalls>> /\ pc[w] # "get"
    BY <1>4 DEF Degraded, Count, ChatAnswers, ChatUnavailable, ChatFails,
       CachePut, CachePutFails, Accept, Reject, Disable, runVars
  <2>2. \E p \in Steps \ {"get"} : pc' = [pc EXCEPT ![w] = p]
    BY <1>4 DEF Degraded, Count, ChatAnswers, ChatUnavailable, ChatFails,
       CachePut, CachePutFails, Accept, Reject, Disable, Goto, Finish, Steps
  <2> QED
    BY <1>1, <1>2, <2>1, <2>2
<1>5. ASSUME NEW w \in Workers, Recheck(w) PROVE LateOK'
  <2>0. UNCHANGED <<degradation, lateCalls>> /\ pc[w] = "recheck"
    BY <1>5 DEF Recheck, runVars
  <2>1. CASE ~disabled
    BY <1>0, <2>0, <2>1 DEF FatesOK, LateOK
  <2>2. CASE \E f : Finish(w, f)
    BY <1>1, <1>2, <2>0, <2>2 DEF Finish
  <2> QED
    BY <1>5, <2>1, <2>2 DEF Recheck
<1>6. ASSUME NEW w \in Workers, CacheGet(w) PROVE LateOK'
  <2>1. /\ w \in Gets /\ UNCHANGED degradation
        /\ lateCalls' = lateCalls \/ lateCalls' = lateCalls + 1
        /\ degradation = 0 => lateCalls' = lateCalls
    BY <1>0, <1>6 DEF CacheGet, Gets
  <2>2. \E p \in Steps \ {"get"} : pc' = [pc EXCEPT ![w] = p]
    BY <1>6 DEF CacheGet, Goto, Finish, Steps
  <2>3. Gets' = Gets \ {w}
    BY <2>2 DEF Gets, TypeOK
  <2>4. Cardinality(Gets') = Cardinality(Gets) - 1
    BY <1>0, <2>1, <2>3, FS_RemoveElement
  <2> QED
    BY <1>0, <2>1, <2>4 DEF LateOK
<1>7. ASSUME NEW w \in Workers, Register(w) PROVE LateOK'
  <2>1. /\ lateCalls' = lateCalls /\ w \notin Gets
        /\ degradation # 0 => UNCHANGED degradation
        /\ pc' = [pc EXCEPT ![w] = "idle"] /\ pc[w] # "get"
    BY <1>7 DEF Register, Finish, Gets
  <2>2. Gets' = Gets
    BY <1>2, <2>1
  <2>3. Cardinality(Gets) < Cardinality(Workers)
    <3>1. Gets \subseteq Workers \ {w}
      BY <2>1 DEF Gets
    <3>2. /\ IsFiniteSet(Workers \ {w})
          /\ Cardinality(Workers \ {w}) = Cardinality(Workers) - 1
      BY <1>0, FS_RemoveElement
    <3>3. Cardinality(Gets) <= Cardinality(Workers \ {w})
      BY <3>1, <3>2, FS_Subset
    <3> QED
      BY <1>0, <3>2, <3>3
  <2>4. CASE degradation = 0
    <3>1. lateCalls' = 0 /\ degradation' # 0
      BY <1>7, <2>1, <2>4 DEF Register, LateOK, TypeOK
    <3> QED
      BY <1>0, <2>2, <2>3, <3>1 DEF LateOK
  <2>5. CASE degradation # 0
    BY <1>1, <2>1, <2>2, <2>5
  <2> QED
    BY <2>4, <2>5
<1>8. CASE Abort \/ PoolExit
  <2>1. UNCHANGED <<pc, degradation, lateCalls>>
    BY <1>8 DEF Abort, PoolExit, threadVars, runVars
  <2> QED
    BY <1>1, <2>1 DEF Gets
<1>9. CASE NextRun
  BY <1>9 DEF NextRun, LateOK
<1>10. CASE UNCHANGED vars
  BY <1>1, <1>10 DEF vars, threadVars, runVars, Gets
<1> QED
  BY <1>3, <1>4, <1>5, <1>6, <1>7, <1>8, <1>9, <1>10 DEF Next, ThreadStep

-----------------------------------------------------------------------------
\* The files of a run are finitely many ...
LEMMA RecordsFinite == IsFiniteSet(Records)
  BY Constants, FS_Interval DEF Records

\* ... and so are those of any one fate.
LEMMA WithFinite ==
  ASSUME NEW f
  PROVE  IsFiniteSet(With(f)) /\ Cardinality(With(f)) \in Nat
<1>1. With(f) \in SUBSET Records
  BY DEF With
<1> QED
  BY <1>1, RecordsFinite, FS_Subset, FS_CardinalityType

\* A future that settles adds its record to the ones of the same fate.
LEMMA FinishCounts ==
  ASSUME TypeOK, ThreadsOK, NEW w \in Workers, NEW f, Finish(w, f),
         pc[w] # "idle", NEW g \in {"counted", "rejected"}
  PROVE  Cardinality(With(g))' =
           Cardinality(With(g)) + (IF f = g THEN 1 ELSE 0)
<1>1. cur[w] \in Records /\ fate[cur[w]] = "running"
  BY DEF ThreadsOK, ThreadOK
<1>2. With(g)' = IF f = g THEN With(g) \cup {cur[w]} ELSE With(g)
  BY <1>1 DEF Finish, With, TypeOK
<1>3. cur[w] \notin With(g)
  BY <1>1 DEF With
<1>4. Cardinality(With(g) \cup {cur[w]}) = Cardinality(With(g)) + 1
  BY <1>3, WithFinite, FS_AddElement
<1>5. Cardinality(With(g)) \in Nat
  BY WithFinite
<1> QED
  BY <1>2, <1>4, <1>5

\* Each bump of a tally goes with one record that the run loses.
LEMMA TalliesStep ==
  TypeOK /\ ThreadsOK /\ EntriesOK /\ TalliesExact /\ [Next]_vars
    => TalliesExact'
<1> SUFFICES ASSUME TypeOK, ThreadsOK, EntriesOK, TalliesExact, [Next]_vars
             PROVE  TalliesExact'
  OBVIOUS
<1>0. /\ DOMAIN degradations = 1 .. Len(degradations)
      /\ Len(degradations) \in Nat
      /\ degradation \in 0 .. Len(degradations)
      /\ rejection \in 0 .. Len(degradations)
      /\ degradation # 0 => degradation # rejection
  BY LenProperties DEF TypeOK, EntriesOK
<1>s. \A j \in 1 .. Len(degradations) : degradations[j].skipped \in Nat
  <2>1. \A j \in 1 .. Len(degradations) : degradations[j] \in Entry
    BY ElementOfSeq DEF TypeOK
  <2> QED
    BY <2>1 DEF Entry
<1>1. ASSUME UNCHANGED <<degradations, degradation, rejection>>,
             \A g \in {"counted", "rejected"} : With(g)' = With(g)
      PROVE  TalliesExact'
  BY <1>1 DEF TalliesExact, Skipped
<1>2. ASSUME NEW w \in Workers, Finish(w, "counted"), pc[w] # "idle",
             UNCHANGED rejection,
             \/ /\ degradation # 0 /\ degradations' = Tally(degradation)
                /\ UNCHANGED degradation
             \/ /\ degradation = 0 /\ degradation' = Len(degradations) + 1
                /\ degradations' = Append(degradations,
                     [reason  |-> "client_failure_self_disabled",
                      skipped |-> 1])
      PROVE  TalliesExact'
  <2>1. /\ Cardinality(With("counted"))' = Cardinality(With("counted")) + 1
        /\ Cardinality(With("rejected"))' = Cardinality(With("rejected"))
    BY <1>2, FinishCounts, WithFinite
  <2>2. CASE degradation # 0
    <3>1. /\ UNCHANGED degradation
          /\ degradation' \in 1 .. Len(degradations)
          /\ \A j \in 1 .. Len(degradations) :
               degradations'[j].skipped =
                 degradations[j].skipped + (IF j = degradation THEN 1 ELSE 0)
      BY <1>0, <1>2, <2>2, TallyTyped
    <3> QED
      BY <1>0, <1>s, <1>2, <2>1, <2>2, <3>1 DEF TalliesExact, Skipped
  <2>3. CASE degradation = 0
    <3>1. /\ \A j \in 1 .. Len(degradations) :
               degradations'[j] = degradations[j]
          /\ degradations'[degradation'].skipped = 1 /\ degradation' # 0
      BY <1>0, <1>2, <2>3, AppendTyped DEF Entry
    <3> QED
      BY <1>0, <1>2, <2>1, <2>3, <3>1 DEF TalliesExact, Skipped
  <2> QED
    BY <2>2, <2>3
<1>3. ASSUME NEW w \in Workers, Reject(w) PROVE TalliesExact'
  <2>1. /\ Cardinality(With("rejected"))' = Cardinality(With("rejected")) + 1
        /\ Cardinality(With("counted"))' = Cardinality(With("counted"))
    BY <1>3, FinishCounts, WithFinite DEF Reject
  <2>2. CASE rejection # 0
    <3>1. /\ UNCHANGED <<degradation, rejection>>
          /\ \A j \in 1 .. Len(degradations) :
               degradations'[j].skipped =
                 degradations[j].skipped + (IF j = rejection THEN 1 ELSE 0)
      BY <1>0, <1>3, <2>2, TallyTyped DEF Reject
    <3> QED
      BY <1>0, <1>s, <2>1, <2>2, <3>1 DEF TalliesExact, Skipped
  <2>3. CASE rejection = 0
    <3>1. /\ \A j \in 1 .. Len(degradations) :
               degradations'[j] = degradations[j]
          /\ degradations'[rejection'].skipped = 1 /\ rejection' # 0
          /\ UNCHANGED degradation
      BY <1>0, <1>3, <2>3, AppendTyped DEF Reject, Entry
    <3> QED
      BY <1>0, <2>1, <2>3, <3>1 DEF TalliesExact, Skipped
  <2> QED
    BY <2>2, <2>3
<1>4. ASSUME NEW w \in Workers, Count(w) PROVE TalliesExact'
  BY <1>2, <1>4 DEF Count, ThreadsOK, ThreadOK
<1>5. ASSUME NEW w \in Workers, Register(w) PROVE TalliesExact'
  BY <1>2, <1>5 DEF Register
<1>6. ASSUME NEW w \in Workers, ThreadStep(w), ~Registers(w)
      PROVE  \A g \in {"counted", "rejected"} : With(g)' = With(g)
  <2>1. ASSUME NEW f \in {"silent", "passed", "raised", "enriched"},
               Finish(w, f), pc[w] # "idle",
               NEW g \in {"counted", "rejected"}
        PROVE  With(g)' = With(g)
    <3>1. fate[cur[w]] = "running" /\ cur[w] \in Records
      BY <2>1 DEF ThreadsOK, ThreadOK
    <3> QED
      BY <2>1, <3>1 DEF Finish, With, TypeOK
  <2>2. ASSUME UNCHANGED fate, NEW g PROVE With(g)' = With(g)
    BY <2>2 DEF With
  <2>3. ASSUME NEW r \in Records, Start(w, r),
               NEW g \in {"counted", "rejected"}
        PROVE  With(g)' = With(g)
    BY <2>3 DEF Start, With, TypeOK
  <2>4. CASE Degraded(w)
    BY <2>1, <2>2, <2>4 DEF Degraded
  <2>5. CASE Recheck(w)
    BY <2>1, <2>2, <2>5 DEF Recheck
  <2>6. CASE CacheGet(w)
    BY <2>1, <2>2, <2>6 DEF CacheGet
  <2>7. CASE ChatFails(w) \/ CachePutFails(w) \/ Accept(w)
    BY <2>1, <2>7 DEF ChatFails, CachePutFails, Accept
  <2>8. CASE ChatAnswers(w) \/ ChatUnavailable(w) \/ CachePut(w) \/ Disable(w)
    BY <2>2, <2>8 DEF ChatAnswers, ChatUnavailable, CachePut, Disable
  <2> QED
    BY <1>6, <2>3, <2>4, <2>5, <2>6, <2>7, <2>8 DEF ThreadStep, Registers
<1>7. CASE Abort
  BY <1>1, <1>7 DEF Abort, With, TypeOK, runVars
<1>8. CASE PoolExit
  BY <1>1, <1>8 DEF PoolExit, With, runVars
<1>9. CASE NextRun
  <2>1. With("counted")' = {} /\ With("rejected")' = {}
    BY <1>9 DEF NextRun, With
  <2>2. degradation' = 0 /\ rejection' = 0
    BY <1>9 DEF NextRun
  <2> QED
    BY <2>1, <2>2, FS_EmptySet DEF TalliesExact, Skipped
<1>10. CASE UNCHANGED vars
  BY <1>1, <1>10 DEF vars, runVars, With
<1> QED
  BY <1>1, <1>3, <1>4, <1>5, <1>6, <1>7, <1>8, <1>9, <1>10, EntriesFrame
     DEF Next, Registers

-----------------------------------------------------------------------------
\* The whole invariant holds of every run: initially, and across each step.
LEMMA InitInv == Init => Inv
<1> SUFFICES ASSUME Init PROVE Inv
  OBVIOUS
<1>1. TypeOK /\ ThreadsOK /\ EntriesOK
  BY InitTyped
<1>2. FatesOK
  BY DEF Init, FatesOK, FateOK
<1>3. CacheOK
  BY DEF Init, CacheOK, NoRepeatedCall
<1>4. LateOK
  BY DEF Init, LateOK
<1>5. TalliesExact
  <2>1. With("counted") = {} /\ With("rejected") = {}
    BY DEF Init, With
  <2> QED
    BY <2>1, FS_EmptySet DEF Init, TalliesExact, Skipped
<1> QED
  BY <1>1, <1>2, <1>3, <1>4, <1>5 DEF Inv

\* No step of a thread, of the pool or of the host breaks any part of it.
LEMMA InvStep == Inv /\ [Next]_vars => Inv'
  BY TypeStep, ThreadsStep, EntriesStep, FatesStep, CacheStep, LateStep,
     TalliesStep DEF Inv

\* So every state of every run has it, whatever the number of threads,
\* records and keys, and however often the run is repeated or killed.
THEOREM Invariance == Spec => []Inv
  BY InitInv, InvStep, PTL DEF Spec

\* Every variable keeps its type.
THEOREM Typing == Spec => []TypeOK
<1>1. Inv => TypeOK
  BY DEF Inv
<1> QED
  BY <1>1, Invariance, PTL

\* However many threads fail at once, one entry per cause is registered.
THEOREM EntryPerCause == Spec => []OneEntryPerCause
<1>1. Inv => OneEntryPerCause
  <2> SUFFICES ASSUME Inv PROVE OneEntryPerCause
    OBVIOUS
  <2>1. \A i \in DOMAIN degradations : degradations[i] \in Entry
    BY ElementOfSeq, LenProperties DEF Inv, TypeOK
  <2> QED
    BY <2>1 DEF Inv, EntriesOK, Entry, OneEntryPerCause
<1> QED
  BY <1>1, Invariance, PTL

\* No bump of a tally is lost or made twice.
THEOREM ExactTallies == Spec => []TalliesExact
<1>1. Inv => TalliesExact
  BY DEF Inv
<1> QED
  BY <1>1, Invariance, PTL

\* What the entries disclose is what the run has lost, less the records that
\* slipped past the outage, plus the ones that would not have decoded.
THEOREM Balance == Spec => []LossesBalance
<1>1. Inv => LossesBalance
  <2> SUFFICES ASSUME Inv PROVE LossesBalance
    OBVIOUS
  <2> DEFINE counted == With("counted")
             rejected == With("rejected")
             extra == counted \ Decodable
             owed == counted \cap Decodable
  <2>1. Lost \ With("silent") = owed \cup rejected
    BY EnrichmentAssumption
       DEF Inv, FatesOK, FateOK, With, Lost, Settled
  <2>2. /\ owed \cap rejected = {} /\ owed \cap extra = {}
        /\ owed \cup extra = counted
    BY DEF With
  <2>3. /\ IsFiniteSet(counted) /\ IsFiniteSet(rejected)
        /\ Cardinality(counted) \in Nat /\ Cardinality(rejected) \in Nat
    BY WithFinite
  <2>4. /\ IsFiniteSet(owed) /\ IsFiniteSet(extra)
        /\ Cardinality(owed) \in Nat /\ Cardinality(extra) \in Nat
    <3>1. owed \subseteq counted /\ extra \subseteq counted
      OBVIOUS
    <3> QED
      BY <2>3, <3>1, FS_Subset, FS_CardinalityType
  <2> HIDE DEF counted, rejected, extra, owed
  <2>5. Cardinality(owed \cup rejected)
          = Cardinality(owed) + Cardinality(rejected)
    <3>1. Cardinality(owed \cap rejected) = 0
      BY <2>2, FS_EmptySet
    <3>2. Cardinality(owed \cup rejected)
            = Cardinality(owed) + Cardinality(rejected)
                - Cardinality(owed \cap rejected)
      BY <2>3, <2>4, FS_Union
    <3> QED
      BY <2>3, <2>4, <3>1, <3>2
  <2>6. Cardinality(counted) = Cardinality(owed) + Cardinality(extra)
    <3>1. Cardinality(owed \cap extra) = 0
      BY <2>2, FS_EmptySet
    <3>2. Cardinality(owed \cup extra)
            = Cardinality(owed) + Cardinality(extra)
                - Cardinality(owed \cap extra)
      BY <2>4, FS_Union
    <3>3. Cardinality(counted) = Cardinality(owed \cup extra)
      BY <2>2
    <3> QED
      BY ONLY <2>4, <3>1, <3>2, <3>3
  <2>7. /\ Skipped(degradation) = Cardinality(counted)
        /\ Skipped(rejection) = Cardinality(rejected)
    BY DEF Inv, TalliesExact, counted, rejected
  <2>8. Cardinality(Lost \ With("silent"))
          = Cardinality(owed) + Cardinality(rejected)
    BY <2>1, <2>5
  <2>9. Cardinality(With("counted") \ Decodable) = Cardinality(extra)
    BY DEF extra, counted
  <2> QED
    BY <2>3, <2>4, <2>6, <2>7, <2>8, <2>9 DEF LossesBalance
<1> QED
  BY <1>1, Invariance, PTL

\* A completed run that left a summarisable record without a summary says so.
THEOREM Disclosure == Spec => []LossIsDisclosed
<1>1. Inv => LossIsDisclosed
  <2> SUFFICES ASSUME Inv, status = "done",
                      NEW r \in Lost
               PROVE  \E i \in DOMAIN degradations :
                        degradations[i].skipped > 0
    BY DEF LossIsDisclosed
  <2>1. /\ r \in Records /\ FateOK(r)
        /\ fate[r] \in {"counted", "rejected", "silent"}
    <3>1. r \in Records /\ FateOK(r)
      BY EnrichmentAssumption DEF Inv, FatesOK, Lost
    <3> QED
      BY <3>1 DEF Lost, FateOK, Settled
  <2>2. reporterLock = NoThread
    BY DEF Inv, FatesOK, Idle, ThreadsOK, ThreadOK, TypeOK
  <2>3. degradation # 0 \/ rejection # 0
    BY <2>1, <2>2 DEF Inv, FatesOK, FateOK
  <2>4. /\ degradation # 0 => degradation \in DOMAIN degradations
        /\ rejection # 0 => rejection \in DOMAIN degradations
    BY LenProperties DEF Inv, TypeOK
  <2> QED
    BY <2>3, <2>4 DEF Inv, EntriesOK
<1> QED
  BY <1>1, Invariance, PTL

\* Once the outage is registered at most one call per other thread is made.
THEOREM LateCalls == Spec => []LateCallsBounded
<1>1. Inv => LateCallsBounded
  <2> SUFFICES ASSUME Inv PROVE LateCallsBounded
    OBVIOUS
  <2>1. /\ Cardinality(Workers) \in Nat /\ Cardinality(Workers) # 0
        /\ IsFiniteSet(Workers)
    BY EnrichmentAssumption, FS_CardinalityType, FS_EmptySet
  <2>2. Cardinality(Gets) \in Nat
    BY <2>1, FS_Subset, FS_CardinalityType DEF Gets
  <2> QED
    BY <2>1, <2>2 DEF Inv, LateOK, TypeOK, LateCallsBounded
<1> QED
  BY <1>1, Invariance, PTL

\* What an earlier run summarised is not asked of the model again.
THEOREM NoRepeat == Spec => []NoRepeatedCall
<1>1. Inv => NoRepeatedCall
  BY DEF Inv, CacheOK
<1> QED
  BY <1>1, Invariance, PTL

\* A re-emit reproduces the summary of every file with content of its own.
THEOREM ReemitUnshared == Spec => []UnsharedReemitStable
<1>1. Inv => UnsharedReemitStable
  BY DEF Inv, CacheOK, CachedAs, UnsharedReemitStable
<1> QED
  BY <1>1, Invariance, PTL

=============================================================================
