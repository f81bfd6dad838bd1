------------------------ MODULE LlmAggregatorProofs ------------------------
(***************************************************************************)
(* Every safety property of LlmAggregator, for any targets, keys, texts    *)
(* and number of runs.  The counts are the hard part: at any point of a    *)
(* walk, what is disclosed as unfit is the number of readable targets      *)
(* behind it that have no text, and an outage counts all that is ahead.    *)
(***************************************************************************)
EXTENDS LlmAggregator, FiniteSetTheorems, TLAPS

First == "concept_description"
Second == "schema_purpose"
Unfits == "output_failed_validation"
Outage == "client_failure_self_disabled"

\* Both references and both causes: an entry of rejections is the one its
\* kind's reference points to, an entry of an outage is the only one.
RefsOK ==
  /\ \A k \in Kinds : rejections[k] # 0 => IsEntry(rejections[k], k, Unfits)
  /\ \A i \in DOMAIN degradations :
       degradations[i].reason = Unfits => rejections[degradations[i].kind] = i
  /\ \A i \in DOMAIN degradations :
       degradations[i].reason = Outage
         => disabled /\ degradations[i].skipped # 0
  /\ \A i, j \in DOMAIN degradations :
       degradations[i].reason = Outage /\ degradations[j].reason = Outage
         => i = j

\* A walk in progress was asked for, and is not disabled.
LatchOK ==
  /\ phase \in Kinds /\ idx # 0 => phase \in scopes /\ ~disabled
  /\ phase = First => ~disabled
  /\ phase = Second /\ disabled => OutOf(First) # 0

Over(k) == phase = "done" \/ (k = First /\ phase = Second)

\* How many targets of the kind the walk has dealt with.
Walked(k) ==
  IF phase = k THEN IF idx = 0 THEN 0 ELSE idx - 1
  ELSE IF Over(k) /\ Entered(k) THEN Len(Walk[k]) - OutOf(k)
  ELSE 0

Dropped(k) ==
  {i \in 1 .. Walked(k) :
     Walk[k][i] \notin Unreadable /\ bucket[Walk[k][i]] = Absent}

CountOK(k) ==
  /\ OutOf(k) # 0 => OutOf(k) <= Len(Walk[k]) /\ Over(k)
  /\ Unfit(k) = Cardinality(Dropped(k))
  /\ \A i \in DOMAIN Walk[k] : i > Walked(k) => bucket[Walk[k][i]] = Absent

CountsOK == phase # "raised" => \A k \in Kinds : CountOK(k)

\* What was published, or judged, is in the cache; what is asked about was
\* not judged before.
CacheOK ==
  /\ \A t \in Targets :
       /\ bucket[t] # Absent
            => bucket[t] = cache[KeyOf[t]] /\ bucket[t] \in rules
       /\ prior[t] # Absent => prior[t] = cache[KeyOf[t]]
       /\ judged[t] # 0 => cache[KeyOf[t]] \in Texts
       /\ t \in asked => judged[t] \in {0, run}

Inv == TypeOK /\ RefsOK /\ LatchOK /\ CountsOK /\ CacheOK

-----------------------------------------------------------------------------
\* What the proofs need of the constants.
LEMMA Constants ==
  /\ \A k \in Kinds : /\ Len(Walk[k]) \in Nat
                      /\ DOMAIN Walk[k] = 1 .. Len(Walk[k])
                      /\ \A i \in DOMAIN Walk[k] : Walk[k][i] \in Targets
  /\ \A k, l \in Kinds : \A i \in DOMAIN Walk[k], j \in DOMAIN Walk[l] :
       Walk[k][i] = Walk[l][j] => k = l /\ i = j
  /\ \A t \in Targets : KeyOf[t] \in Keys
  /\ Absent \notin Texts /\ BadUtf8 \notin Texts /\ Absent # BadUtf8
  /\ MaxRuns \in Nat \ {0}
<1>1. ASSUME NEW k \in Kinds
      PROVE  /\ Len(Walk[k]) \in Nat
             /\ DOMAIN Walk[k] = 1 .. Len(Walk[k])
             /\ \A i \in DOMAIN Walk[k] :
                  Walk[k][i] \in Targets /\ Walk[k][i] \in TargetsOf(k)
  <2>1. Walk[k] \in Seq(TargetsOf(k))
    BY LlmAggregatorAssumption
  <2>2. \A i \in DOMAIN Walk[k] : Walk[k][i] \in TargetsOf(k)
    BY DEF TargetsOf
  <2> QED
    BY <2>1, <2>2 DEF Targets
<1>2. ASSUME NEW k \in Kinds, NEW l \in Kinds,
             NEW i \in DOMAIN Walk[k], NEW j \in DOMAIN Walk[l],
             Walk[k][i] = Walk[l][j]
      PROVE  k = l /\ i = j
  <2>1. k = l
    BY <1>1, <1>2, LlmAggregatorAssumption DEF Kinds
  <2> QED
    BY <1>2, <2>1, LlmAggregatorAssumption
<1> QED
  BY <1>1, <1>2, LlmAggregatorAssumption

\* What is disclosed, in terms of the references.
DisclosedFacts ==
  \A k \in Kinds :
    /\ Unfit(k) = IF rejections[k] = 0 THEN 0
                  ELSE degradations[rejections[k]].skipped
    /\ \A i \in DOMAIN degradations :
         IsEntry(i, k, Outage) => OutOf(k) = degradations[i].skipped
    /\ (\A i \in DOMAIN degradations : ~IsEntry(i, k, Outage)) => OutOf(k) = 0
    /\ ~disabled => OutOf(k) = 0
    /\ Unfit(k) \in Nat /\ OutOf(k) \in Nat

\* An entry is found by its kind and reason: there is one.
LEMMA DisclosedIs == TypeOK /\ RefsOK => DisclosedFacts
<1> SUFFICES ASSUME TypeOK, RefsOK, NEW k \in Kinds
    PROVE  /\ Unfit(k) = IF rejections[k] = 0 THEN 0
                         ELSE degradations[rejections[k]].skipped
           /\ \A i \in DOMAIN degradations :
                IsEntry(i, k, Outage) => OutOf(k) = degradations[i].skipped
           /\ (\A i \in DOMAIN degradations : ~IsEntry(i, k, Outage))
                => OutOf(k) = 0
           /\ ~disabled => OutOf(k) = 0
           /\ Unfit(k) \in Nat /\ OutOf(k) \in Nat
  BY DEF DisclosedFacts
<1>1. \A i \in DOMAIN degradations : degradations[i] \in Entry
  BY DEF TypeOK
<1>2. \A i \in DOMAIN degradations :
        degradations[i].skipped \in Nat /\ degradations[i].kind \in Kinds
  BY <1>1 DEF Entry
<1>3. ASSUME NEW i \in DOMAIN degradations, NEW r, IsEntry(i, k, r),
             \A j \in DOMAIN degradations : IsEntry(j, k, r) => j = i
      PROVE  Disclosed(k, r) = degradations[i].skipped
  BY <1>3 DEF Disclosed
<1>4. ASSUME NEW i \in DOMAIN degradations, IsEntry(i, k, Unfits)
      PROVE  Unfit(k) = degradations[i].skipped /\ rejections[k] = i /\ i # 0
  <2>1. \A j \in DOMAIN degradations : IsEntry(j, k, Unfits) => j = i
    BY <1>4 DEF RefsOK, IsEntry
  <2>2. rejections[k] = i /\ i # 0
    BY <1>4 DEF RefsOK, IsEntry, TypeOK
  <2> QED
    BY <1>3, <1>4, <2>1, <2>2 DEF Unfit, Unfits
<1>5. (\A i \in DOMAIN degradations : ~IsEntry(i, k, Unfits))
        => Unfit(k) = 0 /\ rejections[k] = 0
  BY DEF Unfit, Unfits, Disclosed, RefsOK, IsEntry
<1>6. ASSUME NEW i \in DOMAIN degradations, IsEntry(i, k, Outage)
      PROVE  OutOf(k) = degradations[i].skipped /\ disabled
  <2>1. \A j \in DOMAIN degradations : IsEntry(j, k, Outage) => j = i
    BY <1>6 DEF RefsOK, IsEntry
  <2> QED
    BY <1>3, <1>6, <2>1 DEF OutOf, Outage, RefsOK, IsEntry
<1>7. (\A i \in DOMAIN degradations : ~IsEntry(i, k, Outage)) => OutOf(k) = 0
  BY DEF OutOf, Outage, Disclosed
<1>8. Unfit(k) = IF rejections[k] = 0 THEN 0
                 ELSE degradations[rejections[k]].skipped
  BY <1>4, <1>5
<1>9. Unfit(k) \in Nat /\ OutOf(k) \in Nat
  BY <1>2, <1>4, <1>5, <1>6, <1>7
<1> QED
  BY <1>6, <1>7, <1>8, <1>9

LEMMA InitInv == Init => Inv
<1> SUFFICES ASSUME Init PROVE Inv
  OBVIOUS
<1> USE Constants
<1>1. degradations = <<>> /\ DOMAIN degradations = {} /\ Len(degradations) = 0
  BY DEF Init
<1>2. TypeOK
  <2>1. First \in Kinds /\ phase = First /\ idx = 0
    BY DEF Init, First, Kinds
  <2>2. degradations \in Seq(Entry)
    BY <1>1 DEF Init
  <2>3. judged \in [Targets -> 0 .. run]
    BY DEF Init
  <2>4. rejections \in [Kinds -> 0 .. Len(degradations)]
    BY <1>1 DEF Init
  <2>5. idx <= Len(Walk[phase]) + 1
    BY <2>1
  <2>6. bucket \in [Targets -> Texts \cup {Absent}]
        /\ prior \in [Targets -> Texts \cup {Absent}]
    BY DEF Init
  <2>7. phase \in Kinds \cup {"done", "raised"}
    BY <2>1
  <2>8. disabled \in BOOLEAN
    BY DEF Init
  <2>9. run \in 1 .. MaxRuns /\ asked \subseteq Targets
        /\ scopes \subseteq Kinds /\ rules \subseteq Texts
        /\ idx \in Nat
        /\ cache \in [Keys -> Texts \cup {Absent, BadUtf8}]
    BY DEF Init
  <2> QED
    BY <2>2, <2>3, <2>4, <2>5, <2>6, <2>7, <2>8, <2>9 DEF TypeOK
<1>3. RefsOK
  BY <1>1 DEF Init, RefsOK
<1>4. LatchOK
  BY DEF Init, LatchOK, First, Second, Kinds
<1>5. ASSUME NEW k \in Kinds PROVE CountOK(k)
  <2>1. OutOf(k) = 0 /\ Unfit(k) = 0
    BY <1>2, <1>3, <1>1, DisclosedIs DEF Init, DisclosedFacts
  <2>2. Walked(k) = 0
    BY DEF Init, Walked, Over, First, Second, Kinds
  <2>3. Dropped(k) = {}
    BY <2>2 DEF Dropped
  <2> QED
    BY <2>1, <2>3, FS_EmptySet DEF CountOK, Init
<1>6. CacheOK
  BY DEF Init, CacheOK
<1> QED
  BY <1>2, <1>3, <1>4, <1>5, <1>6 DEF Inv, CountsOK

-----------------------------------------------------------------------------
\* _reject() adds one to the kind's entry, whether it found it or not.
LEMMA RejectDoes ==
  ASSUME TypeOK, RefsOK, NEW k \in Kinds, Reject(k)
  PROVE  /\ degradations' \in Seq(Entry)
         /\ Len(degradations') >= Len(degradations)
         /\ rejections' \in [Kinds -> 0 .. Len(degradations')]
         /\ disabled' = disabled
         /\ rejections'[k] \in DOMAIN degradations'
         /\ degradations'[rejections'[k]] =
              [reason |-> Unfits, kind |-> k,
               skipped |-> 1 + IF rejections[k] = 0 THEN 0
                               ELSE degradations[rejections[k]].skipped]
         /\ \A l \in Kinds \ {k} : rejections'[l] = rejections[l]
         /\ \A i \in DOMAIN degradations' \ {rejections'[k]} :
              i \in DOMAIN degradations /\ degradations'[i] = degradations[i]
         /\ \A i \in DOMAIN degradations \ {rejections'[k]} :
              i \in DOMAIN degradations'
         /\ rejections[k] = 0 => rejections'[k] \notin DOMAIN degradations
         /\ rejections[k] # 0 => rejections'[k] = rejections[k]
<1> DEFINE New == [reason |-> Unfits, kind |-> k, skipped |-> 1]
<1>1. CASE /\ rejections[k] = 0
           /\ degradations' = Append(degradations, New)
           /\ rejections' = [rejections EXCEPT ![k] = Len(degradations')]
  <2>1. New \in Entry
    BY DEF Entry, Reasons, Unfits
  <2> HIDE DEF New
  <2>2. /\ degradations' \in Seq(Entry)
        /\ Len(degradations') = Len(degradations) + 1
        /\ Len(degradations) \in Nat
        /\ DOMAIN degradations = 1 .. Len(degradations)
        /\ DOMAIN degradations' = 1 .. Len(degradations')
        /\ degradations'[Len(degradations')] = New
        /\ \A i \in DOMAIN degradations : degradations'[i] = degradations[i]
    BY <1>1, <2>1 DEF TypeOK
  <2>3. /\ rejections'[k] = Len(degradations')
        /\ \A l \in Kinds \ {k} : rejections'[l] = rejections[l]
        /\ rejections' \in [Kinds -> 0 .. Len(degradations')]
    BY <1>1, <2>2 DEF TypeOK
  <2>4. disabled' = disabled
    BY DEF Reject
  <2>5. New = [reason |-> Unfits, kind |-> k,
               skipped |-> 1 + IF rejections[k] = 0 THEN 0
                               ELSE degradations[rejections[k]].skipped]
    BY <1>1 DEF New
  <2> QED
    BY <1>1, <2>2, <2>3, <2>4, <2>5
<1>2. CASE /\ rejections[k] # 0
           /\ degradations' = [degradations EXCEPT
                                 ![rejections[k]].skipped = @ + 1]
           /\ UNCHANGED rejections
  <2> DEFINE i == rejections[k]
  <2>1. /\ i \in DOMAIN degradations
        /\ degradations[i].kind = k /\ degradations[i].reason = Unfits
        /\ degradations[i] \in Entry
    BY <1>2 DEF TypeOK, RefsOK, IsEntry
  <2>2. /\ [degradations[i] EXCEPT !.skipped = @ + 1] =
             [reason |-> Unfits, kind |-> k,
              skipped |-> 1 + degradations[i].skipped]
        /\ [degradations[i] EXCEPT !.skipped = @ + 1] \in Entry
    BY <2>1 DEF Entry
  <2>3. /\ degradations' \in Seq(Entry)
        /\ Len(degradations') = Len(degradations)
        /\ DOMAIN degradations' = DOMAIN degradations
        /\ degradations'[i] = [degradations[i] EXCEPT !.skipped = @ + 1]
        /\ \A j \in DOMAIN degradations \ {i} :
             degradations'[j] = degradations[j]
    BY <1>2, <2>1, <2>2 DEF TypeOK
  <2>4. /\ rejections' = rejections
        /\ rejections' \in [Kinds -> 0 .. Len(degradations')]
        /\ Len(degradations') >= Len(degradations)
    BY <1>2, <2>3 DEF TypeOK
  <2>5. disabled' = disabled
    BY DEF Reject
  <2>6. degradations'[i] =
          [reason |-> Unfits, kind |-> k,
           skipped |-> 1 + IF rejections[k] = 0 THEN 0
                           ELSE degradations[rejections[k]].skipped]
    BY <1>2, <2>2, <2>3
  <2> HIDE DEF i
  <2>7. i = rejections'[k] /\ i = rejections[k]
    BY <2>4 DEF i
  <2> QED
    BY <1>2, <2>1, <2>3, <2>4, <2>5, <2>6, <2>7
<1> QED
  BY <1>1, <1>2 DEF Reject, Unfits

\* An outage appends an entry and disables the rest.
LEMMA OutageDoes ==
  ASSUME TypeOK, NEW k \in Kinds, NEW t \in Targets, Unavailable(k, t)
  PROVE  /\ degradations' \in Seq(Entry)
         /\ Len(degradations') = Len(degradations) + 1
         /\ Len(degradations) \in Nat
         /\ DOMAIN degradations = 1 .. Len(degradations)
         /\ DOMAIN degradations' = 1 .. Len(degradations')
         /\ degradations'[Len(degradations')] =
              [reason |-> Outage, kind |-> k,
               skipped |-> Len(Walk[k]) - idx + 1]
         /\ Len(Walk[k]) - idx + 1 \in Nat \ {0}
         /\ \A i \in DOMAIN degradations : degradations'[i] = degradations[i]
         /\ disabled' = TRUE /\ rejections' = rejections
<1> DEFINE New == [reason |-> Outage, kind |-> k,
                   skipped |-> Len(Walk[k]) - idx + 1]
<1>1. idx \in 1 .. Len(Walk[k]) /\ Len(Walk[k]) \in Nat
  BY Constants DEF Unavailable, Ask, At
<1>2. New \in Entry
  BY <1>1 DEF Entry, Reasons, Outage
<1>3. /\ degradations' = Append(degradations, New)
      /\ disabled' = TRUE /\ rejections' = rejections
  BY DEF Unavailable, Outage
<1> HIDE DEF New
<1>4. /\ degradations' \in Seq(Entry)
      /\ Len(degradations') = Len(degradations) + 1
      /\ Len(degradations) \in Nat
      /\ DOMAIN degradations = 1 .. Len(degradations)
      /\ DOMAIN degradations' = 1 .. Len(degradations')
      /\ degradations'[Len(degradations')] = New
      /\ \A i \in DOMAIN degradations : degradations'[i] = degradations[i]
  BY <1>2, <1>3 DEF TypeOK
<1> QED
  BY <1>1, <1>3, <1>4 DEF New

\* The walk's position, in one of the four ways it moves.
WalkOK ==
  /\ phase \in Kinds \cup {"done", "raised"}
  /\ idx \in Nat
  /\ phase \in Kinds => idx <= Len(Walk[phase]) + 1

LEMMA WalkStep ==
  ASSUME TypeOK, NEW k \in Kinds,
         \/ Leave(k)
         \/ phase = k /\ idx = 0 /\ idx' = 1 /\ phase' = phase
         \/ phase = k /\ idx \in DOMAIN Walk[k]
              /\ idx' = idx + 1 /\ phase' = phase
         \/ phase' = "raised" /\ idx' = 0
  PROVE  WalkOK'
<1>1. \A l \in Kinds :
        Len(Walk[l]) \in Nat /\ DOMAIN Walk[l] = 1 .. Len(Walk[l])
  BY Constants
<1>2. CASE Leave(k)
  <2>1. phase' \in {Second, "done"} /\ idx' = 0
    BY <1>2 DEF Leave, Second
  <2> QED
    BY <1>1, <2>1 DEF WalkOK, Kinds, Second
<1>3. CASE phase = k /\ idx = 0 /\ idx' = 1 /\ phase' = phase
  BY <1>1, <1>3 DEF WalkOK
<1>4. CASE phase = k /\ idx \in DOMAIN Walk[k] /\ idx' = idx + 1
             /\ phase' = phase
  BY <1>1, <1>4 DEF WalkOK
<1>5. CASE phase' = "raised" /\ idx' = 0
  BY <1>5 DEF WalkOK, Kinds
<1> QED
  BY <1>2, <1>3, <1>4, <1>5

\* A text has been found or obtained, and is judged.
LEMMA SettleTypes ==
  ASSUME TypeOK, RefsOK, NEW k \in Kinds, NEW t \in Targets, At(k, t),
         NEW text \in Texts, Settle(k, t, text),
         UNCHANGED runVars, asked' \subseteq Targets,
         cache' \in [Keys -> Texts \cup {Absent, BadUtf8}]
  PROVE  TypeOK'
<1>1. WalkOK'
  BY WalkStep DEF Settle, At
<1>2. bucket' \in [Targets -> Texts \cup {Absent}]
  BY DEF Settle, TypeOK
<1>3. judged' \in [Targets -> 0 .. run']
  BY DEF Settle, TypeOK, runVars
<1>4. /\ degradations' \in Seq(Entry)
      /\ rejections' \in [Kinds -> 0 .. Len(degradations')]
      /\ disabled' = disabled
  <2>1. CASE Reject(k)
    BY <2>1, RejectDoes
  <2>2. CASE UNCHANGED lossVars
    BY <2>2 DEF lossVars, TypeOK
  <2> QED
    BY <2>1, <2>2 DEF Settle
<1> QED
  BY <1>1, <1>2, <1>3, <1>4 DEF TypeOK, WalkOK, runVars

LEMMA TypeStep == TypeOK /\ RefsOK /\ [Next]_vars => TypeOK'
<1> SUFFICES ASSUME TypeOK, RefsOK, [Next]_vars PROVE TypeOK'
  OBVIOUS
<1>1. ASSUME NEW k \in Kinds, Enter(k) \/ Return(k) PROVE TypeOK'
  <2>1. WalkOK'
    BY <1>1, WalkStep DEF Enter, Return
  <2>2. UNCHANGED <<lossVars, runVars, bucket, cache, asked, judged>>
    BY <1>1 DEF Enter, Return
  <2> QED
    BY <2>1, <2>2 DEF TypeOK, WalkOK, lossVars, runVars
<1>2. ASSUME NEW k \in Kinds, NEW t \in Targets, Unread(k, t) \/ Raise(k, t)
      PROVE  TypeOK'
  <2>1. WalkOK'
    BY <1>2, WalkStep DEF Unread, Raise, At
  <2>2. UNCHANGED <<lossVars, runVars, bucket, cache, asked, judged>>
    BY <1>2 DEF Unread, Raise
  <2> QED
    BY <2>1, <2>2 DEF TypeOK, WalkOK, lossVars, runVars
<1>3. ASSUME NEW k \in Kinds, NEW t \in Targets, Hit(k, t) PROVE TypeOK'
  BY <1>3, SettleTypes DEF Hit, TypeOK
<1>4. ASSUME NEW k \in Kinds, NEW t \in Targets, Answer(k, t) PROVE TypeOK'
  <2>1. PICK text \in Texts : /\ cache' = [cache EXCEPT ![KeyOf[t]] = text]
                              /\ Settle(k, t, text)
    BY <1>4 DEF Answer
  <2>2. /\ cache' \in [Keys -> Texts \cup {Absent, BadUtf8}]
        /\ asked' \subseteq Targets
    BY <1>4, <2>1, Constants DEF Answer, Ask, TypeOK
  <2> QED
    BY <1>4, <2>1, <2>2, SettleTypes DEF Answer, Ask
<1>5. ASSUME NEW k \in Kinds, NEW t \in Targets, Unavailable(k, t)
      PROVE  TypeOK'
  <2>1. WalkOK'
    BY <1>5, WalkStep DEF Unavailable
  <2>2. /\ degradations' \in Seq(Entry)
        /\ rejections' \in [Kinds -> 0 .. Len(degradations')]
    <3>1. /\ degradations' \in Seq(Entry) /\ rejections' = rejections
          /\ Len(degradations') = Len(degradations) + 1
          /\ Len(degradations) \in Nat
      BY <1>5, OutageDoes
    <3> QED
      BY <3>1 DEF TypeOK
  <2>3. disabled' \in BOOLEAN
    BY <1>5, OutageDoes
  <2>4. /\ UNCHANGED <<runVars, bucket, cache, judged>>
        /\ asked' \subseteq Targets
    BY <1>5 DEF Unavailable, Ask, TypeOK
  <2> QED
    BY <2>1, <2>2, <2>3, <2>4 DEF TypeOK, WalkOK, runVars
<1>6. ASSUME NextRun PROVE TypeOK'
  <2>1. WalkOK'
    BY <1>6, Constants DEF NextRun, Fresh, WalkOK, Kinds
  <2>2. /\ degradations' \in Seq(Entry)
        /\ rejections' \in [Kinds -> 0 .. Len(degradations')]
    <3>1. /\ degradations' = <<>> /\ Len(degradations') = 0
          /\ rejections' = [l \in Kinds |-> 0]
      BY <1>6 DEF NextRun, Fresh
    <3> QED
      BY <3>1
  <2>5. disabled' \in BOOLEAN
    BY <1>6 DEF NextRun, Fresh
  <2>3. run' \in 1 .. MaxRuns /\ judged' \in [Targets -> 0 .. run']
    BY <1>6, Constants DEF NextRun, TypeOK
  <2>4. /\ bucket' \in [Targets -> Texts \cup {Absent}]
        /\ prior' \in [Targets -> Texts \cup {Absent}]
        /\ scopes' \subseteq Kinds /\ rules' \subseteq Texts
        /\ asked' \subseteq Targets /\ cache' = cache
    BY <1>6 DEF NextRun, Fresh, TypeOK
  <2> QED
    BY <2>1, <2>2, <2>3, <2>4, <2>5 DEF TypeOK, WalkOK
<1>7. CASE UNCHANGED vars
  BY <1>7 DEF vars, walkVars, lossVars, runVars, TypeOK
<1> QED
  BY <1>1, <1>2, <1>3, <1>4, <1>5, <1>6, <1>7 DEF Next

\* At a target, the latch is open and the kind was asked for.
LEMMA AtIsOpen ==
  ASSUME TypeOK, LatchOK, NEW k \in Kinds, NEW t \in Targets, At(k, t)
  PROVE  ~disabled /\ k \in scopes /\ idx \in 1 .. Len(Walk[k])
BY Constants DEF At, LatchOK, TypeOK

LEMMA RefsStep == TypeOK /\ RefsOK /\ LatchOK /\ [Next]_vars => RefsOK'
<1> SUFFICES ASSUME TypeOK, RefsOK, LatchOK, [Next]_vars PROVE RefsOK'
  OBVIOUS
<1>1. CASE UNCHANGED lossVars
  BY <1>1 DEF lossVars, RefsOK, IsEntry
<1>2. ASSUME NEW k \in Kinds, Reject(k), ~disabled PROVE RefsOK'
  <2> DEFINE n == rejections'[k]
  <2>1. /\ n \in DOMAIN degradations'
        /\ degradations'[n].kind = k /\ degradations'[n].reason = Unfits
    <3>1. n \in DOMAIN degradations'
      BY <1>2, RejectDoes
    <3>2. degradations'[n] =
            [reason |-> Unfits, kind |-> k,
             skipped |-> 1 + IF rejections[k] = 0 THEN 0
                             ELSE degradations[rejections[k]].skipped]
      BY <1>2, RejectDoes
    <3>3. degradations'[n].kind = k
      BY <3>2
    <3>4. degradations'[n].reason = Unfits
      BY <3>2
    <3> QED
      BY <3>1, <3>3, <3>4
  <2>2. \A i \in DOMAIN degradations' \ {n} :
          i \in DOMAIN degradations /\ degradations'[i] = degradations[i]
    BY <1>2, RejectDoes
  <2>3. \A i \in DOMAIN degradations \ {n} : i \in DOMAIN degradations'
    BY <1>2, RejectDoes
  <2>4. /\ rejections[k] = 0 => n \notin DOMAIN degradations
        /\ rejections[k] # 0 => n = rejections[k]
        /\ \A l \in Kinds \ {k} : rejections'[l] = rejections[l]
    BY <1>2, RejectDoes
  <2> HIDE DEF n
  <2>5. \A i \in DOMAIN degradations : degradations[i].reason # Outage
    BY <1>2 DEF RefsOK
  <2>6. ASSUME NEW l \in Kinds, rejections'[l] # 0
        PROVE  IsEntry(rejections[l], l, Unfits)'
    <3>1. CASE l = k
      BY <2>1, <3>1 DEF IsEntry, n
    <3>2. CASE l # k
      <4>1. rejections'[l] = rejections[l] /\ IsEntry(rejections[l], l, Unfits)
        BY <2>4, <2>6, <3>2 DEF RefsOK
      <4>2. rejections[l] # n
        BY <2>4, <3>2, <4>1 DEF RefsOK, IsEntry
      <4> QED
        BY <2>2, <2>3, <4>1, <4>2 DEF IsEntry
    <3> QED
      BY <3>1, <3>2
  <2>7. ASSUME NEW i \in DOMAIN degradations', degradations'[i].reason = Unfits
        PROVE  rejections'[degradations'[i].kind] = i
    <3>1. CASE i = n
      BY <2>1, <3>1 DEF n
    <3>2. CASE i # n
      <4>1. /\ i \in DOMAIN degradations /\ degradations'[i] = degradations[i]
            /\ rejections[degradations[i].kind] = i
        BY <2>2, <2>7, <3>2 DEF RefsOK
      <4>2. degradations[i].kind \in Kinds
        <5>1. degradations[i] \in Entry
          BY <4>1 DEF TypeOK
        <5> QED
          BY <5>1 DEF Entry
      <4>3. degradations[i].kind # k
        BY <2>4, <3>2, <4>1, <4>2 DEF TypeOK
      <4> QED
        BY <2>4, <4>1, <4>2, <4>3
    <3> QED
      BY <3>1, <3>2
  <2>8. \A i \in DOMAIN degradations' : degradations'[i].reason # Outage
    BY <2>1, <2>2, <2>5 DEF Unfits, Outage
  <2> QED
    BY <2>6, <2>7, <2>8 DEF RefsOK
<1>3. ASSUME NEW k \in Kinds, NEW t \in Targets, Unavailable(k, t)
      PROVE  RefsOK'
  <2> DEFINE n == Len(degradations')
  <2>1. \A i \in DOMAIN degradations : degradations[i].reason # Outage
    BY <1>3, AtIsOpen DEF Unavailable, Ask, RefsOK
  <2>2. /\ n \in DOMAIN degradations' /\ n \notin DOMAIN degradations
        /\ degradations'[n].reason = Outage /\ degradations'[n].skipped # 0
        /\ DOMAIN degradations' = DOMAIN degradations \cup {n}
        /\ \A i \in DOMAIN degradations : degradations'[i] = degradations[i]
        /\ rejections' = rejections
    <3>1. /\ n = Len(degradations) + 1 /\ Len(degradations) \in Nat
          /\ DOMAIN degradations = 1 .. Len(degradations)
          /\ DOMAIN degradations' = 1 .. n
          /\ \A i \in DOMAIN degradations : degradations'[i] = degradations[i]
          /\ rejections' = rejections
      BY <1>3, OutageDoes
    <3>2. /\ degradations'[n] = [reason |-> Outage, kind |-> k,
                                 skipped |-> Len(Walk[k]) - idx + 1]
          /\ Len(Walk[k]) - idx + 1 # 0
      BY <1>3, OutageDoes
    <3>3. degradations'[n].reason = Outage /\ degradations'[n].skipped # 0
      BY <3>2
    <3> HIDE DEF n
    <3> QED
      BY <3>1, <3>3
  <2>0. disabled'
    BY <1>3, OutageDoes
  <2> HIDE DEF n
  <2>3. \A l \in Kinds :
          rejections'[l] # 0 => IsEntry(rejections[l], l, Unfits)'
    BY <2>2 DEF RefsOK, IsEntry
  <2>4. \A i \in DOMAIN degradations' : degradations'[i].reason = Unfits
          => rejections'[degradations'[i].kind] = i
    BY <2>2 DEF RefsOK, Unfits, Outage
  <2>5. \A i \in DOMAIN degradations' :
          degradations'[i].reason = Outage => i = n
    BY <2>1, <2>2
  <2> QED
    BY <2>0, <2>2, <2>3, <2>4, <2>5 DEF RefsOK
<1>4. ASSUME NextRun PROVE RefsOK'
  <2>1. /\ degradations' = <<>> /\ DOMAIN degradations' = {}
        /\ \A k \in Kinds : rejections'[k] = 0
    BY <1>4 DEF NextRun, Fresh
  <2> QED
    BY <2>1 DEF RefsOK
<1>5. ASSUME NEW k \in Kinds, NEW t \in Targets, Hit(k, t) \/ Answer(k, t)
      PROVE  RefsOK'
  <2>1. At(k, t) /\ (Reject(k) \/ UNCHANGED lossVars)
    BY <1>5 DEF Hit, Answer, Ask, Settle
  <2> QED
    BY <1>1, <1>2, <2>1, AtIsOpen
<1> QED
  BY <1>1, <1>3, <1>4, <1>5 DEF Next, Enter, Return, Unread, Raise, vars

\* The same facts, after a step.
LEMMA DisclosedNext ==
  TypeOK /\ RefsOK /\ LatchOK /\ [Next]_vars => DisclosedFacts'
<1>1. (TypeOK /\ RefsOK => DisclosedFacts)'
  BY DisclosedIs, PTL
<1> QED
  BY <1>1, TypeStep, RefsStep

\* A rejection is disclosed once, for its kind; an outage leaves what was
\* disclosed as unfit alone, and is the first.
LEMMA RejectTally ==
  ASSUME TypeOK, RefsOK, DisclosedFacts, DisclosedFacts', ~disabled,
         NEW k \in Kinds, Reject(k)
  PROVE  /\ Unfit(k)' = Unfit(k) + 1
         /\ \A l \in Kinds \ {k} : Unfit(l)' = Unfit(l)
         /\ \A l \in Kinds : OutOf(l)' = OutOf(l)
<1>1. ~disabled'
  BY DEF Reject
<1>2. \A l \in Kinds : OutOf(l)' = 0 /\ OutOf(l) = 0
  BY <1>1 DEF DisclosedFacts
<1>3. Unfit(k)' = Unfit(k) + 1
  <2>1. rejections'[k] # 0
    <3>1. /\ rejections'[k] \in DOMAIN degradations'
          /\ degradations' \in Seq(Entry)
      BY RejectDoes
    <3> QED
      BY <3>1
  <2>2. degradations'[rejections'[k]] =
          [reason |-> Unfits, kind |-> k,
           skipped |-> 1 + IF rejections[k] = 0 THEN 0
                           ELSE degradations[rejections[k]].skipped]
    BY RejectDoes
  <2>3. degradations'[rejections'[k]].skipped =
          1 + IF rejections[k] = 0 THEN 0
              ELSE degradations[rejections[k]].skipped
    BY <2>2
  <2> QED
    BY <2>1, <2>3 DEF DisclosedFacts
<1>4. ASSUME NEW l \in Kinds \ {k} PROVE Unfit(l)' = Unfit(l)
  <2>1. rejections'[l] = rejections[l]
    BY RejectDoes
  <2>2. rejections[l] # 0 =>
          /\ rejections[l] \in DOMAIN degradations
          /\ rejections[l] # rejections'[k]
    <3>1. rejections[l] # 0 => IsEntry(rejections[l], l, Unfits)
      BY DEF RefsOK
    <3>2. rejections[k] # 0 => IsEntry(rejections[k], k, Unfits)
      BY DEF RefsOK
    <3>3. /\ rejections[k] = 0 => rejections'[k] \notin DOMAIN degradations
          /\ rejections[k] # 0 => rejections'[k] = rejections[k]
      BY RejectDoes
    <3> QED
      BY <3>1, <3>2, <3>3 DEF IsEntry
  <2>3. rejections[l] # 0 =>
          degradations'[rejections[l]] = degradations[rejections[l]]
    <3>1. /\ \A i \in DOMAIN degradations' \ {rejections'[k]} :
               degradations'[i] = degradations[i]
          /\ \A i \in DOMAIN degradations \ {rejections'[k]} :
               i \in DOMAIN degradations'
      BY RejectDoes
    <3> QED
      BY <2>2, <3>1
  <2> QED
    BY <2>1, <2>3 DEF DisclosedFacts
<1> QED
  BY <1>2, <1>3, <1>4

LEMMA OutageTally ==
  ASSUME TypeOK, RefsOK, DisclosedFacts, DisclosedFacts', ~disabled,
         NEW k \in Kinds, NEW t \in Targets, Unavailable(k, t)
  PROVE  /\ \A l \in Kinds : Unfit(l)' = Unfit(l)
         /\ OutOf(k)' = Len(Walk[k]) - idx + 1
         /\ OutOf(k)' # 0
         /\ \A l \in Kinds : OutOf(l) = 0
         /\ \A l \in Kinds \ {k} : OutOf(l)' = 0
<1> DEFINE n == Len(degradations')
<1>1. /\ n = Len(degradations) + 1 /\ Len(degradations) \in Nat
      /\ DOMAIN degradations = 1 .. Len(degradations)
      /\ DOMAIN degradations' = 1 .. n
      /\ \A i \in DOMAIN degradations : degradations'[i] = degradations[i]
      /\ rejections' = rejections
  BY OutageDoes
<1>2. /\ degradations'[n] = [reason |-> Outage, kind |-> k,
                             skipped |-> Len(Walk[k]) - idx + 1]
      /\ Len(Walk[k]) - idx + 1 # 0
  BY OutageDoes
<1>3. /\ degradations'[n].reason = Outage /\ degradations'[n].kind = k
      /\ degradations'[n].skipped = Len(Walk[k]) - idx + 1
  BY <1>2
<1> HIDE DEF n
<1>4. \A l \in Kinds : OutOf(l) = 0
  BY DEF DisclosedFacts
<1>5. /\ n \in DOMAIN degradations'
      /\ IsEntry(Len(degradations), k, Outage)'
  <2>1. n \in DOMAIN degradations'
    BY <1>1
  <2> QED
    BY <1>3, <2>1 DEF IsEntry, n
<1>6. OutOf(k)' = Len(Walk[k]) - idx + 1
  BY <1>3, <1>5 DEF DisclosedFacts, n
<1>7. ASSUME NEW l \in Kinds \ {k} PROVE OutOf(l)' = 0
  <2>1. \A i \in DOMAIN degradations : degradations[i].reason # Outage
    BY DEF RefsOK
  <2>2. \A i \in DOMAIN degradations' : i = n \/ i \in DOMAIN degradations
    BY <1>1
  <2>3. \A i \in DOMAIN degradations' : ~IsEntry(i, l, Outage)'
    BY <1>1, <1>3, <2>1, <2>2 DEF IsEntry
  <2> QED
    BY <2>3 DEF DisclosedFacts
<1>8. ASSUME NEW l \in Kinds PROVE Unfit(l)' = Unfit(l)
  <2>1. rejections[l] # 0 => rejections[l] \in DOMAIN degradations
    BY DEF RefsOK, IsEntry
  <2> QED
    BY <1>1, <2>1 DEF DisclosedFacts
<1> QED
  BY <1>2, <1>4, <1>6, <1>7, <1>8

LEMMA LatchStep == TypeOK /\ RefsOK /\ LatchOK /\ [Next]_vars => LatchOK'
<1> SUFFICES ASSUME TypeOK, RefsOK, LatchOK, [Next]_vars PROVE LatchOK'
  OBVIOUS
<1>0. DisclosedFacts /\ DisclosedFacts'
  BY DisclosedIs, DisclosedNext
<1>1. ASSUME UNCHANGED lossVars
      PROVE  disabled' = disabled /\ OutOf(First)' = OutOf(First)
  BY <1>1 DEF lossVars, OutOf, Disclosed, IsEntry
<1>2. ASSUME NEW k \in Kinds, Enter(k) PROVE LatchOK'
  <2>1. CASE Enabled(k)
    BY <1>1, <1>2, <2>1 DEF Enter, Enabled, LatchOK, runVars
  <2>2. CASE ~Enabled(k)
    <3>1. /\ phase = k /\ UNCHANGED lossVars
          /\ idx' = 0 /\ phase' \in {Second, "done"}
          /\ k = First => phase' = Second
          /\ k # First => phase' = "done"
      BY <1>2, <2>2 DEF Enter, Leave, First, Second
    <3> QED
      BY <1>1, <3>1 DEF LatchOK, First, Second, Kinds
  <2> QED
    BY <2>1, <2>2
<1>3. ASSUME NEW k \in Kinds, Return(k) PROVE LatchOK'
  <2>1. /\ phase = k /\ idx # 0 /\ UNCHANGED lossVars
        /\ idx' = 0 /\ phase' \in {Second, "done"}
    BY <1>3, Constants DEF Return, Leave, First, Second
  <2> QED
    BY <1>1, <2>1 DEF LatchOK, First, Second, Kinds
<1>4. ASSUME NEW k \in Kinds, NEW t \in Targets,
             Unread(k, t) \/ Hit(k, t) \/ Answer(k, t)
      PROVE  LatchOK'
  <2>1. At(k, t) /\ phase' = phase /\ scopes' = scopes
    BY <1>4 DEF Unread, Hit, Answer, Ask, Settle, runVars
  <2>2. disabled' = disabled
    BY <1>4 DEF Unread, Hit, Answer, Settle, Reject, lossVars
  <2> QED
    BY <2>1, <2>2, AtIsOpen DEF LatchOK, At
<1>5. ASSUME NEW k \in Kinds, NEW t \in Targets, Unavailable(k, t)
      PROVE  LatchOK'
  <2>1. /\ phase = k /\ idx' = 0 /\ phase' \in {Second, "done"}
        /\ phase' = Second => k = First
        /\ At(k, t)
    BY <1>5 DEF Unavailable, Ask, At, Leave, First, Second
  <2>2. OutOf(k)' # 0
    BY <1>0, <1>5, <2>1, AtIsOpen, OutageTally
  <2> QED
    BY <2>1, <2>2 DEF LatchOK, First, Second, Kinds
<1>6. ASSUME NEW k \in Kinds, NEW t \in Targets, Raise(k, t) PROVE LatchOK'
  BY <1>6 DEF Raise, LatchOK, Kinds, First, Second
<1>7. ASSUME NextRun PROVE LatchOK'
  BY <1>7 DEF NextRun, Fresh, LatchOK, First, Second
<1>8. CASE UNCHANGED vars
  BY <1>1, <1>8 DEF vars, walkVars, runVars, LatchOK
<1> QED
  BY <1>2, <1>3, <1>4, <1>5, <1>6, <1>7, <1>8 DEF Next

-----------------------------------------------------------------------------
LEMMA WalkedIsNat ==
  ASSUME TypeOK, DisclosedFacts, NEW k \in Kinds, CountOK(k)
  PROVE  /\ Walked(k) \in Nat /\ Walked(k) <= Len(Walk[k])
         /\ IsFiniteSet(Dropped(k)) /\ Dropped(k) \subseteq 1 .. Walked(k)
<1>1. Len(Walk[k]) \in Nat /\ OutOf(k) \in Nat /\ OutOf(k) <= Len(Walk[k])
  BY Constants DEF DisclosedFacts, CountOK
<1>2. phase = k => idx <= Len(Walk[k]) + 1 /\ idx \in Nat
  BY DEF TypeOK
<1>3. Walked(k) \in Nat /\ Walked(k) <= Len(Walk[k])
  BY <1>1, <1>2 DEF Walked
<1>4. Dropped(k) \subseteq 1 .. Walked(k)
  BY DEF Dropped
<1>5. IsFiniteSet(1 .. Walked(k))
  BY <1>3, FS_Interval
<1> QED
  BY <1>3, <1>4, <1>5, FS_Subset

\* The count of a kind whose walk has not moved.
LEMMA CountStays ==
  ASSUME NEW k \in Kinds, CountOK(k), Walked(k)' = Walked(k),
         Over(k) => Over(k)',
         Unfit(k)' = Unfit(k), OutOf(k)' = OutOf(k),
         \A i \in DOMAIN Walk[k] : bucket'[Walk[k][i]] = bucket[Walk[k][i]],
         Walked(k) \in Nat /\ Walked(k) <= Len(Walk[k])
  PROVE  CountOK(k)'
<1>1. \A i \in 1 .. Walked(k) : i \in DOMAIN Walk[k]
  BY Constants
<1>2. Dropped(k)' = Dropped(k)
  BY <1>1 DEF Dropped
<1> QED
  BY <1>2 DEF CountOK

\* The walk of one kind does not move the other's.
LEMMA OtherStays ==
  ASSUME TypeOK, DisclosedFacts, NEW k \in Kinds, NEW l \in Kinds \ {k},
         phase = k, Leave(k) \/ phase' = phase, scopes' = scopes,
         OutOf(l)' = OutOf(l), Unfit(l)' = Unfit(l), CountOK(l),
         \A i \in DOMAIN Walk[l] : bucket'[Walk[l][i]] = bucket[Walk[l][i]]
  PROVE  CountOK(l)'
<1>1. phase' = phase \/ phase' = IF k = First THEN Second ELSE "done"
  BY DEF Leave, First, Second
<1>2. CASE k = First
  <2>1. l = Second
    BY <1>2 DEF Kinds, First, Second
  <2>2. phase' = Second => idx' = 0
    BY <1>2 DEF Leave, First, Second
  <2>3. Walked(l) = 0 /\ Walked(l)' = 0 /\ ~Over(l)
    BY <1>1, <1>2, <2>1, <2>2 DEF Walked, Over, First, Second
  <2> QED
    BY <2>3, CountStays, Constants
<1>3. CASE k = Second
  <2>1. l = First
    BY <1>3 DEF Kinds, First, Second
  <2>2. Over(l) /\ Over(l)' /\ phase # l /\ phase' # l
    BY <1>1, <1>3, <2>1 DEF Over, First, Second
  <2>3. Entered(l)' <=> Entered(l)
    BY <2>1 DEF Entered, First
  <2>4. Walked(l)' = Walked(l)
    BY <2>2, <2>3 DEF Walked
  <2> QED
    BY <2>2, <2>4, CountStays, WalkedIsNat
<1> QED
  BY <1>2, <1>3 DEF Kinds, First, Second

\* The walk goes past a target without rejecting it ...
LEMMA CountPasses ==
  ASSUME TypeOK, DisclosedFacts, NEW k \in Kinds, CountOK(k),
         NEW t \in Targets, At(k, t), phase' = phase, idx' = idx + 1,
         Unfit(k)' = Unfit(k), OutOf(k)' = OutOf(k),
         t \in Unreadable \/ bucket'[t] # Absent,
         \A u \in Targets \ {t} : bucket'[u] = bucket[u]
  PROVE  CountOK(k)'
<1>1. /\ idx \in 1 .. Len(Walk[k]) /\ Len(Walk[k]) \in Nat
      /\ t = Walk[k][idx] /\ phase = k
      /\ Walked(k) = idx - 1 /\ Walked(k)' = idx
      /\ Over(k)' <=> Over(k)
  BY Constants DEF At, Walked, Over
<1>2. \A i \in DOMAIN Walk[k] : i # idx =>
        bucket'[Walk[k][i]] = bucket[Walk[k][i]]
  BY <1>1, Constants
<1>3. Dropped(k)' = Dropped(k)
  BY <1>1, <1>2, Constants DEF Dropped
<1>4. \A i \in DOMAIN Walk[k] : i > idx => bucket'[Walk[k][i]] = Absent
  BY <1>1, <1>2, Constants DEF CountOK
<1> QED
  BY <1>1, <1>3, <1>4 DEF CountOK

\* ... or rejects it.
LEMMA CountDrops ==
  ASSUME TypeOK, DisclosedFacts, NEW k \in Kinds, CountOK(k),
         NEW t \in Targets, At(k, t), phase' = phase, idx' = idx + 1,
         Unfit(k)' = Unfit(k) + 1, OutOf(k)' = OutOf(k),
         t \notin Unreadable, UNCHANGED bucket
  PROVE  CountOK(k)'
<1>1. /\ idx \in 1 .. Len(Walk[k]) /\ Len(Walk[k]) \in Nat
      /\ t = Walk[k][idx] /\ phase = k
      /\ Walked(k) = idx - 1 /\ Walked(k)' = idx
      /\ Over(k)' <=> Over(k)
  BY Constants DEF At, Walked, Over
<1>2. bucket[t] = Absent
  BY <1>1, Constants DEF CountOK
<1>3. Dropped(k)' = Dropped(k) \cup {idx} /\ idx \notin Dropped(k)
  BY <1>1, <1>2 DEF Dropped
<1>4. Cardinality(Dropped(k)') = Cardinality(Dropped(k)) + 1
  BY <1>3, WalkedIsNat, FS_AddElement
<1>5. \A i \in DOMAIN Walk[k] : i > idx => bucket'[Walk[k][i]] = Absent
  BY <1>1, Constants DEF CountOK
<1> QED
  BY <1>1, <1>4, <1>5 DEF CountOK

\* The walk of a kind is entered, passed over, or over.
LEMMA CountEnds ==
  ASSUME Inv, DisclosedFacts, NEW k \in Kinds, CountOK(k), phase = k,
         Enter(k) \/ Return(k)
  PROVE  CountOK(k)'
<1>1. /\ OutOf(k)' = OutOf(k) /\ Unfit(k)' = Unfit(k)
      /\ OutOf(First)' = OutOf(First)
      /\ disabled' = disabled
      /\ UNCHANGED <<bucket, scopes>>
  BY DEF Enter, Return, lossVars, runVars, OutOf, Unfit, Disclosed, IsEntry
<1>2. ~Over(k) /\ OutOf(k) = 0 /\ Len(Walk[k]) \in Nat
  BY Constants DEF Over, First, Second, Kinds, CountOK, DisclosedFacts
<1>3. OutOf(First) \in Nat /\ (~disabled => OutOf(First) = 0)
  BY DEF DisclosedFacts, First, Kinds
<1>4. CASE Enter(k) /\ Enabled(k)
  <2>1. Walked(k)' = Walked(k)
    BY <1>4 DEF Enter, Walked
  <2> QED
    BY <1>1, <1>2, <2>1, CountStays, WalkedIsNat DEF Inv
<1>5. CASE Enter(k) /\ ~Enabled(k)
  <2>1. Walked(k) = 0 /\ phase' # k
    BY <1>5 DEF Enter, Leave, Walked, Kinds
  <2>2. ~Entered(k)'
    <3>1. CASE k \notin scopes
      BY <1>1, <3>1 DEF Entered
    <3>2. CASE disabled
      <4>1. k = Second /\ OutOf(First) # 0
        BY <3>2 DEF Inv, LatchOK, Kinds, First, Second
      <4> QED
        BY <1>1, <1>3, <4>1 DEF Entered, First, Second
    <3> QED
      BY <1>5, <3>1, <3>2 DEF Enabled
  <2>3. Walked(k)' = 0
    BY <2>1, <2>2 DEF Walked
  <2> QED
    BY <1>1, <1>2, <2>1, <2>3, CountStays
<1>6. CASE Return(k)
  <2>1. /\ idx = Len(Walk[k]) + 1 /\ idx # 0
        /\ phase' # k /\ Over(k)'
    BY <1>2, <1>6, Constants
       DEF Inv, TypeOK, Return, Leave, Over, Kinds, First, Second
  <2>2. k \in scopes /\ ~disabled
    BY <2>1 DEF Inv, LatchOK
  <2>3. Entered(k)'
    BY <1>1, <1>3, <2>2 DEF Entered, First
  <2>4. Walked(k)' = Len(Walk[k]) /\ Walked(k) = Len(Walk[k])
    BY <1>1, <1>2, <2>1, <2>3 DEF Walked
  <2> QED
    BY <1>1, <1>2, <2>4, CountStays
<1> QED
  BY <1>4, <1>5, <1>6

\* An outage counts the targets from the one that failed on.
LEMMA CountCuts ==
  ASSUME Inv, DisclosedFacts, DisclosedFacts', NEW k \in Kinds, CountOK(k),
         NEW t \in Targets, Unavailable(k, t)
  PROVE  CountOK(k)'
<1>1. At(k, t) /\ UNCHANGED <<bucket, scopes>>
  BY DEF Unavailable, Ask, runVars
<1>2. ~disabled /\ k \in scopes /\ idx \in 1 .. Len(Walk[k])
  BY <1>1, AtIsOpen DEF Inv
<1>3. /\ Unfit(k)' = Unfit(k)
      /\ OutOf(k)' = Len(Walk[k]) - idx + 1
      /\ \A l \in Kinds \ {k} : OutOf(l)' = 0
  BY <1>2, OutageTally DEF Inv
<1>4. phase = k /\ phase' # k /\ Over(k)' /\ Len(Walk[k]) \in Nat
  BY <1>1, Constants
     DEF Unavailable, At, Leave, Over, Kinds, First, Second
<1>5. Entered(k)'
  BY <1>1, <1>2, <1>3 DEF Entered, Kinds
<1>6. Walked(k) = idx - 1 /\ Walked(k)' = idx - 1
  BY <1>2, <1>3, <1>4, <1>5 DEF Walked
<1>7. Dropped(k)' = Dropped(k)
  BY <1>1, <1>6 DEF Dropped
<1> QED
  BY <1>1, <1>2, <1>3, <1>4, <1>6, <1>7 DEF CountOK

LEMMA CountsStep == Inv /\ [Next]_vars => CountsOK'
<1> SUFFICES ASSUME Inv, [Next]_vars PROVE CountsOK'
  OBVIOUS
<1> USE DEF Inv
<1>0. DisclosedFacts /\ DisclosedFacts'
  BY DisclosedIs, DisclosedNext
<1>1. ASSUME UNCHANGED lossVars, NEW l \in Kinds
      PROVE  Unfit(l)' = Unfit(l) /\ OutOf(l)' = OutOf(l)
  BY <1>1 DEF lossVars, Unfit, OutOf, Disclosed, IsEntry
<1>2. ASSUME NEW k \in Kinds, Enter(k) \/ Return(k) PROVE CountsOK'
  <2>1. /\ phase = k /\ phase # "raised"
        /\ phase' = phase \/ Leave(k)
        /\ UNCHANGED <<lossVars, scopes, bucket>>
    BY <1>2 DEF Enter, Return, runVars, Kinds
  <2>2. \A l \in Kinds : CountOK(l)
    BY <2>1 DEF CountsOK
  <2>3. CountOK(k)'
    BY <1>0, <1>2, <2>1, <2>2, CountEnds
  <2>4. \A l \in Kinds \ {k} : CountOK(l)'
    BY <1>0, <1>1, <2>1, <2>2, OtherStays
  <2> QED
    BY <2>3, <2>4 DEF CountsOK
<1>3. ASSUME NEW k \in Kinds, NEW t \in Targets,
             Unread(k, t) \/ Hit(k, t) \/ Answer(k, t)
      PROVE  CountsOK'
  <2>1. /\ At(k, t) /\ phase = k /\ phase # "raised"
        /\ phase' = phase /\ idx' = idx + 1 /\ scopes' = scopes
    BY <1>3 DEF Unread, Hit, Answer, Ask, Settle, At, runVars, Kinds
  <2>2. /\ \A l \in Kinds : CountOK(l)
        /\ ~disabled
    BY <2>1, AtIsOpen DEF CountsOK
  <2>3. \/ t \in Unreadable /\ UNCHANGED <<lossVars, bucket>>
        \/ /\ UNCHANGED lossVars
           /\ bucket'[t] # Absent
           /\ \A u \in Targets \ {t} : bucket'[u] = bucket[u]
        \/ t \notin Unreadable /\ Reject(k) /\ UNCHANGED bucket
    <3>1. CASE Unread(k, t)
      BY <3>1 DEF Unread
    <3>2. ASSUME NEW text \in Texts, Settle(k, t, text), t \notin Unreadable
          PROVE  \/ /\ UNCHANGED lossVars
                    /\ bucket'[t] # Absent
                    /\ \A u \in Targets \ {t} : bucket'[u] = bucket[u]
                 \/ t \notin Unreadable /\ Reject(k) /\ UNCHANGED bucket
      BY <3>2, Constants DEF Settle, TypeOK
    <3>3. CASE Hit(k, t)
      BY <3>2, <3>3 DEF Hit
    <3>4. CASE Answer(k, t)
      BY <3>2, <3>4 DEF Answer, Ask
    <3> QED
      BY <1>3, <3>1, <3>3, <3>4
  <2>4. \A l \in Kinds \ {k} : \A i \in DOMAIN Walk[l] :
          bucket'[Walk[l][i]] = bucket[Walk[l][i]]
    BY <2>1, <2>3, Constants DEF At
  <2>5. CASE UNCHANGED lossVars
    <3>1. \A l \in Kinds : Unfit(l)' = Unfit(l) /\ OutOf(l)' = OutOf(l)
      BY <1>1, <2>5
    <3>2. CountOK(k)'
      <4>1. CASE t \in Unreadable /\ UNCHANGED bucket
        BY <1>0, <2>1, <2>2, <3>1, <4>1, CountPasses
      <4>2. CASE /\ bucket'[t] # Absent
                 /\ \A u \in Targets \ {t} : bucket'[u] = bucket[u]
        BY <1>0, <2>1, <2>2, <3>1, <4>2, CountPasses
      <4>3. CASE t \notin Unreadable /\ Reject(k) /\ UNCHANGED bucket
        <5>1. Unfit(k)' = Unfit(k) + 1
          BY <1>0, <2>2, <4>3, RejectTally
        <5> QED
          BY <1>0, <3>1, <5>1 DEF DisclosedFacts
      <4> QED
        BY <2>3, <4>1, <4>2, <4>3
    <3>3. \A l \in Kinds \ {k} : CountOK(l)'
      BY <1>0, <2>1, <2>2, <2>4, <3>1, OtherStays
    <3> QED
      BY <3>2, <3>3 DEF CountsOK
  <2>6. CASE t \notin Unreadable /\ Reject(k) /\ UNCHANGED bucket
    <3>1. /\ Unfit(k)' = Unfit(k) + 1
          /\ \A l \in Kinds \ {k} : Unfit(l)' = Unfit(l)
          /\ \A l \in Kinds : OutOf(l)' = OutOf(l)
      BY <1>0, <2>2, <2>6, RejectTally
    <3>2. CountOK(k)'
      BY <1>0, <2>1, <2>2, <2>6, <3>1, CountDrops
    <3>3. \A l \in Kinds \ {k} : CountOK(l)'
      BY <1>0, <2>1, <2>2, <2>4, <3>1, OtherStays
    <3> QED
      BY <3>2, <3>3 DEF CountsOK
  <2> QED
    BY <2>3, <2>5, <2>6
<1>4. ASSUME NEW k \in Kinds, NEW t \in Targets, Unavailable(k, t)
      PROVE  CountsOK'
  <2>1. /\ At(k, t) /\ phase = k /\ phase # "raised" /\ Leave(k)
        /\ UNCHANGED <<scopes, bucket>>
    BY <1>4 DEF Unavailable, Ask, At, runVars, Kinds
  <2>2. /\ \A l \in Kinds : CountOK(l)
        /\ ~disabled
    BY <2>1, AtIsOpen DEF CountsOK
  <2>3. CountOK(k)'
    BY <1>0, <1>4, <2>2, CountCuts
  <2>4. /\ \A l \in Kinds : Unfit(l)' = Unfit(l)
        /\ \A l \in Kinds \ {k} : OutOf(l)' = OutOf(l)
    BY <1>0, <1>4, <2>2, OutageTally
  <2>5. \A l \in Kinds \ {k} : CountOK(l)'
    BY <1>0, <2>1, <2>2, <2>4, OtherStays
  <2> QED
    BY <2>3, <2>5 DEF CountsOK
<1>5. ASSUME NEW k \in Kinds, NEW t \in Targets, Raise(k, t) PROVE CountsOK'
  BY <1>5 DEF Raise, CountsOK
<1>6. ASSUME NextRun PROVE CountsOK'
  <2>1. /\ phase' = First /\ idx' = 0 /\ ~disabled'
        /\ rejections' = [k \in Kinds |-> 0]
        /\ bucket' = [t \in Targets |-> Absent]
    BY <1>6 DEF NextRun, Fresh, First
  <2>2. ASSUME NEW k \in Kinds PROVE CountOK(k)'
    <3>1. OutOf(k)' = 0 /\ Unfit(k)' = 0
      BY <1>0, <2>1 DEF DisclosedFacts
    <3>2. Walked(k)' = 0
      BY <2>1 DEF Walked, Over, First, Second, Kinds
    <3>3. Dropped(k)' = {}
      BY <3>2 DEF Dropped
    <3>4. \A i \in DOMAIN Walk[k] : bucket'[Walk[k][i]] = Absent
      BY <2>1, Constants
    <3> QED
      BY <3>1, <3>3, <3>4, FS_EmptySet DEF CountOK
  <2> QED
    BY <2>2 DEF CountsOK
<1>7. CASE UNCHANGED vars
  <2>1. /\ UNCHANGED <<lossVars, phase, idx, scopes, bucket>>
    BY <1>7 DEF vars, walkVars, runVars
  <2>2. ASSUME NEW k \in Kinds, CountOK(k) PROVE CountOK(k)'
    <3>1. /\ Unfit(k)' = Unfit(k) /\ OutOf(k)' = OutOf(k)
          /\ OutOf(First)' = OutOf(First)
      BY <1>1, <2>1 DEF First, Kinds
    <3>2. Walked(k)' = Walked(k) /\ (Over(k) => Over(k)')
      BY <2>1, <3>1 DEF Walked, Over, Entered, First
    <3> QED
      BY <1>0, <2>1, <2>2, <3>1, <3>2, CountStays, WalkedIsNat
  <2> QED
    BY <2>1, <2>2 DEF CountsOK
<1> QED
  BY <1>2, <1>3, <1>4, <1>5, <1>6, <1>7 DEF Next

\* A text, cached now at the latest, is judged.
LEMMA SettleCaches ==
  ASSUME TypeOK, CacheOK, NEW k \in Kinds, NEW t \in Targets,
         NEW text \in Texts, Settle(k, t, text),
         cache'[KeyOf[t]] = text, UNCHANGED runVars,
         \A u \in Targets : cache'[KeyOf[u]] = cache[KeyOf[u]]
                              \/ cache[KeyOf[u]] = Absent,
         \A u \in Targets : KeyOf[u] = KeyOf[t] => cache'[KeyOf[u]] = text,
         \A u \in asked' : u \in asked \/ u = t,
         t \in asked' => judged[t] \in {0, run}
  PROVE  CacheOK'
<1>1. /\ \A u \in Targets \ {t} : /\ bucket'[u] = bucket[u]
                                  /\ judged'[u] = judged[u]
      /\ bucket'[t] = bucket[t] \/ (bucket'[t] = text /\ text \in rules)
      /\ judged'[t] = IF judged[t] = 0 THEN run ELSE judged[t]
      /\ UNCHANGED <<run, rules, prior>>
  BY DEF Settle, TypeOK, runVars
<1>2. ASSUME NEW u \in Targets
      PROVE  /\ bucket[u] # Absent => bucket[u] = cache'[KeyOf[u]]
             /\ prior[u] # Absent => prior[u] = cache'[KeyOf[u]]
             /\ judged[u] # 0 => cache'[KeyOf[u]] \in Texts
  BY Constants DEF CacheOK
<1>3. \A u \in Targets : bucket'[u] # Absent =>
        bucket'[u] = cache'[KeyOf[u]] /\ bucket'[u] \in rules'
  BY <1>1, <1>2 DEF CacheOK
<1>4. \A u \in Targets : judged'[u] # 0 => cache'[KeyOf[u]] \in Texts
  BY <1>1, <1>2
<1>5. \A u \in Targets : u \in asked' => judged'[u] \in {0, run'}
  BY <1>1 DEF CacheOK
<1> QED
  BY <1>1, <1>2, <1>3, <1>4, <1>5 DEF CacheOK

LEMMA CacheStep == Inv /\ [Next]_vars => CacheOK'
<1> SUFFICES ASSUME Inv, [Next]_vars PROVE CacheOK'
  OBVIOUS
<1> USE DEF Inv
<1>1. CASE UNCHANGED <<runVars, bucket, cache, asked, judged>>
  BY <1>1 DEF runVars, CacheOK
<1>2. ASSUME NEW k \in Kinds, NEW t \in Targets, Hit(k, t) PROVE CacheOK'
  <2>1. /\ cache[KeyOf[t]] \in Texts /\ Settle(k, t, cache[KeyOf[t]])
        /\ UNCHANGED <<runVars, cache, asked>>
    BY <1>2 DEF Hit
  <2>2. t \in asked => judged[t] \in {0, run}
    BY DEF CacheOK
  <2> QED
    BY <2>1, <2>2, SettleCaches
<1>3. ASSUME NEW k \in Kinds, NEW t \in Targets, Answer(k, t) PROVE CacheOK'
  <2>1. PICK text \in Texts : /\ cache' = [cache EXCEPT ![KeyOf[t]] = text]
                              /\ Settle(k, t, text)
    BY <1>3 DEF Answer
  <2>2. /\ cache[KeyOf[t]] = Absent
        /\ asked' = asked \cup {t} /\ UNCHANGED runVars
    BY <1>3 DEF Answer, Ask
  <2>3. \A u \in Targets :
          /\ KeyOf[u] = KeyOf[t] => cache'[KeyOf[u]] = text
          /\ cache'[KeyOf[u]] = cache[KeyOf[u]] \/ cache[KeyOf[u]] = Absent
    BY <2>1, <2>2, Constants DEF TypeOK
  <2>4. judged[t] = 0
    BY <2>2, Constants DEF CacheOK
  <2> QED
    BY <2>1, <2>2, <2>3, <2>4, SettleCaches
<1>4. ASSUME NEW k \in Kinds, NEW t \in Targets, Unavailable(k, t)
      PROVE  CacheOK'
  <2>1. /\ cache[KeyOf[t]] = Absent /\ asked' = asked \cup {t}
        /\ UNCHANGED <<runVars, bucket, cache, judged>>
    BY <1>4 DEF Unavailable, Ask
  <2>2. judged[t] = 0
    BY <2>1, Constants DEF CacheOK
  <2> QED
    BY <2>1, <2>2 DEF CacheOK, runVars
<1>5. ASSUME NextRun PROVE CacheOK'
  <2>1. /\ \A t \in Targets :
             /\ bucket'[t] = Absent
             /\ prior'[t] \in {bucket[t], prior[t]}
             /\ prior'[t] = bucket[t]
                  => bucket[t] # Absent \/ prior'[t] = prior[t]
        /\ asked' = {} /\ UNCHANGED <<cache, judged>>
    BY <1>5 DEF NextRun, Fresh
  <2> QED
    BY <2>1 DEF CacheOK
<1> QED
  BY <1>1, <1>2, <1>3, <1>4, <1>5
     DEF Next, Enter, Return, Unread, Raise, vars

\* The invariant holds in every reachable state.
THEOREM Invariance == Spec => []Inv
<1>1. Init => Inv
  BY InitInv
<1>2. Inv /\ [Next]_vars => Inv'
  BY TypeStep, RefsStep, LatchStep, CountsStep, CacheStep DEF Inv
<1> QED
  BY <1>1, <1>2, PTL DEF Spec

-----------------------------------------------------------------------------
\* Every variable keeps its type.
THEOREM Typing == Spec => []TypeOK
  BY Invariance, PTL DEF Inv

\* One entry for each cause and kind, and one outage in a run.
THEOREM EntryEach == Spec => []OneEntryEach
<1>1. Inv => OneEntryEach
  <2>1. ASSUME Inv, NEW i \in DOMAIN degradations PROVE
          degradations[i].reason \in {Unfits, Outage}
    <3>1. degradations[i] \in Entry
      BY <2>1 DEF Inv, TypeOK
    <3> QED
      BY <3>1 DEF Entry, Reasons, Unfits, Outage
  <2> QED
    BY <2>1 DEF Inv, RefsOK, OneEntryEach, Unfits, Outage
<1> QED
  BY <1>1, Invariance, PTL

\* Nothing is published that this version's rules reject, cached or not.
THEOREM ValidOnly == Spec => []PublishedIsValid
<1>1. Inv => PublishedIsValid
  BY DEF Inv, CacheOK, PublishedIsValid
<1> QED
  BY <1>1, Invariance, PTL

\* One text for each content, in one run and over many.
THEOREM OneText == Spec => []TextPerContent
<1>1. Inv => TextPerContent
  BY DEF Inv, CacheOK, TextPerContent
<1> QED
  BY <1>1, Invariance, PTL

\* What was once answered is never asked again.
THEOREM NoRepeat == Spec => []NoRepeatedCall
<1>1. Inv => NoRepeatedCall
  BY DEF Inv, CacheOK, TypeOK, NoRepeatedCall
<1> QED
  BY <1>1, Invariance, PTL

\* When the run is done, the targets without a text are those that were
\* dropped and those the outage cut off, one for each position of the walk,
\* and no readable target is without a text but those.
LEMMA LossesCounted ==
  ASSUME Inv, phase = "done", NEW k \in Kinds, Entered(k)
  PROVE  /\ OutOf(k) + Unfit(k) <= Cardinality(Lost(k))
         /\ Cardinality(Lost(k) \ Unreadable) <= OutOf(k) + Unfit(k)
<1> DEFINE n == Len(Walk[k])
           Ahead == Walked(k) + 1 .. n
           S == Dropped(k) \cup Ahead
<1>1. TypeOK /\ DisclosedFacts /\ CountOK(k)
  BY DisclosedIs DEF Inv, CountsOK
<1>2. /\ n \in Nat /\ DOMAIN Walk[k] = 1 .. n
      /\ \A i, j \in 1 .. n : Walk[k][i] = Walk[k][j] => i = j
  BY Constants
<1>3. /\ Walked(k) = n - OutOf(k)
      /\ OutOf(k) \in Nat /\ Unfit(k) \in Nat
  BY <1>1 DEF Walked, Over, Kinds, DisclosedFacts
<1>4. /\ Walked(k) \in 0 .. n
      /\ IsFiniteSet(Dropped(k)) /\ Dropped(k) \subseteq 1 .. Walked(k)
  BY <1>1, WalkedIsNat
<1>5. /\ Unfit(k) = Cardinality(Dropped(k))
      /\ \A i \in 1 .. n : i > Walked(k) => bucket[Walk[k][i]] = Absent
  BY <1>1, <1>2 DEF CountOK
<1>6. /\ IsFiniteSet(S) /\ S \subseteq 1 .. n
      /\ Cardinality(S) = OutOf(k) + Unfit(k)
  <2>1. IsFiniteSet(Ahead) /\ Cardinality(Ahead) = OutOf(k)
    <3> HIDE DEF n
    <3>1. Walked(k) + 1 \in Int /\ n \in Int
      BY <1>2, <1>4
    <3>2. /\ IsFiniteSet(Ahead)
          /\ Cardinality(Ahead) = IF Walked(k) + 1 > n THEN 0
                                 ELSE n - (Walked(k) + 1) + 1
      BY <3>1, FS_Interval
    <3> HIDE DEF Ahead
    <3> QED
      BY <1>2, <1>3, <1>4, <3>2
  <2>2. Dropped(k) \cap Ahead = {}
    BY <1>2, <1>4
  <2>3. Cardinality({}) = 0
    BY FS_EmptySet
  <2>4. S \subseteq 1 .. n
    BY <1>2, <1>4
  <2> HIDE DEF Ahead
  <2>5. /\ IsFiniteSet(S)
        /\ Cardinality(S) = Cardinality(Dropped(k)) + Cardinality(Ahead)
                              - Cardinality(Dropped(k) \cap Ahead)
    BY <1>4, <2>1, FS_Union
  <2>6. Cardinality(Dropped(k) \cap Ahead) = 0
    BY <2>2, <2>3
  <2> HIDE DEF S
  <2>7. Cardinality(S) = Unfit(k) + OutOf(k) - 0
    BY <1>5, <2>1, <2>5, <2>6
  <2> QED
    BY <1>3, <2>4, <2>5, <2>7
<1>7. \A i \in S : Walk[k][i] \in Lost(k)
  BY <1>2, <1>4, <1>5 DEF Dropped, Lost, TargetsOf
<1>8. \A t \in Lost(k) \ Unreadable : \E i \in S : Walk[k][i] = t
  <2> SUFFICES ASSUME NEW t \in Lost(k), t \notin Unreadable
               PROVE  \E i \in S : Walk[k][i] = t
    OBVIOUS
  <2>1. PICK i \in 1 .. n : Walk[k][i] = t
    BY <1>2 DEF Lost, TargetsOf
  <2>2. bucket[t] = Absent
    BY DEF Lost
  <2>3. CASE i <= Walked(k)
    <3>1. i \in Dropped(k)
      BY <1>4, <2>1, <2>2, <2>3 DEF Dropped
    <3> QED
      BY <2>1, <3>1
  <2>4. CASE i > Walked(k)
    <3>1. i \in Ahead
      BY <1>2, <1>4, <2>1, <2>4
    <3> QED
      BY <2>1, <3>1
  <2> QED
    BY <1>4, <2>1, <2>3, <2>4
<1>9. IsFiniteSet(Lost(k))
  <2> DEFINE g == [i \in 1 .. n |-> Walk[k][i]]
  <2>1. g \in Surjection(1 .. n, TargetsOf(k))
    BY <1>2 DEF Surjection, TargetsOf
  <2>2. IsFiniteSet(1 .. n)
    BY <1>2, FS_Interval
  <2>3. IsFiniteSet(TargetsOf(k))
    BY <2>1, <2>2, FS_Surjection
  <2>4. Lost(k) \in SUBSET TargetsOf(k)
    BY DEF Lost
  <2> QED
    BY <2>3, <2>4, FS_Subset
<1> HIDE DEF n, S, Ahead
<1>10. Cardinality(S) <= Cardinality(Lost(k))
  <2> DEFINE f == [i \in S |-> Walk[k][i]]
  <2>1. f \in [S -> Lost(k)]
    BY <1>7
  <2>2. \A i, j \in S : f[i] = f[j] => i = j
    BY <1>2, <1>6
  <2>3. f \in Injection(S, Lost(k))
    BY <2>1, <2>2 DEF Injection, IsInjective
  <2> QED
    BY <1>9, <2>3, FS_Injection
<1>11. Cardinality(Lost(k) \ Unreadable) <= Cardinality(S)
  <2> DEFINE R == Lost(k) \ Unreadable
             h == [t \in R |-> CHOOSE i \in S : Walk[k][i] = t]
  <2>1. \A t \in R : h[t] \in S /\ Walk[k][h[t]] = t
    BY <1>8
  <2>2. h \in [R -> S]
    BY <2>1
  <2>3. \A t, u \in R : h[t] = h[u] => t = u
    BY <2>1
  <2>4. h \in Injection(R, S)
    BY <2>2, <2>3 DEF Injection, IsInjective
  <2> QED
    BY <1>6, <2>4, FS_Injection
<1> QED
  BY <1>6, <1>10, <1>11

\* What the manifest counts for a kind is what the kind has lost, but for
\* schema files nobody could read.
THEOREM Counts == Spec => []CountsAreLosses
<1>1. Inv => CountsAreLosses
  BY LossesCounted DEF CountsAreLosses
<1> QED
  BY <1>1, Invariance, PTL

=============================================================================
