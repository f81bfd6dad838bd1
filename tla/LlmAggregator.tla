--------------------------- MODULE LlmAggregator ---------------------------
(***************************************************************************)
(* plugins/llm_enrich/aggregator.py: LlmAggregator.run, after the enricher *)
(* pool has been joined, on one thread: the concepts first, then the       *)
(* schema files, over the same cache and server.  The server may go away   *)
(* at any target, the process may die or raise at any target, and the      *)
(* mapper is run again over the same cache, with other scopes or with      *)
(* other validation rules.                                                 *)
(*                                                                         *)
(* There is no concurrency here; a step is what happens to one target.     *)
(***************************************************************************)
EXTENDS Integers, Sequences, FiniteSets

CONSTANTS
  Walk,         \* per kind, its targets in the order the code walks them
  Unreadable,   \* schema files that do not open, or are not UTF-8
  Keys, KeyOf,  \* cache keys, and the key of each target
  Texts,        \* what the model can answer
  Absent,       \* no usable text
  BadUtf8,      \* a cache file whose bytes are not UTF-8
  MaxRuns       \* bound: mapping runs over the same repository and cache

Kinds == {"concept_description", "schema_purpose"}
Reasons == {"client_failure_self_disabled", "output_failed_validation"}
TargetsOf(k) == {Walk[k][i] : i \in DOMAIN Walk[k]}
Targets == UNION {TargetsOf(k) : k \in Kinds}

ASSUME LlmAggregatorAssumption ==
  /\ \A k \in Kinds : Walk[k] \in Seq(TargetsOf(k))
  /\ \A k \in Kinds : \A i, j \in DOMAIN Walk[k] :
       Walk[k][i] = Walk[k][j] => i = j
  /\ TargetsOf("concept_description") \cap TargetsOf("schema_purpose") = {}
  /\ Unreadable \subseteq TargetsOf("schema_purpose")
  /\ KeyOf \in [Targets -> Keys]
  /\ Absent \notin Texts /\ BadUtf8 \notin Texts /\ Absent # BadUtf8
  /\ MaxRuns \in Nat \ {0}

VARIABLES
  run,           \* how many runs have been started, this one included
  scopes,        \* the kinds this run was asked for (--llm-scope)
  rules,         \* the texts validate() accepts, in this version
  phase,         \* the kind under way, or how the run ended
  idx,           \* position in its walk; 0 before _enabled() is asked
  disabled,      \* _disabled
  rejections,    \* _rejections: per kind an index into degradations, or 0
  degradations,  \* ctx.scratch["degradations"], of this component
  bucket,        \* bucket_concepts and bucket_schemas, by target
  cache,         \* the cache directory
  asked,         \* history: targets the model was asked about in this run
  prior,         \* history: what a completed run last published
  judged         \* history: the run that first had each target's text, or 0

walkVars == <<phase, idx>>
lossVars == <<disabled, rejections, degradations>>
runVars == <<run, scopes, rules, prior>>
vars == <<walkVars, lossVars, runVars, bucket, cache, asked, judged>>

Entry == [reason : Reasons, kind : Kinds, skipped : Nat]

\* What a new process starts with.
Fresh ==
  /\ scopes' \in SUBSET Kinds
  /\ rules' \in SUBSET Texts
  /\ phase' = "concept_description" /\ idx' = 0
  /\ disabled' = FALSE
  /\ rejections' = [k \in Kinds |-> 0]
  /\ degradations' = <<>>
  /\ bucket' = [t \in Targets |-> Absent]
  /\ asked' = {}

Init ==
  /\ run = 1
  /\ scopes \in SUBSET Kinds
  /\ rules \in SUBSET Texts
  /\ phase = "concept_description" /\ idx = 0
  /\ disabled = FALSE
  /\ rejections = [k \in Kinds |-> 0]
  /\ degradations = <<>>
  /\ bucket = [t \in Targets |-> Absent]
  /\ cache \in [Keys -> Texts \cup {Absent, BadUtf8}]
  /\ asked = {}
  /\ prior = [t \in Targets |-> Absent]
  /\ judged = [t \in Targets |-> 0]

-----------------------------------------------------------------------------
\* The walk of kind k is over, one way or another.
Leave(k) ==
  /\ phase' = IF k = "concept_description" THEN "schema_purpose" ELSE "done"
  /\ idx' = 0

Enabled(k) == k \in scopes /\ ~disabled

\* run(): enter the walk of a kind, or pass over it.
Enter(k) ==
  /\ phase = k /\ idx = 0
  /\ IF Enabled(k) THEN idx' = 1 /\ UNCHANGED phase ELSE Leave(k)
  /\ UNCHANGED <<lossVars, runVars, bucket, cache, asked, judged>>

\* The loop is over.
Return(k) ==
  /\ phase = k /\ idx > Len(Walk[k])
  /\ Leave(k)
  /\ UNCHANGED <<lossVars, runVars, bucket, cache, asked, judged>>

\* The loop is at target t of kind k.
At(k, t) ==
  /\ phase = k
  /\ idx \in DOMAIN Walk[k]
  /\ t = Walk[k][idx]

\* Mutant: the reference to the entry is not kept.
RejectAgain(k) ==
  /\ degradations' = Append(degradations,
       [reason |-> "output_failed_validation", kind |-> k, skipped |-> 1])
  /\ UNCHANGED <<disabled, rejections>>

\* _reject() finds the kind's entry, or appends one.
Reject(k) ==
  /\ \/ /\ rejections[k] = 0
        /\ degradations' = Append(degradations,
             [reason |-> "output_failed_validation", kind |-> k,
              skipped |-> 1])
        /\ rejections' = [rejections EXCEPT ![k] = Len(degradations')]
     \/ /\ rejections[k] # 0
        /\ degradations' = [degradations EXCEPT
                              ![rejections[k]].skipped = @ + 1]
        /\ UNCHANGED rejections
  /\ UNCHANGED disabled

\* Mutant: the validation moved into compute(), past which cached texts slip.
SettleUnchecked(k, t, text) ==
  /\ idx' = idx + 1 /\ UNCHANGED phase
  /\ judged' = [judged EXCEPT ![t] = IF @ = 0 THEN run ELSE @]
  /\ \/ /\ text \in rules \/ cache[KeyOf[t]] = text
        /\ bucket' = [bucket EXCEPT ![t] = text]
        /\ UNCHANGED lossVars
     \/ /\ text \notin rules /\ cache[KeyOf[t]] # text
        /\ Reject(k)
        /\ UNCHANGED bucket

\* What follows get_or_compute, whether the text was cached or new.
Settle(k, t, text) ==
  /\ idx' = idx + 1 /\ UNCHANGED phase
  /\ judged' = [judged EXCEPT ![t] = IF @ = 0 THEN run ELSE @]
  /\ \/ /\ text \in rules
        /\ bucket' = [bucket EXCEPT ![t] = text]
        /\ UNCHANGED lossVars
     \/ /\ text \notin rules
        /\ Reject(k)
        /\ UNCHANGED bucket

\* A schema file that cannot be read is passed over.
Unread(k, t) ==
  /\ At(k, t) /\ t \in Unreadable
  /\ idx' = idx + 1 /\ UNCHANGED phase
  /\ UNCHANGED <<lossVars, runVars, bucket, cache, asked, judged>>

Hit(k, t) ==
  /\ At(k, t) /\ t \notin Unreadable
  /\ cache[KeyOf[t]] \in Texts
  /\ Settle(k, t, cache[KeyOf[t]])
  /\ UNCHANGED <<runVars, cache, asked>>

\* compute(): the model is asked.
Ask(k, t) ==
  /\ At(k, t) /\ t \notin Unreadable
  /\ cache[KeyOf[t]] = Absent
  /\ asked' = asked \cup {t}

\* Mutant: an answer that fails validation is not cached.
AnswerValidOnly(k, t) ==
  /\ Ask(k, t)
  /\ \E text \in Texts :
       /\ cache' = [cache EXCEPT
            ![KeyOf[t]] = IF text \in rules THEN text ELSE Absent]
       /\ Settle(k, t, text)
  /\ UNCHANGED runVars

\* Mutant: the answer is not cached at all.
AnswerUncached(k, t) ==
  /\ Ask(k, t)
  /\ \E text \in Texts : Settle(k, t, text)
  /\ UNCHANGED <<runVars, cache>>

\* It answers, the answer is cached as it is, then judged.
Answer(k, t) ==
  /\ Ask(k, t)
  /\ \E text \in Texts :
       /\ cache' = [cache EXCEPT ![KeyOf[t]] = text]
       /\ Settle(k, t, text)
  /\ UNCHANGED runVars

\* Mutant: the failed target itself is not counted.
UnavailableOffByOne(k, t) ==
  /\ Ask(k, t)
  /\ disabled' = TRUE
  /\ degradations' = Append(degradations,
       [reason |-> "client_failure_self_disabled", kind |-> k,
        skipped |-> Len(Walk[k]) - idx])
  /\ Leave(k)
  /\ UNCHANGED <<runVars, bucket, cache, rejections, judged>>

\* OllamaUnreachable, OllamaModelMissing: "the failed concept plus every one
\* not yet attempted" (idx counts from 1 here), and the walk ends.
Unavailable(k, t) ==
  /\ Ask(k, t)
  /\ disabled' = TRUE
  /\ degradations' = Append(degradations,
       [reason |-> "client_failure_self_disabled", kind |-> k,
        skipped |-> Len(Walk[k]) - idx + 1])
  /\ Leave(k)
  /\ UNCHANGED <<runVars, bucket, cache, rejections, judged>>

\* Nobody catches anything else: bytes in the cache that do not decode, other
\* errors of the client, a put that fails.  map_codebase raises.
Raise(k, t) ==
  /\ At(k, t) /\ t \notin Unreadable
  /\ cache[KeyOf[t]] \in {Absent, BadUtf8}
  /\ phase' = "raised" /\ idx' = 0
  /\ UNCHANGED <<lossVars, runVars, bucket, cache, asked, judged>>

\* A new process over the same cache, when the last one is done, or was
\* killed wherever it was.
NextRun ==
  /\ run < MaxRuns
  /\ run' = run + 1
  /\ Fresh
  /\ prior' = [t \in Targets |->
       IF phase = "done" /\ bucket[t] # Absent THEN bucket[t] ELSE prior[t]]
  /\ UNCHANGED <<cache, judged>>

Next ==
  \/ \E k \in Kinds :
       \/ Enter(k) \/ Return(k)
       \/ \E t \in Targets :
            \/ Unread(k, t) \/ Hit(k, t) \/ Answer(k, t)
            \/ Unavailable(k, t) \/ Raise(k, t)
  \/ NextRun

Spec == Init /\ [][Next]_vars

-----------------------------------------------------------------------------
TypeOK ==
  /\ run \in 1 .. MaxRuns
  /\ scopes \subseteq Kinds /\ rules \subseteq Texts
  /\ phase \in Kinds \cup {"done", "raised"}
  /\ idx \in Nat
  /\ phase \in Kinds => idx <= Len(Walk[phase]) + 1
  /\ disabled \in BOOLEAN
  /\ degradations \in Seq(Entry)
  /\ rejections \in [Kinds -> 0 .. Len(degradations)]
  /\ bucket \in [Targets -> Texts \cup {Absent}]
  /\ cache \in [Keys -> Texts \cup {Absent, BadUtf8}]
  /\ asked \subseteq Targets
  /\ prior \in [Targets -> Texts \cup {Absent}]
  /\ judged \in [Targets -> 0 .. run]

\* What the manifest says of a kind's losses for one reason.
IsEntry(i, k, r) ==
  /\ i \in DOMAIN degradations
  /\ degradations[i].kind = k /\ degradations[i].reason = r

Disclosed(k, r) ==
  IF \E i \in DOMAIN degradations : IsEntry(i, k, r)
  THEN degradations[CHOOSE i \in DOMAIN degradations :
                      IsEntry(i, k, r)].skipped
  ELSE 0

OutOf(k) == Disclosed(k, "client_failure_self_disabled")
Unfit(k) == Disclosed(k, "output_failed_validation")

\* "One entry per kind accumulates the count": so there is one for each cause
\* and kind, and one outage at most in a run, since the first ends it all.
OneEntryEach ==
  \A i, j \in DOMAIN degradations :
     /\ degradations[i].reason = degradations[j].reason
     /\ \/ degradations[i].kind = degradations[j].kind
        \/ degradations[i].reason = "client_failure_self_disabled"
     => i = j

\* The walk of a kind was begun.
Entered(k) ==
  k \in scopes /\ ~(k = "schema_purpose" /\ OutOf("concept_description") > 0)

Lost(k) == {t \in TargetsOf(k) : bucket[t] = Absent}

\* The counts published for a kind that was entered are its losses, but for
\* schema files that could not be read, which are counted when an outage came
\* before them and not otherwise.  (There are none among the concepts, whose
\* count is exact.  Of a kind that was asked for and not entered,
\* the schema files after an outage among the concepts, it says nothing: they
\* are lost, and no entry says so.
CountsAreLosses ==
  phase = "done" =>
    \A k \in Kinds : Entered(k) =>
      /\ OutOf(k) + Unfit(k) <= Cardinality(Lost(k))
      /\ Cardinality(Lost(k) \ Unreadable) <= OutOf(k) + Unfit(k)

\* "An annotation cached before a rule existed must not slip past it".
PublishedIsValid ==
  \A t \in Targets : bucket[t] # Absent => bucket[t] \in rules

\* One text per content, within a run and from a completed run to later ones,
\* whichever of the targets that share it was asked about, whatever the server
\* would answer today, and whatever was rejected in between.
TextPerContent ==
  \A t, u \in Targets : KeyOf[t] = KeyOf[u] =>
    \A x \in {bucket[t], prior[t]}, y \in {bucket[u], prior[u]} :
       x # Absent /\ y # Absent => x = y

\* The model is not asked again about a target whose answer got into the
\* cache, were the answer rejected, or the run killed or lost.
NoRepeatedCall == \A t \in asked : judged[t] \in {0, run}

=============================================================================
