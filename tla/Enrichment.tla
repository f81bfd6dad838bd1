----------------------------- MODULE Enrichment -----------------------------
(***************************************************************************)
(* plugins/llm_enrich/enricher.py: LlmEnricher, run by the host pipeline   *)
(* (inspection/pipeline.py, run_group over a ThreadPoolExecutor) on one    *)
(* thread per worker, with the content-addressed Cache of cache.py and the *)
(* Ollama server behind client.py.                                         *)
(*                                                                         *)
(* One step is one access to state another thread can see.  CPython makes  *)
(* a single attribute read or write atomic and nothing larger, so the two  *)
(* reads of _disabled, the read of _degradation and the two writes made    *)
(* inside _disable are separate steps; what is done under _reporter_lock   *)
(* is guarded by the lock variable.                                        *)
(***************************************************************************)
EXTENDS Integers, Sequences, FiniteSets

CONSTANTS
  Workers,      \* the threads of the enricher pool (CBM_ENRICH_WORKERS)
  NumRecords,   \* the number of FileRecords of the run
  Eligible,     \* the records _should_summarize accepts
  Decodable,    \* the records whose content is UTF-8
  Keys,         \* cache keys: (kind, model, prompt_sha, target_sha)
  KeyOf,        \* the key of each record; path is no part of it
  Texts,        \* what the model can answer
  Valid,        \* the answers validate() accepts
  Absent,       \* no usable text
  Unreadable,   \* a cache file whose bytes are not UTF-8
  NoThread,     \* the lock is free
  MaxRuns       \* bound: mapping runs over the same repository and cache

Records == 1 .. NumRecords

ASSUME EnrichmentAssumption ==
  /\ IsFiniteSet(Workers) /\ Workers # {}
  /\ NumRecords \in Nat
  /\ Eligible \subseteq Records /\ Decodable \subseteq Records
  /\ KeyOf \in [Records -> Keys]
  /\ Valid \subseteq Texts
  /\ Absent \notin Texts /\ Unreadable \notin Texts /\ Absent # Unreadable
  /\ NoThread \notin Workers
  /\ MaxRuns \in Nat \ {0}

VARIABLES
  run,           \* how many runs have been started, this one included
  status,        \* of the run: running, aborting, aborted, done
  fate,          \* each record's future, and what became of its enrichment
  pc, cur, got,  \* per thread: the next step, its record, its model text
  reporterLock,  \* holder of _reporter_lock
  disabled,      \* _disabled
  degradation,   \* _degradation: index into degradations, 0 for None
  rejection,     \* _rejection: index into degradations, 0 for None
  degradations,  \* ctx.scratch["degradations"]
  fileSummary,   \* ctx.scratch["llm:file_summary"]
  cache,         \* the cache directory
  prior,         \* the file summaries of the last run that completed
  lateCalls      \* model calls begun after the outage was registered

threadVars == <<pc, cur, got>>
runVars == <<reporterLock, disabled, degradation, rejection, degradations,
             fileSummary, lateCalls>>
vars == <<run, status, fate, threadVars, runVars, cache, prior>>

\* What a settled future says of its record: "counted" and "silent" both
\* lost the summary to the outage, only the first is in the tally; "passed"
\* is a record the enricher never summarises.
Settled == {"enriched", "rejected", "counted", "silent", "passed"}
Fates == Settled \cup {"queued", "running", "raised", "cancelled"}

Entry == [reason : {"client_failure_self_disabled",
                    "output_failed_validation"},
          skipped : Nat]

Steps == {"idle", "degraded", "count", "recheck", "get", "chat", "put",
          "judge", "disable", "register"}

-----------------------------------------------------------------------------
\* The cache directory holds whatever earlier runs, perhaps of other
\* repositories, have left in it.
Init ==
  /\ run = 1
  /\ status = "running"
  /\ fate = [r \in Records |-> "queued"]
  /\ pc = [w \in Workers |-> "idle"]
  /\ cur = [w \in Workers |-> 0]
  /\ got = [w \in Workers |-> Absent]
  /\ reporterLock = NoThread
  /\ disabled = FALSE /\ degradation = 0 /\ rejection = 0
  /\ degradations = <<>>
  /\ fileSummary = [r \in Records |-> Absent]
  /\ lateCalls = 0
  /\ cache \in [Keys -> Texts \cup {Absent, Unreadable}]
  /\ prior = [r \in Records |-> Absent]

-----------------------------------------------------------------------------
\* Cache.compose_key of the record's call.
\* Mutant: the target's hash left out of the key.
KeyWithoutTarget(r) == KeyOf[1]

Key(r) == KeyOf[r]

\* The thread moves on to step p of the record it has.
Goto(w, p) == pc' = [pc EXCEPT ![w] = p]

\* enrich() returns (or raises): the future of the thread's record settles.
Finish(w, f) ==
  /\ fate' = [fate EXCEPT ![cur[w]] = f]
  /\ pc' = [pc EXCEPT ![w] = "idle"]
  /\ cur' = [cur EXCEPT ![w] = 0]
  /\ got' = [got EXCEPT ![w] = Absent]

Tally(i) == [degradations EXCEPT ![i].skipped = @ + 1]

\* The pool hands the oldest queued record to an idle thread, which enters
\* enrich() and reads _disabled for the first time.
Start(w, r) ==
  /\ pc[w] = "idle"
  /\ fate[r] = "queued"
  /\ \A q \in Records : q < r => fate[q] # "queued"
  /\ fate' = [fate EXCEPT ![r] = "running"]
  /\ cur' = [cur EXCEPT ![w] = r]
  /\ Goto(w, IF disabled THEN "degraded" ELSE "recheck")
  /\ UNCHANGED <<run, status, got, runVars, cache, prior>>

\* Mutant: the degraded path counts records that are never summarised.
DegradedCountsAll(w) ==
  /\ pc[w] = "degraded"
  /\ \/ /\ degradation # 0
        /\ Goto(w, "count")
        /\ UNCHANGED <<fate, cur, got>>
     \/ /\ degradation = 0
        /\ Finish(w, "silent")
  /\ UNCHANGED <<run, status, runVars, cache, prior>>

\* The degraded path reads _degradation outside the lock; while the thread
\* that disabled the enricher has not registered the entry yet it is None.
Degraded(w) ==
  /\ pc[w] = "degraded"
  /\ \/ /\ degradation # 0
        /\ cur[w] \in Eligible
        /\ Goto(w, "count")
        /\ UNCHANGED <<fate, cur, got>>
     \/ /\ degradation = 0 \/ cur[w] \notin Eligible
        /\ Finish(w, IF cur[w] \in Eligible \cap Decodable
                     THEN "silent" ELSE "passed")
  /\ UNCHANGED <<run, status, runVars, cache, prior>>

Count(w) ==
  /\ pc[w] = "count"
  /\ reporterLock = NoThread
  /\ degradations' = Tally(degradation)
  /\ Finish(w, "counted")
  /\ UNCHANGED <<run, status, reporterLock, disabled, degradation, rejection,
                 fileSummary, lateCalls, cache, prior>>

\* _file_summary_enabled() reads _disabled a second time and enrich()
\* returns without counting when it has flipped; then the two per-record
\* gates, _should_summarize and the UTF-8 decode.
Recheck(w) ==
  /\ pc[w] = "recheck"
  /\ \/ /\ ~disabled
        /\ cur[w] \in Eligible \cap Decodable
        /\ Goto(w, "get")
        /\ UNCHANGED <<fate, cur, got>>
     \/ /\ disabled \/ cur[w] \notin Eligible \cap Decodable
        /\ Finish(w, IF cur[w] \in Eligible \cap Decodable
                     THEN "silent" ELSE "passed")
  /\ UNCHANGED <<run, status, runVars, cache, prior>>

\* Cache.get: a usable entry is a hit; anything else is a miss and the model
\* is called, except that bytes which are not UTF-8 raise out of get().
CacheGet(w) ==
  LET entry == cache[Key(cur[w])] IN
  /\ pc[w] = "get"
  /\ \/ /\ entry \in Texts
        /\ got' = [got EXCEPT ![w] = entry]
        /\ Goto(w, "judge")
        /\ UNCHANGED <<fate, cur, lateCalls>>
     \/ /\ entry = Absent
        /\ Goto(w, "chat")
        /\ lateCalls' = lateCalls + (IF degradation # 0 THEN 1 ELSE 0)
        /\ UNCHANGED <<fate, cur, got>>
     \/ /\ entry = Unreadable
        /\ Finish(w, "raised")
        /\ UNCHANGED lateCalls
  /\ UNCHANGED <<run, status, reporterLock, disabled, degradation, rejection,
                 degradations, fileSummary, cache, prior>>

\* OllamaClient.chat: an answer, OllamaUnreachable or OllamaModelMissing
\* (both end in _disable), or any other transport error, which nobody
\* catches.
ChatAnswers(w) ==
  /\ pc[w] = "chat"
  /\ \E t \in Texts : got' = [got EXCEPT ![w] = t]
  /\ Goto(w, "put")
  /\ UNCHANGED <<run, status, fate, cur, runVars, cache, prior>>

ChatUnavailable(w) ==
  /\ pc[w] = "chat"
  /\ Goto(w, "disable")
  /\ UNCHANGED <<run, status, fate, cur, got, runVars, cache, prior>>

ChatFails(w) ==
  /\ pc[w] = "chat"
  /\ Finish(w, "raised")
  /\ UNCHANGED <<run, status, runVars, cache, prior>>

\* Mutant: the computed record is returned without being written.
CachePutSkipped(w) ==
  /\ pc[w] = "put"
  /\ Goto(w, "judge")
  /\ UNCHANGED <<run, status, fate, cur, got, runVars, cache, prior>>

\* Cache.put publishes the entry atomically (module LlmCache) ...
CachePut(w) ==
  /\ pc[w] = "put"
  /\ cache' = [cache EXCEPT ![Key(cur[w])] = got[w]]
  /\ Goto(w, "judge")
  /\ UNCHANGED <<run, status, fate, cur, got, runVars, prior>>

\* ... or raises OSError (disk full), and the answer is lost with the run.
CachePutFails(w) ==
  /\ pc[w] = "put"
  /\ Finish(w, "raised")
  /\ UNCHANGED <<run, status, runVars, cache, prior>>

\* validate(): a good text goes to ctx.scratch under the record's own key.
Accept(w) ==
  /\ pc[w] = "judge"
  /\ reporterLock = NoThread
  /\ got[w] \in Valid
  /\ fileSummary' = [fileSummary EXCEPT ![cur[w]] = got[w]]
  /\ Finish(w, "enriched")
  /\ UNCHANGED <<run, status, reporterLock, disabled, degradation, rejection,
                 degradations, lateCalls, cache, prior>>

\* Mutant: a rejection bumps whichever entry was registered last.
RejectBumpsLast(w) ==
  /\ pc[w] = "judge"
  /\ reporterLock = NoThread
  /\ got[w] \notin Valid
  /\ \/ /\ degradations = <<>>
        /\ degradations' = Append(degradations,
             [reason |-> "output_failed_validation", skipped |-> 1])
        /\ rejection' = Len(degradations) + 1
     \/ /\ degradations # <<>>
        /\ degradations' = Tally(Len(degradations))
        /\ UNCHANGED rejection
  /\ Finish(w, "rejected")
  /\ UNCHANGED <<run, status, reporterLock, disabled, degradation,
                 fileSummary, lateCalls, cache, prior>>

\* _reject(): under the lock, one aggregated entry for the whole run.
Reject(w) ==
  /\ pc[w] = "judge"
  /\ reporterLock = NoThread
  /\ got[w] \notin Valid
  /\ \/ /\ rejection = 0
        /\ degradations' = Append(degradations,
             [reason |-> "output_failed_validation", skipped |-> 1])
        /\ rejection' = Len(degradations) + 1
     \/ /\ rejection # 0
        /\ degradations' = Tally(rejection)
        /\ UNCHANGED rejection
  /\ Finish(w, "rejected")
  /\ UNCHANGED <<run, status, reporterLock, disabled, degradation,
                 fileSummary, lateCalls, cache, prior>>

\* Mutant: _disable() does not set the latch.
DisableWithoutLatch(w) ==
  /\ pc[w] = "disable"
  /\ reporterLock = NoThread
  /\ reporterLock' = w
  /\ Goto(w, "register")
  /\ UNCHANGED <<run, status, fate, cur, got, disabled, degradation,
                 rejection, degradations, fileSummary, lateCalls, cache, prior>>

\* Mutant: _disable() sets the latch and registers nothing.
DisableSilently(w) ==
  /\ pc[w] = "disable"
  /\ reporterLock = NoThread
  /\ disabled' = TRUE
  /\ Finish(w, "silent")
  /\ UNCHANGED <<run, status, reporterLock, degradation, rejection,
                 degradations, fileSummary, lateCalls, cache, prior>>

\* _disable(): the latch is set as soon as the lock is held ...
Disable(w) ==
  /\ pc[w] = "disable"
  /\ reporterLock = NoThread
  /\ reporterLock' = w
  /\ disabled' = TRUE
  /\ Goto(w, "register")
  /\ UNCHANGED <<run, status, fate, cur, got, degradation, rejection,
                 degradations, fileSummary, lateCalls, cache, prior>>

\* Mutant: every failing thread registers an entry of its own.
RegisterAgain(w) ==
  /\ pc[w] = "register"
  /\ degradations' = Append(degradations,
       [reason |-> "client_failure_self_disabled", skipped |-> 1])
  /\ degradation' = Len(degradations) + 1
  /\ reporterLock' = NoThread
  /\ Finish(w, "counted")
  /\ UNCHANGED <<run, status, disabled, rejection, fileSummary, lateCalls,
                 cache, prior>>

\* Mutant: the loser of two concurrent failures returns with the lock held.
RegisterKeepsLock(w) ==
  /\ pc[w] = "register"
  /\ \/ /\ degradation = 0
        /\ degradations' = Append(degradations,
             [reason |-> "client_failure_self_disabled", skipped |-> 1])
        /\ degradation' = Len(degradations) + 1
        /\ reporterLock' = NoThread
     \/ /\ degradation # 0
        /\ degradations' = Tally(degradation)
        /\ UNCHANGED <<degradation, reporterLock>>
  /\ Finish(w, "counted")
  /\ UNCHANGED <<run, status, disabled, rejection, fileSummary, lateCalls,
                 cache, prior>>

\* ... and the entry is registered, or the failed record folded into it,
\* before the lock is released.
Register(w) ==
  /\ pc[w] = "register"
  /\ \/ /\ degradation = 0
        /\ degradations' = Append(degradations,
             [reason |-> "client_failure_self_disabled", skipped |-> 1])
        /\ degradation' = Len(degradations) + 1
     \/ /\ degradation # 0
        /\ degradations' = Tally(degradation)
        /\ UNCHANGED degradation
  /\ reporterLock' = NoThread
  /\ Finish(w, "counted")
  /\ UNCHANGED <<run, status, disabled, rejection, fileSummary, lateCalls,
                 cache, prior>>

-----------------------------------------------------------------------------
Idle == \A w \in Workers : pc[w] = "idle"

\* list(pool.map(...)) meets the first raised future, in submission order:
\* the futures not yet started are cancelled and the exception is on its
\* way out of the with statement, which waits for the threads.
Abort ==
  /\ status = "running"
  /\ \E r \in Records :
       /\ fate[r] = "raised"
       /\ \A q \in Records : q < r => fate[q] \in Settled
  /\ status' = "aborting"
  /\ fate' = [r \in Records |->
                IF fate[r] = "queued" THEN "cancelled" ELSE fate[r]]
  /\ UNCHANGED <<run, threadVars, runVars, cache, prior>>

\* The pool has shut down: the run goes on to emit its bundle, or has failed.
PoolExit ==
  /\ Idle
  /\ \/ /\ status = "running"
        /\ \A r \in Records : fate[r] \in Settled
        /\ status' = "done"
     \/ /\ status = "aborting"
        /\ status' = "aborted"
  /\ UNCHANGED <<run, fate, threadVars, runVars, cache, prior>>

\* The next run over the same repository is a new process; the cache alone
\* survives.  It may follow a killed run, at any step.
NextRun ==
  /\ run < MaxRuns
  /\ run' = run + 1
  /\ status' = "running"
  /\ fate' = [r \in Records |-> "queued"]
  /\ pc' = [w \in Workers |-> "idle"]
  /\ cur' = [w \in Workers |-> 0]
  /\ got' = [w \in Workers |-> Absent]
  /\ reporterLock' = NoThread
  /\ disabled' = FALSE /\ degradation' = 0 /\ rejection' = 0
  /\ degradations' = <<>>
  /\ fileSummary' = [r \in Records |-> Absent]
  /\ lateCalls' = 0
  /\ prior' = IF status = "done" THEN fileSummary ELSE prior
  /\ UNCHANGED cache

ThreadStep(w) ==
  \/ \E r \in Records : Start(w, r)
  \/ Degraded(w) \/ Count(w) \/ Recheck(w)
  \/ CacheGet(w)
  \/ ChatAnswers(w) \/ ChatUnavailable(w) \/ ChatFails(w)
  \/ CachePut(w) \/ CachePutFails(w)
  \/ Accept(w) \/ Reject(w)
  \/ Disable(w) \/ Register(w)

Next ==
  \/ \E w \in Workers : ThreadStep(w)
  \/ Abort \/ PoolExit \/ NextRun

Spec == Init /\ [][Next]_vars

\* Threads of a pool are scheduled, chat() is bounded by its timeout and the
\* lock is held for a few statements; nobody has to start another run.
FairSpec ==
  /\ Spec
  /\ \A w \in Workers : WF_vars(ThreadStep(w))
  /\ WF_vars(Abort) /\ WF_vars(PoolExit)

-----------------------------------------------------------------------------
TypeOK ==
  /\ run \in 1 .. MaxRuns
  /\ status \in {"running", "aborting", "aborted", "done"}
  /\ fate \in [Records -> Fates]
  /\ pc \in [Workers -> Steps]
  /\ cur \in [Workers -> 0 .. NumRecords]
  /\ got \in [Workers -> Texts \cup {Absent}]
  /\ reporterLock \in Workers \cup {NoThread}
  /\ disabled \in BOOLEAN
  /\ degradations \in Seq(Entry)
  /\ degradation \in 0 .. Len(degradations)
  /\ rejection \in 0 .. Len(degradations)
  /\ fileSummary \in [Records -> Texts \cup {Absent}]
  /\ cache \in [Keys -> Texts \cup {Absent, Unreadable}]
  /\ prior \in [Records -> Texts \cup {Absent}]
  /\ lateCalls \in Nat

Skipped(i) == IF i = 0 THEN 0 ELSE degradations[i].skipped

With(f) == {r \in Records : fate[r] = f}

\* The records that would have been summarised, and are finished without it.
Lost == {r \in Eligible \cap Decodable :
           fate[r] \in Settled /\ fileSummary[r] = Absent}

\* "The lock guarantees exactly one entry is registered" per cause, however
\* many threads fail at once, and each kept reference points to its own.
OneEntryPerCause ==
  /\ \A i, j \in DOMAIN degradations :
       degradations[i].reason = degradations[j].reason => i = j
  /\ degradation # 0 =>
       degradations[degradation].reason = "client_failure_self_disabled"
  /\ rejection # 0 =>
       degradations[rejection].reason = "output_failed_validation"

\* No bump of either tally is lost or made twice: the outage entry counts
\* the calls that failed and the records that took the degraded path, the
\* validation entry the answers that were dropped.
TalliesExact ==
  /\ Skipped(degradation) = Cardinality(With("counted"))
  /\ Skipped(rejection) = Cardinality(With("rejected"))

\* The losses balance, whatever threads fail, reject and race: each record
\* that lost its summary is disclosed exactly once, those excepted that slip
\* past an outage unseen.  "Every record counted from here on truly lost its
\* enrichment to the failure": not so, but what is disclosed beyond the losses
\* is files that would not have decoded, met on the degraded path, and no more.
LossesBalance ==
  Skipped(degradation) + Skipped(rejection) =
    Cardinality(Lost \ With("silent"))
      + Cardinality(With("counted") \ Decodable)

\* "A layer that stops producing must never read as success": a run that
\* completes with a summarisable record unsummarised carries an entry.
LossIsDisclosed ==
  status = "done" /\ Lost # {} =>
     \E i \in DOMAIN degradations : degradations[i].skipped > 0

\* "Disabling further calls for the rest of the run": once the outage is
\* registered, at most one call per other thread is still made.
LateCallsBounded == lateCalls < Cardinality(Workers)

\* A record an earlier completed run summarised never costs a model call.
NoRepeatedCall ==
  \A w \in Workers : pc[w] \in {"chat", "put"} => prior[cur[w]] = Absent

\* Two re-emits over one cache give a record the same summary.  Stated of
\* the records whose content no other record shares.
Unshared(r) == \A q \in Records : KeyOf[q] = KeyOf[r] => q = r

UnsharedReemitStable ==
  \A r \in Records :
     Unshared(r) /\ prior[r] # Absent => fileSummary[r] \in {Absent, prior[r]}

\* Every run ends, whatever the server does and whichever threads fail.
RunsEnd == <>[](status \in {"done", "aborted"})

-----------------------------------------------------------------------------
(***************************************************************************)
(* What the comments say and the code does not do.                         *)
(***************************************************************************)

\* enricher.py: "its skipped count is then incremented in place for every
\* later eligible record, so the end of the run sees one entry carrying the
\* final tally".
TallyComplete ==
  status = "done" => With("silent") = {}

=============================================================================
