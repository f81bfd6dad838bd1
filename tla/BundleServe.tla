----------------------------- MODULE BundleServe -----------------------------
(***************************************************************************)
(* The stdio server over a bundle directory that is being re-emitted:      *)
(*   bundle_data.py    _load_bundle_cached (an lru_cache) and load_bundle, *)
(*                     run by tool calls on worker threads;                *)
(*   subscriptions.py  ManifestWatcher.poll_once, SubscriptionManager;     *)
(*   server.py         prewarm_default_bundle, manifest_changed.           *)
(* The emitter is module BundleEmit, another process.  One bundle and one  *)
(* subscribed session are modelled; other bundles show up as evictions.    *)
(***************************************************************************)
EXTENDS BundleEmit

CONSTANTS
  Threads,    \* worker threads running tool calls (and the prewarm)
  ReadOrder,  \* the files load_bundle opens, in order, after the manifest
  Lenient,    \* those read line by line, skipping what does not parse:
              \* enrichments.jsonl, rust_items.jsonl
  NoBundle    \* nothing cached

ASSUME BundleServeAssumption ==
  /\ ReadOrder \in Seq(Artifacts)
  /\ Lenient \subseteq Artifacts
  /\ NoBundle \notin [run : 0 .. MaxRuns]

VARIABLES
  lru,      \* the entry of _load_bundle_cached for the bundle
  pc,       \* per thread: 0 when not loading, else the next file to read
  loading,  \* per thread: the Bundle it is building
  seeded, mtime,  \* ManifestWatcher._seeded, and the manifest it remembers
  watch,    \* where poll_once is
  scanned,  \* what it found on disk
  told      \* the manifest the session was last notified of

serveVars == <<lru, pc, loading, seeded, mtime, watch, scanned, told>>
vars == <<emitVars, serveVars>>

\* A manifest file is recognised by its st_mtime: every write gives it
\* another, so (who wrote it, complete?) stands for it.
OnDisk == [run |-> manifest.run, whole |-> manifest.whole]
Stamp == [run : 0 .. MaxRuns, whole : BOOLEAN]
NoStamp == [run |-> 0, whole |-> FALSE]

\* fresh: no clear has come since the load began.
Bundle ==
  [run : 0 .. MaxRuns, files : [Artifacts -> Version], fresh : BOOLEAN]
Empty == [run |-> 0, files |-> [a \in Artifacts |-> NoFile], fresh |-> FALSE]

Init ==
  /\ EmitInit
  /\ lru = NoBundle
  /\ pc = [t \in Threads |-> 0]
  /\ loading = [t \in Threads |-> Empty]
  /\ seeded = FALSE /\ mtime = NoStamp
  /\ watch = "idle" /\ scanned = NoStamp /\ told = NoStamp

Emitter == Emit /\ UNCHANGED serveVars

-----------------------------------------------------------------------------
\* get_bundle: the bundle resolves only if its manifest parses; on a miss
\* load_bundle starts with the manifest.
LoadBegin(t) ==
  /\ pc[t] = 0
  /\ manifest.whole
  /\ lru = NoBundle
  /\ pc' = [pc EXCEPT ![t] = 1]
  /\ loading' = [loading EXCEPT
       ![t] = [Empty EXCEPT !.run = manifest.run, !.fresh = TRUE]]
  /\ UNCHANGED <<emitVars, lru, seeded, mtime, watch, scanned, told>>

\* Files are opened one at a time, as they are by now.  One that is absent is
\* skipped and a lenient one that is cut short is read as far as it goes.
LoadFile(t) ==
  LET a == ReadOrder[pc[t]] IN
  /\ pc[t] \in DOMAIN ReadOrder
  /\ a \in Lenient \/ file[a] = NoFile \/ file[a].whole
  /\ loading' = [loading EXCEPT ![t].files[a] = file[a]]
  /\ pc' = [pc EXCEPT ![t] = @ + 1]
  /\ UNCHANGED <<emitVars, lru, seeded, mtime, watch, scanned, told>>

\* load_bundle raises on any other file cut short: nothing is cached.
LoadFails(t) ==
  LET a == ReadOrder[pc[t]] IN
  /\ pc[t] \in DOMAIN ReadOrder
  /\ ~(a \in Lenient \/ file[a] = NoFile \/ file[a].whole)
  /\ pc' = [pc EXCEPT ![t] = 0]
  /\ loading' = [loading EXCEPT ![t] = Empty]
  /\ UNCHANGED <<emitVars, lru, seeded, mtime, watch, scanned, told>>

\* The load returns into the lru_cache, which keeps an entry another thread
\* has put there meanwhile.  The call may have been abandoned by its time
\* budget: the thread runs on, and this step is taken all the same.
LoadDone(t) ==
  /\ pc[t] = Len(ReadOrder) + 1
  /\ lru' = IF lru = NoBundle THEN loading[t] ELSE lru
  /\ pc' = [pc EXCEPT ![t] = 0]
  /\ loading' = [loading EXCEPT ![t] = Empty]
  /\ UNCHANGED <<emitVars, seeded, mtime, watch, scanned, told>>

\* Four other bundles push the entry out.
Evict ==
  /\ lru # NoBundle
  /\ lru' = NoBundle
  /\ UNCHANGED <<emitVars, pc, loading, seeded, mtime, watch, scanned,
                 told>>

-----------------------------------------------------------------------------
\* The first poll_once() only remembers what is there.
Seed ==
  /\ ~seeded
  /\ seeded' = TRUE
  /\ mtime' = OnDisk
  /\ UNCHANGED <<emitVars, lru, pc, loading, watch, scanned, told>>

\* Mutant: a change is notified without the cache being cleared.
PollWithoutClear ==
  /\ seeded
  /\ watch = "idle"
  /\ OnDisk # mtime
  /\ scanned' = OnDisk
  /\ watch' = "notify"
  /\ UNCHANGED <<emitVars, lru, pc, loading, seeded, mtime, told>>

\* A later one scans, and calls back when the manifest is not the one it
\* remembers.
Poll ==
  /\ seeded
  /\ watch = "idle"
  /\ OnDisk # mtime
  /\ scanned' = OnDisk
  /\ watch' = "clear"
  /\ UNCHANGED <<emitVars, lru, pc, loading, seeded, mtime, told>>

\* manifest_changed: _clear_bundle_cache() ...
Clear ==
  /\ watch = "clear"
  /\ lru' = NoBundle
  /\ loading' = [t \in Threads |-> [loading[t] EXCEPT !.fresh = FALSE]]
  /\ watch' = "notify"
  /\ UNCHANGED <<emitVars, pc, seeded, mtime, scanned, told>>

\* Mutant: the memory is scanned afresh after the callbacks.
NotifyThenRescan ==
  /\ watch = "notify"
  /\ told' = scanned
  /\ mtime' = OnDisk
  /\ watch' = "idle"
  /\ scanned' = NoStamp
  /\ UNCHANGED <<emitVars, lru, pc, loading, seeded>>

\* ... then notify(), which awaits the send; the scan becomes the memory
\* when poll_once is through.
Notify ==
  /\ watch = "notify"
  /\ told' = scanned
  /\ mtime' = scanned
  /\ watch' = "idle"
  /\ scanned' = NoStamp
  /\ UNCHANGED <<emitVars, lru, pc, loading, seeded>>

Watcher == Seed \/ Poll \/ Clear \/ Notify

Load(t) == LoadBegin(t) \/ LoadFile(t) \/ LoadFails(t) \/ LoadDone(t)

Next ==
  \/ Emitter
  \/ \E t \in Threads : Load(t)
  \/ Evict
  \/ Watcher

Spec == Init /\ [][Next]_vars

\* The watcher polls for as long as the server runs; loads run to their end.
FairSpec ==
  /\ Spec
  /\ WF_vars(Watcher)
  /\ \A t \in Threads : WF_vars(LoadFile(t) \/ LoadFails(t) \/ LoadDone(t))

-----------------------------------------------------------------------------
TypeOK ==
  /\ EmitTypeOK
  /\ lru \in Bundle \cup {NoBundle}
  /\ pc \in [Threads -> 0 .. Len(ReadOrder) + 1]
  /\ loading \in [Threads -> Bundle]
  /\ seeded \in BOOLEAN
  /\ watch \in {"idle", "clear", "notify"}
  /\ {mtime, scanned, told} \subseteq Stamp

\* The session knows of the manifest on disk, and no emission is running.
UpToDate == told = OnDisk /\ step = 0

\* No emission since the manifest's has got as far as opening inventory.ttl.
Undisturbed == manifest.whole /\ file[First].run <= manifest.run

\* What a session reads once it has been told of the manifest on disk, from
\* a cache entry loaded since the invalidation, is the bundle of that manifest:
\* one generation in every file, byte for byte, although load_bundle checks
\* no hash and the emitter replaces the files in place.  It holds as long as
\* no later emission is at work in the directory or has died there: one of
\* the same graph may leave a passing gate, and a load that saw its
\* half-written sidecar stays in the cache.
ToldReadsRelease ==
  told = OnDisk /\ Undisturbed /\ lru # NoBundle =>
    (lru.fresh =>
       /\ lru.run = manifest.run
       /\ \A i \in DOMAIN ReadOrder : ReadOrder[i] \in manifest.made =>
            LET read == lru.files[ReadOrder[i]] IN
            read.text = manifest.texts[ReadOrder[i]] /\ read.whole)

\* Every manifest that appears after seeding is announced, or a later one
\* is: a change made while poll_once awaits its callbacks is not lost.
ChangesAnnounced ==
  \A r \in 1 .. MaxRuns :
    (seeded /\ mtime.run < r /\ manifest.run = r /\ manifest.whole)
      ~> (told.run > r \/ told = [run |-> r, whole |-> TRUE])

\* subscriptions.py: "The cached Bundle is invalidated so the next read sees
\* the fresh data."
NextReadFresh ==
  UpToDate /\ manifest.whole /\ lru # NoBundle => lru.run = manifest.run

=============================================================================
