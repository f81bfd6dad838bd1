# sourcepath / codebase-mapper: TLA+ models, checks and proofs

The repository maps a source tree into a *bundle* (a directory of RDF graphs,
JSON sidecars and a manifest), optionally enriches it with embeddings, a
concept graph and summaries written by a local LLM, gates it for release, and
serves it to agents over MCP. Most of the code is sequential and functional.
What is hard to test is where several threads or processes meet a shared piece
of state, or where a run dies between two writes. This directory models those
places, starting with the ones on which the content of a bundle depends.

## 1. Inventory

### Inspection and enrichment (`codebase_mapper/inspection`, `plugins`)

| Component | State | Operations | Talks to |
|---|---|---|---|
| Inspection pipeline (`pipeline.py`, `git_plumbing.py`, `repo_source.py`, `languages/*`, `manifests.py`, `lockfiles.py`) | the list of `FileRecord`s and edge sets, built in one pass | `map_codebase` | git subprocess; registered extensions |
| Enricher pool (end of `pipeline.py`) | a `ThreadPoolExecutor`, one future per record | `pool.map`, first exception aborts | every `parallel_safe` enricher |
| LLM enricher (`llm_enrich/enricher.py`) | `_disabled`, `_degradation`, `_rejection`, `_reporter_lock`; `ctx.scratch` | `enrich`, `_disable`, `_reject` | cache, Ollama client, `ctx.scratch` |
| LLM cache (`llm_enrich/cache.py`) | a flat directory of `<key>.json`, one per user | `get`, `put`, `get_or_compute` | the file system, other processes |
| Ollama client (`llm_enrich/client.py`) | one lazily built `httpx.Client` | `chat`, `model_catalog`, `ping` | the server |
| LLM aggregator (`llm_enrich/aggregator.py`) | `_disabled`, `_rejections` | `run` over concepts, then schemas | cache, client, `ctx.scratch` |
| Chunks, concepts, xrefs plugins | none between runs | aggregators, graph writers, artifact emitters | `ctx.indices` |

Hard behaviour: threads interleave between the reads and the writes of the
latch, a failing record cancels others while threads still run, the server goes
away in the middle of a run, runs are repeated over a cache that was killed in
the middle of a write. It is correct when nothing that is lost goes undisclosed,
no loss is disclosed twice, an answer once obtained is neither asked again nor
changed, and the run ends.

### Emission and verification (`codebase_mapper/emission`, `verification`)

| Component | State | Operations | Talks to |
|---|---|---|---|
| `emit_bundle.py`, artifact emitters | the bundle directory, written in place, manifest last | `emit` | serialisers, plugins' emitters |
| RDF serialisers, `reconstruct.py`, `regenerate.py` | none | conversions | — |
| `bundle_gate.py` | none | `check_bundle` | reads the directory |
| `fast_shacl.py` | none | `validate_fast` | — |

Hard behaviour: an emission is killed over an older one, possibly of the same
commit, whose files have the same bytes and the same hashes; emissions with
different flags share a directory. It is correct when everything the manifest's
emission wrote is there, byte for byte, whenever the gate passes.

### Serving (`frontend`)

| Component | State | Operations | Talks to |
|---|---|---|---|
| Bundle cache (`bundle_data.py`) | `lru_cache(4)` of loaded bundles | `get_bundle`, `load_bundle` | bundle directory |
| Watcher, subscriptions (`subscriptions.py`) | `_mtimes`, `_seeded`; sessions per URI | `poll_once`, `subscribe`, `notify` | `server.manifest_changed` |
| SPARQL tool (`sparql.py`) | `_STORES` under `_STORES_LOCK`, `lru_cache(4)`, stores in the temp directory | `run_sparql`, `clear_graph_cache` | bundle cache, RocksDB |
| Dispatch (`observability.py`) | worker threads, abandoned on timeout | `dispatch_with_budget` | handlers |
| HTTP transport, auth (`http_transport.py`, `auth.py`) | JWKS cache | token verification | identity provider |
| Handlers, REST backend, UI | none | queries over a loaded bundle | bundle cache |

Hard behaviour: tool calls run on threads that outlive their budget, the bundle
is re-emitted while it is being read, caches are cleared while a load is in
flight. It is correct when a client that has been told of a new bundle reads
that bundle, whole.

### Planning and reporting (`decomposer`, `recomposer`, `scripts`, `tools`)

| Component | State | Operations | Talks to |
|---|---|---|---|
| Decomposer (`metrics.py`, `decompose.py`, `parts.py`, ...) | none between runs | `tarjan_scc`, `build_order`, `decompose_evidence` | a loaded bundle |
| Recomposer (`plan.py`) | none between runs | `recompose` | the decomposer's document |
| Scripts, report rendering | none | — | bundles |

Hard behaviour: an iterative depth-first search on an explicit stack; graphs
that are filtered, condensed, layered and condensed again, each stage relying on
what the one before it ordered; files that reach the plan through half a dozen
builders and leave it through single-owner rules. It is correct when components
and layers are what their docstrings say, a plan's requirements point backward,
and no file of the repository is dropped.

### Patch appliers (`.repo/skills`)

| Component | State | Operations | Talks to |
|---|---|---|---|
| doc-patch applier (`apply_patch.py`) | working copy, sections, provisional ids, the ledger of operations | `apply`, 17 operations | Markdown files |
| code-patch applier (`apply_code_patch.py`) | working copy, symbols, the ledger | `apply`, one handler per operation | source files of six languages |

Hard behaviour: every operation cuts and pastes by line numbers that the one
before it has made stale, and a patch is a long sequence of operations each of
which may fail. It is correct when no line is lost, doubled or put outside the
range an operation is scoped to, and when an operation that failed has changed
nothing.

The rest (`docs/`, `static/`, the UI) is documentation, data and presentation.

`PROJECT.json` lists every component with its status, and every hazard at its
line with the properties that cover it or the reason why none does.

## 2. Plan

In order of importance.

| Module | What | Runs | Proofs |
|---|---|---|---|
| `Enrichment` | pool, enricher, cache, server | `Enrichment`, one refuted claim | all safety (`EnrichmentProofs`) |
| `AtomicCache`, `LlmCache` | what the cache promises; files, inodes, crashes | `LlmCache` | all safety and the refinement (`LlmCacheProofs`) |
| `BundleEmit` | emission, crash, gate | `BundleEmit` | all safety (`BundleProofs`) |
| `BundleServe` (EXTENDS `BundleEmit`) | loads, lru_cache, watcher | `BundleServe`, one refuted claim | all safety (`BundleProofs`) |
| `LlmAggregator` | two kinds, one latch, disclosed counts | `LlmAggregator` | all safety (`LlmAggregatorProofs`) |
| `SparqlStore` | `_STORES`, its lock, the lru_cache, loads killed half way | `SparqlStore` | all safety (`SparqlStoreProofs`) |
| `Tarjan` | the search every topology claim rests on | `Recompose` | correctness on every graph (`RecomposeProofs`) |
| `Decompose` (EXTENDS `Tarjan`), `Recompose` (EXTENDS `Decompose`) | module graph, layers, file orders; the plan | `Recompose` | all safety (`RecomposeProofs`) |
| `Slices`, `DocPatch` | the applier of documents | `DocPatch`, one refuted claim | all safety (`DocPatchProofs`) |
| `CodePatch` (with `Slices`) | the applier of sources | `CodePatch` | all safety (`CodePatchProofs`) |

What is left of the plan, in order: the server's sessions, which subscribe, die
and unsubscribe while `notify` iterates over them; the budgets and the thread
limiter of `observability.py`; the other language profiles of the code-patch
applier. Every safety property that holds is proved.

Composition: `BundleServe` composes the server with `BundleEmit`; `Recompose`
takes the document `Decompose` has made, which in turn runs `Tarjan` once for
the modules, once for each cycle's files and once for the parts. `Enrichment`
uses the cache through the interface that `LlmCache` is shown to implement
(`AtomicCache`): one atomic read, one atomic write.

## 3. Modules and their code

### Enrichment.tla

One run of the enricher pool, then others over the same cache.

| Model | Code |
|---|---|
| `Start` | `pool.map` hands a record to a thread; `enricher.py:252` reads `_disabled` |
| `Degraded`, `Count` | 257-261: `_degradation` read outside the lock; the bump under it |
| `Recheck` | 262-286: `_disabled` read a second time, `_should_summarize`, the decode |
| `CacheGet`, `CachePut`, `CachePutFails` | `Cache.get_or_compute`, a hit, a miss, unreadable bytes, a full disk |
| `ChatAnswers`, `ChatUnavailable`, `ChatFails` | an answer; `OllamaUnreachable`/`OllamaModelMissing`; any other error, which nobody catches |
| `Accept`, `Reject` | 323-352 and `_reject` |
| `Disable`, `Register` | the two writes of `_disable`, in their order, inside the lock |
| `Abort`, `PoolExit` | `list(pool.map(...))` meeting the first exception in submission order; the `with` block's exit |
| `NextRun` | a new process over the same cache, after a run that ended or was killed |

A step is one access to state another thread can see: CPython makes a single
attribute access atomic and nothing larger. What happens inside
`_reporter_lock` without being visible outside it is one step; the two writes
of `_disable` are two, because `_disabled` and `_degradation` are read without
the lock. `fate` is the future of each record together with what became of its
summary; it keeps apart a loss that was counted from one that was not, which the
code cannot see and the properties are about. `prior` is what the last completed
run published, and `lateCalls` counts calls begun after registration; both are
history variables. A served `_reporter` heartbeat has no effect and is left out.
Binary records never reach an enricher; they are among the ineligible ones.

### AtomicCache.tla and LlmCache.tla

`AtomicCache` is what callers rely on: a map, puts at one instant, gets that saw
one instant. `LlmCache` is the directory as the file system has it: names refer
to inodes, an open file survives the replacement of its name, a write arrives in
two pieces, every put draws a number from `_TMP_SEQ`, and a process may die
between any two steps, leaving its temporary file. Its refinement mapping reads
the map off the published names. `Damage` (bit rot, a torn page after a power
cut) is external and acts on published files; `BadJson` stands for everything
`get` takes for a miss, `BadUtf8` for bytes that do not decode.

### BundleEmit.tla

`emit()` as a walk along the files in the order of the code. Of the bytes of a
file, its text and whether it is complete are kept. Serialisation is a function
of the set of triples (`fast_serializer.py:77`), so the text of a file in
`Derived` is the inventory graph it was made from, and a re-emission of one
commit may write the bytes that are already there, under hashes that already
match; a file that does not follow from the graph (`embeddings.npz`) has a text
of its own. Who wrote a file is kept beside its text for the properties; no code
sees it. The files differ in what happens when there is nothing to write:
unlinked (`inventory.jsonld`), left alone (the sidecars of the plugins), written
empty and not listed (`rust_items.jsonl`), left alone and never listed
(`blobs/`). Opening a file (`OpenFile`) truncates it, closing it (`CloseFile`)
completes it and takes its hash. The manifest's `made` and `texts` are history:
what its emission wrote, hashed or not.

The gate is taken at its most lenient: every degradation accepted, a skipped
self-check allowed. Of its recounts of `inventory.jsonld` the one of file nodes
is modelled (`RecountAgrees`), which a file that was cut short can still meet;
those of chunks and concepts and the numeric budgets only ever reject more, and
`--skip-hashes` is not modelled.

### BundleServe.tla

The stdio server next to that emitter: worker threads in `load_bundle`, file by
file, strict and lenient readers, `lru_cache` (a load inserts its result even
when the cache was cleared meanwhile, and never replaces an entry another thread
has put), eviction by other bundles, and the watcher: seed, poll, clear, notify.
`fresh` in a `Bundle` is a history flag: no clear has come since its load began.
The manifest's `st_mtime` is taken to differ at every write.

### LlmAggregator.tla

What runs after the pool has been joined: the concepts, then the schema files,
one thread, one latch for both kinds. `Enabled` is asked once for each kind,
before its walk begins.

| Model | Code |
|---|---|
| `Enter`, `Return` | `aggregator.py:156-160`, `_enabled` asked before each kind, and the end of each loop |
| `Unread` | 359-371: a schema file that does not open or does not decode is passed over |
| `Hit`, `Answer` | `get_or_compute` with a hit or an answer, then `Settle` |
| `Settle`, `Reject` | 326-339, 416-426 and `_reject`: validation on the read side, the kept reference |
| `Unavailable` | 306-324, 398-414 and `_disable_with_disclosure` |
| `Raise` | what nobody catches: undecodable cache bytes, other client errors, a failing `put` |
| `NextRun` | a new process over the same cache, after a run that ended, raised or was killed |

There is no concurrency, so a step is what happens to one target. `Walk` is the
result of the selection (`select_concepts_for_description`, `_is_schema_file`),
the same in every run of one repository; scopes and validation rules may differ
from run to run, the rules because the cache outlives versions of the code. A
missing client is the case of no scopes. The enricher's own
`_disabled` is a different field and plays no part. `asked`, `prior` and `judged`
are history variables. The rules are one set for both kinds; the kinds share no
key, so a text is judged under its own kind only.

### Tarjan.tla, Decompose.tla, Recompose.tla

`Tarjan` is `tarjan_scc` turn by turn: `StartRoot` is the outer `for`, `Descend`
and `Look` the two outcomes of a neighbour, `Emit` and `Retreat` the two ways a
node is settled. The code's work items are pairs of a node and a position in
its neighbours; here the path and, per node, the neighbours still to come. Nodes
are numbers in sorted order. Neighbours are met in that order too, as they are
in every caller.

`Decompose` makes the graphs the code makes of the files and their imports:
`Prod` is the module graph without the edges only tests use, `FileGraph` the
files of one cycle. `LayOut` and `OrderFiles` read `build_order` off the finished
search. A directory without code is in the graph (something imports its
generated files) but is no root, as in the code. `Recompose` is `recompose()`:

| Model | Code |
|---|---|
| `TakeUp`, `MakeUnits` | `_units`: the parts condensed again, cycles merged |
| `Relax` | one turn of `_relax_phases` |
| `Schedule` | the spec builders, and the sort by phase, layer and name |
| `Claim` | the single-owner pass |
| `Resolve` | `requires`, and the `ValueError` for one that points forward |

Names in the sort key are numbers; of the wording of a step nothing is kept.

### DocPatch.tla, CodePatch.tla, Slices.tla

`apply()` with its handlers, one action for each, over a document that is a
sequence of line records. `Slices` has the slices of both. `Put` is an
assignment of the lines together with the parse that every handler does itself,
and a handler that assigns twice has the second `_reparse` for its result; where
it gives up between the two, the first is what is left (`MoveSection`,
`Combine`, `MoveBlock`, `MoveSymbol`). `Begin` takes the next operation,
`Applied` and `Failed` are the ledger under both modes, `Reject`, `Open`,
`SkipRest` and `Finish` the rest of `apply()`. `inject_markers` goes marker by
marker in `DocPatch` (`MarkBlock`, `MarkAnchor`, `MarkTag`, `MarksDone`), since
each shifts the range of the next, and is a fold in `CodePatch`. The operations
of a patch are chosen as they are begun, which comes to all patches.

In `DocPatch` a section has a slug (`name`) and an anchor (`tag`), and an id
that is both means the anchor; section numbers are left out. Among the outcomes
is an `IndexError` nobody catches (status `crashed`): a provisional id outlives
its lines, and what walks along its range line by line (`find_block_markers`,
`find_anchor`, the search for the closest match, the heading to be renamed) runs
past the end of the text. The search for text does not, and finds nothing.

A target is one whole line. `DocPatch` leaves white space alone; `CodePatch`
keeps the second attempt that normalises it, because it decides at which
indentation an edit lands. Only the Python profile is modelled, where a symbol
ends is then a matter of indentation. A line that begins with an `@` is a
`deco` line, as for the code, whatever it is to Python: the other lines of a
decorator that takes several are text, and end what the code takes for the
decorators of a symbol.

### SparqlStore.tla

Server processes share the store directories; each has its registry `_STORES`
and its entry of the lru_cache, and its tool calls run in worker threads.

| Model | Code |
|---|---|
| `Hit`, `Miss` | `_load_graph` with and without an entry; the `stat` that names the directory |
| `Reuse`, `OpenNew`, `OpenFails` | `_open_store` under its lock, with the stale handles taken off first |
| `Look`, `Build`, `Built`, `BuildFails` | `len(store) == 0` and `bulk_load`, outside the lock, in two batches |
| `Return`, `Query` | the lru_cache takes the handle; the query reads the store as it is by then |
| `Clear`, `Emit`, `Kill` | `clear_graph_cache` and evictions; another emission; the end of a process |

`holds` and `whole` are the generations of which a directory has some triples
and all; `KeyOf` may give two generations one directory. A call that its client
has given up takes all its steps like any other. That a directory is locked for
as long as anything refers to its handle is RocksDB's and the garbage
collector's doing (external: `Busy`). `torn` and `dropped` are history
variables.

## 4. Runs

| Run | Instance | Shows |
|---|---|---|
| `Enrichment` | 2 threads, 5 records, 2 keys, 3 texts, 2 runs | all safety properties of the pool, and `RunsEnd` |
| `EnrichmentTally` | the same | `TallyComplete` is false |
| `LlmCache` | 2 clients, 2 keys, 2 values, 3 puts | `WritersApart`, `PublishedWhole`, refinement of `AtomicCache` |
| `BundleEmit` | 6 files, one of each kind, 2 graphs, 3 emissions | what a passing gate vouches for, and what it does not |
| `BundleServe` | 2 threads, 2 files, 2 graphs, 2 emissions | `ToldReadsRelease`, `ChangesAnnounced` |
| `BundleServeStale` | the same | `NextReadFresh` is false |
| `LlmAggregator` | 2 concepts, 3 schema files, 2 texts, 3 runs | counts, validity, stability |
| `Recompose` | 5 files in 4 directories, up to 4 imports, 5 typings | components, layers, file orders, phases, when a plan is refused, no file dropped |
| `SparqlStore` | 2 processes, 3 threads, 3 generations in 2 directories, 1 fault | when a store is incomplete, when a process is locked out |
| `DocPatch` | 3 documents, 50 operations, patches of up to 3 | fresh parse, harmless skips, moves, scopes |
| `DocPatchSkip` | the same | `SkipLeavesCopy` is false |
| `CodePatch` | 3 sources, 43 operations, patches of up to 3 | fresh symbols, harmless skips, neighbours and their decorators |

Why these bounds are enough to be interesting:

- *Enrichment.* Every interleaving of the latch needs one thread inside
  `_disable` and one elsewhere; two threads give all pairs. The five records
  contain two with equal content (the concurrent miss), one with bytes that do
  not decode, one whose content is its own and one never summarised; the second
  run meets a cache the first one filled, or was killed filling. `Init` takes
  every content of the cache. The proofs have no bound.
- *LlmCache.* Three puts are a killed, a losing and a winning writer of one key;
  two keys show that writers of different keys do not meet either.
- *BundleEmit.* One emission that completes and two that die over it, or one
  that dies and one that repairs it: two deaths are what it takes for the second
  to put the first file back behind which the first left another. Each is of
  either graph, so that any two write the same bytes or different ones; one graph
  has Rust items and more file nodes, the other neither. The walk treats files
  of a kind alike.
- *LlmAggregator.* Of the schema files one cannot be read and two have equal
  content; two targets of a kind put an outage first, last, or after a
  rejection. Three runs are one that fills the cache, one that is killed or
  judges by other rules, and one that meets what both left.
- *Recompose.* Two files of the root make a cycle of directories that is, or is
  not, one of files; the other modules are a package, an adapter and its ports,
  so that phases differ along an edge, and each typing puts tests, generated
  files or a type nobody claims somewhere. Four imports close any cycle among
  the three modules with files and leave one edge over.
- *SparqlStore.* Two calls in one process meet at a load and at an eviction, the
  third in another process meets their lock; the third generation shares the
  directory of the second; one kill or failing load leaves a store torn.
- *DocPatch, CodePatch.* The documents hold what makes a target ambiguous or
  stale: nested ranges, one name twice, a block and an anchor inside what is
  moved, decorators, one of several lines and one above a blank line, a method
  with a function's name. Two operations are enough
  for the second to meet a stale parse, the third for a provisional id or a
  marker that the second has moved.
- *BundleServe.* One emission served and one overtaking it, of the same graph or
  of another; two threads so that one load can be in flight while another fills
  the cache.

Deadlock is checked in `SparqlStore`, whose servers always take another call. In
the others `CHECK_DEADLOCK FALSE`: a run, a patch, a plan, a bounded number of
emissions and a bounded number of puts come to an end, and nothing has to follow.

The type invariants are proved (next section) and the runs do not repeat them,
except `DocPatch`'s, whose run is cheap.

**Fairness.** `FairSpec` of `Enrichment` is weak fairness of each pool thread and
of the pool's own exit: threads are scheduled, `chat` is bounded by its timeout
and the lock is held for a few statements. It does not assume that the server
answers, nor that anybody runs the mapper again. `FairSpec` of `BundleServe` is
weak fairness of the watcher (it polls for as long as the server runs) and of
loads in progress; the emitter, which may die, gets none.

### What the code does not keep

Three statements of the repository's own comments and references are refuted
by runs (see `findings` in `PROJECT.json` for the quotes and lines):

1. the outage's tally misses records whose thread met the latch before the entry
   was registered, or between its two reads of `_disabled` (`TallyComplete`).
   What does hold, and is proved, is `LossIsDisclosed`, `TalliesExact` and
   `LossesBalance`: the entry is there, and it misses no other record;
2. a load in flight puts an old bundle back after the cache was cleared
   (`NextReadFresh`). What does hold, and is proved, is `ToldReadsRelease`: an
   entry loaded since the clear is the release, whole, although no hash is
   checked on loading;
3. an operation of a doc-patch that is skipped may have taken lines out of the
   copy: a block moved to an anchor that is not found once the block is gone, a
   section moved behind a part of itself (`SkipLeavesCopy`). `SkipsHarmless` says
   that there are no other such cases, and is proved; the code-patch applier has
   the same two, and `SkipsHarmless` of `CodePatch` is proved as well.

The models show more such places, which no run refutes. Where a property holds
because it makes an exception for one, the property is named:

- the outage's tally also claims too much. Once the latch is set, a file that
  does not decode is counted (`enricher.py:257`), though it would have been
  dropped without a word, and the comments say that only records that would have
  been summarised are (`:253`), each one lost (`:194`). `LossesBalance` counts
  with these files exactly, and allows for no others;
- an outage among the concept descriptions ends the schema files before they are
  begun, and no entry names them, though a layer that stops producing is to leave
  a record of its blast radius (`aggregator.py:181`). `CountsAreLosses` speaks of
  the kinds that were entered only, and approves of nothing else;
- a deleted symbol may leave its decorator to the next one. The code takes in the
  lines directly above the declaration that begin with an `@`
  (`apply_code_patch.py:300`); Python lets a decorator take several lines, and
  blank lines and comments follow it, and the references say that decorators go
  with the symbol (`op-reference.md:66`, `language-profiles.md:34`).
  `DecoratorsKept` says that this is the only way (`Detached`). A symbol that is
  moved leaves its decorator in the same way;
- re-emits over one cache are not stable for two files of equal content first
  summarised at the same time (`cache.py:161`); they are for files whose content
  no other file shares (`UnsharedReemitStable`, proved);
- `Cache.get` raises on bytes that are not UTF-8 (`cache.py:106`: never raises);
- sidecars of an earlier emission survive into a later bundle, unlisted, and the
  gate does not see them (`artifact.py:8`); `inventory.jsonld` is unlinked;
- the gate does not see every emission that died. One of the same commit leaves
  the bytes the old manifest's hashes are of (`CrashIsCaught` says that only such
  a one goes unseen), and what it wrote that the old manifest does not list
  stays: an `inventory.jsonld`, perhaps cut short, beside a release that had
  none, and readers prefer it to the Turtle file (`NoStaleJsonld` says that it
  is never from *before* the release). Of another commit an unhashed file stays
  if a second emission dies after it put `inventory.ttl` back (`TwoDied`);
- nor does the server: a load that met the half-written sidecar of such an
  emission stays in the cache, although the emission has died, the gate passes
  and the manifest is the one the session was told of (`Undisturbed` in
  `ToldReadsRelease`);
- the SPARQL call after one that exceeded its budget may answer from a store
  that the first is still loading, or that a failed load left incomplete for
  good (`sparql.py:137`: the next call answers in milliseconds).
  `PartialOnlyOn` says that these are the only two cases;
- `recompose` raises for an entry point that is or imports a test, and for
  generated code on an import cycle (`FailsOnlyOn`);
- markers the code-patch applier inserts begin at column 0, and so end the
  Python symbol they were put into: an operation scoped to it does not find
  them any more;
- an empty new signature, which nothing checks for, leaves the body of the symbol
  to the one before it, and a decorator at the end of a new body decorates the
  symbol behind (`apply_code_patch.py:1452`, `:1134`);
- provisional ids of a split section are never renewed by a parse.

## 5. Proofs

Each component's theorems are in a module of their own, and each rests on the
named assumption about its constants and nothing else. In each, the first
theorem (`Invariance`, `ServeInvariant`, `StoreInvariant`, `SearchInvariant`,
`PlanInvariant`; in `DocPatchProofs` the lemmas `DocStart` and `DocStep`) is
that an invariant is inductive, and every property follows from it.

### Enrichment

`EnrichmentProofs.tla` proves every safety property of `Enrichment` for any
finite pool, any number of records, keys, texts and runs. It rests on
`EnrichmentAssumption` alone: the pool is finite and not empty, every record has
a key, the special values are distinct.

None of the properties is inductive. The invariant `Inv` is

- `TypeOK`, in particular that both kept references stay within the list;
- `ThreadsOK`: a busy thread is alone on its record, a thread past the gates has
  a summarisable one, and *the lock is held exactly by the thread at `register`*;
- `EntriesOK`: every entry is the one its cause's reference points to, which
  makes "find the entry again" and "append another" exclusive;
- `FatesOK`: what a settled future implies of the summary, the latch and the
  entries; above all, *if the latch is set then an entry is registered or a
  thread holds the lock*, which is why a completed run that lost a record to the
  outage has an entry although the record found none;
- `CacheOK`: what was published, in this run or the last completed one, is in
  the cache, and is that very text when no other record has its key;
- `LateOK`: late calls and threads about to make one are together fewer than the
  threads, since the one that registered is neither;
- `TalliesExact` itself, by counting the records of a fate before and after.

There is one lemma per conjunct and, inside, one step per action that can
disturb it; `InvStep` puts them together. `Invariance` is `Spec => []Inv`, and
each property follows from it: `Typing`, `EntryPerCause`, `ExactTallies`,
`Balance`, `Disclosure`, `LateCalls`, `NoRepeat` and `ReemitUnshared`. `Balance`
adds up the fates: the records that lost their summary are those counted,
rejected or silent, but for the counted ones that would not have decoded.

### LlmCache

`LlmCacheProofs.tla` proves `TypeOK`, `WritersApart`, `PublishedWhole` and
`ImplementsAtomicCache` for any keys, values, clients and number of puts, from
`LlmCacheAssumption` (the special contents are distinct from each other and from
the values). All of it comes down to numbering:

- `NumbersOK`: a temporary name refers, if at all, to the inode of the put it is
  numbered after, and of two keys only one has a name of that number;
- `WritersOK`: a put in progress owns its number, its file and its temporary
  name, and has written what its step says;
- `FinalsOK`: a file that is published or open for reading is *final*, complete
  with no temporary name referring to it. Nobody can write to a final file, and
  a final file stays final, which is why killed writers and their leftovers do
  no harm.

The refinement has one lemma per kind of step: `Replace` is the instant at which
a put happens, opening the file the instant at which a get happens, `Damage` is
the map's `Damage`, and every other step is a stutter or a `Forget`.

### BundleEmit

`BundleProofs.tla` proves `EmitTypeOK`, `CrashIsCaught`, `ReleasedIsWhole`
and `NoStaleJsonld` for any list of files of the four kinds, any graphs and any
number of emissions, from `BundleEmitAssumption` (the kinds are disjoint, no file
occurs twice, and the first file of the list is one that every emission writes
and lists, as `inventory.ttl` is). The gate compares the bytes of listed files
only, and a later emission may have written the same, so the argument needs more
than the hashes:

- `FirstNewest`: nothing in the directory is newer than `inventory.ttl`, since
  every emission opens it before any other file, and nothing unlinks it;
- `SameGraph`: the files of the emission that opened `inventory.ttl` last agree
  with it. Together with the hash of `inventory.ttl`, which every manifest lists,
  a gate that passes has seen that this emission was of the manifest's graph;
  what an emission *before* it left in a file without a hash is the exception
  `TwoDied`;
- `ManifestOK`: what the manifest's emission wrote is there still, or it is of a
  later emission, or a later emission unlinked it;
- `ProgressOK`, `ClaimsOK`, `TextsOK`: what the emission under way has already
  done, that it claims the hashes of what it has written only, and that what it
  writes follows from one graph. They carry the walk from one file to the next
  and give `ManifestOK` when the manifest is written.

### LlmAggregator

`LlmAggregatorProofs.tla` proves every property of `LlmAggregator` for any walks,
keys, texts and number of runs, from `LlmAggregatorAssumption` (no walk meets a
target twice, the two have no target in common, only schema files may be
unreadable, every target has a key, the special values are distinct). `Inv` is

- `RefsOK`: an entry of rejections is the one its kind's reference points to,
  and an entry of an outage is the only one and means that the latch is set;
- `LatchOK`: a walk in progress was asked for and is not disabled;
- `CountsOK`: at any point of a walk, what is disclosed as unfit is the number
  of readable targets *behind* it without a text, an outage counts everything
  from the position where it ended the walk, and nothing ahead has a text;
- `CacheOK`: what was published or judged is in the cache, and what was asked
  about in this run was not judged in an earlier one.

`Counts` then compares two sets of positions with the set of targets that have
no text, by an injection each way.

### BundleServe

The second half of `BundleProofs.tla` proves `TypeOK` and `ToldReadsRelease`
for any files, order of reading, threads and number of emissions. `ServeInv`
adds to the emitter's invariant, for every bundle being loaded and for the one
in the cache,

- `Known`: it was loaded from the manifest of an emission that is over, and if
  no clear has come since, the session was told of no later one;
- `Mirrors`: if it is still `Current`, that is, if no emission has opened
  `inventory.ttl` since, then what has been read of it is what is on disk.

A session that has been told of the manifest on disk then has a fresh entry of
that very manifest, and it is current for as long as nobody has opened
`inventory.ttl` since (`Undisturbed`). Beyond that the property is false, gate or
no gate (see what the code does not keep).

### SparqlStore

`SparqlStoreProofs.tla` proves `TypeOK`, `PartialOnlyOn` and `LockedOutOnlyOn`
for any processes, threads, generations, keys and faults. `LoadedOK` says that a
thread past the load, and the lru_cache, have a store with something in it;
`PartOK` that a store with no whole generation is being loaded or torn;
`RegistryOK` that a process that has dropped no handle has on its registry
every handle it uses.

### Tarjan and Recompose

`RecomposeProofs.tla` begins with the search: `SccCorrect` holds for every graph
and every set of roots.
Reachability is defined without the search, by sets closed under the edges, and
so needs no induction. `TarjanInv` says, beside the bookkeeping (indices are
given out once, both stacks rise, a reached node is on the stack or emitted),

- `LinkReaches`: a link names a node on the stack that its node reaches;
- `PathReaches`, `Anchored`: the path reaches all that came after it, and what
  is on the stack reaches back to the path;
- `LinkBounds`: the link of a node of the path accounts for every edge met so
  far that leaves its stretch of the stack.

When a node's link is its own index, the last says that no edge leaves its
stretch for anything below it, and the first three that the stretch is one
component.

The rest proves every property of the run, for every repository. Its invariants build on each other:

- `PlanInv` (`PlanInvariant`): types, and the invariant of the search, which
  `Restart` restores; with it each of the searches is correct. `NothingDropped`
  follows by counting: units cover the modules with code, the steps cover the
  files, and a pass over the numbers of the steps meets every step, since the
  number of steps before a step is below the number of steps (`ClaimedSoFar`,
  `AllClaimed`);
- `DecompInv` (`DecompInvariant`): which graph the search at hand is about, that
  cycles are apart, and the layers and orders found so far. The depth in
  `Levels` is a recursive function over the components; that its equation holds
  (`LevelEquation`) is an argument by a least counterexample, not an induction:
  components are emitted sinks first, so a component depends on lower numbers
  only, and the first component without a level has none below it. From the
  equation follows that a level rises along each edge that leaves a component
  (`LevelsFall`), and layers and places keep the order of levels;
- `OrderInv` (`OrderInvariant`): units are the components of the graph of parts,
  whose edges do not rise in the layers of the *module* graph (`DepLayers`: the
  lemma that joins the two orders; generated code on a cycle is what breaks it).
  The relaxation then keeps `PhaseAsked` (a phase is one that somebody asks
  for), `PassedOn` (units taken up have passed theirs on) and `HighestFirst`
  (nobody taken up later needs them earlier). At its end `PassedOn` holds of all
  units, so the units of at most a module's nominal phase are closed under the
  edges and, if the module is in one of them, contain all it asks for:
  `PlanPhases`;
- `PlanFailsOnlyOn`: a step requires steps of an earlier phase, of a lower layer
  in the same phase, or before it by name (`Backward`), so a plan that is refused
  has one of the two shapes.

The attempt to prove `FileOrderSound` showed that an earlier form of it said
less than its comment: it let the order be withheld from any group that was not
given one. It now demands that such a group cannot be ordered (`CannotOrder`),
and the run's repositories include cycles of generated files for it.

### DocPatch

`DocPatchProofs.tla` proves every safety property of `DocPatch` for any
documents, any operations and any bound on a patch. It rests on
`SourceAssumption` and `EditAssumption`, which says what the envelope's schema
lets an operation bring along: lines, names, markers. The inductive invariant
`DocInv` is

- `TypeOK` and `IndexFresh` themselves;
- `ProvOK`: a provisional id stands for an extent, with its end behind its start,
  though not for a section of the present text, since no parse renews it;
- `MarkingOK`: an injection in progress belongs to the operation begun last,
  which is neither applied nor skipped.

Each of the fifteen plain operations has one lemma `...Runs`: whichever path it
takes, `Outcome`, that is, the ledger is settled and the copy either stays or is
replaced by a text together with its parse. `EditKeeps` draws the invariant from
that, and each kind of marker has a lemma of its own. The action properties need
more about the lines:

- `SkipsHarmless`. An operation that takes its section out and looks for the
  target again fails only if the target is not found in what is left.
  `StillFound` shows that it is found, from the id and the shape of the
  headings alone, unless it was inside what was taken out;
- `MovesConserve`. `TimesConcat` counts a line in a concatenation, `CutInTwo` and
  `CutSlice` cut a text in two and three, and `CutAndPaste` says that lines
  taken out and put back anywhere are there as often as before. It asks nothing
  of the place they are put, which is why a provisional id that names an extent
  of an older text moves the wrong lines but loses none;
- `ScopeConfined`. `KeptSplice`: replacing lines within a range keeps the lines
  before it and behind it, and repeated changes within it do, too (`KeptTwice`).
  For markers this takes a second invariant, `MarkScope`: the range grows by one
  with each line inserted, and the section's own heading is within it, no further
  down than the lines inserted can have moved it. A tag is looked for one line
  beyond that shift; since the own heading is met first, it never goes to the
  heading of another section.

### CodePatch

`CodePatchProofs.tla` proves every property of `CodePatch` - `TypeOK`,
`TableFresh`, `SkipsHarmless`, `BystandersKept`, `MoveKeepsSymbols` and
`DecoratorsKept` - for any sources, any operations and any bound on a patch, from `SourceAssumption` and
`EditAssumption` (again what the schema lets an operation bring along). `TypeOK`
and `TableFresh` together are inductive (`CodeInv`). As with the documents there
is one lemma `...Runs` per operation, and `EditKeeps` draws the invariant from
them. That all markers of an injection leave a text (`InjectedType`) would be an
induction over the markers; it is an argument by the first marker that does not,
as for `LevelEquation`.

The other four are action properties, and say what is left of the symbols of a
text when the lines of one of them, `s`, change. `Reshaped` says that there are
now `n` lines in its place, none but blank ones indented less than it, with no
decorator at the end. Taking `s` out is the case of none; `SpliceReshapes` and
`RenameReshapes` show it for the five operations on one symbol. What stands
around `s` depends on bodies and classes, and each could change:

- `BodiesNest`: two bodies are apart or one is within the other, so the innermost
  class around a function, which the code finds by its length, is the last one
  that begins before it (`ClassesFacts`, `InnermostFacts`);
- `LinesOfSymbol`, `EndsOutside`: a symbol is its decorators, its declaration and
  lines that are indented further, and no body outside it ends among them. So one
  outside ends at the line at which it ended, or where the lines of `s` began
  (`EndKept`), and one among the new lines ends among them (`EndsAmong`);
- `DeclsKept`, `ClassesKept`, `SymbolKept`: what is around `s` declares the same
  symbols, within the same classes, under the same ids, in the same order;
- `Planted`: a symbol's lines are that symbol wherever they stand, if no
  decorator is above them and the line behind ends it.

`BystandersKept` follows: a symbol apart from `s` keeps its place or is shifted
as a whole (`BystanderKept`). For `SkipsHarmless` and `MoveKeepsSymbols` the
symbol to move behind is there, the other is taken out, and what is left is
parsed anew. `StillThere` shows that the id stands for what is left of the same
symbol: of several with a qualified name the last is still the last
(`LastLeft`), and a bare name has still one bearer. The insert point is then its
end, `MoveSwaps` shows that the move makes two adjacent ranges of lines change
places, and `SwapKeeps` that a symbol within one of them, or outside both, keeps
its lines. The code looks for the target after the cut; looked for before, it
would be off by the length of what was cut (mutant `MoveByOldIndex`).

`DecoratorsKept` is about lines the code does not count in. No decorator of a
symbol is among the lines of another above it (`DecoratorOutside`: the line that
ends the other would end the decorator, too), so each is shifted with its symbol
(`DecoratorsForth`). And a symbol gets a new one from above the cut only if all
lines in between are such as may stand between a decorator and its declaration,
the one above the cut not a decorator itself (`NoDecoAbove`): then it was a
decorator of the symbol cut out, not directly above it (`DecoratorBelow`).

Two attempts failed for a reason. `EndKept` needs that what follows a line that
begins with an `@` is blank or indented no less, and indented alike if it is a
declaration or another such line (`Aligned`). Without it taking out a symbol
whose decorator is indented less than its declaration lengthens the body of a
class before it, and a function gets another id. Decorators of several lines, and
blank lines and comments below one, are Aligned, unless the line right below the
`@` (an argument, a closing parenthesis, a comment) is indented less than it. A
line of a string or of a matrix product that begins with an `@` is not Aligned
above one that is indented less, or above a declaration indented otherwise. Such
sources are Python, and these properties exempt them, along with texts that
are no Python, which an edit can well produce in the middle of a patch. And
`BystandersKept` held of the operations of the run while its
condition on the new lines was too weak: an empty signature leaves the body to
the symbol before, a decorator at the end of a new body goes to the symbol
behind, a blank line above a decorator is the end of the symbol before.
`Fitting` now says so.

### What is not proved

`RunsEnd` and `ChangesAnnounced` are liveness under fairness, out of the prover's
reach. The three refuted claims are about single counterexamples and have nothing
to prove. Every other property of the runs is stated by a theorem.

## 6. Not modelled

Conversions and parsing (language analysers, RDF serialisers, prompts, the
validation rules, report rendering) are functions of their input with no state
to go wrong between calls; most of the repository's lines are of this kind, and
so is most of what the map does not cover. Of the components that are modelled
in part, these are left out:

- *decomposer, recomposer*: crate applications, `domain:` parts, the role of a
  part that is mostly infrastructure, Cargo workspaces, contracts, confidence;
- *SPARQL tool*: query validation, the rdflib fallback, row limits;
- *emission, gate*: the bytes themselves, the recounts of chunks and concepts,
  budgets, `--skip-hashes`;
- *doc-patch*: goals, hashes, section numbers and renumbering, targets of several
  lines, fuzzy matches, the command line;
- *code-patch*: the profiles of the other languages, targets of several lines,
  decorators added in several lines, fuzzy matches, the command line;
- *server*: sessions that come and go, budgets, the thread limiter, HTTP and
  authentication.

The UI and the documentation are out of scope.

## 7. Running it

    tlc -workers 2 -config Enrichment.cfg MCEnrichment
    tlapm EnrichmentProofs.tla
    tlapm LlmCacheProofs.tla
    tlapm BundleProofs.tla
    tlapm LlmAggregatorProofs.tla
    tlapm SparqlStoreProofs.tla
    tlapm RecomposeProofs.tla
    tlapm DocPatchProofs.tla
    tlapm CodePatchProofs.tla

Each pair of a configuration and its module is listed under `runs` in
`PROJECT.json`. Definitions whose comment starts with "Mutant" are altered forms
of the definition that follows: substituting one for the other makes a run fail,
which shows that the property in question depends on that piece of code.
