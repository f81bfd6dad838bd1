----------------------------- MODULE BundleEmit -----------------------------
(***************************************************************************)
(* emission/application/emit_bundle.py: emit() writes a bundle directory   *)
(* file by file, in a fixed order and in place, and run_manifest.json last *)
(* of all; it may be killed, or raise, between any two steps, and be run   *)
(* again over the same directory.  verification/bundle_gate.py decides     *)
(* from the directory alone whether the bundle is fit to be released.      *)
(*                                                                         *)
(* Of the bytes of a file, its text and whether it is complete are kept.   *)
(* Serialisation is deterministic, so two emissions of one inventory graph *)
(* write the same text into every file that follows from the graph, and a  *)
(* hash taken by one matches the file of the other.  Who wrote a file is   *)
(* kept beside its text; no code sees it.                                  *)
(***************************************************************************)
EXTENDS Integers, Sequences, FiniteSets

CONSTANTS
  Order,     \* the files, in the order emit() gets to them
  OnDemand,  \* written when asked for, otherwise unlinked: inventory.jsonld
  IfAny,     \* written when there is something to put in, otherwise left
             \* alone: enrichments.jsonl, the embeddings archives
  Rows,      \* written always, listed when not empty: rust_items.jsonl
  Unhashed,  \* written when asked for, never listed: blobs/
  Derived,   \* their text follows from the inventory graph.  (The vectors of
             \* embeddings.npz are not in the graph, the rows of
             \* enrichments.jsonl and rust_items.jsonl are)
  MaxTexts,  \* bound: graphs, and texts of a file that is not derived
  Filled,    \* the derived files for which a graph has something to put in
  Nodes,     \* the file nodes of a graph
  Layers,    \* components that can register a degradation
  MaxRuns    \* bound: emissions into the directory

Artifacts == {Order[i] : i \in DOMAIN Order}
Conditional == OnDemand \cup IfAny \cup Rows \cup Unhashed
Texts == 1 .. MaxTexts

\* inventory.ttl
First == Order[1]

\* Derived files that have nothing in them unless the graph has.
ByGraph == (IfAny \cup Rows) \cap Derived

ASSUME BundleEmitAssumption ==
  /\ Order \in Seq(Artifacts)
  /\ Conditional \subseteq Artifacts
  /\ OnDemand \cap (IfAny \cup Rows \cup Unhashed) = {}
  /\ IfAny \cap (Rows \cup Unhashed) = {}
  /\ Rows \cap Unhashed = {}
  /\ \A i, j \in DOMAIN Order : Order[i] = Order[j] => i = j
  \* inventory.ttl comes first, whatever the run
  /\ Order # <<>> /\ First \notin Conditional
  /\ Derived \subseteq Artifacts
  /\ {First} \cup OnDemand \cup Rows \subseteq Derived
  /\ MaxRuns \in Nat /\ MaxTexts \in Nat
  /\ Filled \in [Texts -> SUBSET ByGraph]
  /\ Nodes \in [Texts -> Nat]

VARIABLES
  run,      \* emissions started so far
  step,     \* position in Order of the emission under way; 0 for none
  opened,   \* is the file of that position open for writing?
  wants,    \* what it was asked to produce, or found something to put in
  text,     \* what it puts into each file; 0 for no bytes at all
  file,     \* the directory: who wrote each file (0: absent), what, all of it?
  claimed,  \* the hashes taken so far: the texts they are of
  manifest  \* run_manifest.json

emitVars == <<run, step, opened, wants, text, file, claimed, manifest>>

Version == [run : 0 .. MaxRuns, text : 0 .. MaxTexts, whole : BOOLEAN]
NoFile == [run |-> 0, text |-> 0, whole |-> FALSE]
NoTexts == [a \in Artifacts |-> 0]

\* files: name -> sha256 of every fragment of the manifest, 0 if not listed.
\* made and texts are history: what the emission wrote, hashed or not.
Manifest == [run : 0 .. MaxRuns, whole : BOOLEAN,
             files : [Artifacts -> 0 .. MaxTexts], count : Nat,
             shacl : {"conforms", "violates", "skipped"},
             degradations : SUBSET Layers,
             made : SUBSET Artifacts, texts : [Artifacts -> 0 .. MaxTexts]]

NoManifest ==
  [run |-> 0, whole |-> FALSE, files |-> NoTexts, count |-> 0,
   shacl |-> "skipped", degradations |-> {}, made |-> {}, texts |-> NoTexts]

EmitInit ==
  /\ run = 0 /\ step = 0 /\ opened = FALSE /\ wants = {}
  /\ text = NoTexts
  /\ file = [a \in Artifacts |-> NoFile]
  /\ claimed = NoTexts
  /\ manifest = NoManifest

-----------------------------------------------------------------------------
\* Does this emission write the file, and list it when it has written it?
Writes(a) == a \in wants \/ a \in Rows \/ a \notin Conditional

\* Mutant: the core artifacts are left out of the manifest's hashes.
ListsSidecars(a) == a \notin Unhashed /\ a \in wants

Lists(a) == a \notin Unhashed /\ (a \in wants \/ a \notin Conditional)

\* What a derived file holds for a graph: rows there are none of make an
\* empty file, which is complete as soon as it is opened.
TextOf(a, graph) == IF a \in Rows \ Filled[graph] THEN 0 ELSE graph

\* emit() is over and its locals are gone.
Leave ==
  /\ step' = 0
  /\ opened' = FALSE
  /\ wants' = {}
  /\ text' = NoTexts
  /\ claimed' = NoTexts

\* map_codebase has returned; flags and records decide what there is to
\* write.  The graph may be one that was emitted before: of the same commit.
Begin ==
  /\ step = 0
  /\ run < MaxRuns
  /\ run' = run + 1
  /\ step' = 1
  /\ \E graph \in Texts, other \in [Artifacts \ Derived -> Texts] :
       /\ text' = [a \in Artifacts |->
                     IF a \in Derived THEN TextOf(a, graph) ELSE other[a]]
       /\ wants' \in {w \in SUBSET Conditional : w \cap ByGraph = Filled[graph]}
  /\ UNCHANGED <<opened, file, claimed, manifest>>

\* Opening the file for writing truncates what an earlier emission left ...
OpenFile ==
  /\ step \in DOMAIN Order
  /\ Writes(Order[step])
  /\ ~opened
  /\ opened' = TRUE
  /\ file' = [file EXCEPT ![Order[step]] =
       [run |-> run, text |-> text[Order[step]],
        whole |-> text[Order[step]] = 0]]
  /\ UNCHANGED <<run, step, wants, text, claimed, manifest>>

\* ... and when it is complete its hash is taken.  (emit() hashes the core
\* artifacts just before the manifest; nobody has touched them since.)
CloseFile ==
  /\ step \in DOMAIN Order
  /\ opened
  /\ opened' = FALSE
  /\ file' = [file EXCEPT ![Order[step]].whole = TRUE]
  /\ claimed' = [claimed EXCEPT
       ![Order[step]] = IF Lists(Order[step]) THEN text[Order[step]] ELSE 0]
  /\ step' = step + 1
  /\ UNCHANGED <<run, wants, text, manifest>>

\* Mutant: a JSON-LD file not asked for is left alone.
LeaveJsonld ==
  /\ step \in DOMAIN Order
  /\ Order[step] \in OnDemand \ wants
  /\ step' = step + 1
  /\ UNCHANGED <<run, opened, wants, text, file, claimed, manifest>>

\* jsonld_path.unlink(missing_ok=True)
Unlink ==
  /\ step \in DOMAIN Order
  /\ Order[step] \in OnDemand \ wants
  /\ file' = [file EXCEPT ![Order[step]] = NoFile]
  /\ step' = step + 1
  /\ UNCHANGED <<run, opened, wants, text, claimed, manifest>>

\* Nothing to write, or not asked for: the file is left as it is.
Skip ==
  /\ step \in DOMAIN Order
  /\ Order[step] \in (IfAny \cup Unhashed) \ wants
  /\ step' = step + 1
  /\ UNCHANGED <<run, opened, wants, text, file, claimed, manifest>>

\* write_text on run_manifest.json: not atomic either.
OpenManifest ==
  /\ step = Len(Order) + 1
  /\ ~opened
  /\ opened' = TRUE
  /\ manifest' = [NoManifest EXCEPT !.run = run]
  /\ UNCHANGED <<run, step, wants, text, file, claimed>>

\* The manifest carries the hashes, the self-check's outcome (any, as the
\* shapes and the engines decide, or "skipped") and every degradation.
CloseManifest ==
  /\ step = Len(Order) + 1
  /\ opened
  /\ \E s \in {"conforms", "violates", "skipped"}, d \in SUBSET Layers :
       manifest' = [run |-> run, whole |-> TRUE, files |-> claimed,
                    count |-> Nodes[text[First]],
                    shacl |-> s, degradations |-> d,
                    made |-> {a \in Artifacts : Writes(a)}, texts |-> text]
  /\ Leave
  /\ UNCHANGED <<run, file>>

\* The process is killed, or a step raises.
Crash ==
  /\ step # 0
  /\ Leave
  /\ UNCHANGED <<run, file, manifest>>

Emit ==
  \/ Begin \/ OpenFile \/ CloseFile \/ Unlink \/ Skip
  \/ OpenManifest \/ CloseManifest \/ Crash

EmitSpec == EmitInit /\ [][Emit]_emitVars

-----------------------------------------------------------------------------
\* check_bundle(): no violation found, given the degradations accepted on
\* the command line and whether a skipped self-check is allowed.  (The recounts
\* of chunks and concepts and the numeric budgets, which only reject more, are
\* left out.)

\* The file nodes in an inventory.jsonld, listed or not, are as many as the
\* manifest says.  One that was cut short may have lost none of them.
RecountAgrees ==
  \A a \in OnDemand : file[a].run # 0 =>
     IF file[a].whole THEN Nodes[file[a].text] = manifest.count
                      ELSE Nodes[file[a].text] >= manifest.count

\* Mutant: a listed file is checked for presence, not for its hash.
HashesPresent ==
  \A a \in Artifacts : manifest.files[a] # 0 => file[a].run # 0

HashesMatch ==
  \A a \in Artifacts :
     manifest.files[a] # 0 => file[a].text = manifest.files[a] /\ file[a].whole

GatePasses(accept, allowSkipped) ==
  /\ manifest.whole
  /\ RecountAgrees
  /\ HashesMatch
  /\ \/ manifest.shacl = "conforms"
     \/ manifest.shacl = "skipped" /\ allowSkipped
  /\ manifest.degradations \subseteq accept

\* The most lenient gate there is.
Released == GatePasses(Layers, TRUE)

-----------------------------------------------------------------------------
EmitTypeOK ==
  /\ run \in 0 .. MaxRuns
  /\ step \in 0 .. Len(Order) + 1
  /\ opened \in BOOLEAN
  /\ wants \subseteq Conditional
  /\ text \in [Artifacts -> 0 .. MaxTexts]
  /\ file \in [Artifacts -> Version]
  /\ claimed \in [Artifacts -> 0 .. MaxTexts]
  /\ manifest \in Manifest

\* Two emissions have died in the directory since its manifest was written:
\* one that wrote the file, which no hash covers, and after it another that
\* came past inventory.ttl.
TwoDied(a) ==
  /\ manifest.files[a] = 0
  /\ manifest.run < file[a].run
  /\ file[a].run < file[First].run

\* A bundle the gate lets through holds, complete and byte for byte, every
\* file its emission wrote - the empty ones no hash covers included, unless
\* two emissions have died since.
ReleasedIsWhole ==
  Released => \A a \in manifest.made \ Unhashed :
                 \/ file[a].text = manifest.texts[a] /\ file[a].whole
                 \/ TwoDied(a)

\* A re-emission that died half way hides behind the manifest of the one
\* before only if it was of the same graph: what it left of another graph is
\* seen, unless yet another died that had put inventory.ttl back.
CrashIsCaught ==
  Released => \A a \in Derived :
                 \/ file[a].run <= manifest.run
                 \/ file[a].text = TextOf(a, manifest.texts[First])
                 \/ TwoDied(a)

\* "A stale inventory.jsonld from a previous emit would misrepresent this
\* run's output set": readers prefer it to the Turtle file when it exists.
\* One that no hash covers is never from before the release: it is of an
\* emission that died since.
NoStaleJsonld ==
  Released => \A a \in OnDemand : file[a].run # 0 =>
                 \/ file[a].text = manifest.texts[First] /\ file[a].whole
                 \/ manifest.files[a] = 0 /\ file[a].run > manifest.run

=============================================================================
