---------------------------- MODULE BundleProofs ----------------------------
(***************************************************************************)
(* What a released bundle is, and what a session reads of it after it was  *)
(* told of a change, for any list of files, number of emissions, of worker *)
(* threads, and order of reading.                                          *)
(*                                                                         *)
(* Emission.  Every emission opens inventory.ttl first, and every manifest *)
(* lists it, so that a directory which a later emission has touched        *)
(* matches the manifest of an earlier one only if the last that came so    *)
(* far was of the same graph.  That covers the files no hash covers, too,  *)
(* except what was left by an emission before that last one.               *)
(*                                                                         *)
(* Serving.  A bundle loaded from the manifest on disk agrees, in what has *)
(* been read of it so far, with the directory for as long as nothing has   *)
(* opened inventory.ttl since; and one that no clear has come after was    *)
(* loaded from no older manifest than the session was told of.             *)
(***************************************************************************)
EXTENDS BundleServe, TLAPS

\* What the emission under way leaves in a file.
Mine(a, all) == [run |-> run, text |-> text[a], whole |-> all]

\* The emission under way has dealt with every file before its step: those
\* it writes are complete, those it unlinks are gone, and hashes have been
\* taken of what it has written only.
DoneOK(i) ==
  /\ Writes(Order[i]) =>
       /\ file[Order[i]] = Mine(Order[i], TRUE)
       /\ claimed[Order[i]] = IF Lists(Order[i]) THEN text[Order[i]] ELSE 0
  /\ Order[i] \in OnDemand \ wants => file[Order[i]].run = 0

\* The file at its step is open, or as an earlier emission left it.
OpenOK ==
  /\ step = 0 => ~opened
  /\ step \in DOMAIN Order /\ opened =>
       /\ Writes(Order[step])
       /\ file[Order[step]] = Mine(Order[step], text[Order[step]] = 0)

ProgressOK ==
  /\ OpenOK
  /\ step # 0 => /\ run # 0
                 /\ \A i \in DOMAIN Order : i < step => DoneOK(i)

ClaimsOK ==
  \A a \in Artifacts :
     claimed[a] # 0 => step # 0 /\ claimed[a] = text[a] /\ Writes(a)

\* What an emission writes follows from its graph; only rows that there are
\* none of make an empty file.
TextsOK ==
  step # 0 => /\ text[First] \in Texts
              /\ \A a \in Derived : text[a] = TextOf(a, text[First])
              /\ \A a \in Artifacts : text[a] = 0 <=> a \in Rows \ wants

\* Nothing is newer than inventory.ttl, and nothing is newer than the
\* emission started last, which opens inventory.ttl before anything else.
FirstNewest ==
  /\ \A a \in Artifacts : file[a].run <= file[First].run
  /\ file[First].run <= run
  /\ step = 1 /\ ~opened => file[First].run < run

\* The files of the emission that opened inventory.ttl last agree with it.
SameGraph ==
  /\ step # 0 /\ file[First].run = run => file[First].text = text[First]
  /\ \A a \in Derived :
       file[a].run # 0 /\ file[a].run = file[First].run =>
         file[a].text = TextOf(a, file[First].text)
  /\ \A a \in Artifacts : file[a].run # 0 /\ file[a].text = 0 => file[a].whole

\* What the manifest's emission left in a file, and whether it is still there.
Left(a) == [run |-> manifest.run, text |-> manifest.texts[a], whole |-> TRUE]

Kept(a) ==
  \/ file[a] = Left(a)
  \/ /\ file[First].run > manifest.run
     /\ a \in OnDemand \/ file[a].run > manifest.run

\* A complete manifest: of an emission that is over, lists what that emission
\* wrote, inventory.ttl among it, unless there was nothing in it; and no
\* older version of a file it wrote or unlinked has come back.
ListedOK ==
  /\ manifest.run # 0
  /\ First \in manifest.made \ Unhashed
  /\ manifest.texts[First] \in Texts
  /\ \A a \in Artifacts : manifest.files[a] \in {0, manifest.texts[a]}
  /\ \A a \in manifest.made \ Unhashed : manifest.files[a] = manifest.texts[a]
  /\ \A a \in Artifacts : manifest.texts[a] = 0 => a \in Rows
  /\ \A a \in Derived : manifest.texts[a] = TextOf(a, manifest.texts[First])

ManifestOK ==
  /\ manifest.run <= run
  /\ manifest.run = run /\ step # 0 => ~manifest.whole /\ step = Len(Order) + 1
  /\ manifest.whole =>
       /\ ListedOK
       /\ \A a \in manifest.made : Kept(a)
       /\ \A a \in OnDemand : file[a].run # 0 =>
            \/ file[a].run > manifest.run
            \/ a \in manifest.made /\ file[a] = Left(a)

Inv ==
  /\ EmitTypeOK /\ ProgressOK /\ ClaimsOK /\ TextsOK
  /\ FirstNewest /\ SameGraph /\ ManifestOK

-----------------------------------------------------------------------------
\* What the proofs need of the constants.
LEMMA Constants ==
  /\ MaxRuns \in Nat /\ MaxTexts \in Nat /\ Len(Order) \in Nat \ {0}
  /\ DOMAIN Order = 1 .. Len(Order)
  /\ \A i \in DOMAIN Order : Order[i] \in Artifacts
  /\ \A i, j \in DOMAIN Order : Order[i] = Order[j] => i = j
  /\ First \in Artifacts \ Conditional
  /\ Order[1] = First
  /\ Texts = 1 .. MaxTexts
<1>1. /\ Order \in Seq(Artifacts) /\ Order # <<>>
      /\ \A i, j \in DOMAIN Order : Order[i] = Order[j] => i = j
      /\ First \notin Conditional /\ MaxRuns \in Nat /\ MaxTexts \in Nat
  BY BundleEmitAssumption
<1>2. /\ Len(Order) \in Nat \ {0} /\ DOMAIN Order = 1 .. Len(Order)
  BY <1>1
<1>3. \A i \in DOMAIN Order : Order[i] \in Artifacts
  BY DEF Artifacts
<1>4. First \in Artifacts
  BY <1>2, <1>3 DEF First
<1> QED
  BY <1>1, <1>2, <1>3, <1>4 DEF First, Texts

\* How the kinds of files are written, listed, unlinked and left.
LEMMA Kinds ==
  /\ \A a \in Artifacts : a \in OnDemand \ wants => ~Writes(a)
  /\ \A a \in Artifacts : a \in (IfAny \cup Unhashed) \ wants => ~Writes(a)
  /\ \A a \in Artifacts :
        Writes(a) /\ a \notin Unhashed => Lists(a) \/ a \in Rows \ wants
  /\ \A a \in Artifacts : Lists(a) => Writes(a) /\ a \notin Unhashed
  /\ Writes(First) /\ Lists(First)
  /\ Conditional \subseteq Artifacts
  /\ OnDemand \subseteq Artifacts /\ Rows \subseteq Artifacts
  /\ OnDemand \cap Rows = {} /\ OnDemand \cap (IfAny \cup Unhashed) = {}
  /\ \A a \in OnDemand \ wants : a \notin IfAny \cup Unhashed
  /\ \A a \in Artifacts : Writes(a) => a \notin OnDemand \ wants
  BY BundleEmitAssumption, Constants DEF Writes, Lists, Conditional

\* The derived files, and what they hold.
LEMMA DerivedFiles ==
  /\ Derived \subseteq Artifacts /\ First \in Derived
  /\ OnDemand \subseteq Derived /\ Rows \subseteq Derived
  /\ \A a \in Derived, g \in Texts : TextOf(a, g) \in {0, g}
  /\ \A a \in Derived, g \in Texts : TextOf(a, g) = 0 => a \in Rows
  /\ \A a \in OnDemand \cup {First}, g \in Texts : TextOf(a, g) = g
  /\ \A g \in Texts : g \in Nat /\ g # 0
<1>1. /\ Derived \subseteq Artifacts
      /\ First \in Derived /\ OnDemand \subseteq Derived /\ Rows \subseteq Derived
      /\ OnDemand \cap Rows = {} /\ First \notin Rows
  BY BundleEmitAssumption DEF Conditional
<1>2. \A g \in Texts : g \in Nat /\ g # 0
  BY Constants
<1> QED
  BY <1>1, <1>2 DEF TextOf


\* An empty directory, and nothing running.
LEMMA InitInv == EmitInit => Inv
<1> SUFFICES ASSUME EmitInit PROVE Inv
  OBVIOUS
<1> USE Constants
<1>1. EmitTypeOK
  <2>1. NoTexts \in [Artifacts -> 0 .. MaxTexts] /\ NoFile \in Version
    BY DEF NoTexts, NoFile, Version
  <2>2. NoManifest \in Manifest
    BY <2>1 DEF NoManifest, Manifest
  <2>3. /\ run = 0 /\ step = 0 /\ opened = FALSE /\ wants = {}
        /\ text = NoTexts /\ claimed = NoTexts /\ manifest = NoManifest
    BY DEF EmitInit
  <2>4. file \in [Artifacts -> Version]
    BY <2>1 DEF EmitInit
  <2>5. run \in 0 .. MaxRuns /\ step \in 0 .. Len(Order) + 1
    BY <2>3
  <2>7. opened \in BOOLEAN /\ wants \subseteq Conditional
    BY ONLY <2>3
  <2>6. /\ text \in [Artifacts -> 0 .. MaxTexts]
        /\ claimed \in [Artifacts -> 0 .. MaxTexts]
        /\ manifest \in Manifest
    BY ONLY <2>1, <2>2, <2>3
  <2> QED
    BY <2>4, <2>5, <2>6, <2>7 DEF EmitTypeOK
<1>2. ProgressOK /\ ClaimsOK /\ TextsOK
  BY DEF EmitInit, ProgressOK, OpenOK, ClaimsOK, TextsOK, NoTexts
<1>3. FirstNewest /\ SameGraph
  BY DerivedFiles DEF EmitInit, FirstNewest, SameGraph, NoFile
<1>4. ManifestOK
  BY DEF EmitInit, ManifestOK, NoManifest
<1> QED
  BY <1>1, <1>2, <1>3, <1>4 DEF Inv

\* An emission that is over leaves its locals as they were at first.
LEMMA LeaveTyped ==
  Leave => /\ step' \in 0 .. Len(Order) + 1 /\ opened' \in BOOLEAN
           /\ wants' \subseteq Conditional
           /\ text' \in [Artifacts -> 0 .. MaxTexts]
           /\ claimed' \in [Artifacts -> 0 .. MaxTexts]
<1> SUFFICES ASSUME Leave
             PROVE  /\ step' \in 0 .. Len(Order) + 1 /\ opened' \in BOOLEAN
                    /\ wants' \subseteq Conditional
                    /\ text' \in [Artifacts -> 0 .. MaxTexts]
                    /\ claimed' \in [Artifacts -> 0 .. MaxTexts]
  OBVIOUS
<1>1. NoTexts \in [Artifacts -> 0 .. MaxTexts]
  BY Constants DEF NoTexts
<1>2. text' = NoTexts /\ claimed' = NoTexts
  BY DEF Leave
<1>3. step' \in 0 .. Len(Order) + 1
  BY Constants DEF Leave
<1>5. opened' \in BOOLEAN /\ wants' \subseteq Conditional
  BY DEF Leave
<1>4. /\ text' \in [Artifacts -> 0 .. MaxTexts]
      /\ claimed' \in [Artifacts -> 0 .. MaxTexts]
  BY ONLY <1>1, <1>2
<1> QED
  BY <1>3, <1>4, <1>5

LEMMA TypeStep == EmitTypeOK /\ TextsOK /\ [Emit]_emitVars => EmitTypeOK'
<1> SUFFICES ASSUME EmitTypeOK, TextsOK, [Emit]_emitVars PROVE EmitTypeOK'
  OBVIOUS
<1> USE Constants
<1>0. NoTexts \in [Artifacts -> 0 .. MaxTexts]
  BY DEF NoTexts
<1>1. CASE Begin
  <2>1. PICK graph \in Texts, other \in [Artifacts \ Derived -> Texts] :
          text' = [a \in Artifacts |->
                     IF a \in Derived THEN TextOf(a, graph) ELSE other[a]]
    BY <1>1 DEF Begin
  <2>2. text' \in [Artifacts -> 0 .. MaxTexts]
    BY <2>1 DEF TextOf
  <2> QED
    BY <1>1, <2>2 DEF Begin, EmitTypeOK
<1>2. CASE OpenFile
  <2>1. Order[step] \in Artifacts
    BY <1>2 DEF OpenFile
  <2>2. text[Order[step]] \in 0 .. MaxTexts /\ run \in 0 .. MaxRuns
    BY <2>1 DEF EmitTypeOK
  <2> DEFINE empty == text[Order[step]] = 0
  <2>4. empty \in BOOLEAN
    OBVIOUS
  <2> HIDE DEF empty
  <2>5. [run |-> run, text |-> text[Order[step]], whole |-> empty] \in Version
    BY <2>2, <2>4 DEF Version
  <2>6. file' = [file EXCEPT ![Order[step]] =
                   [run |-> run, text |-> text[Order[step]], whole |-> empty]]
    BY <1>2 DEF OpenFile, empty
  <2>3. file' \in [Artifacts -> Version]
    BY <2>1, <2>5, <2>6 DEF EmitTypeOK
  <2> QED
    BY <1>2, <2>3 DEF OpenFile, EmitTypeOK
<1>3. CASE CloseFile
  <2>1. Order[step] \in Artifacts
    BY <1>3 DEF CloseFile
  <2>2. file[Order[step]] \in Version
    BY <2>1 DEF EmitTypeOK
  <2>3. [file[Order[step]] EXCEPT !.whole = TRUE] \in Version
    BY <2>2 DEF Version
  <2>4. file' \in [Artifacts -> Version]
    BY <1>3, <2>1, <2>3 DEF CloseFile, EmitTypeOK
  <2>5. claimed' \in [Artifacts -> 0 .. MaxTexts]
    BY <1>3, <2>1 DEF CloseFile, EmitTypeOK
  <2>6. step' \in 0 .. Len(Order) + 1 /\ opened' = FALSE
    BY <1>3 DEF CloseFile, EmitTypeOK
  <2>7. UNCHANGED <<run, wants, text, manifest>>
    BY <1>3 DEF CloseFile
  <2> QED
    BY <2>4, <2>5, <2>6, <2>7 DEF EmitTypeOK
<1>4. CASE Unlink
  <2>1. NoFile \in Version
    BY DEF NoFile, Version
  <2> QED
    BY <1>4, <2>1 DEF Unlink, EmitTypeOK
<1>5. CASE Skip
  BY <1>5 DEF Skip, EmitTypeOK
<1>6. CASE OpenManifest
  <2>1. NoManifest \in Manifest
    BY <1>0 DEF NoManifest, Manifest
  <2>2. [NoManifest EXCEPT !.run = run] \in Manifest
    BY <2>1 DEF Manifest, EmitTypeOK
  <2> QED
    BY <1>6, <2>2 DEF OpenManifest, EmitTypeOK
<1>7. CASE CloseManifest
  <2>1. Nodes[text[First]] \in Nat
    BY <1>7, BundleEmitAssumption DEF CloseManifest, TextsOK
  <2>2. manifest' \in Manifest
    BY <1>7, <2>1 DEF CloseManifest, EmitTypeOK, Manifest
  <2>3. Leave /\ UNCHANGED <<run, file>>
    BY <1>7 DEF CloseManifest
  <2> QED
    BY <2>2, <2>3, LeaveTyped DEF EmitTypeOK
<1>8. CASE Crash
  BY <1>8, LeaveTyped DEF Crash, EmitTypeOK
<1>9. CASE UNCHANGED emitVars
  BY <1>9 DEF emitVars, EmitTypeOK
<1> QED
  BY <1>1, <1>2, <1>3, <1>4, <1>5, <1>6, <1>7, <1>8, <1>9 DEF Emit

\* A file that the step leaves alone keeps its record.
LEMMA DoneStays ==
  ASSUME NEW i \in DOMAIN Order, DoneOK(i),
         UNCHANGED <<run, wants, text>>,
         file'[Order[i]] = file[Order[i]],
         claimed'[Order[i]] = claimed[Order[i]]
  PROVE  DoneOK(i)'
  BY DEF DoneOK, Writes, Lists, Mine

LEMMA ProgressStep == Inv /\ [Emit]_emitVars => ProgressOK'
<1> SUFFICES ASSUME Inv, [Emit]_emitVars PROVE ProgressOK'
  OBVIOUS
<1> USE Constants
<1>0. /\ EmitTypeOK /\ EmitTypeOK' /\ ProgressOK /\ OpenOK
      /\ file \in [Artifacts -> Version]
      /\ claimed \in [Artifacts -> 0 .. MaxTexts]
      /\ step \in Nat /\ run \in Nat
  BY TypeStep DEF Inv, EmitTypeOK, ProgressOK
<1>1. CASE Begin
  BY <1>0, <1>1 DEF Begin, ProgressOK, OpenOK
<1>2. CASE OpenFile
  <2>1. ASSUME NEW i \in DOMAIN Order, i < step PROVE DoneOK(i)'
    <3>1. Order[i] # Order[step] /\ DoneOK(i)
      BY <1>0, <1>2, <2>1 DEF OpenFile, ProgressOK
    <3> QED
      BY <1>0, <1>2, <3>1, DoneStays DEF OpenFile
  <2>2. OpenOK'
    <3>1. file'[Order[step]] = Mine(Order[step], text[Order[step]] = 0)
      BY <1>0, <1>2 DEF OpenFile, Mine
    <3> QED
      BY <1>0, <1>2, <3>1 DEF OpenFile, OpenOK, Writes, Mine
  <2> QED
    BY <1>0, <1>2, <2>1, <2>2 DEF OpenFile, ProgressOK
<1>3. CASE CloseFile
  <2>1. ASSUME NEW i \in DOMAIN Order, i < step PROVE DoneOK(i)'
    <3>1. Order[i] # Order[step] /\ DoneOK(i)
      BY <1>0, <1>3, <2>1 DEF CloseFile, ProgressOK
    <3> QED
      BY <1>0, <1>3, <3>1, DoneStays DEF CloseFile
  <2>2. ASSUME NEW i \in DOMAIN Order, i = step PROVE DoneOK(i)'
    <3>1. /\ file[Order[i]] = Mine(Order[i], text[Order[i]] = 0)
          /\ Writes(Order[i]) /\ Order[i] \in Artifacts
          /\ file' = [file EXCEPT ![Order[i]].whole = TRUE]
          /\ UNCHANGED <<run, wants, text>>
      BY <1>0, <1>3, <2>2 DEF CloseFile, OpenOK
    <3>2. file'[Order[i]] = Mine(Order[i], TRUE)
      <4>1. file'[Order[i]] = [file[Order[i]] EXCEPT !.whole = TRUE]
        BY <1>0, <3>1
      <4>2. file[Order[i]] \in Version /\ file'[Order[i]] \in Version
        BY <1>0, <3>1 DEF EmitTypeOK
      <4>3. file[Order[i]].run = run /\ file[Order[i]].text = text[Order[i]]
        BY <3>1 DEF Mine
      <4>4. /\ file'[Order[i]].run = run /\ file'[Order[i]].text = text[Order[i]]
            /\ file'[Order[i]].whole = TRUE
        BY <4>1, <4>2, <4>3 DEF Version
      <4> QED
        BY <4>2, <4>4 DEF Version, Mine
    <3>3. claimed'[Order[i]] =
            IF Lists(Order[i]) THEN text[Order[i]] ELSE 0
      BY <1>0, <1>3, <2>2, <3>1 DEF CloseFile
    <3>4. Order[i] \notin OnDemand \ wants
      BY <3>1, Kinds
    <3> QED
      BY <3>1, <3>2, <3>3, <3>4 DEF DoneOK, Writes, Lists, Mine
  <2> QED
    BY <1>0, <1>3, <2>1, <2>2 DEF CloseFile, ProgressOK, OpenOK
<1>4. CASE Unlink
  <2>1. ASSUME NEW i \in DOMAIN Order, i < step PROVE DoneOK(i)'
    <3>1. Order[i] # Order[step] /\ DoneOK(i)
      BY <1>0, <1>4, <2>1 DEF Unlink, ProgressOK
    <3> QED
      BY <1>0, <1>4, <3>1, DoneStays DEF Unlink
  <2>2. ASSUME NEW i \in DOMAIN Order, i = step PROVE DoneOK(i)'
    <3>1. /\ ~Writes(Order[i]) /\ file'[Order[i]].run = 0
          /\ UNCHANGED <<run, wants, text>>
      BY <1>0, <1>4, <2>2, Kinds DEF Unlink, NoFile
    <3> QED
      BY <3>1 DEF DoneOK, Writes
  <2>3. ~opened
    BY <1>0, <1>4, Kinds DEF Unlink, OpenOK
  <2> QED
    BY <1>0, <1>4, <2>1, <2>2, <2>3 DEF Unlink, ProgressOK, OpenOK
<1>5. CASE Skip
  <2>1. ASSUME NEW i \in DOMAIN Order, i < step PROVE DoneOK(i)'
    BY <1>0, <1>5, <2>1, DoneStays DEF Skip, ProgressOK
  <2>2. ASSUME NEW i \in DOMAIN Order, i = step PROVE DoneOK(i)'
    <3>1. /\ ~Writes(Order[i]) /\ Order[i] \notin OnDemand
          /\ UNCHANGED <<run, wants, text>>
      BY <1>5, <2>2, Kinds DEF Skip
    <3> QED
      BY <3>1 DEF DoneOK, Writes
  <2>3. ~opened
    BY <1>0, <1>5, Kinds DEF Skip, OpenOK
  <2> QED
    BY <1>0, <1>5, <2>1, <2>2, <2>3 DEF Skip, ProgressOK, OpenOK
<1>6. CASE OpenManifest
  <2>1. ASSUME NEW i \in DOMAIN Order, i < step PROVE DoneOK(i)'
    BY <1>0, <1>6, <2>1, DoneStays DEF OpenManifest, ProgressOK
  <2> QED
    BY <1>0, <1>6, <2>1 DEF OpenManifest, ProgressOK, OpenOK
<1>7. CASE CloseManifest \/ Crash
  BY <1>7 DEF CloseManifest, Crash, Leave, ProgressOK, OpenOK
<1>8. CASE UNCHANGED emitVars
  BY <1>0, <1>8, DoneStays DEF emitVars, ProgressOK, OpenOK, Writes, Mine
<1> QED
  BY <1>1, <1>2, <1>3, <1>4, <1>5, <1>6, <1>7, <1>8 DEF Emit

LEMMA ClaimsStep == Inv /\ [Emit]_emitVars => ClaimsOK'
<1> SUFFICES ASSUME Inv, [Emit]_emitVars PROVE ClaimsOK'
  OBVIOUS
<1> USE Constants
<1>0. /\ ClaimsOK /\ claimed \in [Artifacts -> 0 .. MaxTexts]
      /\ step \in Nat
  BY DEF Inv, EmitTypeOK
<1>1. CASE Begin
  BY <1>0, <1>1 DEF Begin, ClaimsOK
<1>2. CASE CloseFile
  <2>1. \A a \in Artifacts :
          \/ claimed'[a] = claimed[a]
          \/ claimed'[a] = 0
          \/ claimed'[a] = text[a] /\ Lists(a)
    BY <1>0, <1>2 DEF CloseFile
  <2>2. step' # 0 /\ UNCHANGED <<wants, text>>
    BY <1>0, <1>2 DEF CloseFile
  <2> QED
    BY <1>0, <2>1, <2>2, Kinds DEF ClaimsOK, Writes
<1>3. CASE OpenFile \/ Unlink \/ Skip \/ OpenManifest
  <2>1. step' # 0 /\ UNCHANGED <<wants, text, claimed>>
    BY <1>0, <1>3 DEF OpenFile, Unlink, Skip, OpenManifest
  <2> QED
    BY <1>0, <2>1 DEF ClaimsOK, Writes
<1>4. CASE CloseManifest \/ Crash
  BY <1>4 DEF CloseManifest, Crash, Leave, ClaimsOK, NoTexts
<1>5. CASE UNCHANGED emitVars
  BY <1>0, <1>5 DEF emitVars, ClaimsOK, Writes
<1> QED
  BY <1>1, <1>2, <1>3, <1>4, <1>5 DEF Emit

LEMMA TextsStep == Inv /\ [Emit]_emitVars => TextsOK'
<1> SUFFICES ASSUME Inv, [Emit]_emitVars PROVE TextsOK'
  OBVIOUS
<1> USE Constants
<1>0. TextsOK
  BY DEF Inv
<1>1. CASE Begin
  <2>1. PICK graph \in Texts, other \in [Artifacts \ Derived -> Texts] :
          /\ text' = [a \in Artifacts |->
                        IF a \in Derived THEN TextOf(a, graph) ELSE other[a]]
          /\ wants' \cap ByGraph = Filled[graph]
    BY <1>1 DEF Begin
  <2>2. text'[First] = graph
    BY <2>1, DerivedFiles
  <2>3. \A a \in Derived : text'[a] = TextOf(a, graph)
    BY <2>1, DerivedFiles
  <2>4. \A a \in Rows : a \in wants' <=> a \in Filled[graph]
    BY <2>1, DerivedFiles DEF ByGraph
  <2>5. \A a \in Derived : TextOf(a, graph) = 0 <=> a \in Rows \ wants'
    BY <2>1, <2>4, DerivedFiles DEF TextOf
  <2>6. \A a \in Artifacts \ Derived : text'[a] # 0 /\ a \notin Rows
    BY <2>1, DerivedFiles
  <2> QED
    BY <2>1, <2>2, <2>3, <2>5, <2>6 DEF TextsOK
<1>2. CASE OpenFile \/ CloseFile \/ Unlink \/ Skip \/ OpenManifest
  <2>1. UNCHANGED <<wants, text>> /\ step # 0
    BY <1>2 DEF OpenFile, CloseFile, Unlink, Skip, OpenManifest
  <2> QED
    BY <1>0, <2>1 DEF TextsOK
<1>3. CASE CloseManifest \/ Crash
  BY <1>3 DEF CloseManifest, Crash, Leave, TextsOK
<1>4. CASE UNCHANGED emitVars
  BY <1>0, <1>4 DEF emitVars, TextsOK
<1> QED
  BY <1>1, <1>2, <1>3, <1>4 DEF Emit

\* While an emission writes, inventory.ttl is its own or yet to be opened.
LEMMA FirstTaken ==
  ASSUME Inv, step \in DOMAIN Order, step # 1 \/ opened
  PROVE  file[First].run = run /\ run # manifest.run
<1> USE Constants
<1>1. step # 0 /\ 1 \in DOMAIN Order
  OBVIOUS
<1>2. file[First].run = run
  <2>1. CASE step # 1
    <3>1. DoneOK(1)
      BY <1>1, <2>1 DEF Inv, ProgressOK
    <3> QED
      BY <3>1, Kinds DEF DoneOK, Mine
  <2>2. CASE step = 1
    BY <2>2 DEF Inv, ProgressOK, OpenOK, Mine
  <2> QED
    BY <2>1, <2>2
<1>3. run # manifest.run
  BY <1>1 DEF Inv, ManifestOK
<1> QED
  BY <1>2, <1>3

\* What a step does to the files, one action each.
LEMMA Opened ==
  ASSUME Inv, OpenFile
  PROVE  /\ \A a \in Artifacts :
              IF a = Order[step]
                THEN /\ file'[a].run = run /\ file'[a].text = text[a]
                     /\ text[a] = 0 => file'[a].whole
                ELSE file'[a] = file[a]
         /\ file'[First].run = run
         /\ step # 1 => file'[First] = file[First]
<1> USE Constants
<1>1. /\ file \in [Artifacts -> Version] /\ step \in DOMAIN Order
  BY DEF Inv, EmitTypeOK, OpenFile
<1>2. \A a \in Artifacts :
        IF a = Order[step]
          THEN file'[a] = [run |-> run, text |-> text[a],
                           whole |-> text[a] = 0]
          ELSE file'[a] = file[a]
  BY <1>1 DEF OpenFile
<1>3. \A a \in Artifacts :
        a = Order[step] => /\ file'[a].run = run /\ file'[a].text = text[a]
                           /\ text[a] = 0 => file'[a].whole
  <2> SUFFICES ASSUME NEW a \in Artifacts, a = Order[step]
               PROVE  /\ file'[a].run = run /\ file'[a].text = text[a]
                      /\ text[a] = 0 => file'[a].whole
    OBVIOUS
  <2> DEFINE empty == text[a] = 0
  <2>1. file'[a] = [run |-> run, text |-> text[a], whole |-> empty]
    BY <1>2
  <2> HIDE DEF empty
  <2>2. /\ file'[a].run = run /\ file'[a].text = text[a]
        /\ file'[a].whole = empty
    BY <2>1
  <2> QED
    BY <2>2 DEF empty
<1>4. CASE step = 1
  BY <1>2, <1>3, <1>4
<1>5. CASE step # 1
  <2>1. Order[step] # First /\ file[First].run = run
    BY <1>1, <1>5, FirstTaken
  <2> QED
    BY <1>2, <1>3, <1>5, <2>1
<1> QED
  BY <1>4, <1>5

LEMMA Closed ==
  ASSUME Inv, CloseFile
  PROVE  /\ \A a \in Artifacts :
              IF a = Order[step]
                THEN /\ file'[a].run = run /\ file[a].run = run
                     /\ file'[a].text = file[a].text /\ file'[a].whole
                ELSE file'[a] = file[a]
         /\ file[First].run = run /\ file'[First].run = run
         /\ file'[First].text = file[First].text
<1> USE Constants
<1>1. /\ file \in [Artifacts -> Version] /\ step \in DOMAIN Order /\ opened
  BY DEF Inv, EmitTypeOK, CloseFile
<1>2. file[Order[step]].run = run
  BY <1>1 DEF Inv, ProgressOK, OpenOK, Mine
<1>3. /\ file'[Order[step]] = [file[Order[step]] EXCEPT !.whole = TRUE]
      /\ \A a \in Artifacts : a # Order[step] => file'[a] = file[a]
  BY <1>1 DEF CloseFile
<1>4. /\ file'[Order[step]].run = run /\ file'[Order[step]].whole
      /\ file'[Order[step]].text = file[Order[step]].text
  BY <1>1, <1>2, <1>3 DEF Version
<1>5. file[First].run = run
  BY <1>1, FirstTaken
<1>6. file'[First].run = run /\ file'[First].text = file[First].text
  BY <1>3, <1>4, <1>5
<1> QED
  BY <1>2, <1>3, <1>4, <1>5, <1>6

LEMMA Unlinked ==
  ASSUME Inv, Unlink
  PROVE  /\ \A a \in Artifacts :
              \/ file'[a] = file[a]
              \/ a \in OnDemand /\ file'[a] = NoFile
         /\ file'[First] = file[First] /\ file[First].run = run
<1> USE Constants
<1>1. /\ file \in [Artifacts -> Version] /\ step \in DOMAIN Order
  BY DEF Inv, EmitTypeOK, Unlink
<1>2. Order[step] # First /\ step # 1
  BY Kinds DEF Unlink, Conditional
<1>3. file[First].run = run
  BY <1>1, <1>2, FirstTaken
<1> QED
  BY <1>1, <1>2, <1>3 DEF Unlink

\* Only an emission that has been past inventory.ttl touches another file,
\* and inventory.ttl is never unlinked.
LEMMA NewestStep == Inv /\ [Emit]_emitVars => FirstNewest'
<1> SUFFICES ASSUME Inv, [Emit]_emitVars PROVE FirstNewest'
  OBVIOUS
<1> USE Constants
<1>0. /\ FirstNewest /\ run \in Nat /\ step \in Nat
      /\ \A a \in Artifacts : file[a].run \in Nat
      /\ step = 0 => ~opened
  BY DEF Inv, EmitTypeOK, Version, ProgressOK, OpenOK
<1>1. CASE Begin
  BY <1>0, <1>1 DEF Begin, FirstNewest
<1>2. CASE OpenFile
  <2>1. \A a \in Artifacts : file'[a].run \in {file[a].run, run}
    BY <1>2, Opened
  <2>2. /\ file'[First].run = run /\ run' = run /\ opened'
        /\ First \in Artifacts
    BY <1>2, Opened DEF OpenFile
  <2>3. \A a \in Artifacts : file[a].run <= run
    BY <1>0 DEF FirstNewest
  <2>4. \A a \in Artifacts : file'[a].run <= run
    BY <1>0, <2>1, <2>3
  <2> QED
    BY <1>0, <2>2, <2>4 DEF FirstNewest
<1>3. CASE CloseFile
  <2>1. \A a \in Artifacts : file'[a].run = file[a].run
    BY <1>3, Closed
  <2> QED
    BY <1>0, <1>3, <2>1 DEF CloseFile, FirstNewest
<1>4. CASE Unlink
  <2>1. \A a \in Artifacts : file'[a].run \in {0, file[a].run}
    BY <1>4, Unlinked DEF NoFile
  <2>2. file'[First].run = file[First].run /\ run' = run /\ step' # 1
    BY <1>0, <1>4, Unlinked DEF Unlink
  <2> QED
    BY <1>0, <2>1, <2>2 DEF FirstNewest
<1>5. CASE Skip \/ OpenManifest
  <2>1. UNCHANGED <<run, file>> /\ step' # 1
    BY <1>0, <1>5 DEF Skip, OpenManifest
  <2> QED
    BY <1>0, <2>1 DEF FirstNewest
<1>6. CASE CloseManifest \/ Crash
  BY <1>0, <1>6 DEF CloseManifest, Crash, Leave, FirstNewest
<1>7. CASE UNCHANGED emitVars
  BY <1>0, <1>7 DEF emitVars, FirstNewest
<1> QED
  BY <1>1, <1>2, <1>3, <1>4, <1>5, <1>6, <1>7 DEF Emit

LEMMA SameGraphStep == Inv /\ [Emit]_emitVars => SameGraph'
<1> SUFFICES ASSUME Inv, [Emit]_emitVars PROVE SameGraph'
  OBVIOUS
<1> USE Constants, DerivedFiles
<1>0. /\ SameGraph /\ FirstNewest /\ TextsOK /\ run \in Nat /\ step \in Nat
      /\ \A a \in Artifacts : file[a].run \in Nat
  BY DEF Inv, EmitTypeOK, Version
<1>1. CASE Begin
  BY <1>0, <1>1 DEF Begin, FirstNewest, SameGraph
<1>2. CASE OpenFile
  <2>0. step # 0 /\ UNCHANGED <<run, step, text>> /\ ~opened
    BY <1>0, <1>2 DEF OpenFile
  <2>1. file'[First].run = run /\ file'[First].text = text[First]
    <3>1. CASE step = 1
      BY <1>2, <3>1, Opened
    <3>2. CASE step # 1
      BY <1>0, <1>2, <2>0, <3>2, Opened DEF SameGraph
    <3> QED
      BY <3>1, <3>2
  <2>2. ASSUME NEW a \in Derived, file'[a].run = run
        PROVE  file'[a].text = TextOf(a, text[First])
    <3>1. CASE a = Order[step]
      BY <1>0, <1>2, <2>0, <3>1, Opened DEF TextsOK
    <3>2. CASE a # Order[step]
      <4>1. file'[a] = file[a] /\ file[a].run = run
        BY <1>2, <2>2, <3>2, Opened
      <4>2. step # 1
        BY <1>0, <2>0, <4>1 DEF FirstNewest
      <4>3. file[First].run = run /\ file[First].text = text[First]
        BY <1>2, <2>1, <4>2, Opened
      <4>4. run # 0
        BY <2>0 DEF Inv, ProgressOK
      <4> QED
        BY <1>0, <4>1, <4>3, <4>4 DEF SameGraph
    <3> QED
      BY <3>1, <3>2
  <2>3. \A a \in Artifacts : file'[a].run # 0 /\ file'[a].text = 0
                               => file'[a].whole
    BY <1>0, <1>2, Opened DEF SameGraph
  <2> QED
    BY <2>0, <2>1, <2>2, <2>3 DEF SameGraph
<1>3. CASE CloseFile
  <2>0. step # 0 /\ UNCHANGED <<run, text>>
    BY <1>0, <1>3 DEF CloseFile
  <2>1. \A a \in Artifacts : /\ file'[a].run = file[a].run
                              /\ file'[a].text = file[a].text
    BY <1>3, Closed
  <2>2. run # 0 /\ file'[First].run = run /\ file'[First].text = text[First]
    BY <1>0, <1>3, <2>0, <2>1, Closed DEF SameGraph, Inv, ProgressOK
  <2>3. ASSUME NEW a \in Derived, file'[a].run # 0,
               file'[a].run = file'[First].run
        PROVE  file'[a].text = TextOf(a, file'[First].text)
    <3>1. /\ file[a].run # 0 /\ file[a].run = file[First].run
          /\ file'[a].text = file[a].text
          /\ file'[First].text = file[First].text
      <4>1. /\ file'[a].run = file[a].run /\ file'[a].text = file[a].text
        BY <2>1
      <4>2. /\ file'[First].run = file[First].run
            /\ file'[First].text = file[First].text
        BY <2>1
      <4> QED
        BY <2>3, <4>1, <4>2
    <3> QED
      BY <1>0, <3>1 DEF SameGraph
  <2>4. \A a \in Artifacts : file'[a].run # 0 /\ file'[a].text = 0
                                => file'[a].whole
    BY <1>0, <1>3, Closed DEF SameGraph
  <2> QED
    BY <2>0, <2>2, <2>3, <2>4 DEF SameGraph
<1>4. CASE Unlink
  <2>0. step # 0 /\ UNCHANGED <<run, text>>
    BY <1>0, <1>4 DEF Unlink
  <2>1. \A a \in Artifacts : file'[a] = file[a] \/ file'[a].run = 0
    BY <1>4, Unlinked DEF NoFile
  <2>2. file'[First] = file[First]
    BY <1>4, Unlinked
  <2> QED
    BY <1>0, <2>0, <2>1, <2>2 DEF SameGraph
<1>5. CASE Skip \/ OpenManifest
  <2>1. UNCHANGED <<run, file, text>> /\ step # 0
    BY <1>0, <1>5 DEF Skip, OpenManifest
  <2> QED
    BY <1>0, <2>1 DEF SameGraph
<1>6. CASE CloseManifest \/ Crash
  BY <1>0, <1>6 DEF CloseManifest, Crash, Leave, SameGraph
<1>7. CASE UNCHANGED emitVars
  BY <1>0, <1>7 DEF emitVars, SameGraph
<1> QED
  BY <1>1, <1>2, <1>3, <1>4, <1>5, <1>6, <1>7 DEF Emit

\* A complete manifest outlives the emissions after its own: each takes
\* inventory.ttl first, and what it writes is newer and what it unlinks gone.
LEMMA ManifestStays ==
  ASSUME Inv, UNCHANGED manifest, run <= run', run' \in Nat,
         manifest.run = run' /\ step' # 0 =>
           run' = run /\ step' = step /\ step # 0,
         \/ file' = file
         \/ /\ file'[First].run > manifest.run
            /\ \A a \in Artifacts :
                 \/ file'[a] = file[a]
                 \/ file'[a].run > manifest.run
                 \/ a \in OnDemand /\ file'[a].run = 0
  PROVE  ManifestOK'
<1> USE Constants, DerivedFiles
<1>1. /\ manifest.run \in Nat /\ run \in Nat /\ ManifestOK
      /\ manifest.made \subseteq Artifacts
  BY DEF Inv, EmitTypeOK, Manifest
<1>2. manifest.run <= run'
  BY <1>1 DEF ManifestOK
<1>3. ListedOK => ListedOK'
  BY DEF ListedOK
<1>4. CASE file' = file
  BY <1>1, <1>2, <1>3, <1>4 DEF ManifestOK, Kept, Left
<1>5. CASE /\ file'[First].run > manifest.run
           /\ \A a \in Artifacts :
                 \/ file'[a] = file[a]
                 \/ file'[a].run > manifest.run
                 \/ a \in OnDemand /\ file'[a].run = 0
  <2>1. ASSUME NEW a \in manifest.made, Kept(a) PROVE Kept(a)'
    BY <1>1, <1>5, <2>1 DEF Kept, Left
  <2>2. ASSUME NEW a \in OnDemand,
               file[a].run # 0 => \/ file[a].run > manifest.run
                                  \/ a \in manifest.made /\ file[a] = Left(a),
               file'[a].run # 0
        PROVE  \/ file'[a].run > manifest.run
               \/ a \in manifest.made /\ file'[a] = Left(a)
    BY <1>5, <2>2
  <2> QED
    BY <1>1, <1>2, <1>3, <2>1, <2>2 DEF ManifestOK, Left
<1> QED
  BY <1>4, <1>5

LEMMA ManifestStep == Inv /\ [Emit]_emitVars => ManifestOK'
<1> SUFFICES ASSUME Inv, [Emit]_emitVars PROVE ManifestOK'
  OBVIOUS
<1> USE Constants
<1>0. /\ EmitTypeOK /\ ManifestOK /\ run \in Nat /\ step \in Nat
      /\ manifest.run \in Nat /\ manifest.run <= run
  BY DEF Inv, EmitTypeOK, Manifest, ManifestOK
\* A file is being dealt with: the emission is later than the manifest's.
<1>1. step \in DOMAIN Order => manifest.run < run /\ step # 0
  BY <1>0 DEF ManifestOK
<1>2. CASE Begin
  BY <1>0, <1>2, ManifestStays DEF Begin
<1>3. CASE OpenFile
  <2>1. /\ file'[First].run > manifest.run
        /\ \A a \in Artifacts :
             file'[a] = file[a] \/ file'[a].run > manifest.run
    BY <1>0, <1>1, <1>3, Opened DEF OpenFile
  <2> QED
    BY <1>0, <1>1, <1>3, <2>1, ManifestStays DEF OpenFile
<1>4. CASE CloseFile
  <2>1. /\ file'[First].run > manifest.run
        /\ \A a \in Artifacts :
             file'[a] = file[a] \/ file'[a].run > manifest.run
    BY <1>0, <1>1, <1>4, Closed DEF CloseFile
  <2>2. /\ UNCHANGED <<run, manifest>> /\ manifest.run # run' /\ run' \in Nat
        /\ run <= run'
    BY <1>0, <1>1, <1>4 DEF CloseFile
  <2> QED
    BY <2>1, <2>2, ManifestStays
<1>5. CASE Unlink
  <2>1. /\ file'[First].run > manifest.run
        /\ \A a \in Artifacts :
             file'[a] = file[a] \/ (a \in OnDemand /\ file'[a].run = 0)
    BY <1>0, <1>1, <1>5, Unlinked DEF Unlink, NoFile
  <2> QED
    BY <1>0, <1>1, <1>5, <2>1, ManifestStays DEF Unlink
<1>6. CASE Skip
  BY <1>0, <1>1, <1>6, ManifestStays DEF Skip
<1>7. CASE OpenManifest
  <2>1. manifest'.run = run /\ ~manifest'.whole
    BY <1>7 DEF OpenManifest, NoManifest
  <2> QED
    BY <1>0, <1>7, <2>1 DEF OpenManifest, ManifestOK
<1>8. CASE CloseManifest
  <2>1. /\ manifest'.run = run /\ manifest'.files = claimed
        /\ manifest'.made = {a \in Artifacts : Writes(a)}
        /\ manifest'.texts = text
        /\ step = Len(Order) + 1 /\ step' = 0
        /\ UNCHANGED <<run, file>>
    BY <1>8 DEF CloseManifest, Leave
  <2>2. run # 0 /\ \A i \in DOMAIN Order : DoneOK(i)
    BY <1>0, <2>1 DEF Inv, ProgressOK
  <2>3. ASSUME NEW a \in Artifacts
        PROVE  /\ Writes(a) =>
                    /\ file[a] = Mine(a, TRUE)
                    /\ claimed[a] = IF Lists(a) THEN text[a] ELSE 0
               /\ a \in OnDemand \ wants => file[a].run = 0
    <3>1. PICK i \in DOMAIN Order : a = Order[i]
      BY DEF Artifacts
    <3> QED
      BY <2>2, <3>1 DEF DoneOK
  <2>4. ListedOK'
    <3>1. /\ text[First] \in Texts
          /\ \A a \in Derived : text[a] = TextOf(a, text[First])
          /\ \A a \in Artifacts : text[a] = 0 <=> a \in Rows \ wants
      BY <2>1 DEF Inv, TextsOK
    <3>2. First \in manifest'.made \ Unhashed
      BY <2>1, Kinds
    <3>3. \A a \in manifest'.made \ Unhashed : claimed[a] = text[a]
      BY <2>1, <2>3, <3>1, Kinds
    <3>4. \A a \in Artifacts : claimed[a] \in {0, text[a]}
      BY DEF Inv, ClaimsOK
    <3> QED
      BY <2>1, <2>2, <3>1, <3>2, <3>3, <3>4 DEF ListedOK
  <2>5. \A a \in manifest'.made : file'[a] = Left(a)'
    BY <2>1, <2>3 DEF Mine, Left
  <2>6. \A a \in OnDemand : file'[a].run # 0 => a \in manifest'.made
    BY <2>1, <2>3, Kinds DEF Writes
  <2> QED
    BY <1>0, <2>1, <2>4, <2>5, <2>6 DEF ManifestOK, Kept
<1>9. CASE Crash
  BY <1>0, <1>9, ManifestStays DEF Crash, Leave
<1>10. CASE UNCHANGED emitVars
  BY <1>0, <1>10, ManifestStays DEF emitVars
<1> QED
  BY <1>2, <1>3, <1>4, <1>5, <1>6, <1>7, <1>8, <1>9, <1>10 DEF Emit

LEMMA InvStep == Inv /\ [Emit]_emitVars => Inv'
  BY TypeStep, ProgressStep, ClaimsStep, TextsStep, NewestStep, SameGraphStep,
     ManifestStep DEF Inv

\* The invariant holds in every reachable state.
THEOREM Invariance == EmitSpec => []Inv
  BY InitInv, InvStep, PTL DEF EmitSpec

-----------------------------------------------------------------------------
\* What a gate that passes knows.
LEMMA GateSees ==
  ASSUME Inv, Released
  PROVE  /\ manifest.whole /\ ListedOK
         /\ \A a \in Artifacts : manifest.files[a] # 0 =>
              file[a].text = manifest.files[a] /\ file[a].whole
         /\ file[First].text = manifest.texts[First]
         /\ file[First].run # 0
         /\ manifest.run \in Nat /\ manifest.made \subseteq Artifacts
         /\ \A a \in Artifacts : file[a].run \in Nat
<1> USE Constants, DerivedFiles
<1>1. /\ manifest.whole
      /\ \A a \in Artifacts : manifest.files[a] # 0 =>
           file[a].text = manifest.files[a] /\ file[a].whole
  BY DEF Released, GatePasses, HashesMatch
<1>2. /\ manifest.run \in Nat /\ manifest.made \subseteq Artifacts
      /\ \A a \in Artifacts : file[a].run \in Nat
  <2>1. manifest \in Manifest /\ file \in [Artifacts -> Version]
    BY DEF Inv, EmitTypeOK
  <2> QED
    BY <2>1 DEF Manifest, Version
<1>3. ListedOK /\ Kept(First)
  BY <1>1 DEF Inv, ManifestOK, ListedOK
<1>4. file[First].text = manifest.texts[First]
  BY <1>1, <1>3 DEF ListedOK
<1>5. file[First].run # 0
  <2>1. manifest.run # 0
    BY <1>3 DEF ListedOK
  <2>2. file[First].run = manifest.run \/ file[First].run > manifest.run
    BY <1>3 DEF Kept, Left
  <2> QED
    BY <1>2, <2>1, <2>2
<1> QED
  BY <1>1, <1>2, <1>3, <1>4, <1>5

\* A derived file that came with the inventory.ttl that is there is of the
\* manifest's graph.
LEMMA SameAsFirst ==
  ASSUME Inv, Released, NEW a \in Derived, file[a].run # 0,
         file[a].run = file[First].run
  PROVE  file[a].text = TextOf(a, manifest.texts[First])
  BY GateSees DEF Inv, SameGraph

\* Every variable keeps its type: in particular a step is within the files.
THEOREM Typing == EmitSpec => []EmitTypeOK
  BY Invariance, PTL DEF Inv

\* An emission that died before its own manifest is seen, unless what it left
\* is what the released graph has there, or it hides behind another one.
THEOREM Crashes == EmitSpec => []CrashIsCaught
<1>1. Inv => CrashIsCaught
  <2> SUFFICES ASSUME Inv, Released, NEW a \in Derived,
                      ~(file[a].run <= manifest.run), ~TwoDied(a)
               PROVE  file[a].text = TextOf(a, manifest.texts[First])
    BY DEF CrashIsCaught
  <2> USE Constants, DerivedFiles, GateSees
  <2>1. file[a].run > manifest.run /\ file[a].run # 0
    OBVIOUS
  <2>2. file[a].run <= file[First].run
    BY DEF Inv, FirstNewest
  <2>3. CASE manifest.files[a] = 0
    <3>1. file[a].run = file[First].run
      BY <2>1, <2>2, <2>3 DEF TwoDied
    <3> QED
      BY <2>1, <3>1, SameAsFirst
  <2>4. CASE manifest.files[a] # 0
    <3>1. file[a].text = manifest.texts[a]
      BY <2>4 DEF ListedOK
    <3>2. manifest.texts[a] = TextOf(a, manifest.texts[First])
      BY DEF ListedOK
    <3> QED
        BY <3>1, <3>2
  <2> QED
    BY <2>3, <2>4
<1> QED
  BY <1>1, Invariance, PTL

\* A released bundle holds, complete, what its emission wrote, the files
\* that no hash covers included, until two emissions have died over it.
THEOREM Wholeness == EmitSpec => []ReleasedIsWhole
<1>1. Inv => ReleasedIsWhole
  <2> SUFFICES ASSUME Inv, Released, NEW a \in manifest.made \ Unhashed,
                      ~TwoDied(a)
               PROVE  file[a].text = manifest.texts[a] /\ file[a].whole
    BY DEF ReleasedIsWhole
  <2> USE Constants, DerivedFiles, GateSees
  <2>1. a \in Artifacts /\ manifest.files[a] = manifest.texts[a]
    BY DEF ListedOK
  <2>2. CASE manifest.files[a] # 0
    BY <2>1, <2>2
  <2>3. CASE manifest.files[a] = 0
    <3>1. a \in Rows /\ manifest.texts[a] = 0
      BY <2>1, <2>3 DEF ListedOK
    <3>2. Kept(a) /\ a \notin OnDemand
      BY <3>1, Kinds DEF Inv, ManifestOK
    <3>3. CASE file[a] = Left(a)
      BY <3>3 DEF Left
    <3>4. CASE file[a].run > manifest.run
      <4>1. file[a].run <= file[First].run
        BY <2>1 DEF Inv, FirstNewest
      <4>2. file[a].run # 0 /\ file[a].run = file[First].run
        BY <2>1, <2>3, <3>4, <4>1 DEF TwoDied
      <4>3. file[a].text = 0
        BY <3>1, <4>2, SameAsFirst DEF ListedOK
      <4>4. file[a].whole
        BY <2>1, <4>2, <4>3 DEF Inv, SameGraph
      <4> QED
        BY <3>1, <4>3, <4>4
    <3> QED
      BY <3>2, <3>3, <3>4 DEF Kept
  <2> QED
    BY <2>2, <2>3
<1> QED
  BY <1>1, Invariance, PTL

\* A JSON-LD file beside a released bundle's Turtle file is the released one,
\* or no hash covers it and an emission that died since has left it.
THEOREM Jsonld == EmitSpec => []NoStaleJsonld
<1>1. Inv => NoStaleJsonld
  <2> SUFFICES ASSUME Inv, Released, NEW a \in OnDemand, file[a].run # 0
               PROVE  \/ file[a].text = manifest.texts[First] /\ file[a].whole
                      \/ /\ manifest.files[a] = 0
                         /\ file[a].run > manifest.run
    BY DEF NoStaleJsonld
  <2> USE Constants, DerivedFiles, GateSees
  <2>1. manifest.texts[a] = manifest.texts[First] /\ manifest.texts[a] # 0
    BY DEF ListedOK
  <2>2. CASE manifest.files[a] # 0
    BY <2>1, <2>2 DEF ListedOK
  <2>3. CASE manifest.files[a] = 0
    <3>1. a \notin manifest.made
      BY <2>1, <2>3, Kinds DEF ListedOK
    <3>2. file[a].run > manifest.run
      BY <3>1 DEF Inv, ManifestOK
    <3> QED
      BY <2>3, <3>2
  <2> QED
    BY <2>2, <2>3
<1> QED
  BY <1>1, Invariance, PTL

-----------------------------------------------------------------------------
\* The serving side.

\* The manifest a bundle was loaded from is that of an emission that is over;
\* if it is fresh, the session has not been told of a later one, nor will be
\* by the callbacks under way.
Known(X) ==
  /\ X.run <= manifest.run
  /\ step # 0 => X.run # run
  /\ X.fresh => /\ told.run <= X.run
                /\ watch = "notify" => scanned.run <= X.run

\* Nothing has been written since the manifest the bundle was loaded from.
Current(X) ==
  X.run = manifest.run /\ manifest.whole /\ file[First].run = manifest.run

\* The files read so far, those before n, are then the ones on disk.
Mirrors(X, n) ==
  Current(X) => \A i \in DOMAIN ReadOrder :
                   i < n => X.files[ReadOrder[i]] = file[ReadOrder[i]]

LoadsOK == \A t \in Threads : Known(loading[t]) /\ Mirrors(loading[t], pc[t])

LruOK == lru # NoBundle => Known(lru) /\ Mirrors(lru, Len(ReadOrder) + 1)

WatchOK == told.run <= manifest.run /\ scanned.run <= manifest.run

ServeInv == TypeOK /\ Inv /\ LoadsOK /\ LruOK /\ WatchOK

-----------------------------------------------------------------------------
LEMMA ServeConstants ==
  /\ ReadOrder \in Seq(Artifacts)
  /\ Len(ReadOrder) \in Nat /\ DOMAIN ReadOrder = 1 .. Len(ReadOrder)
  /\ \A i \in DOMAIN ReadOrder : ReadOrder[i] \in Artifacts
  /\ NoFile \in Version /\ NoStamp \in Stamp /\ Empty \in Bundle
  /\ Empty.run = 0 /\ ~Empty.fresh
<1>1. ReadOrder \in Seq(Artifacts)
  BY BundleServeAssumption
<1>2. /\ Len(ReadOrder) \in Nat /\ DOMAIN ReadOrder = 1 .. Len(ReadOrder)
      /\ \A i \in DOMAIN ReadOrder : ReadOrder[i] \in Artifacts
  BY <1>1
<1>3. NoFile \in Version /\ NoFile.run = 0 /\ NoStamp \in Stamp
  BY Constants DEF NoFile, Version, NoStamp, Stamp
<1>4. Empty \in Bundle /\ Empty.run = 0 /\ ~Empty.fresh
  BY <1>3, Constants DEF Empty, Bundle
<1> QED
  BY <1>1, <1>2, <1>3, <1>4

\* The empty directory, and a server that has loaded nothing.
LEMMA ServeInit == Init => ServeInv
<1> SUFFICES ASSUME Init PROVE ServeInv
  OBVIOUS
<1> USE Constants, ServeConstants
<1>1. Inv /\ EmitTypeOK
  BY InitInv DEF Init, Inv
<1>2. TypeOK
  <2>1. pc \in [Threads -> 0 .. Len(ReadOrder) + 1]
    BY DEF Init
  <2>2. loading \in [Threads -> Bundle]
    BY DEF Init
  <2>3. {mtime, scanned, told} \subseteq Stamp
    BY DEF Init
  <2> QED
    BY <1>1, <2>1, <2>2, <2>3 DEF Init, TypeOK
<1>3. /\ manifest.run = 0 /\ step = 0
      /\ told.run = 0 /\ scanned.run = 0 /\ watch = "idle"
  BY DEF Init, EmitInit, NoManifest, NoStamp
<1>4. LoadsOK
  BY <1>3 DEF Init, LoadsOK, Known, Mirrors
<1>5. LruOK /\ WatchOK
  BY <1>3 DEF Init, LruOK, WatchOK
<1> QED
  BY <1>1, <1>2, <1>4, <1>5 DEF ServeInv

\* A step of the emitter is no step of the server, and the other way round.
LEMMA EmitterInv == Inv /\ [Next]_vars => Inv'
<1> SUFFICES ASSUME Inv, [Next]_vars PROVE Inv'
  OBVIOUS
<1>1. [Emit]_emitVars
  BY DEF Next, vars, Emitter, Load, LoadBegin, LoadFile, LoadFails, LoadDone,
         Evict, Watcher, Seed, Poll, Clear, Notify
<1> QED
  BY <1>1, InvStep

LEMMA ServeTypeStep == TypeOK /\ EmitTypeOK' /\ [Next]_vars => TypeOK'
<1> SUFFICES ASSUME TypeOK, EmitTypeOK', [Next]_vars PROVE TypeOK'
  OBVIOUS
<1> USE Constants, ServeConstants
<1>0. OnDisk \in Stamp
  BY DEF TypeOK, EmitTypeOK, OnDisk, Manifest, Stamp
<1>1. CASE Emitter
  BY <1>1 DEF Emitter, serveVars, TypeOK
<1>2. ASSUME NEW t \in Threads, LoadBegin(t) PROVE TypeOK'
  <2>1. [Empty EXCEPT !.run = manifest.run, !.fresh = TRUE] \in Bundle
    BY DEF Bundle, TypeOK, EmitTypeOK, Manifest
  <2> QED
    BY <1>2, <2>1 DEF LoadBegin, TypeOK
<1>3. ASSUME NEW t \in Threads, LoadFile(t) PROVE TypeOK'
  <2>1. ReadOrder[pc[t]] \in Artifacts /\ pc[t] + 1 \in 0 .. Len(ReadOrder) + 1
    BY <1>3 DEF LoadFile, TypeOK
  <2>2. file[ReadOrder[pc[t]]] \in Version
    BY <2>1 DEF TypeOK, EmitTypeOK
  <2>3. [loading[t] EXCEPT !.files[ReadOrder[pc[t]]] =
            file[ReadOrder[pc[t]]]] \in Bundle
    BY <2>1, <2>2 DEF TypeOK, Bundle
  <2>4. loading' \in [Threads -> Bundle]
    BY <1>3, <2>3 DEF LoadFile, TypeOK
  <2>5. pc' \in [Threads -> 0 .. Len(ReadOrder) + 1]
    BY <1>3, <2>1 DEF LoadFile, TypeOK
  <2> QED
    BY <1>3, <2>4, <2>5 DEF LoadFile, TypeOK
<1>4. ASSUME NEW t \in Threads, LoadFails(t) PROVE TypeOK'
  BY <1>4 DEF LoadFails, TypeOK
<1>5. ASSUME NEW t \in Threads, LoadDone(t) PROVE TypeOK'
  BY <1>5 DEF LoadDone, TypeOK
<1>6. CASE Evict
  BY <1>6 DEF Evict, TypeOK
<1>7. CASE Seed
  BY <1>0, <1>7 DEF Seed, TypeOK
<1>8. CASE Poll
  BY <1>0, <1>8 DEF Poll, TypeOK
<1>9. CASE Clear
  <2>1. \A t \in Threads : [loading[t] EXCEPT !.fresh = FALSE] \in Bundle
    BY DEF TypeOK, Bundle
  <2> QED
    BY <1>9, <2>1 DEF Clear, TypeOK
<1>10. CASE Notify
  BY <1>10 DEF Notify, TypeOK
<1>11. CASE UNCHANGED vars
  BY <1>11 DEF vars, serveVars, TypeOK
<1> QED
  BY <1>1, <1>2, <1>3, <1>4, <1>5, <1>6, <1>7, <1>8, <1>9, <1>10, <1>11
     DEF Next, Load, Watcher

-----------------------------------------------------------------------------
\* The manifest on disk never gives way to an older one.
LEMMA ManifestGrows == Inv /\ Emit => manifest.run <= manifest'.run
<1> SUFFICES ASSUME Inv, Emit PROVE manifest.run <= manifest'.run
  OBVIOUS
<1>1. manifest.run \in Nat /\ run \in Nat /\ manifest.run <= run
  BY Constants DEF Inv, EmitTypeOK, Manifest, ManifestOK
<1>2. manifest' = manifest \/ manifest'.run = run
  BY DEF Emit, Begin, OpenFile, CloseFile, Unlink, Skip, OpenManifest,
         CloseManifest, Crash, NoManifest
<1> QED
  BY <1>1, <1>2

LEMMA ManifestTyped ==
  ASSUME Inv, Emit
  PROVE  /\ manifest.run \in Nat /\ manifest'.run \in Nat /\ run \in Nat
         /\ manifest.run <= run
<1>1. EmitTypeOK /\ ManifestOK
  BY DEF Inv
<1>2. EmitTypeOK'
  BY InvStep DEF Inv
<1>3. MaxRuns \in Nat
  BY Constants
<1>4. manifest.run \in Nat /\ run \in Nat
  BY <1>1, <1>3 DEF EmitTypeOK, Manifest
<1>5. manifest'.run \in Nat
  BY <1>2, <1>3 DEF EmitTypeOK, Manifest
<1>6. manifest.run <= run
  BY <1>1, <1>3, <1>4 DEF ManifestOK
<1> QED
  BY <1>4, <1>5, <1>6

\* A step of the emitter that leaves a bundle current leaves every file.
LEMMA CurrentStays ==
  ASSUME Inv, Emit, NEW X, step # 0 => X.run # run, Current(X)'
  PROVE  Current(X) /\ file' = file
<1> USE Constants
<1>0. /\ run \in Nat /\ file \in [Artifacts -> Version]
  BY DEF Inv, EmitTypeOK
<1>1. CASE Begin
  BY <1>1 DEF Begin, Current
<1>2. CASE OpenFile
  <2>1. step # 0 /\ run # manifest.run /\ manifest' = manifest
    BY <1>2 DEF OpenFile, Inv, ManifestOK
  <2>2. file'[First].run = run
    BY <1>2, Opened
  <2> QED
    BY <2>1, <2>2 DEF Current
<1>3. CASE CloseFile
  <2>1. step # 0 /\ run # manifest.run /\ manifest' = manifest
    BY <1>3 DEF CloseFile, Inv, ManifestOK
  <2>2. file'[First].run = run
    BY <1>3, Closed
  <2> QED
    BY <2>1, <2>2 DEF Current
<1>4. CASE Unlink
  <2>1. step # 0 /\ run # manifest.run /\ manifest' = manifest
    BY <1>4 DEF Unlink, Inv, ManifestOK
  <2>2. file'[First].run = run
    BY <1>4, Unlinked
  <2> QED
    BY <2>1, <2>2 DEF Current
<1>5. CASE Skip
  BY <1>5 DEF Skip, Current
<1>6. CASE OpenManifest
  BY <1>6 DEF OpenManifest, NoManifest, Current
<1>7. CASE CloseManifest
  <2>1. manifest'.run = run /\ step # 0
    BY <1>7 DEF CloseManifest
  <2> QED
    BY <2>1 DEF Current
<1>8. CASE Crash
  BY <1>8 DEF Crash, Current
<1> QED
  BY <1>1, <1>2, <1>3, <1>4, <1>5, <1>6, <1>7, <1>8 DEF Emit

\* Whatever the emitter does, a bundle stays as it was described.
LEMMA EmitterStep ==
  ASSUME Inv, Emit, UNCHANGED serveVars, WatchOK, TypeOK
  PROVE  /\ \A X \in Bundle : Known(X) => Known(X)'
         /\ \A X \in Bundle, n \in Nat :
              Known(X) /\ Mirrors(X, n) => Mirrors(X, n)'
<1> USE Constants
<1>1. /\ manifest.run \in Nat /\ manifest'.run \in Nat /\ run \in Nat
      /\ manifest.run <= manifest'.run /\ manifest.run <= run
  BY ManifestGrows, ManifestTyped
<1>2. step' # 0 => (run' = run /\ step # 0) \/ run' = run + 1
  BY DEF Emit, Begin, OpenFile, CloseFile, Unlink, Skip, OpenManifest,
         CloseManifest, Crash, Leave
<1>3. UNCHANGED <<told, watch, scanned>>
  BY DEF serveVars
<1>4. ASSUME NEW X \in Bundle, Known(X) PROVE Known(X)'
  <2>1. X.run \in Nat /\ X.run <= manifest.run
    BY <1>4 DEF Bundle, Known
  <2>2. X.run <= manifest'.run
    BY <1>1, <2>1
  <2>3. step' # 0 => X.run # run'
    BY <1>1, <1>2, <1>4, <2>1 DEF Known
  <2> QED
    BY <1>3, <1>4, <2>2, <2>3 DEF Known
<1>5. ASSUME NEW X \in Bundle, NEW n \in Nat, Known(X), Mirrors(X, n)
      PROVE  Mirrors(X, n)'
  <2> SUFFICES ASSUME Current(X)'
               PROVE  \A i \in DOMAIN ReadOrder : i < n =>
                        X.files[ReadOrder[i]] = file'[ReadOrder[i]]
    BY DEF Mirrors
  <2>1. step # 0 => X.run # run
    BY <1>5 DEF Known
  <2>2. Current(X) /\ file' = file
    BY <2>1, CurrentStays
  <2> QED
    BY <1>5, <2>2 DEF Mirrors
<1> QED
  BY <1>4, <1>5

-----------------------------------------------------------------------------
\* What the typing of the server's bundles gives.
LEMMA Typed ==
  ASSUME ServeInv
  PROVE  /\ \A t \in Threads : loading[t] \in Bundle /\ pc[t] \in Nat
         /\ lru # NoBundle => lru \in Bundle
         /\ run \in Nat /\ manifest.run \in Nat
         /\ told.run \in Nat /\ scanned.run \in Nat
         /\ manifest.run = run /\ step # 0 => ~manifest.whole
<1> USE Constants, ServeConstants
<1>1. TypeOK /\ EmitTypeOK /\ ManifestOK
  BY DEF ServeInv, TypeOK, Inv
<1>2. \A t \in Threads : loading[t] \in Bundle /\ pc[t] \in Nat
  BY <1>1 DEF TypeOK
<1>3. lru # NoBundle => lru \in Bundle
  BY <1>1 DEF TypeOK
<1>4. run \in Nat /\ manifest.run \in Nat
  BY <1>1 DEF EmitTypeOK, Manifest
<1>5. told.run \in Nat /\ scanned.run \in Nat
  BY <1>1 DEF TypeOK, Stamp
<1> QED
  BY <1>1, <1>2, <1>3, <1>4, <1>5 DEF ManifestOK

LEMMA ServeStep == ServeInv /\ TypeOK' /\ [Next]_vars
                     => LoadsOK' /\ LruOK' /\ WatchOK'
<1> SUFFICES ASSUME ServeInv, TypeOK', [Next]_vars
             PROVE  LoadsOK' /\ LruOK' /\ WatchOK'
  OBVIOUS
<1> USE Constants, ServeConstants, Typed
<1>0. /\ LoadsOK /\ LruOK /\ WatchOK /\ TypeOK /\ Inv
      /\ pc \in [Threads -> 0 .. Len(ReadOrder) + 1]
      /\ loading \in [Threads -> Bundle]
  BY DEF ServeInv, TypeOK
<1>1. CASE Emitter
  <2>1. Emit /\ UNCHANGED serveVars
    BY <1>1 DEF Emitter
  <2>2. /\ \A X \in Bundle : Known(X) => Known(X)'
        /\ \A X \in Bundle, n \in Nat :
             Known(X) /\ Mirrors(X, n) => Mirrors(X, n)'
    BY <1>0, <2>1, EmitterStep
  <2>3. WatchOK'
    <3>1. manifest.run <= manifest'.run /\ manifest'.run \in Nat
      BY <1>0, <2>1, ManifestGrows, ManifestTyped
    <3> QED
      BY <1>0, <2>1, <3>1 DEF WatchOK, serveVars
  <2>4. LoadsOK'
    BY <1>0, <2>1, <2>2 DEF LoadsOK, serveVars, Known, Mirrors, Current
  <2>5. LruOK'
    <3>1. lru' = lru
      BY <2>1 DEF serveVars
    <3>2. lru # NoBundle => Known(lru)' /\ Mirrors(lru, Len(ReadOrder) + 1)'
      <4> SUFFICES ASSUME lru # NoBundle
                   PROVE  Known(lru)' /\ Mirrors(lru, Len(ReadOrder) + 1)'
        OBVIOUS
      <4>1. /\ lru \in Bundle /\ Len(ReadOrder) + 1 \in Nat
            /\ Known(lru) /\ Mirrors(lru, Len(ReadOrder) + 1)
        BY <1>0 DEF LruOK
      <4> DEFINE n == Len(ReadOrder) + 1
      <4> HIDE DEF n
      <4>2. ASSUME NEW X \in Bundle, X = lru
            PROVE  Known(lru)' /\ Mirrors(lru, n)'
        <5>1. Known(X)' /\ Mirrors(X, n)'
          <6>1. Known(X)
            BY <4>1, <4>2 DEF Known
          <6>2. Mirrors(X, n) /\ n \in Nat
            BY <4>1, <4>2 DEF n, Mirrors, Current
          <6> QED
            BY <2>2, <6>1, <6>2
        <5>2. lru' = X
          BY <3>1, <4>2
        <5>3. Known(lru)'
          BY <5>1, <5>2 DEF Known
        <5>4. Mirrors(lru, n)'
          BY <5>1, <5>2 DEF Mirrors, Current
        <5> QED
          BY <5>3, <5>4
      <4> QED
        BY <4>1, <4>2 DEF n
    <3> QED
      BY <3>1, <3>2 DEF LruOK
  <2> QED
    BY <2>3, <2>4, <2>5
<1>2. ASSUME NEW t \in Threads, Load(t)
      PROVE  LoadsOK' /\ LruOK' /\ WatchOK'
  <2>0. /\ UNCHANGED emitVars /\ UNCHANGED <<told, scanned, watch>>
        /\ \A u \in Threads \ {t} :
             loading'[u] = loading[u] /\ pc'[u] = pc[u]
    BY <1>0, <1>2 DEF Load, LoadBegin, LoadFile, LoadFails, LoadDone
  <2>1. WatchOK'
    BY <1>0, <2>0 DEF WatchOK, emitVars
  <2>2. \A u \in Threads \ {t} :
          (Known(loading[u]) /\ Mirrors(loading[u], pc[u]))'
    BY <1>0, <2>0 DEF LoadsOK, Known, Mirrors, Current,
                            emitVars
  <2>3. ASSUME loading'[t] = Empty, pc'[t] = 0
        PROVE  (Known(loading[t]) /\ Mirrors(loading[t], pc[t]))'
    <3>1. step # 0 => run # 0
      BY <1>0 DEF Inv, ProgressOK
    <3> QED
      BY <2>0, <2>3, <3>1 DEF Known, Mirrors, emitVars
  <2>4. CASE LoadBegin(t)
    <3>1. /\ loading'[t].run = manifest.run /\ pc'[t] = 1
          /\ lru' = lru /\ manifest.whole
      BY <1>0, <2>4 DEF LoadBegin, Empty
    <3>2. Known(loading[t])'
      BY <1>0, <2>0, <3>1 DEF Known, emitVars, WatchOK
    <3>3. Mirrors(loading[t], pc[t])'
      BY <3>1 DEF Mirrors
    <3>4. LoadsOK'
      BY <2>2, <3>2, <3>3 DEF LoadsOK
    <3>5. LruOK'
      BY <1>0, <2>0, <3>1
         DEF LruOK, Known, Mirrors, Current, emitVars
    <3> QED
      BY <2>1, <3>4, <3>5
  <2>5. CASE LoadFile(t)
    <3> DEFINE a == ReadOrder[pc[t]]
    <3>1. pc[t] \in DOMAIN ReadOrder /\ a \in Artifacts
      BY <2>5 DEF LoadFile
    <3>2. /\ loading'[t].run = loading[t].run
          /\ loading'[t].fresh = loading[t].fresh
          /\ pc'[t] = pc[t] + 1 /\ lru' = lru
      BY <1>0, <2>5 DEF LoadFile, Bundle
    <3>3. \A b \in Artifacts :
            loading'[t].files[b] = IF b = a THEN file[a]
                                   ELSE loading[t].files[b]
      BY <1>0, <2>5, <3>1 DEF LoadFile, Bundle
    <3>4. Known(loading[t]) /\ Mirrors(loading[t], pc[t])
      BY <1>0 DEF LoadsOK
    <3>5. Known(loading[t])'
      BY <2>0, <3>2, <3>4 DEF Known, emitVars
    <3>6. Mirrors(loading[t], pc[t])'
      <4> SUFFICES ASSUME Current(loading[t])',
                          NEW i \in DOMAIN ReadOrder, i < pc[t] + 1
                   PROVE  loading'[t].files[ReadOrder[i]] = file[ReadOrder[i]]
        BY <2>0, <3>2 DEF Mirrors, emitVars
      <4>1. Current(loading[t])
        BY <2>0, <3>2 DEF Current, emitVars
      <4>2. i < pc[t] =>
              loading[t].files[ReadOrder[i]] = file[ReadOrder[i]]
        BY <3>4, <4>1 DEF Mirrors
      <4>3. i = pc[t] \/ i < pc[t]
        BY <3>1
      <4> QED
        BY <3>3, <4>2, <4>3
    <3>7. LoadsOK'
      BY <2>2, <3>5, <3>6 DEF LoadsOK
    <3>8. LruOK'
      BY <1>0, <2>0, <3>2
         DEF LruOK, Known, Mirrors, Current, emitVars
    <3> QED
      BY <2>1, <3>7, <3>8
  <2>6. CASE LoadFails(t)
    <3>1. loading'[t] = Empty /\ pc'[t] = 0 /\ lru' = lru
      BY <1>0, <2>6 DEF LoadFails
    <3>2. LoadsOK'
      BY <2>2, <2>3, <3>1 DEF LoadsOK
    <3>3. LruOK'
      BY <1>0, <2>0, <3>1
         DEF LruOK, Known, Mirrors, Current, emitVars
    <3> QED
      BY <2>1, <3>2, <3>3
  <2>7. CASE LoadDone(t)
    <3>1. /\ loading'[t] = Empty /\ pc'[t] = 0
          /\ pc[t] = Len(ReadOrder) + 1
          /\ (lru' = lru /\ lru # NoBundle) \/ lru' = loading[t]
      BY <1>0, <2>7 DEF LoadDone
    <3>2. LoadsOK'
      BY <2>2, <2>3, <3>1 DEF LoadsOK
    <3>3. CASE lru' = lru /\ lru # NoBundle
      BY <1>0, <2>0, <2>1, <3>2, <3>3
         DEF LruOK, Known, Mirrors, Current, emitVars
    <3>4. CASE lru' = loading[t]
      <4>1. Known(loading[t]) /\ Mirrors(loading[t], Len(ReadOrder) + 1)
        BY <1>0, <3>1 DEF LoadsOK
      <4> QED
        BY <2>0, <2>1, <3>2, <3>4, <4>1
           DEF LruOK, Known, Mirrors, Current, emitVars
    <3> QED
      BY <2>1, <3>1, <3>2, <3>3, <3>4 DEF LruOK
  <2> QED
    BY <1>2, <2>4, <2>5, <2>6, <2>7 DEF Load
<1>3. CASE Evict
  BY <1>0, <1>3 DEF Evict, LoadsOK, LruOK, WatchOK, Known, Mirrors, Current,
                    emitVars
<1>4. CASE Seed
  BY <1>0, <1>4 DEF Seed, LoadsOK, LruOK, WatchOK, Known, Mirrors, Current,
                    emitVars
<1>5. CASE Poll
  <2>1. /\ UNCHANGED <<emitVars, lru, pc, loading, told>>
        /\ scanned'.run = manifest.run /\ watch' = "clear"
    BY <1>5 DEF Poll, OnDisk
  <2>2. \A X : Known(X) => Known(X)'
    BY <2>1 DEF Known, emitVars
  <2> QED
    BY <1>0, <2>1, <2>2
       DEF LoadsOK, LruOK, WatchOK, Known, Mirrors, Current, emitVars
<1>6. CASE Clear
  <2>1. /\ UNCHANGED <<emitVars, pc, scanned, told>> /\ lru' = NoBundle
        /\ \A t \in Threads : /\ loading'[t].run = loading[t].run
                               /\ loading'[t].files = loading[t].files
                               /\ ~loading'[t].fresh
    BY <1>0, <1>6 DEF Clear, Bundle
  <2>2. \A t \in Threads : Known(loading[t])'
    BY <1>0, <2>1 DEF LoadsOK, Known, emitVars
  <2>3. \A t \in Threads : Mirrors(loading[t], pc[t])'
    BY <1>0, <2>1 DEF LoadsOK, Mirrors, Current, emitVars
  <2>4. LruOK' /\ WatchOK'
    BY <1>0, <2>1 DEF LruOK, WatchOK, emitVars
  <2> QED
    BY <2>2, <2>3, <2>4 DEF LoadsOK
<1>7. CASE Notify
  <2>1. /\ UNCHANGED <<emitVars, lru, pc, loading>>
        /\ watch = "notify" /\ watch' = "idle"
        /\ told' = scanned /\ scanned'.run = 0
    BY <1>7 DEF Notify, NoStamp
  <2>2. \A X : Known(X) => Known(X)'
    BY <2>1 DEF Known, emitVars
  <2>3. WatchOK'
    BY <1>0, <2>1 DEF WatchOK, emitVars
  <2> QED
    BY <1>0, <2>1, <2>2, <2>3
       DEF LoadsOK, LruOK, Known, Mirrors, Current, emitVars
<1>8. CASE UNCHANGED vars
  BY <1>0, <1>8 DEF vars, serveVars, LoadsOK, LruOK, WatchOK, Known, Mirrors,
                    Current, emitVars
<1> QED
  BY <1>1, <1>2, <1>3, <1>4, <1>5, <1>6, <1>7, <1>8 DEF Next, Watcher

\* The inductive invariant of the server beside its emitter.
THEOREM ServeInvariant == Spec => []ServeInv
<1>1. ServeInv /\ [Next]_vars => ServeInv'
  <2> SUFFICES ASSUME ServeInv, [Next]_vars PROVE ServeInv'
    OBVIOUS
  <2>1. Inv' /\ EmitTypeOK'
    BY EmitterInv DEF ServeInv, Inv
  <2>2. TypeOK'
    BY <2>1, ServeTypeStep DEF ServeInv
  <2> QED
    BY <2>1, <2>2, ServeStep DEF ServeInv
<1> QED
  BY <1>1, ServeInit, PTL DEF Spec

\* The state of the server is what its declarations say.
THEOREM ServeTypes == Spec => []TypeOK
  BY ServeInvariant, PTL DEF ServeInv

\* A session that has been told of the manifest on disk, and reads from an
\* entry no clear has come after, reads what that manifest's emission wrote,
\* in every file of it, however many loads and emissions overlapped, until a
\* later emission has opened inventory.ttl.
THEOREM ServeToldReadsRelease == Spec => []ToldReadsRelease
<1>1. ServeInv => ToldReadsRelease
  <2> SUFFICES ASSUME ServeInv, told = OnDisk, Undisturbed, lru # NoBundle,
                      lru.fresh
               PROVE  /\ lru.run = manifest.run
                      /\ \A i \in DOMAIN ReadOrder :
                           ReadOrder[i] \in manifest.made =>
                             /\ lru.files[ReadOrder[i]].text =
                                  manifest.texts[ReadOrder[i]]
                             /\ lru.files[ReadOrder[i]].whole
    BY DEF ToldReadsRelease
  <2> USE Constants, ServeConstants
  <2>1. /\ Inv /\ Known(lru) /\ Mirrors(lru, Len(ReadOrder) + 1)
        /\ lru.run \in Nat /\ manifest.run \in Nat
    BY Typed DEF ServeInv, LruOK, Bundle
  <2>2. told.run = manifest.run
    BY DEF OnDisk
  <2>3. lru.run = manifest.run
    BY <2>1, <2>2 DEF Known
  <2>4. /\ manifest.whole /\ file[First].run <= manifest.run
        /\ file[First].run \in Nat
    BY <2>1 DEF Undisturbed, Inv, EmitTypeOK, Version
  <2>5. First \in manifest.made /\ \A a \in manifest.made : Kept(a)
    BY <2>1, <2>4 DEF Inv, ManifestOK, ListedOK
  <2>6. \A a \in manifest.made : file[a] = Left(a)
    BY <2>1, <2>4, <2>5 DEF Kept
  <2>7. Current(lru)
    <3>1. file[First] = Left(First)
      BY <2>5, <2>6
    <3>2. file[First].run = manifest.run
      BY <3>1 DEF Left
    <3> QED
      BY <2>3, <2>4, <3>2 DEF Current
  <2>8. \A i \in DOMAIN ReadOrder :
          lru.files[ReadOrder[i]] = file[ReadOrder[i]]
    BY <2>1, <2>7 DEF Mirrors
  <2>9. ASSUME NEW a \in manifest.made
        PROVE  file[a].text = manifest.texts[a] /\ file[a].whole
    <3>1. file[a] = Left(a)
      BY <2>6
    <3> QED
      BY ONLY <3>1 DEF Left
  <2> QED
    BY <2>3, <2>8, <2>9
<1> QED
  BY <1>1, ServeInvariant, PTL

=============================================================================
