---------------------------- MODULE MCEnrichment ----------------------------
(***************************************************************************)
(* A pool of two threads - one disables the enricher while the other is in *)
(* its own failing call, between its two reads of _disabled, or about to   *)
(* read _degradation - over five files: two with the same content, one     *)
(* with bytes that do not decode, one whose content is its own and one     *)
(* that is never summarised.  EnrichmentProofs has no bound on either.     *)
(***************************************************************************)
EXTENDS Enrichment, TLC

CONSTANTS w1, w2, kDup, kOwn, good1, good2, bad

MCWorkers   == {w1, w2}
MCEligible  == {1, 2, 3, 4}
MCDecodable == {1, 3, 4, 5}
MCKeys      == {kDup, kOwn}
MCKeyOf     == <<kDup, kDup, kDup, kOwn, kDup>>
MCTexts     == {good1, good2, bad}
MCValid     == {good1, good2}

Symmetry == Permutations(MCWorkers) \cup Permutations(MCValid)
=============================================================================
