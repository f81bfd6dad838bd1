---------------------------- MODULE MCBundleEmit ----------------------------
(***************************************************************************)
(* One file of each kind, in the order emit() writes them.  Three          *)
(* emissions: one that completes and two that die over it, or one that     *)
(* dies over it and one that repairs.  Two graphs: one with Rust items,    *)
(* and one with none and fewer file nodes.                                 *)
(***************************************************************************)
EXTENDS BundleEmit

CONSTANTS ttl, jsonld, blobs, embeddings, xrefs, rustItems

MCOrder  == <<ttl, jsonld, blobs, embeddings, xrefs, rustItems>>
MCFilled == <<{rustItems}, {}>>
MCNodes  == <<2, 1>>
=============================================================================
