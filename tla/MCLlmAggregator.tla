-------------------------- MODULE MCLlmAggregator --------------------------
(***************************************************************************)
(* Two concepts, and three schema files: one cannot be read, and the other *)
(* two have equal content (as far as it is hashed).  Three runs: one that  *)
(* publishes, one that is killed or rejects, one that meets them both.     *)
(***************************************************************************)
EXTENDS LlmAggregator

CONSTANTS c1, c2, s1, s2, s3, k1, k2, k3

MCWalk == [k \in Kinds |->
  IF k = "concept_description" THEN <<c1, c2>> ELSE <<s1, s2, s3>>]

\* (s2 cannot be read and is never looked up.)
MCKeyOf == [t \in {c1, c2, s1, s2, s3} |->
  IF t = c1 THEN k1 ELSE IF t = c2 THEN k2 ELSE k3]
=============================================================================
