----------------------------- MODULE MCLlmCache -----------------------------
(***************************************************************************)
(* Two clients and two keys: both can be at the same key or at different   *)
(* ones, and three puts are enough for a crashed, a losing and a winning   *)
(* writer of one key.                                                      *)
(***************************************************************************)
EXTENDS LlmCache, TLC

CONSTANTS c1, c2, k1, k2, v1, v2

MCClients == {c1, c2}
MCKeys    == {k1, k2}
MCValues  == {v1, v2}

Symmetry == Permutations(MCClients) \cup Permutations(MCKeys)
              \cup Permutations(MCValues)
=============================================================================
