---------------------------- MODULE MCSparqlStore ----------------------------
(***************************************************************************)
(* Two servers, one of them with two calls at a time; three generations,   *)
(* the last of them with the size of the second and within its second.     *)
(***************************************************************************)
EXTENDS SparqlStore

CONSTANTS server1, server2, call1, call2, call3

MCHomeOf == [t \in Thread |-> IF t = call3 THEN server2 ELSE server1]
MCKeyOf  == <<"1", "2", "2">>
=============================================================================
