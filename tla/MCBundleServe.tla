---------------------------- MODULE MCBundleServe ----------------------------
(***************************************************************************)
(* Two threads, and a directory of a graph file and a sidecar.  Two        *)
(* emissions: the one being served and the one that overtakes it, of the   *)
(* same graph or of another.                                               *)
(***************************************************************************)
EXTENDS BundleServe

CONSTANTS t1, t2, ttl, enrichments

MCThreads == {t1, t2}
MCOrder   == <<ttl, enrichments>>
MCFilled  == <<{enrichments}, {}>>
MCNodes   == <<1, 1>>
=============================================================================
