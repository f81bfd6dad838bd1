----------------------------- MODULE MCRecompose -----------------------------
(***************************************************************************)
(* Four directories: the root with two files, of which the other modules   *)
(* may import either, so that a cycle of directories may or may not be one *)
(* of files; a package; an adapter; and the adapter's ports, which may     *)
(* hold no code.  A directory may also be one of tests or of generated     *)
(* files.  Every set of at most four imports among files 1 to 4, and the   *)
(* two of Generated.                                                       *)
(***************************************************************************)
EXTENDS Recompose

MCFile   == 1 .. 5
MCModule == 11 .. 14
MCNode   == MCFile \cup MCModule
MCHome   == <<11, 11, 12, 13, 14>>

MCDist    == [m \in MCModule |-> CASE m = 12 -> "x" [] m > 12 -> "y"
                                   [] OTHER -> "none"]
MCDevOnly == {<<"x", "y">>}

MCAbove   == [m \in MCModule |-> IF m = 14 THEN {13, 14} ELSE {m}]
MCSegment == [m \in MCModule |-> CASE m = 11 -> "none"
                                   [] m = 12 -> "domain"
                                   [] OTHER -> "adapter"]
MCPorts   == {14}

Typing(b, c, d) ==
  [f \in MCFile |-> CASE f = 3 -> b [] f = 4 -> c [] f = 5 -> d
                      [] OTHER -> "source_code"]
MCFileTypes ==
  {Typing("source_code", "source_code", "documentation"),
   Typing("generated",   "source_code", "generated"),
   Typing("source_code", "generated",   "generated"),
   Typing("test_code",   "source_code", "source_code"),
   Typing("source_code", "test_code",   "lockfile"),
   Typing("source_code", "test_code",   "ontology")}

\* A cycle of directories that all may hold nothing but generated files.
Generated  == {{<<1, 4>>, <<4, 5>>, <<5, 4>>}, {<<3, 5>>, <<4, 5>>, <<5, 4>>}}
Edges      == {e \in (1 .. 4) \X (1 .. 4) : e[1] # e[2]}
MaxImports == 4
MCImports  == {E \in SUBSET Edges : Cardinality(E) <= MaxImports} \cup Generated
=============================================================================
