------------------------------ MODULE Decompose ------------------------------
(***************************************************************************)
(* The decomposer's topology: files are rolled up into one module per      *)
(* directory, edges that only tests use are taken out, tarjan_scc condenses *)
(* what is left, the condensation is layered into a build order, and every *)
(* cycle of directories gets the file order that dissolves it, if there is *)
(* one.  What the document says beyond that (symbols, metrics, gates,      *)
(* prose) is left out.                                                     *)
(***************************************************************************)
EXTENDS Tarjan, FiniteSets

CONSTANTS
  File,        \* paths, as numbers in sorted order
  Module,      \* directories that hold a file, likewise
  Home,        \* _module_of: the directory of each file
  Dist,        \* the distribution (crate, package) of each module, or NoDist
  NoDist,
  DevOnly,     \* pairs of distributions: the second only a dev dependency
  FileTypes,   \* the typings of the files to consider
  Imports      \* the sets of file imports to consider

ASSUME GraphAssumption ==
  /\ Node = File \cup Module
  /\ File \cap Module = {}
  /\ IsFiniteSet(Node)
  /\ Home \in [File -> Module]
  /\ FileTypes \subseteq [File -> STRING]
  /\ Imports \subseteq SUBSET (File \X File)

VARIABLES
  ftype, imports,   \* the evidence graph
  stage,
  layer,            \* build_order: the layer of each module part
  cycles,           \* module cycles still to resolve
  fileOrder         \* cycle_resolutions: each file's place, <<>> for no order

evidence == <<ftype, imports>>
docVars  == <<stage, layer, cycles, fileOrder>>

-----------------------------------------------------------------------------

Code(m)     == {f \in File : Home[f] = m
                               /\ ftype[f] \in {"source_code", "test_code"}}
CodeModules == {m \in Module : Code(m) # {}}
TestModules == {m \in CodeModules : \A f \in Code(m) : ftype[f] = "test_code"}

Targets(f) == {g \in File : <<f, g>> \in imports}

Adjacency(m) ==
  {Home[g] : g \in UNION {Targets(f) : f \in {h \in File : Home[h] = m}}}
    \ {m}

\* An edge that exists only through a dev dependency, or that touches a
\* module of nothing but tests.
TestEdge(m, d) ==
  \/ /\ NoDist \notin {Dist[m], Dist[d]}
     /\ <<Dist[m], Dist[d]>> \in DevOnly
  \/ {m, d} \cap TestModules # {}

Prod(m) == {d \in Adjacency(m) : ~TestEdge(m, d)}

ModuleGraph ==
  [n \in Node |-> IF n \in Module THEN Prod(n) ELSE {}]

FileGraph(group) ==
  [n \in Node |-> IF n \in group THEN Targets(n) \cap group ELSE {}]

-----------------------------------------------------------------------------

\* build_order: longest-path levels of the condensation.  Only the roots
\* contribute edges to it.
CompOf(n)  == CHOOSE i \in DOMAIN result : n \in result[i]
CompDeps(i) ==
  {CompOf(m) : m \in UNION {succ[n] : n \in result[i] \cap roots}} \ {i}

\* Mutant: the shortest path to a sink.
ShallowLevels ==
  LET level[i \in DOMAIN result] ==
        IF CompDeps(i) = {} THEN 0
        ELSE LET near == {level[j] : j \in CompDeps(i)}
             IN  1 + CHOOSE d \in near : \A e \in near : d <= e
  IN  [n \in roots |-> level[CompOf(n)]]

Levels ==
  LET level[i \in DOMAIN result] ==
        IF CompDeps(i) = {} THEN 0
        ELSE LET deep == {level[j] : j \in CompDeps(i)}
             IN  1 + CHOOSE d \in deep : \A e \in deep : e <= d
  IN  [n \in roots |-> level[CompOf(n)]]

\* The layers a document keeps: those that hold a module part.
LayersOf(level) ==
  [m \in roots |-> Cardinality({level[n] : n \in roots} \cap
                                 0 .. level[m] - 1)]

CycleComps ==
  {c \in Elements(result) : Cardinality(c) > 1 \/ \E n \in c : n \in succ[n]}

\* Mutant: the files of the group in path order.
PathPlaces(level) ==
  [f \in roots |-> Cardinality({g \in roots : g <= f})]

\* The layers one after the other, each in path order.
Places(level) ==
  [f \in roots |-> Cardinality({g \in roots : \/ level[g] < level[f]
                                              \/ level[g] = level[f] /\ g <= f})]

GroupFiles(c) == UNION {Code(m) : m \in c \cap Module}

-----------------------------------------------------------------------------

DecomposeInit ==
  /\ ftype \in FileTypes
  /\ imports \in Imports
  /\ stage = "order"
  /\ layer = <<>>
  /\ cycles = {}
  /\ fileOrder = <<>>
  /\ Fresh(CodeModules, ModuleGraph)

Searching ==
  /\ stage \in {"order", "files", "units"}
  /\ Search
  /\ UNCHANGED <<evidence, docVars>>

\* The search over the modules is over: the build order is read off it.
LayOut ==
  /\ stage = "order"
  /\ Finished
  /\ layer' = LayersOf(Levels)
  /\ cycles' = CycleComps
  /\ stage' = "cycles"
  /\ UNCHANGED <<evidence, fileOrder, tarjanVars>>

\* _cycle_resolutions, in sorted order: a search over the group's files.
TakeCycle ==
  /\ stage = "cycles"
  /\ UNCHANGED <<evidence, layer, cycles, fileOrder>>
  /\ \E c \in cycles :
       /\ \E m \in c : First(m, UNION cycles)
       /\ Restart(GroupFiles(c), FileGraph(GroupFiles(c)))
  /\ stage' = "files"

OrderFiles ==
  /\ stage = "files"
  /\ Finished
  /\ \E c \in cycles :
       /\ \E m \in c : First(m, UNION cycles)
       /\ cycles' = cycles \ {c}
       /\ fileOrder' =
            [d \in DOMAIN fileOrder \cup {c} |->
               IF d \in DOMAIN fileOrder THEN fileOrder[d]
               ELSE IF CycleComps # {} THEN <<>> ELSE Places(Levels)]
  /\ stage' = "cycles"
  /\ UNCHANGED <<evidence, layer, tarjanVars>>

DecomposeNext == Searching \/ LayOut \/ TakeCycle \/ OrderFiles

-----------------------------------------------------------------------------

\* A directory without code (generated files) lies on a cycle of modules: the
\* search runs through it and puts them all into one component.
CodelessCycle ==
  \E c \in Module \ CodeModules : \E m, n \in CodeModules :
    /\ m # n
    /\ \A S \in SUBSET Module :
         ( /\ \A x \in S : Prod(x) \subseteq S
           /\ S \cap {c, m, n} # {} ) => {c, m, n} \subseteq S

-----------------------------------------------------------------------------

(***************************************************************************)
(* build_order's docstring: every module has a layer, and each layer       *)
(* depends only on earlier ones, except for the members of a cycle, which  *)
(* share theirs.  An edge to a directory without code is nobody's layer.   *)
(***************************************************************************)
LayersSound ==
  stage # "order" =>
    /\ layer \in [CodeModules -> Nat]
    /\ \A m \in CodeModules : \A d \in Prod(m) \cap CodeModules :
         \/ layer[d] < layer[m]
         \/ /\ layer[d] = layer[m]
            /\ \A S \in SUBSET Module :
                 d \in S /\ (\A x \in S : Prod(x) \subseteq S) => m \in S

(***************************************************************************)
(* _cycle_resolutions: never a fabricated order.  An order names every code *)
(* file of the group, and follows the creates list top to bottom: what a   *)
(* file imports inside the group comes before it; and no order is withheld *)
(* from a group whose files can be ordered.  (A group of directories       *)
(* without code has no files, and the empty order is its order.)           *)
(***************************************************************************)
Orders(place, group) ==
  /\ DOMAIN place = group
  /\ \A f \in group : \A g \in Targets(f) \cap group : place[g] < place[f]
CannotOrder(group) ==
  \E S \in (SUBSET group) \ {{}} : \A f \in S : Targets(f) \cap S # {}

FileOrderSound ==
  \A c \in DOMAIN fileOrder :
    \/ Orders(fileOrder[c], GroupFiles(c))
    \/ fileOrder[c] = <<>> /\ CannotOrder(GroupFiles(c))

=============================================================================
