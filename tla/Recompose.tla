------------------------------ MODULE Recompose ------------------------------
(***************************************************************************)
(* recomposer/plan.py: recompose, run on the document of Decompose.  The   *)
(* module parts become units (cycles merge), phases are relaxed along the  *)
(* dependencies, every step gets its number from its sort key, files go to *)
(* the first step that lists them, and requires are resolved to numbers    *)
(* that must point backward, or the plan is refused.                       *)
(*                                                                         *)
(* A step is a record: its sort key, the module parts it builds, the parts *)
(* it requires, the fixed steps it requires, and the files it lists.       *)
(***************************************************************************)
EXTENDS Decompose

CONSTANTS
  Root,        \* the root directory
  Above,       \* each module's directory and the directories around it
  Segment,     \* what layer_of makes of each module's path
  Ports,       \* modules whose name ends in "ports"
  EntryNames,  \* files with the base name of an entry point, or below a bin
  MainFiles,   \* those that are one whatever their type: __main__.py, a .rs
               \* file below a bin
  Schemas,     \* files with an L4 schemaPurpose
  External     \* files that import a third-party package

ASSUME PlanAssumption ==
  /\ Root \in Module
  /\ Above \in [Module -> SUBSET Module]
  /\ Segment \in [Module -> STRING]
  /\ Ports \subseteq Module
  /\ MainFiles \subseteq EntryNames
  /\ EntryNames \cup Schemas \cup External \subseteq File

VARIABLES
  units,     \* sets of module parts that are built together
  phase,     \* of each unit
  todo,      \* units _relax_phases has still to process
  steps,     \* the specs
  at,        \* the number of the step a pass is at
  owner      \* the step that creates each file, 0 for none

planVars == <<units, phase, todo, steps, at, owner>>
allVars  == <<evidence, tarjanVars, docVars, planVars>>

BigLayer == 10^6

Least(S) == CHOOSE n \in S : \A m \in S : n <= m

-----------------------------------------------------------------------------

Entry(f) == /\ f \in EntryNames
            /\ ftype[f] = "source_code" \/ f \in MainFiles

\* _nominal_phase, over the role and the layer of the module part.
NominalPhase(m) ==
  CASE m \in TestModules                 -> 10
    [] m \in Ports \ TestModules         -> 4
    [] OTHER ->
         CASE Segment[m] = "shared_kernel" -> 4
           [] Segment[m] = "domain"        -> 3
           [] Segment[m] \in {"adapter", "presentation", "extension",
                              "infrastructure"} -> 6
           [] OTHER -> 5

\* The dependencies _units looks at: parts of the document only.
PartGraph ==
  [n \in Node |-> IF n \in CodeModules THEN Prod(n) \cap CodeModules ELSE {}]

UnitLayer(u) == Least({layer[m] : m \in u})
Needs(u)     == (UNION {Prod(m) : m \in u}) \ u
DepUnits(u)  == {d \in units : d # u /\ d \cap Needs(u) # {}}

-----------------------------------------------------------------------------

Step(ph, ly, name, members, needs, after, files) ==
  [phase |-> ph, layer |-> ly, name |-> name, members |-> members,
   needs |-> needs, after |-> after, files |-> files]

OfType(types) == {f \in File : ftype[f] \in types}

\* _OPERATIONAL_CATEGORIES but dependency_management, in name order, and the
\* catch-all for the types that nothing claims.
Categories ==
  <<{"build_script"}, {"ci_cd"}, {"container"}, {"license"},
    {"configuration", "environment"}>>
Manifests  == OfType({"dependency_manifest", "lockfile"})
Documents  == OfType({"documentation"})

\* Mutant: no catch-all part.
NoCatchAll == {}
Unclassified ==
  File \ (OfType({"source_code", "test_code", "documentation", "generated"}
                   \cup UNION Elements(Categories)) \cup Manifests)
OpsFiles(k) == IF k = 6 THEN Unclassified ELSE OfType(Categories[k])

\* _test_dir_owned
TestOwned(f) ==
  LET d == Home[f]
      under == {m \in CodeModules : d \in Above[m]}
  IN  /\ d # Root
      /\ \/ Above[d] \cap TestModules # {}
         \/ under # {} /\ under \subseteq TestModules

Fixtures == {f \in Manifests : TestOwned(f)}

FixedSteps ==
  {Step(1, -1, 0, {}, {}, {}, {}),
   Step(2, -1, 0, {}, {}, {1}, Manifests \ Fixtures),
   Step(11, BigLayer, 0, {}, {}, {}, {})}
FixtureSteps == {Step(10, -2, 0, {}, {}, {1}, F) : F \in {Fixtures} \ {{}}}
SchemaSteps  == {Step(3, -1, 0, {}, {}, {1, 2}, S) : S \in {Schemas} \ {{}}}
OpsSteps ==
  {Step(9, BigLayer, k, {}, {}, {1}, OpsFiles(k)) :
     k \in {j \in 1 .. 6 : OpsFiles(j) # {}}}
DocSteps == {Step(12, BigLayer, 0, {}, {}, {}, D) : D \in {Documents} \ {{}}}

UnitStep(u) ==
  Step(phase[u], UnitLayer(u), Least(u), u, Needs(u),
       IF \E f \in External : Home[f] \in u THEN {2} ELSE {},
       {f \in File : Home[f] \in u})

\* One wiring step per directory that holds an entry point; its parts are
\* whatever the entry files import, tests included.
WiringStep(d) ==
  LET entries == {f \in File : Entry(f) /\ Home[f] = d}
  IN  Step(7, BigLayer, d, {},
           {Home[g] : g \in UNION {Targets(f) : f \in entries}} \cup {d},
           {}, entries)

AllSteps ==
  FixedSteps \cup FixtureSteps \cup SchemaSteps \cup OpsSteps \cup DocSteps
    \cup {UnitStep(u) : u \in units}
    \cup {WiringStep(d) : d \in {Home[f] : f \in {g \in File : Entry(g)}}}

\* Mutant: the layer is left out of the sort key.
BeforeByName(s, t) ==
  \/ s.phase < t.phase
  \/ s.phase = t.phase /\ s.name < t.name
  \/ s.phase = t.phase /\ s.name = t.name /\ s.layer < t.layer

Before(s, t) ==
  \/ s.phase < t.phase
  \/ s.phase = t.phase /\ s.layer < t.layer
  \/ s.phase = t.phase /\ s.layer = t.layer /\ s.name < t.name

Number(s)   == 1 + Cardinality({t \in steps : Before(t, s)})
Requires(s) ==
  s.after \cup
    {Number(t) : t \in {r \in steps \ {s} : r.members \cap s.needs # {}}}

-----------------------------------------------------------------------------

Init ==
  /\ DecomposeInit
  /\ units = {}
  /\ phase = <<>>
  /\ todo = {}
  /\ steps = {}
  /\ at = 0
  /\ owner = [f \in File |-> 0]

Decomposing == DecomposeNext /\ UNCHANGED planVars

\* The document is complete; the recomposer condenses its parts again.
TakeUp ==
  /\ stage = "cycles"
  /\ cycles = {}
  /\ stage' = "units"
  /\ UNCHANGED <<evidence, layer, cycles, fileOrder, planVars>>
  /\ Restart(CodeModules, PartGraph)

MakeUnits ==
  /\ stage = "units"
  /\ Finished
  /\ units' = Elements(result)
  /\ phase' = [u \in units' |-> Least({NominalPhase(m) : m \in u})]
  /\ todo' = units'
  /\ stage' = "relax"
  /\ UNCHANGED <<evidence, tarjanVars, layer, cycles, fileOrder, steps, at,
                 owner>>

\* Mutant: the lowest layer first.
RelaxUpward ==
  /\ stage = "relax"
  /\ \E u \in todo :
       /\ \A v \in todo :
            \/ UnitLayer(u) < UnitLayer(v)
            \/ UnitLayer(v) = UnitLayer(u) /\ Least(u) <= Least(v)
       /\ phase' = [v \in units |-> IF v \in DepUnits(u)
                                    THEN Smaller(phase[v], phase[u])
                                    ELSE phase[v]]
       /\ todo' = todo \ {u}
  /\ UNCHANGED <<evidence, tarjanVars, docVars, units, steps, at, owner>>

\* One turn of _relax_phases: highest layer first, then by name.
Relax ==
  /\ stage = "relax"
  /\ \E u \in todo :
       /\ \A v \in todo :
            \/ UnitLayer(v) < UnitLayer(u)
            \/ UnitLayer(v) = UnitLayer(u) /\ Least(u) <= Least(v)
       /\ phase' = [v \in units |-> IF v \in DepUnits(u)
                                    THEN Smaller(phase[v], phase[u])
                                    ELSE phase[v]]
       /\ todo' = todo \ {u}
  /\ UNCHANGED <<evidence, tarjanVars, docVars, units, steps, at, owner>>

Schedule ==
  /\ stage = "relax"
  /\ todo = {}
  /\ steps' = AllSteps
  /\ at' = 1
  /\ stage' = "claim"
  /\ UNCHANGED <<evidence, tarjanVars, layer, cycles, fileOrder, units,
                 phase, todo, owner>>

\* The single-owner pass: a file already claimed is modified, not created.
Claim ==
  /\ stage = "claim"
  /\ \E s \in steps :
       /\ Number(s) = at
       /\ owner' = [f \in File |-> IF f \in s.files /\ owner[f] = 0
                                   THEN at ELSE owner[f]]
  /\ IF at = Cardinality(steps)
     THEN stage' = "resolve" /\ at' = 1
     ELSE at' = at + 1 /\ UNCHANGED stage
  /\ UNCHANGED <<evidence, tarjanVars, layer, cycles, fileOrder, units,
                 phase, todo, steps>>

Resolve ==
  /\ stage = "resolve"
  /\ \E s \in steps :
       /\ Number(s) = at
       /\ IF \E r \in Requires(s) : r >= at
          THEN stage' = "failed" /\ UNCHANGED at
          ELSE IF at = Cardinality(steps)
               THEN stage' = "done" /\ UNCHANGED at
               ELSE at' = at + 1 /\ UNCHANGED stage
  /\ UNCHANGED <<evidence, tarjanVars, layer, cycles, fileOrder, units,
                 phase, todo, steps, owner>>

Next ==
  Decomposing \/ TakeUp \/ MakeUnits \/ Relax \/ Schedule \/ Claim \/ Resolve

PlanSpec == Init /\ [][Next]_allVars

-----------------------------------------------------------------------------

Stages == {"order", "cycles", "files", "units", "relax", "claim", "resolve",
           "done", "failed"}
Planned == stage \in {"claim", "resolve", "done", "failed"}

TypeOK ==
  /\ ftype \in FileTypes
  /\ imports \in Imports
  /\ stage \in Stages
  /\ roots \subseteq Node
  /\ succ \in Graphs
  /\ left \in Graphs
  /\ index \in [Node -> Int]
  /\ lowlink \in [Node -> Int]
  /\ Elements(stack) \cup Elements(work) \cup Emitted \subseteq Node
  /\ units \subseteq SUBSET CodeModules
  /\ todo \subseteq units
  /\ owner \in [File -> Nat]
  /\ at \in Nat

(***************************************************************************)
(* What _relax_phases is for, in full: a unit ends in the earliest nominal *)
(* phase of the modules that need it, directly or through others, itself   *)
(* included; so no dependency is scheduled in a later phase than its       *)
(* dependent, and none is pulled earlier than some dependent asks.  A      *)
(* single pass does it, in the order of layers that were computed on       *)
(* another graph than the units.                                           *)
(***************************************************************************)
PhasesRelaxed ==
  Planned /\ ~CodelessCycle =>
    \A u \in units :
      phase[u] =
        Least({NominalPhase(m) : m \in {n \in CodeModules :
          \A S \in SUBSET CodeModules :
            n \in S /\ (\A x \in S : PartGraph[x] \subseteq S)
              => u \cap S # {}}})

(***************************************************************************)
(* When recompose refuses a plan (forward dependency in plan), the cause   *)
(* is one of two shapes of repository: an entry point that is a test, or   *)
(* that imports one, or generated code on an import cycle.  For every      *)
(* other repository each requires points backward, as the module's         *)
(* docstring says.                                                         *)
(***************************************************************************)
TestWiring ==
  \E f \in File :
    /\ Entry(f)
    /\ ({Home[f]} \cup {Home[g] : g \in Targets(f)}) \cap TestModules # {}

FailsOnlyOn == stage = "failed" => TestWiring \/ CodelessCycle

(***************************************************************************)
(* The coverage promise of parts.py (no repository file may be silently    *)
(* absent from every part) and of _unassigned_files, together: a finished  *)
(* plan creates every file in a step, except generated files in            *)
(* directories without code.                                               *)
(***************************************************************************)
NothingDropped ==
  stage = "done" =>
    \A f \in File :
      \/ owner[f] # 0
      \/ ftype[f] = "generated" /\ Home[f] \notin CodeModules

=============================================================================
