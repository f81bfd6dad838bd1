------------------------------- MODULE Tarjan -------------------------------
(***************************************************************************)
(* decomposer/metrics.py: tarjan_scc, the iterative depth-first search     *)
(* that every topology claim of the decomposer and the recomposer rests    *)
(* on.  The code drives it with an explicit stack of (node, position) work *)
(* items; here work holds the nodes and left what each one's iterator has  *)
(* still to yield.  One action per turn of the code's inner loops.         *)
(*                                                                         *)
(* roots are the nodes the caller passes; the search may walk out of them, *)
(* because adjacency may name others.                                      *)
(***************************************************************************)
EXTENDS Integers, Sequences

CONSTANT Node    \* module names or paths, as numbers in their sorted order

ASSUME NodeAssumption == Node \subseteq Nat

VARIABLES
  roots,      \* the nodes passed in
  succ,       \* adjacency: the nodes each one points to
  left,       \* the neighbours each node's iterator has still to yield
  index,      \* index_of; -1 for a node not reached yet
  lowlink,
  counter,
  stack,
  work,       \* the depth-first path
  result      \* the components, in the order they are emitted

tarjanVars ==
  <<roots, succ, left, index, lowlink, counter, stack, work, result>>

Elements(s) == {s[i] : i \in DOMAIN s}
Top         == work[Len(work)]
Seen        == {n \in Node : index[n] # -1}
OnStack     == Elements(stack)
Emitted     == UNION Elements(result)
Finished    == work = <<>> /\ roots \subseteq Seen

First(n, S)  == n \in S /\ \A m \in S : n <= m
Smaller(a, b) == IF a <= b THEN a ELSE b

(***************************************************************************)
(* The graph's own notion of reachability, independent of the search: y is *)
(* in every set of the graph's nodes that holds x and is closed under succ. *)
(***************************************************************************)
Live        == roots \cup UNION {succ[n] : n \in Node}
Closed(S)   == \A n \in S : succ[n] \subseteq S
Reach(x, y) == \A S \in SUBSET Live : x \in S /\ Closed(S) => y \in S

-----------------------------------------------------------------------------

Fresh(ns, adj) ==
  /\ roots = ns
  /\ succ = adj
  /\ left = adj
  /\ index = [n \in Node |-> -1]
  /\ lowlink = [n \in Node |-> -1]
  /\ counter = 0
  /\ stack = <<>>
  /\ work = <<>>
  /\ result = <<>>

\* The same, for a call that follows an earlier one.
Restart(ns, adj) ==
  /\ roots' = ns
  /\ succ' = adj
  /\ left' = adj
  /\ index' = [n \in Node |-> -1]
  /\ lowlink' = [n \in Node |-> -1]
  /\ counter' = 0
  /\ stack' = <<>>
  /\ work' = <<>>
  /\ result' = <<>>

Enter(n) ==
  /\ index' = [index EXCEPT ![n] = counter]
  /\ lowlink' = [lowlink EXCEPT ![n] = counter]
  /\ counter' = counter + 1
  /\ stack' = Append(stack, n)
  /\ work' = Append(work, n)

\* The outer for: the next root not reached from an earlier one.
StartRoot ==
  /\ work = <<>>
  /\ \E n \in roots : First(n, roots \ Seen) /\ Enter(n)
  /\ UNCHANGED <<roots, succ, left, result>>

\* The neighbour has no index: it goes on top of the path.
Descend ==
  /\ work # <<>>
  /\ \E n \in left[Top] :
       /\ First(n, left[Top])
       /\ n \notin Seen
       /\ left' = [left EXCEPT ![Top] = @ \ {n}]
       /\ Enter(n)
  /\ UNCHANGED <<roots, succ, result>>

\* Mutant: nodes of components emitted before lower the link too.
LookAnywhere ==
  /\ work # <<>>
  /\ \E n \in left[Top] :
       /\ First(n, left[Top])
       /\ n \in Seen
       /\ left' = [left EXCEPT ![Top] = @ \ {n}]
       /\ lowlink' = [lowlink EXCEPT ![Top] = Smaller(@, index[n])]
  /\ UNCHANGED <<roots, succ, index, counter, stack, work, result>>

\* The neighbour has an index: only one still on the stack lowers the link.
Look ==
  /\ work # <<>>
  /\ \E n \in left[Top] :
       /\ First(n, left[Top])
       /\ n \in Seen
       /\ left' = [left EXCEPT ![Top] = @ \ {n}]
       /\ lowlink' = IF n \in OnStack
                     THEN [lowlink EXCEPT ![Top] = Smaller(@, index[n])]
                     ELSE lowlink
  /\ UNCHANGED <<roots, succ, index, counter, stack, work, result>>

\* work.pop(), and the parent takes the smaller link.
Return ==
  /\ work' = SubSeq(work, 1, Len(work) - 1)
  /\ lowlink' =
       IF Len(work) = 1 THEN lowlink
       ELSE [lowlink EXCEPT ![work[Len(work) - 1]] =
                              Smaller(@, lowlink[Top])]
  /\ UNCHANGED <<roots, succ, left, index, counter>>

\* Every neighbour is processed and the node is the root of its component:
\* the stack is popped down to it.
Emit ==
  /\ work # <<>>
  /\ left[Top] = {}
  /\ lowlink[Top] = index[Top]
  /\ \E k \in DOMAIN stack :
       /\ stack[k] = Top
       /\ result' = Append(result, {stack[i] : i \in k .. Len(stack)})
       /\ stack' = SubSeq(stack, 1, k - 1)
  /\ Return

\* Every neighbour is processed and the component is rooted further up.
Retreat ==
  /\ work # <<>>
  /\ left[Top] = {}
  /\ lowlink[Top] # index[Top]
  /\ Return
  /\ UNCHANGED <<stack, result>>

Search == StartRoot \/ Descend \/ Look \/ Emit \/ Retreat

Graphs == [Node -> SUBSET Node]

Start == \E ns \in SUBSET Node, adj \in Graphs : Fresh(ns, adj)
Spec  == Start /\ [][Search]_tarjanVars

-----------------------------------------------------------------------------

(***************************************************************************)
(* What tarjan_scc promises its four callers, at every moment of the       *)
(* search: an emitted component is exactly the set of nodes that reach one *)
(* another, what a component points to was emitted with it or before it    *)
(* (sinks first), and when the search ends no root is missing.             *)
(***************************************************************************)
SccCorrect ==
  /\ \A i \in DOMAIN result : \A x \in result[i] :
       /\ \A y \in Live : y \in result[i] <=> Reach(x, y) /\ Reach(y, x)
       /\ succ[x] \subseteq UNION {result[j] : j \in 1 .. i}
  /\ Finished => roots \subseteq Emitted

=============================================================================
