-------------------------- MODULE RecomposeProofs --------------------------
(***************************************************************************)
(* The search of Tarjan is correct on every graph, finite or not: an       *)
(* emitted component is a strongly connected component, whatever the       *)
(* number of nodes and the order in which neighbours are met.              *)
(*                                                                         *)
(* The planning pipeline, for every repository: it keeps its types and     *)
(* every condensation it asks for is correct; the layers of the document   *)
(* and the file orders in it are sound; the phases of the units are what   *)
(* their dependents ask for; a plan is refused only for the two causes     *)
(* FailsOnlyOn names; and a finished plan drops no file.                   *)
(***************************************************************************)
EXTENDS Recompose, TLAPS, FiniteSetTheorems, WellFoundedInduction

-----------------------------------------------------------------------------
\* The search: its invariant.


TarjanTypeOK ==
  /\ roots \in SUBSET Node
  /\ succ \in Graphs
  /\ left \in Graphs
  /\ index \in [Node -> Int]
  /\ lowlink \in [Node -> Int]
  /\ counter \in Nat
  /\ stack \in Seq(Node)
  /\ work \in Seq(Node)
  /\ result \in Seq(SUBSET Node)

\* Indices are given out in order, and once.
Numbered ==
  /\ \A n \in Node : -1 <= index[n] /\ index[n] < counter
  /\ \A m, n \in Seen : index[m] = index[n] => m = n

\* Both stacks hold reached nodes in the order of their indices, and the path
\* is on the stack.
Rising ==
  /\ \A i \in DOMAIN stack : stack[i] \in Seen
  /\ \A i, j \in DOMAIN stack : i < j => index[stack[i]] < index[stack[j]]
  /\ \A i, j \in DOMAIN work : i < j => index[work[i]] < index[work[j]]
  /\ Elements(work) \subseteq OnStack

\* A reached node is on the stack or in one component.
Split ==
  /\ Seen = OnStack \cup Emitted
  /\ OnStack \cap Emitted = {}
  /\ \A i, j \in DOMAIN result : i # j => result[i] \cap result[j] = {}
  /\ Seen \subseteq Live

\* A node off the path is done with its neighbours, a node not reached has
\* not begun.
Scanned ==
  /\ \A n \in Node : left[n] \subseteq succ[n]
  /\ \A n \in Seen : succ[n] \ left[n] \subseteq Seen
  /\ \A n \in Seen \ Elements(work) : left[n] = {}
  /\ \A n \in Node \ Seen : left[n] = succ[n]

\* Components are sinks first and strongly connected.
Components ==
  \A i \in DOMAIN result : \A x \in result[i] :
    /\ succ[x] \subseteq UNION {result[j] : j \in 1 .. i}
    /\ \A y \in result[i] : Reach(x, y)

\* A link is the index of a node on the stack that the node reaches.
LinkReaches ==
  \A x \in OnStack :
    /\ lowlink[x] <= index[x]
    /\ \E m \in OnStack : index[m] = lowlink[x] /\ Reach(x, m)

\* The path reaches all that came after it, ...
PathReaches ==
  \A x \in Elements(work), y \in OnStack :
    index[x] <= index[y] => Reach(x, y)

\* ... and what is on the stack reaches back to the path.
Anchored ==
  \A x \in OnStack :
    \E w \in Elements(work) : index[w] <= index[x] /\ Reach(x, w)

\* The link of a node of the path accounts for every edge met so far that
\* leaves its stretch of the stack.
LinkBounds ==
  \A i \in DOMAIN work, x \in OnStack :
    /\ index[work[i]] <= index[x]
    /\ i < Len(work) => index[x] < index[work[i + 1]]
    => \A z \in (succ[x] \ left[x]) \cap OnStack :
         lowlink[work[i]] <= index[z]

TarjanInv ==
  /\ TarjanTypeOK
  /\ Numbered
  /\ Rising
  /\ Split
  /\ Scanned
  /\ Components
  /\ LinkReaches
  /\ PathReaches
  /\ Anchored
  /\ LinkBounds

-----------------------------------------------------------------------------

\* Reachability is reflexive and transitive and holds along an edge.
LEMMA ReachRefl == ASSUME NEW x PROVE Reach(x, x)
BY DEF Reach

LEMMA ReachTrans ==
  ASSUME NEW x, NEW y, NEW z, Reach(x, y), Reach(y, z)
  PROVE  Reach(x, z)
BY DEF Reach

LEMMA ReachEdge ==
  ASSUME NEW x, NEW y, y \in succ[x]
  PROVE  Reach(x, y)
BY DEF Reach, Closed

\* A step of the search does not change the graph.
LEMMA SameGraph ==
  ASSUME UNCHANGED <<roots, succ>>
  PROVE  /\ Live' = Live
         /\ \A x, y : Reach(x, y)' <=> Reach(x, y)
BY DEF Reach, Closed, Live

\* What the ends of a sequence add to and take from its elements.
LEMMA ElementsAppend ==
  ASSUME NEW S, NEW s \in Seq(S), NEW e \in S
  PROVE  Elements(Append(s, e)) = Elements(s) \cup {e}
<1> DEFINE t == Append(s, e)
<1>1. /\ Len(t) = Len(s) + 1
      /\ \A i \in 1 .. Len(s) : t[i] = s[i]
      /\ t[Len(s) + 1] = e
  OBVIOUS
<1>2. DOMAIN s = 1 .. Len(s) /\ DOMAIN t = 1 .. Len(s) + 1
  OBVIOUS
<1>3. \A i \in DOMAIN t : i \in DOMAIN s \/ i = Len(s) + 1
  BY <1>2
<1>4. DOMAIN s \subseteq DOMAIN t /\ Len(s) + 1 \in DOMAIN t
  BY <1>2
<1> HIDE DEF t
<1>5. Elements(t) = Elements(s) \cup {e}
  BY <1>1, <1>2, <1>3, <1>4 DEF Elements
<1> QED BY <1>5 DEF t

LEMMA ElementsPrefix ==
  ASSUME NEW S, NEW s \in Seq(S), NEW k \in 0 .. Len(s)
  PROVE  /\ SubSeq(s, 1, k) \in Seq(S)
         /\ Len(SubSeq(s, 1, k)) = k
         /\ \A i \in 1 .. k : SubSeq(s, 1, k)[i] = s[i]
         /\ Elements(SubSeq(s, 1, k)) = {s[i] : i \in 1 .. k}
<1>1. /\ SubSeq(s, 1, k) \in Seq(S)
      /\ Len(SubSeq(s, 1, k)) = k
      /\ \A i \in 1 .. k : SubSeq(s, 1, k)[i] = s[i]
  OBVIOUS
<1>2. DOMAIN SubSeq(s, 1, k) = 1 .. k
  BY <1>1
<1> QED BY <1>1, <1>2 DEF Elements

-----------------------------------------------------------------------------

\* A search that has not begun satisfies the invariant.
LEMMA FreshInv ==
  ASSUME NEW ns \in SUBSET Node, NEW adj \in Graphs, Fresh(ns, adj)
  PROVE  TarjanInv
<1>1. TarjanTypeOK
  BY DEF Fresh, TarjanTypeOK, Graphs
<1>2. Elements(stack) = {} /\ Elements(work) = {} /\ Elements(result) = {}
  BY DEF Fresh, Elements
<1>3. Seen = {}
  BY DEF Fresh, Seen
<1>4. Numbered /\ Rising /\ Split /\ Components
  BY <1>2, <1>3
     DEF Fresh, Numbered, Rising, Split, Components, OnStack, Emitted
<1>5. Scanned
  BY <1>3 DEF Fresh, Scanned, Graphs
<1>6. LinkReaches /\ PathReaches /\ Anchored /\ LinkBounds
  BY <1>2
     DEF Fresh, LinkReaches, PathReaches, Anchored, LinkBounds, OnStack
<1> QED BY <1>1, <1>4, <1>5, <1>6 DEF TarjanInv

LEMMA RestartInv ==
  ASSUME NEW ns \in SUBSET Node, NEW adj \in Graphs, Restart(ns, adj)
  PROVE  TarjanInv'
<1>1. TarjanTypeOK'
  BY DEF Restart, TarjanTypeOK, Graphs
<1>2. /\ Elements(stack)' = {}
      /\ Elements(work)' = {}
      /\ Elements(result)' = {}
  BY DEF Restart, Elements
<1>3. Seen' = {}
  BY DEF Restart, Seen
<1>4. Numbered' /\ Rising' /\ Split' /\ Components'
  BY <1>2, <1>3
     DEF Restart, Numbered, Rising, Split, Components, OnStack, Emitted
<1>5. Scanned'
  BY <1>3 DEF Restart, Scanned, Graphs
<1>6. LinkReaches' /\ PathReaches' /\ Anchored' /\ LinkBounds'
  BY <1>2
     DEF Restart, LinkReaches, PathReaches, Anchored, LinkBounds, OnStack
<1> QED BY <1>1, <1>4, <1>5, <1>6 DEF TarjanInv

LEMMA TarjanStutter ==
  ASSUME TarjanInv, UNCHANGED tarjanVars
  PROVE  TarjanInv'
<1>1. UNCHANGED <<roots, succ, left, index, lowlink, counter, stack, work,
                  result>>
  BY DEF tarjanVars
<1>2. /\ UNCHANGED <<OnStack, Emitted, Seen, Live>>
      /\ Elements(work)' = Elements(work)
      /\ \A x, y : Reach(x, y)' <=> Reach(x, y)
  BY <1>1, SameGraph DEF OnStack, Emitted, Seen, Elements
<1>3. TarjanTypeOK' /\ Numbered' /\ Rising' /\ Split' /\ Scanned'
  BY <1>1, <1>2
     DEF TarjanInv, TarjanTypeOK, Numbered, Rising, Split, Scanned
<1>4. Components' /\ LinkReaches' /\ PathReaches' /\ Anchored' /\ LinkBounds'
  BY <1>1, <1>2
     DEF TarjanInv, Components, LinkReaches, PathReaches, Anchored,
         LinkBounds
<1> QED BY <1>3, <1>4 DEF TarjanInv

-----------------------------------------------------------------------------

\* What entering a node does to the sets the invariant speaks of.
Entered(n) ==
  /\ OnStack' = OnStack \cup {n}
  /\ Elements(work)' = Elements(work) \cup {n}
  /\ Seen' = Seen \cup {n}
  /\ UNCHANGED <<Emitted, Live>>
  /\ \A x, y : Reach(x, y)' <=> Reach(x, y)
  /\ \A x \in Node \ {n} : index'[x] = index[x] /\ lowlink'[x] = lowlink[x]
  /\ index'[n] = counter /\ lowlink'[n] = counter
  /\ Len(stack') = Len(stack) + 1 /\ Len(work') = Len(work) + 1
  /\ \A i \in 1 .. Len(stack) : stack'[i] = stack[i]
  /\ \A i \in 1 .. Len(work) : work'[i] = work[i]
  /\ stack'[Len(stack) + 1] = n /\ work'[Len(work) + 1] = n
  /\ index' \in [Node -> Int] /\ lowlink' \in [Node -> Int]
  /\ counter' = counter + 1 /\ counter' \in Nat
  /\ stack' \in Seq(Node) /\ work' \in Seq(Node)

LEMMA EnterSets ==
  ASSUME TarjanTypeOK, NEW n \in Node, n \notin Seen, Enter(n),
         UNCHANGED <<roots, succ, result>>
  PROVE  Entered(n)
<1>1. /\ OnStack' = OnStack \cup {n}
      /\ Elements(work)' = Elements(work) \cup {n}
  <2>1. Elements(Append(stack, n)) = Elements(stack) \cup {n}
    BY ElementsAppend DEF TarjanTypeOK
  <2>2. Elements(Append(work, n)) = Elements(work) \cup {n}
    BY ElementsAppend DEF TarjanTypeOK
  <2> QED BY <2>1, <2>2 DEF Enter, OnStack, Elements
<1>2. /\ \A x \in Node \ {n} : /\ index'[x] = index[x]
                               /\ lowlink'[x] = lowlink[x]
      /\ index'[n] = counter /\ lowlink'[n] = counter
      /\ index' \in [Node -> Int] /\ lowlink' \in [Node -> Int]
      /\ counter' = counter + 1 /\ counter' \in Nat
  BY DEF Enter, TarjanTypeOK
<1>3. Seen' = Seen \cup {n}
  BY <1>2 DEF Seen, TarjanTypeOK
<1>4. UNCHANGED <<Emitted, Live>> /\ \A x, y : Reach(x, y)' <=> Reach(x, y)
  BY SameGraph DEF Emitted, Elements
<1>5. /\ Len(stack') = Len(stack) + 1 /\ Len(work') = Len(work) + 1
      /\ \A i \in 1 .. Len(stack) : stack'[i] = stack[i]
      /\ \A i \in 1 .. Len(work) : work'[i] = work[i]
      /\ stack'[Len(stack) + 1] = n /\ work'[Len(work) + 1] = n
      /\ stack' \in Seq(Node) /\ work' \in Seq(Node)
  BY DEF Enter, TarjanTypeOK
<1> QED BY <1>1, <1>2, <1>3, <1>4, <1>5 DEF Entered

\* The part of the invariant that only speaks of the numbering.
LEMMA EnterNumbers ==
  ASSUME TarjanInv, NEW n \in Node, n \notin Seen, n \in Live, Enter(n),
         UNCHANGED <<roots, succ, result>>
  PROVE  Numbered' /\ Rising' /\ Split' /\ Components'
<1>0. Entered(n) /\ TarjanTypeOK
  BY EnterSets DEF TarjanInv
<1>1. Numbered'
  <2>1. /\ index \in [Node -> Int] /\ index' \in [Node -> Int]
        /\ counter \in Nat /\ counter' = counter + 1
        /\ \A x \in Node \ {n} : index'[x] = index[x]
        /\ index'[n] = counter
        /\ Seen' = Seen \cup {n}
        /\ Seen \subseteq Node
    BY <1>0 DEF Entered, TarjanTypeOK, Seen
  <2>2. /\ \A m \in Node : -1 <= index[m] /\ index[m] < counter
        /\ \A l, m \in Seen : index[l] = index[m] => l = m
    BY DEF TarjanInv, Numbered
  <2>3. \A m \in Node : -1 <= index'[m] /\ index'[m] < counter'
    BY <2>1, <2>2
  <2>4. ASSUME NEW l \in Seen', NEW m \in Seen', index'[l] = index'[m]
        PROVE  l = m
    <3>1. \A x \in Seen : index'[x] = index[x] /\ index[x] < counter
      BY <2>1, <2>2
    <3>2. CASE l \in Seen /\ m \in Seen
      BY <2>2, <2>4, <3>1, <3>2
    <3>3. CASE l = n /\ m \in Seen
      BY <2>1, <2>4, <3>1, <3>3
    <3>4. CASE l \in Seen /\ m = n
      BY <2>1, <2>4, <3>1, <3>4
    <3> QED BY <2>1, <3>2, <3>3, <3>4
  <2> QED BY <2>3, <2>4 DEF Numbered
<1>2. Rising'
  <2> DEFINE k == Len(stack)
             w == Len(work)
  <2>1. /\ DOMAIN stack' = 1 .. k + 1 /\ DOMAIN stack = 1 .. k
        /\ DOMAIN work' = 1 .. w + 1 /\ DOMAIN work = 1 .. w
        /\ k \in Nat /\ w \in Nat
    <3>1. /\ stack \in Seq(Node) /\ stack' \in Seq(Node)
          /\ work \in Seq(Node) /\ work' \in Seq(Node)
          /\ Len(stack') = k + 1 /\ Len(work') = w + 1
      BY <1>0 DEF Entered, TarjanTypeOK
    <3> QED BY <3>1
  <2>2. \A x \in Seen : index'[x] = index[x] /\ index[x] < index'[n]
    BY <1>0 DEF TarjanInv, Numbered, Entered, Seen
  <2>3. /\ \A i \in 1 .. k : stack'[i] = stack[i] /\ stack[i] \in Seen
        /\ stack'[k + 1] = n
    BY <1>0, <2>1 DEF TarjanInv, Rising, Entered
  <2>4. Elements(work) \subseteq Seen
    BY DEF TarjanInv, Rising, Split
  <2>5. /\ \A i \in 1 .. w : work'[i] = work[i] /\ work[i] \in Seen
        /\ work'[w + 1] = n
    BY <1>0, <2>1, <2>4 DEF Entered, Elements
  <2>6. /\ \A i, j \in 1 .. k : i < j => index[stack[i]] < index[stack[j]]
        /\ \A i, j \in 1 .. w : i < j => index[work[i]] < index[work[j]]
    BY <2>1 DEF TarjanInv, Rising
  <2>7. \A i \in DOMAIN stack' : stack'[i] \in Seen'
    <3>1. Seen' = Seen \cup {n}
      BY <1>0 DEF Entered
    <3> HIDE DEF k, w
    <3> QED BY <2>1, <2>3, <3>1
  <2>8. \A i, j \in DOMAIN stack' :
          i < j => index'[stack'[i]] < index'[stack'[j]]
    <3> HIDE DEF k, w
    <3>1. \A i \in 1 .. k + 1 : i \in 1 .. k \/ i = k + 1
      BY <2>1
    <3>2. \A i \in 1 .. k : \A j \in 1 .. k :
            i < j => index'[stack'[i]] < index'[stack'[j]]
      BY <2>2, <2>3, <2>6
    <3>3. \A i \in 1 .. k : index'[stack'[i]] < index'[stack'[k + 1]]
      BY <2>2, <2>3
    <3> QED BY <2>1, <3>1, <3>2, <3>3
  <2>9. \A i, j \in DOMAIN work' :
          i < j => index'[work'[i]] < index'[work'[j]]
    <3> HIDE DEF k, w
    <3>1. \A i \in 1 .. w + 1 : i \in 1 .. w \/ i = w + 1
      BY <2>1
    <3>2. \A i \in 1 .. w : \A j \in 1 .. w :
            i < j => index'[work'[i]] < index'[work'[j]]
      BY <2>2, <2>5, <2>6
    <3>3. \A i \in 1 .. w : index'[work'[i]] < index'[work'[w + 1]]
      BY <2>2, <2>5
    <3> QED BY <2>1, <3>1, <3>2, <3>3
  <2>10. Elements(work)' \subseteq OnStack'
    BY <1>0 DEF TarjanInv, Rising, Entered
  <2> QED BY <2>7, <2>8, <2>9, <2>10 DEF Rising
<1>3. Split'
  <2>1. Emitted \subseteq Seen
    BY DEF TarjanInv, Split
  <2> QED BY <1>0, <2>1 DEF Entered, TarjanInv, Split
<1>4. Components'
  BY <1>0 DEF Entered, TarjanInv, Components
<1> QED BY <1>1, <1>2, <1>3, <1>4

\* Entering from the path's top, or from nothing: the rest of the invariant.
LEMMA EnterLinks ==
  ASSUME TarjanInv, NEW n \in Node, n \notin Seen, n \in Live, Enter(n),
         UNCHANGED <<roots, succ, result>>,
         \A x \in Elements(work) : Reach(x, n),
         left' \in Graphs,
         left'[n] = succ[n],
         \A x \in OnStack : \A z \in succ[x] \ left'[x] :
           z = n \/ z \notin left[x]
  PROVE  LinkReaches' /\ PathReaches' /\ Anchored' /\ LinkBounds'
<1>0. Entered(n) /\ TarjanTypeOK
  BY EnterSets DEF TarjanInv
<1>1. /\ OnStack' = OnStack \cup {n}
      /\ Elements(work)' = Elements(work) \cup {n}
      /\ \A x, y : Reach(x, y)' <=> Reach(x, y)
  BY <1>0 DEF Entered
<1>2. /\ OnStack \subseteq Seen /\ Seen \subseteq Node
      /\ Elements(work) \subseteq OnStack
  BY DEF TarjanInv, Split, Seen, Rising
<1>3. /\ \A x \in Seen : /\ index'[x] = index[x]
                         /\ lowlink'[x] = lowlink[x]
                         /\ index[x] < counter
                         /\ index[x] \in Int /\ lowlink[x] \in Int
      /\ index'[n] = counter /\ lowlink'[n] = counter /\ counter \in Nat
  BY <1>0, <1>2 DEF Entered, TarjanInv, Numbered, TarjanTypeOK
<1>4. LinkReaches'
  <2>1. ASSUME NEW x \in OnStack'
        PROVE  /\ lowlink'[x] <= index'[x]
               /\ \E m \in OnStack' : index'[m] = lowlink'[x] /\ Reach(x, m)
    <3>1. CASE x = n
      BY <1>1, <1>3, <3>1, ReachRefl
    <3>2. CASE x \in OnStack
      <4>1. PICK m \in OnStack : index[m] = lowlink[x] /\ Reach(x, m)
        BY <3>2 DEF TarjanInv, LinkReaches
      <4>2. lowlink[x] <= index[x]
        BY <3>2 DEF TarjanInv, LinkReaches
      <4> QED BY <1>1, <1>2, <1>3, <3>2, <4>1, <4>2
    <3> QED BY <1>1, <3>1, <3>2
  <2> QED BY <1>1, <2>1 DEF LinkReaches
<1>5. PathReaches'
  <2>1. ASSUME NEW x \in Elements(work)', NEW y \in OnStack',
               index'[x] <= index'[y]
        PROVE  Reach(x, y)
    <3>1. CASE x = n
      <4>1. y = n
        BY <1>1, <1>2, <1>3, <2>1, <3>1
      <4> QED BY <3>1, <4>1, ReachRefl
    <3>2. CASE x \in Elements(work) /\ y = n
      BY <3>2
    <3>3. CASE x \in Elements(work) /\ y \in OnStack
      BY <1>2, <1>3, <2>1, <3>3 DEF TarjanInv, PathReaches
    <3> QED BY <1>1, <3>1, <3>2, <3>3
  <2> QED BY <1>1, <2>1 DEF PathReaches
<1>6. Anchored'
  <2>1. ASSUME NEW x \in OnStack'
        PROVE  \E v \in Elements(work)' :
                 index'[v] <= index'[x] /\ Reach(x, v)
    <3>1. CASE x = n
      BY <1>1, <1>3, <3>1, ReachRefl
    <3>2. CASE x \in OnStack
      <4>1. PICK v \in Elements(work) : index[v] <= index[x] /\ Reach(x, v)
        BY <3>2 DEF TarjanInv, Anchored
      <4> QED BY <1>1, <1>2, <1>3, <3>2, <4>1
    <3> QED BY <1>1, <3>1, <3>2
  <2> QED BY <1>1, <2>1 DEF Anchored
<1>7. LinkBounds'
  <2> DEFINE w == Len(work)
  <2>1. /\ DOMAIN work' = 1 .. w + 1 /\ DOMAIN work = 1 .. w /\ w \in Nat
        /\ Len(work') = w + 1
        /\ \A i \in 1 .. w : work'[i] = work[i]
        /\ work'[w + 1] = n
    <3>1. /\ work \in Seq(Node) /\ work' \in Seq(Node)
          /\ Len(work') = w + 1
          /\ \A i \in 1 .. w : work'[i] = work[i]
          /\ work'[w + 1] = n
      BY <1>0 DEF Entered, TarjanTypeOK
    <3> QED BY <3>1
  <2>2. \A i \in 1 .. w : work[i] \in OnStack
    BY <1>2, <2>1 DEF Elements
  <2> HIDE DEF w
  <2>3. ASSUME NEW i \in DOMAIN work', NEW x \in OnStack',
               index'[work'[i]] <= index'[x],
               i < Len(work') => index'[x] < index'[work'[i + 1]],
               NEW z \in (succ[x] \ left'[x]) \cap OnStack'
        PROVE  lowlink'[work'[i]] <= index'[z]
    <3>1. CASE x = n
      BY <3>1
    <3>2. CASE x \in OnStack /\ i = w + 1
      BY <1>2, <1>3, <2>1, <2>3, <3>2
    <3>3. CASE x \in OnStack /\ i \in 1 .. w
      <4>1. /\ work'[i] = work[i] /\ work[i] \in OnStack
            /\ lowlink'[work[i]] = lowlink[work[i]]
            /\ index'[work[i]] = index[work[i]]
            /\ lowlink[work[i]] <= index[work[i]]
        BY <1>2, <1>3, <2>1, <2>2, <3>3 DEF TarjanInv, LinkReaches
      <4>2. CASE z = n
        BY <1>2, <1>3, <4>1, <4>2
      <4>3. CASE z # n
        <5>1. z \in (succ[x] \ left[x]) \cap OnStack
          BY <1>1, <2>3, <3>3, <4>3
        <5>2. i < Len(work) => index[x] < index[work[i + 1]]
          <6>1. SUFFICES ASSUME i < w PROVE index[x] < index[work[i + 1]]
            BY DEF w
          <6>2. i + 1 \in 1 .. w /\ i < Len(work')
            BY <2>1, <3>3, <6>1
          <6>3. work'[i + 1] = work[i + 1] /\ work[i + 1] \in OnStack
            BY <2>1, <2>2, <6>2
          <6> QED BY <1>2, <1>3, <2>3, <3>3, <6>2, <6>3
        <5>3. index[work[i]] <= index[x]
          BY <1>2, <1>3, <2>3, <3>3, <4>1
        <5>4. lowlink[work[i]] <= index[z]
          BY <2>1, <3>3, <5>1, <5>2, <5>3 DEF TarjanInv, LinkBounds
        <5> QED BY <1>2, <1>3, <4>1, <5>1, <5>4
      <4> QED BY <4>2, <4>3
    <3> QED BY <1>1, <2>1, <2>3, <3>1, <3>2, <3>3
  <2> QED BY <2>3 DEF LinkBounds
<1> QED BY <1>4, <1>5, <1>6, <1>7

LEMMA StartRootInv ==
  ASSUME TarjanInv, StartRoot
  PROVE  TarjanInv'
<1>1. PICK n \in roots : n \notin Seen /\ Enter(n)
  BY DEF StartRoot, First
<1>2. work = <<>> /\ UNCHANGED <<roots, succ, left, result>>
  BY DEF StartRoot
<1>3. n \in Node /\ n \in Live
  BY DEF TarjanInv, TarjanTypeOK, Live
<1>4. TarjanTypeOK
  BY DEF TarjanInv
<1>5. Elements(work) = {} /\ OnStack = {}
  BY <1>2 DEF TarjanInv, Anchored, Elements
<1>6. Entered(n)
  BY <1>1, <1>2, <1>3, <1>4, EnterSets
<1>7. Numbered' /\ Rising' /\ Split' /\ Components'
  BY <1>1, <1>2, <1>3, EnterNumbers
<1>8. left'[n] = succ[n] /\ left' \in Graphs
  BY <1>1, <1>2, <1>3, <1>4 DEF TarjanInv, Scanned, TarjanTypeOK
<1>9. LinkReaches' /\ PathReaches' /\ Anchored' /\ LinkBounds'
  BY <1>1, <1>2, <1>3, <1>5, <1>8, EnterLinks
<1>10. TarjanTypeOK'
  BY <1>2, <1>4, <1>6 DEF TarjanTypeOK, Entered
<1>11. Scanned'
  BY <1>2, <1>3, <1>6, <1>8 DEF TarjanInv, Scanned, Entered
<1> QED BY <1>7, <1>9, <1>10, <1>11 DEF TarjanInv

\* Of the node on top of the path.
LEMMA TopFacts ==
  ASSUME TarjanInv, work # <<>>
  PROVE  /\ Len(work) \in Nat \ {0}
         /\ DOMAIN work = 1 .. Len(work)
         /\ Top \in Elements(work) /\ Top \in OnStack
         /\ Top \in Seen /\ Top \in Node
         /\ \A x \in Elements(work) \ {Top} : index[x] < index[Top]
         /\ \A x \in OnStack : index[x] \in Int /\ lowlink[x] \in Int
<1>1. work \in Seq(Node) /\ index \in [Node -> Int]
      /\ lowlink \in [Node -> Int]
  BY DEF TarjanInv, TarjanTypeOK
<1>2. /\ Len(work) \in Nat \ {0}
      /\ DOMAIN work = 1 .. Len(work)
      /\ Len(work) \in DOMAIN work
  BY <1>1
<1>3. Top \in Elements(work)
  BY <1>2 DEF Top, Elements
<1>4. /\ Elements(work) \subseteq OnStack
      /\ OnStack \subseteq Seen
      /\ Seen \subseteq Node
  BY DEF TarjanInv, Rising, Split, Seen
<1>5. ASSUME NEW x \in Elements(work) \ {Top}
      PROVE  index[x] < index[Top]
  <2>1. PICK i \in DOMAIN work : work[i] = x
    BY DEF Elements
  <2>2. i < Len(work)
    BY <1>2, <2>1 DEF Top
  <2> QED BY <1>2, <2>1, <2>2 DEF TarjanInv, Rising, Top
<1> QED BY <1>1, <1>2, <1>3, <1>4, <1>5

LEMMA DescendInv ==
  ASSUME TarjanInv, Descend
  PROVE  TarjanInv'
<1>1. PICK n \in left[Top] :
        /\ n \notin Seen
        /\ left' = [left EXCEPT ![Top] = @ \ {n}]
        /\ Enter(n)
  BY DEF Descend
<1>2. work # <<>> /\ UNCHANGED <<roots, succ, result>>
  BY DEF Descend
<1>3. TarjanTypeOK
  BY DEF TarjanInv
<1>4. Top \in Node /\ Top \in Seen /\ Top \in OnStack /\ Top # n
      /\ Top \in Elements(work)
  BY <1>1, <1>2, TopFacts
<1>5. n \in succ[Top] /\ n \in Node /\ n \in Live
  BY <1>1, <1>3, <1>4
     DEF TarjanInv, Scanned, TarjanTypeOK, Graphs, Live
<1>6. Entered(n)
  BY <1>1, <1>2, <1>3, <1>5, EnterSets
<1>7. Numbered' /\ Rising' /\ Split' /\ Components'
  BY <1>1, <1>2, <1>5, EnterNumbers
<1>8. /\ left' \in Graphs
      /\ left'[Top] = left[Top] \ {n}
      /\ \A x \in Node \ {Top} : left'[x] = left[x]
      /\ left'[n] = succ[n]
  BY <1>1, <1>3, <1>4, <1>5
     DEF TarjanInv, Scanned, TarjanTypeOK, Graphs
<1>9. \A x \in OnStack : \A z \in succ[x] \ left'[x] :
        z = n \/ z \notin left[x]
  BY <1>8 DEF TarjanInv, Split, Seen
<1>10. \A x \in Elements(work) : Reach(x, n)
  <2>1. Reach(Top, n)
    BY <1>5, ReachEdge
  <2>2. ASSUME NEW x \in Elements(work) PROVE Reach(x, Top)
    <3>1. index[x] <= index[Top]
      <4>1. CASE x = Top
        BY <1>2, <4>1, TopFacts
      <4>2. CASE x # Top
        <5>1. x \in OnStack
          BY DEF TarjanInv, Rising
        <5> QED BY <1>2, <4>2, <5>1, TopFacts
      <4> QED BY <4>1, <4>2
    <3> QED BY <1>4, <3>1 DEF TarjanInv, PathReaches
  <2> QED BY <2>1, <2>2, ReachTrans
<1>11. LinkReaches' /\ PathReaches' /\ Anchored' /\ LinkBounds'
  BY <1>1, <1>2, <1>5, <1>8, <1>9, <1>10, EnterLinks
<1>12. TarjanTypeOK'
  BY <1>2, <1>3, <1>6, <1>8 DEF TarjanTypeOK, Entered
<1>13. Scanned'
  <2>1. /\ Seen' = Seen \cup {n} /\ Elements(work)' = Elements(work) \cup {n}
        /\ succ' = succ
    BY <1>2, <1>6 DEF Entered
  <2>2. Seen \subseteq Node
    BY DEF Seen
  <2>3. \A m \in Node : left'[m] \subseteq succ'[m]
    BY <1>8, <1>4, <2>1 DEF TarjanInv, Scanned
  <2>4. \A m \in Seen' : succ'[m] \ left'[m] \subseteq Seen'
    BY <1>8, <1>4, <2>1, <2>2 DEF TarjanInv, Scanned
  <2>5. \A m \in Seen' \ Elements(work)' : left'[m] = {}
    BY <1>8, <1>4, <2>1, <2>2 DEF TarjanInv, Scanned
  <2>6. \A m \in Node \ Seen' : left'[m] = succ'[m]
    BY <1>8, <1>4, <2>1, <2>2 DEF TarjanInv, Scanned
  <2> QED BY <2>3, <2>4, <2>5, <2>6 DEF Scanned
<1> QED BY <1>7, <1>11, <1>12, <1>13 DEF TarjanInv

LEMMA LookInv ==
  ASSUME TarjanInv, Look
  PROVE  TarjanInv'
<1>1. PICK n \in left[Top] :
        /\ n \in Seen
        /\ left' = [left EXCEPT ![Top] = @ \ {n}]
        /\ lowlink' = IF n \in OnStack
                      THEN [lowlink EXCEPT ![Top] = Smaller(@, index[n])]
                      ELSE lowlink
  BY DEF Look
<1>2. work # <<>> /\ UNCHANGED <<roots, succ, index, counter, stack, work,
                                 result>>
  BY DEF Look
<1>3. /\ UNCHANGED <<OnStack, Emitted, Seen, Live>>
      /\ Elements(work)' = Elements(work)
      /\ \A x, y : Reach(x, y)' <=> Reach(x, y)
  BY <1>2, SameGraph DEF OnStack, Emitted, Seen, Elements
<1>4. TarjanTypeOK
  BY DEF TarjanInv
<1>5. Top \in Node /\ Top \in Seen /\ Top \in OnStack
  BY <1>2, TopFacts
<1>6. n \in succ[Top] /\ n \in Node /\ index[n] \in Int
  BY <1>1, <1>4, <1>5 DEF TarjanInv, Scanned, TarjanTypeOK, Graphs
<1>7. /\ left' \in Graphs
      /\ left'[Top] = left[Top] \ {n}
      /\ \A x \in Node \ {Top} : left'[x] = left[x]
  BY <1>1, <1>4, <1>5 DEF TarjanTypeOK, Graphs
<1>8. /\ lowlink' \in [Node -> Int]
      /\ \A x \in Node \ {Top} : lowlink'[x] = lowlink[x]
      /\ lowlink'[Top] = IF n \in OnStack
                         THEN Smaller(lowlink[Top], index[n])
                         ELSE lowlink[Top]
  BY <1>1, <1>4, <1>5, <1>6 DEF TarjanTypeOK, Smaller
<1>9. \A x \in OnStack : index[x] \in Int /\ lowlink[x] \in Int
  BY <1>2, TopFacts
<1>10. /\ \A x \in OnStack : lowlink'[x] <= lowlink[x]
       /\ n \in OnStack => lowlink'[Top] <= index[n]
  <2>1. OnStack \subseteq Node
    BY DEF TarjanInv, Split, Seen
  <2> QED BY <2>1, <1>5, <1>6, <1>8, <1>9 DEF Smaller
<1>11. TarjanTypeOK' /\ Numbered' /\ Rising' /\ Split' /\ Components'
  <2>1. TarjanTypeOK'
    BY <1>2, <1>4, <1>7, <1>8 DEF TarjanTypeOK
  <2>2. Numbered' /\ Rising' /\ Split' /\ Components'
    BY <1>2, <1>3 DEF TarjanInv, Numbered, Rising, Split, Components
  <2> QED BY <2>1, <2>2
<1>12. Scanned'
  <2>1. \A m \in Seen : m \in Node
    BY DEF Seen
  <2>2. \A m \in Node : left'[m] \subseteq succ'[m]
    BY <1>2, <1>5, <1>7 DEF TarjanInv, Scanned
  <2>3. \A m \in Seen' : succ'[m] \ left'[m] \subseteq Seen'
    BY <1>1, <1>2, <1>3, <1>5, <1>7, <2>1 DEF TarjanInv, Scanned
  <2>4. \A m \in Seen' \ Elements(work)' : left'[m] = {}
    BY <1>3, <1>5, <1>7, <2>1 DEF TarjanInv, Scanned
  <2>5. \A m \in Node \ Seen' : left'[m] = succ'[m]
    BY <1>2, <1>3, <1>5, <1>7 DEF TarjanInv, Scanned
  <2> QED BY <2>2, <2>3, <2>4, <2>5 DEF Scanned
<1>13. LinkReaches'
  <2>1. ASSUME NEW x \in OnStack
        PROVE  /\ lowlink'[x] <= index[x]
               /\ \E m \in OnStack : index[m] = lowlink'[x] /\ Reach(x, m)
    <3>1. lowlink[x] <= index[x]
      BY DEF TarjanInv, LinkReaches
    <3>2. lowlink'[x] \in Int
      BY <1>8, <2>1 DEF TarjanInv, Split, Seen
    <3>3. lowlink'[x] <= index[x]
      BY <1>9, <1>10, <3>1, <3>2
    <3>4. CASE lowlink'[x] = lowlink[x]
      BY <3>3, <3>4 DEF TarjanInv, LinkReaches
    <3>5. CASE lowlink'[x] # lowlink[x]
      <4>1. x = Top /\ n \in OnStack /\ lowlink'[Top] = index[n]
        BY <1>8, <3>5 DEF Smaller, TarjanInv, Split, Seen
      <4>2. Reach(Top, n)
        BY <1>6, ReachEdge
      <4> QED BY <3>3, <4>1, <4>2
    <3> QED BY <3>4, <3>5
  <2> QED BY <1>2, <1>3, <2>1 DEF LinkReaches
<1>14. PathReaches' /\ Anchored'
  BY <1>2, <1>3 DEF TarjanInv, PathReaches, Anchored
<1>15. LinkBounds'
  <2>1. ASSUME NEW i \in DOMAIN work, NEW x \in OnStack,
               index[work[i]] <= index[x],
               i < Len(work) => index[x] < index[work[i + 1]],
               NEW z \in (succ[x] \ left'[x]) \cap OnStack
        PROVE  lowlink'[work[i]] <= index[z]
    <3>1. work[i] \in OnStack /\ x \in Node
      BY DEF TarjanInv, Rising, Elements, Split, Seen
    <3>2. CASE z \notin left[x]
      <4>1. lowlink[work[i]] <= index[z]
        BY <2>1, <3>2 DEF TarjanInv, LinkBounds
      <4>2. lowlink'[work[i]] \in Int
        BY <1>8, <3>1 DEF TarjanInv, Split, Seen
      <4> QED BY <1>9, <1>10, <3>1, <4>1, <4>2
    <3>3. CASE z \in left[x]
      <4>1. x = Top /\ z = n
        BY <1>7, <2>1, <3>1, <3>3
      <4>2. i = Len(work)
        <5>1. SUFFICES ASSUME i < Len(work) PROVE FALSE
          BY <1>2, TopFacts
        <5>2. i + 1 \in DOMAIN work
          BY <1>2, <5>1, TopFacts
        <5>3. work[i + 1] \in Elements(work) /\ work[i + 1] \in OnStack
          BY <5>2 DEF Elements, TarjanInv, Rising
        <5>4. index[work[i + 1]] <= index[Top]
          BY <1>2, <1>9, <5>3, TopFacts
        <5> QED BY <1>5, <1>9, <2>1, <4>1, <5>1, <5>3, <5>4
      <4> QED BY <1>10, <2>1, <4>1, <4>2 DEF Top
    <3> QED BY <3>2, <3>3
  <2> QED BY <1>2, <1>3, <2>1 DEF LinkBounds
<1> QED BY <1>11, <1>12, <1>13, <1>14, <1>15 DEF TarjanInv

\* work.pop() and the parent's link.
Popped ==
  /\ UNCHANGED <<roots, succ, left, index, counter, Live, Seen>>
  /\ \A x, y : Reach(x, y)' <=> Reach(x, y)
  /\ work' \in Seq(Node)
  /\ Len(work') = Len(work) - 1
  /\ \A i \in 1 .. Len(work) - 1 : work'[i] = work[i]
  /\ Elements(work)' = Elements(work) \ {Top}
  /\ lowlink' \in [Node -> Int]
  /\ \A x \in Node :
       lowlink'[x] = IF Len(work) > 1 /\ x = work[Len(work) - 1]
                     THEN Smaller(lowlink[x], lowlink[Top])
                     ELSE lowlink[x]

LEMMA ReturnSets ==
  ASSUME TarjanInv, work # <<>>, Return
  PROVE  Popped
<1>1. /\ UNCHANGED <<roots, succ, left, index, counter>>
      /\ work' = SubSeq(work, 1, Len(work) - 1)
      /\ lowlink' = IF Len(work) = 1 THEN lowlink
                    ELSE [lowlink EXCEPT ![work[Len(work) - 1]] =
                                           Smaller(@, lowlink[Top])]
  BY DEF Return
<1>2. /\ Len(work) \in Nat \ {0} /\ work \in Seq(Node)
      /\ DOMAIN work = 1 .. Len(work) /\ Top \in Node
      /\ lowlink \in [Node -> Int]
  BY TopFacts DEF TarjanInv, TarjanTypeOK
<1>3. UNCHANGED <<Live, Seen>> /\ \A x, y : Reach(x, y)' <=> Reach(x, y)
  BY <1>1, SameGraph DEF Seen
<1>4. Len(work) - 1 \in 0 .. Len(work)
  BY <1>2
<1>5. /\ work' \in Seq(Node)
      /\ Len(work') = Len(work) - 1
      /\ \A i \in 1 .. Len(work) - 1 : work'[i] = work[i]
      /\ Elements(work)' = {work[i] : i \in 1 .. Len(work) - 1}
  <2>1. /\ SubSeq(work, 1, Len(work) - 1) \in Seq(Node)
        /\ Len(SubSeq(work, 1, Len(work) - 1)) = Len(work) - 1
        /\ \A i \in 1 .. Len(work) - 1 :
             SubSeq(work, 1, Len(work) - 1)[i] = work[i]
        /\ Elements(SubSeq(work, 1, Len(work) - 1)) =
             {work[i] : i \in 1 .. Len(work) - 1}
    <3> DEFINE k == Len(work) - 1
    <3>1. k \in 0 .. Len(work)
      BY <1>4
    <3> HIDE DEF k
    <3>2. /\ SubSeq(work, 1, k) \in Seq(Node)
          /\ Len(SubSeq(work, 1, k)) = k
          /\ \A i \in 1 .. k : SubSeq(work, 1, k)[i] = work[i]
          /\ Elements(SubSeq(work, 1, k)) = {work[i] : i \in 1 .. k}
      BY <1>2, <3>1, ElementsPrefix
    <3> QED BY <3>2 DEF k
  <2>2. Elements(work)' = Elements(SubSeq(work, 1, Len(work) - 1))
    BY <1>1 DEF Elements
  <2> QED BY <1>1, <2>1, <2>2
<1>6. {work[i] : i \in 1 .. Len(work) - 1} = Elements(work) \ {Top}
  <2>1. \A i \in 1 .. Len(work) - 1 : work[i] # Top
    <3>1. \A i \in 1 .. Len(work) - 1 : index[work[i]] < index[Top]
      BY <1>2 DEF TarjanInv, Rising, Top
    <3>2. index[Top] \in Int
      BY <1>2 DEF TarjanInv, TarjanTypeOK
    <3> QED BY <3>1, <3>2
  <2>2. \A i \in DOMAIN work : i \in 1 .. Len(work) - 1 \/ work[i] = Top
    BY <1>2 DEF Top
  <2>3. 1 .. Len(work) - 1 \subseteq DOMAIN work
    BY <1>2
  <2>4. ASSUME NEW x \in Elements(work) \ {Top}
        PROVE  x \in {work[i] : i \in 1 .. Len(work) - 1}
    <3>1. PICK i \in DOMAIN work : work[i] = x
      BY DEF Elements
    <3> QED BY <2>2, <3>1
  <2>5. ASSUME NEW i \in 1 .. Len(work) - 1
        PROVE  work[i] \in Elements(work) \ {Top}
    BY <2>1, <2>3 DEF Elements
  <2> QED BY <2>4, <2>5
<1>7. /\ lowlink' \in [Node -> Int]
      /\ \A x \in Node :
           lowlink'[x] = IF Len(work) > 1 /\ x = work[Len(work) - 1]
                         THEN Smaller(lowlink[x], lowlink[Top])
                         ELSE lowlink[x]
  <2>1. CASE Len(work) = 1
    BY <1>1, <1>2, <2>1
  <2>2. CASE Len(work) # 1
    <3>1. work[Len(work) - 1] \in Node
      BY <1>2, <2>2
    <3> QED BY <1>1, <1>2, <2>2, <3>1 DEF Smaller
  <2> QED BY <2>1, <2>2
<1> QED BY <1>1, <1>3, <1>5, <1>6, <1>7 DEF Popped

\* The parent's link covers its own stretch of the stack and the one it
\* inherits; PathReaches and the order of the stacks are not disturbed.
LEMMA PoppedLinks ==
  ASSUME TarjanInv, work # <<>>, Popped, left[Top] = {},
         OnStack' \subseteq OnStack,
         \A x \in OnStack' : ~(index[Top] <= index[x]) \/ OnStack' = OnStack
  PROVE  LinkBounds' /\ PathReaches' /\ Scanned'
<1>1. /\ Len(work) \in Nat \ {0} /\ work \in Seq(Node)
      /\ DOMAIN work = 1 .. Len(work)
      /\ Top \in OnStack /\ Top \in Node
      /\ \A x \in OnStack : index[x] \in Int /\ lowlink[x] \in Int
      /\ \A x \in OnStack : x \in Node
      /\ \A i \in DOMAIN work : work[i] \in OnStack
  BY TopFacts
     DEF TarjanInv, TarjanTypeOK, Split, Seen, Rising, Elements
<1>2. /\ UNCHANGED <<succ, left, index, Seen>>
      /\ \A x, y : Reach(x, y)' <=> Reach(x, y)
      /\ Len(work') = Len(work) - 1
      /\ DOMAIN work' = 1 .. Len(work) - 1
      /\ \A i \in 1 .. Len(work) - 1 : work'[i] = work[i]
      /\ Elements(work)' = Elements(work) \ {Top}
  <2>1. work' \in Seq(Node) /\ Len(work') = Len(work) - 1
    BY DEF Popped
  <2>2. DOMAIN work' = 1 .. Len(work) - 1
    BY <2>1
  <2> QED BY <2>1, <2>2 DEF Popped
<1>3. \A x \in Node :
        lowlink'[x] = IF Len(work) > 1 /\ x = work[Len(work) - 1]
                      THEN Smaller(lowlink[x], lowlink[Top])
                      ELSE lowlink[x]
  BY DEF Popped
<1>4. LinkBounds'
  <2>1. ASSUME NEW i \in 1 .. Len(work) - 1, NEW x \in OnStack',
               index[work[i]] <= index[x],
               i < Len(work) - 1 => index[x] < index[work[i + 1]],
               NEW z \in (succ[x] \ left[x]) \cap OnStack'
        PROVE  lowlink'[work[i]] <= index[z]
    <3>1. /\ i \in DOMAIN work /\ x \in OnStack /\ z \in OnStack
          /\ z \in (succ[x] \ left[x]) \cap OnStack
          /\ work[i] \in OnStack /\ work[i] \in Node
      BY <1>1, <2>1
    <3>2. lowlink'[work[i]] <= lowlink[work[i]] /\ lowlink'[work[i]] \in Int
      BY <1>1, <1>3, <3>1 DEF Smaller
    <3>3. CASE i < Len(work) - 1
      <4>1. lowlink[work[i]] <= index[z]
        BY <2>1, <3>1, <3>3 DEF TarjanInv, LinkBounds
      <4> QED BY <1>1, <3>1, <3>2, <4>1
    <3>4. CASE i = Len(work) - 1 /\ index[x] < index[Top]
      <4>1. work[i + 1] = Top
        BY <1>1, <3>4 DEF Top
      <4>2. lowlink[work[i]] <= index[z]
        BY <2>1, <3>1, <3>4, <4>1 DEF TarjanInv, LinkBounds
      <4> QED BY <1>1, <3>1, <3>2, <4>2
    <3>5. CASE i = Len(work) - 1 /\ index[Top] <= index[x]
      <4>1. Len(work) \in DOMAIN work /\ work[Len(work)] = Top
        BY <1>1 DEF Top
      <4>2. lowlink[Top] <= index[z]
        BY <3>1, <3>5, <4>1 DEF TarjanInv, LinkBounds
      <4>3. lowlink'[work[i]] <= lowlink[Top]
        BY <1>1, <1>3, <2>1, <3>1, <3>5 DEF Smaller
      <4> QED BY <1>1, <3>1, <3>2, <4>2, <4>3
    <3>6. i < Len(work) - 1 \/ i = Len(work) - 1
      <4> DEFINE w == Len(work)
      <4>1. w \in Nat /\ i \in 1 .. w - 1
        BY <1>1
      <4> HIDE DEF w
      <4>2. i < w - 1 \/ i = w - 1
        BY <4>1
      <4> QED BY <4>2 DEF w
    <3>7. index[x] < index[Top] \/ index[Top] <= index[x]
      BY <1>1, <3>1
    <3> QED BY <3>3, <3>4, <3>5, <3>6, <3>7
  <2>2. ASSUME NEW i \in DOMAIN work', NEW x \in OnStack',
               index'[work'[i]] <= index'[x],
               i < Len(work') => index'[x] < index'[work'[i + 1]],
               NEW z \in (succ'[x] \ left'[x]) \cap OnStack'
        PROVE  lowlink'[work'[i]] <= index'[z]
    <3>1. i < Len(work) - 1 => work'[i + 1] = work[i + 1]
      BY <1>1, <1>2, <2>2
    <3> QED BY <1>1, <1>2, <2>1, <2>2, <3>1
  <2> QED BY <2>2 DEF LinkBounds
<1>5. PathReaches'
  BY <1>2 DEF TarjanInv, PathReaches
<1>6. Scanned'
  BY <1>2 DEF TarjanInv, Scanned
<1> QED BY <1>4, <1>5, <1>6

LEMMA EmitInv ==
  ASSUME TarjanInv, Emit
  PROVE  TarjanInv'
<1>1. work # <<>> /\ left[Top] = {} /\ lowlink[Top] = index[Top] /\ Return
  BY DEF Emit
<1>2. PICK k \in DOMAIN stack :
        /\ stack[k] = Top
        /\ result' = Append(result, {stack[i] : i \in k .. Len(stack)})
        /\ stack' = SubSeq(stack, 1, k - 1)
  BY DEF Emit
<1>3. Popped
  BY <1>1, ReturnSets
<1> DEFINE C == {x \in OnStack : index[Top] <= index[x]}
<1>4. /\ Len(work) \in Nat \ {0}
      /\ Top \in Elements(work) /\ Top \in OnStack
      /\ DOMAIN work = 1 .. Len(work)
      /\ \A x \in OnStack : index[x] \in Int /\ lowlink[x] \in Int
      /\ Elements(work) \subseteq OnStack
      /\ OnStack \subseteq Seen /\ Seen \subseteq Node
  BY <1>1, TopFacts DEF TarjanInv, Rising, Split, Seen
<1>5. /\ stack \in Seq(Node) /\ DOMAIN stack = 1 .. Len(stack)
      /\ Len(stack) \in Nat
      /\ k \in 1 .. Len(stack) /\ k - 1 \in 0 .. Len(stack)
  BY DEF TarjanInv, TarjanTypeOK
<1>6. \A i \in 1 .. Len(stack) : /\ stack[i] \in OnStack
                                 /\ i < k => index[stack[i]] < index[Top]
                                 /\ k <= i => index[Top] <= index[stack[i]]
  <2>1. ASSUME NEW i \in 1 .. Len(stack)
        PROVE  /\ stack[i] \in OnStack
               /\ i < k => index[stack[i]] < index[Top]
               /\ k <= i => index[Top] <= index[stack[i]]
    <3>1. stack[i] \in OnStack
      BY <1>5 DEF OnStack, Elements
    <3>2. i < k => index[stack[i]] < index[Top]
      BY <1>2, <1>5 DEF TarjanInv, Rising
    <3>3. k < i => index[Top] < index[stack[i]]
      BY <1>2, <1>5 DEF TarjanInv, Rising
    <3>4. k = i => index[Top] = index[stack[i]]
      BY <1>2
    <3> QED BY <1>4, <1>5, <3>1, <3>2, <3>3, <3>4
  <2> QED BY <2>1
<1>7. /\ stack' \in Seq(Node)
      /\ Len(stack') = k - 1
      /\ \A i \in 1 .. k - 1 : stack'[i] = stack[i]
      /\ OnStack' = {stack[i] : i \in 1 .. k - 1}
  <2> DEFINE l == k - 1
  <2>1. l \in 0 .. Len(stack)
    BY <1>5
  <2> HIDE DEF l
  <2>2. /\ SubSeq(stack, 1, l) \in Seq(Node)
        /\ Len(SubSeq(stack, 1, l)) = l
        /\ \A i \in 1 .. l : SubSeq(stack, 1, l)[i] = stack[i]
        /\ Elements(SubSeq(stack, 1, l)) = {stack[i] : i \in 1 .. l}
    BY <1>5, <2>1, ElementsPrefix
  <2>3. OnStack' = Elements(SubSeq(stack, 1, k - 1))
    BY <1>2 DEF OnStack, Elements
  <2> QED BY <1>2, <2>2, <2>3 DEF l
<1>8. {stack[i] : i \in k .. Len(stack)} = C
  <2>1. ASSUME NEW i \in k .. Len(stack) PROVE stack[i] \in C
    BY <1>5, <1>6
  <2>2. ASSUME NEW x \in C PROVE \E i \in k .. Len(stack) : stack[i] = x
    <3>1. PICK i \in 1 .. Len(stack) : stack[i] = x
      BY <1>5 DEF OnStack, Elements
    <3>2. k <= i
      BY <1>4, <1>5, <1>6, <3>1
    <3> QED BY <1>5, <3>1, <3>2
  <2> QED BY <2>1, <2>2
<1>9. OnStack' = OnStack \ C
  <2>1. ASSUME NEW i \in 1 .. k - 1 PROVE stack[i] \in OnStack \ C
    BY <1>4, <1>5, <1>6
  <2>2. ASSUME NEW x \in OnStack \ C
        PROVE  \E i \in 1 .. k - 1 : stack[i] = x
    <3>1. PICK i \in 1 .. Len(stack) : stack[i] = x
      BY <1>5 DEF OnStack, Elements
    <3>2. i < k
      BY <1>5, <1>6, <3>1
    <3> QED BY <1>5, <3>1, <3>2
  <2> QED BY <1>7, <2>1, <2>2
<1>10. /\ result \in Seq(SUBSET Node) /\ C \in SUBSET Node
       /\ result' = Append(result, C)
       /\ Emitted' = Emitted \cup C
       /\ Elements(result)' = Elements(result) \cup {C}
  <2>1. result \in Seq(SUBSET Node) /\ C \in SUBSET Node
    BY <1>4 DEF TarjanInv, TarjanTypeOK
  <2>2. result' = Append(result, C)
    BY <1>2, <1>8
  <2>3. Elements(Append(result, C)) = Elements(result) \cup {C}
    <3> HIDE DEF C
    <3> QED BY <2>1, ElementsAppend
  <2>4. Elements(result)' = Elements(Append(result, C))
    BY <2>2 DEF Elements
  <2> QED BY <2>1, <2>2, <2>3, <2>4 DEF Emitted
<1>11. /\ DOMAIN result = 1 .. Len(result) /\ Len(result) \in Nat
       /\ DOMAIN result' = 1 .. Len(result) + 1
       /\ \A i \in 1 .. Len(result) : result'[i] = result[i]
       /\ result'[Len(result) + 1] = C
  <2> HIDE DEF C
  <2> QED BY <1>10
<1>12. \A x \in OnStack : lowlink'[x] = lowlink[x]
  <2>1. ASSUME NEW x \in OnStack, Len(work) > 1, x = work[Len(work) - 1]
        PROVE  lowlink[x] <= lowlink[Top]
    <3>1. Len(work) - 1 \in DOMAIN work
      BY <1>4, <2>1
    <3>2. x \in Elements(work)
      BY <2>1, <3>1 DEF Elements
    <3>3. index[x] <= index[Top]
      BY <1>1, <1>4, <3>2, TopFacts
    <3>4. lowlink[x] <= index[x]
      BY DEF TarjanInv, LinkReaches
    <3> QED BY <1>1, <1>4, <3>3, <3>4
  <2>2. \A x \in OnStack :
          lowlink'[x] = IF Len(work) > 1 /\ x = work[Len(work) - 1]
                        THEN Smaller(lowlink[x], lowlink[Top])
                        ELSE lowlink[x]
    BY <1>3, <1>4 DEF Popped
  <2> QED BY <1>4, <2>1, <2>2 DEF Smaller
<1>13. \A x \in C : succ[x] \subseteq Emitted \cup C
  <2>1. ASSUME NEW x \in C, NEW z \in succ[x]
        PROVE  z \in Emitted \cup C
    <3>1. x \notin Elements(work) \/ x = Top
      BY <1>1, <1>4, TopFacts
    <3>2. left[x] = {}
      BY <1>1, <1>4, <3>1 DEF TarjanInv, Scanned
    <3>3. z \in Seen
      BY <1>4, <3>2 DEF TarjanInv, Scanned
    <3>4. CASE z \in OnStack
      <4>1. Len(work) \in DOMAIN work /\ work[Len(work)] = Top
        BY <1>4 DEF Top
      <4>2. lowlink[Top] <= index[z]
        BY <1>4, <3>2, <3>4, <4>1 DEF TarjanInv, LinkBounds
      <4> QED BY <1>1, <3>4, <4>2
    <3>5. CASE z \in Emitted
      BY <3>5
    <3> QED BY <3>3, <3>4, <3>5 DEF TarjanInv, Split
  <2> QED BY <2>1
<1>14. \A x, y \in C : Reach(x, y)
  <2>1. ASSUME NEW x \in C, NEW y \in C PROVE Reach(x, y)
    <3>1. PICK v \in Elements(work) : index[v] <= index[x] /\ Reach(x, v)
      BY DEF TarjanInv, Anchored
    <3>2. index[v] <= index[Top]
      BY <1>1, <1>4, TopFacts
    <3>3. Reach(v, y)
      BY <1>4, <3>2 DEF TarjanInv, PathReaches
    <3> QED BY <3>1, <3>3, ReachTrans
  <2> QED BY <2>1
<1>15. /\ UNCHANGED <<roots, succ, left, index, counter, Live, Seen>>
       /\ \A x, y : Reach(x, y)' <=> Reach(x, y)
       /\ work' \in Seq(Node) /\ lowlink' \in [Node -> Int]
       /\ Elements(work)' = Elements(work) \ {Top}
  BY <1>3 DEF Popped
<1> HIDE DEF C
<1>16. TarjanTypeOK'
  <2>1. result' \in Seq(SUBSET Node)
    BY <1>10
  <2> QED BY <1>7, <1>15, <2>1 DEF TarjanInv, TarjanTypeOK
<1>17. Numbered'
  BY <1>15 DEF TarjanInv, Numbered
<1>18. Rising'
  <2>1. DOMAIN stack' = 1 .. k - 1 /\ 1 .. k - 1 \subseteq DOMAIN stack
    BY <1>5, <1>7
  <2>2. /\ \A i \in DOMAIN stack' : stack'[i] \in Seen'
        /\ \A i, j \in DOMAIN stack' :
             i < j => index'[stack'[i]] < index'[stack'[j]]
    BY <1>7, <1>15, <2>1 DEF TarjanInv, Rising
  <2>3. DOMAIN work' = 1 .. Len(work) - 1
        /\ 1 .. Len(work) - 1 \subseteq DOMAIN work
        /\ \A i \in 1 .. Len(work) - 1 : work'[i] = work[i]
    <3>1. work' \in Seq(Node) /\ Len(work') = Len(work) - 1
          /\ \A i \in 1 .. Len(work) - 1 : work'[i] = work[i]
      BY <1>3 DEF Popped
    <3> QED BY <1>4, <3>1
  <2>4. \A i, j \in DOMAIN work' :
          i < j => index'[work'[i]] < index'[work'[j]]
    BY <1>15, <2>3 DEF TarjanInv, Rising
  <2>5. Elements(work)' \subseteq OnStack'
    <3>1. \A x \in Elements(work) \ {Top} : index[x] < index[Top]
      BY <1>1, TopFacts
    <3> QED BY <1>4, <1>9, <1>15, <3>1 DEF C
  <2> QED BY <2>2, <2>4, <2>5 DEF Rising
<1>19. Split'
  <2>1. Seen' = OnStack' \cup Emitted' /\ OnStack' \cap Emitted' = {}
    BY <1>9, <1>10, <1>15 DEF TarjanInv, Split, C
  <2>2. \A i \in 1 .. Len(result) : result[i] \cap C = {}
    BY <1>11 DEF TarjanInv, Split, Emitted, Elements, C
  <2>3. ASSUME NEW i \in DOMAIN result', NEW j \in DOMAIN result', i # j
        PROVE  result'[i] \cap result'[j] = {}
    <3>1. CASE i \in 1 .. Len(result) /\ j \in 1 .. Len(result)
      BY <1>11, <2>3, <3>1 DEF TarjanInv, Split
    <3>2. CASE i \in 1 .. Len(result) /\ j = Len(result) + 1
      BY <1>11, <2>2, <3>2
    <3>3. CASE i = Len(result) + 1 /\ j \in 1 .. Len(result)
      BY <1>11, <2>2, <3>3
    <3> QED BY <1>11, <2>3, <3>1, <3>2, <3>3
  <2> QED BY <1>15, <2>1, <2>3 DEF TarjanInv, Split
<1>20. Components'
  <2>1. ASSUME NEW i \in DOMAIN result', NEW x \in result'[i]
        PROVE  /\ succ'[x] \subseteq UNION {result'[j] : j \in 1 .. i}
               /\ \A y \in result'[i] : Reach(x, y)'
    <3>1. CASE i \in 1 .. Len(result)
      <4>1. \A j \in 1 .. i : result'[j] = result[j]
        BY <1>11, <3>1
      <4>2. {result'[j] : j \in 1 .. i} = {result[j] : j \in 1 .. i}
        BY <4>1
      <4>3. i \in DOMAIN result /\ x \in result[i]
        BY <1>11, <2>1, <3>1
      <4>4. succ[x] \subseteq UNION {result[j] : j \in 1 .. i}
            /\ \A y \in result[i] : Reach(x, y)
        BY <4>3 DEF TarjanInv, Components
      <4> QED BY <1>11, <1>15, <3>1, <4>2, <4>4
    <3>2. CASE i = Len(result) + 1
      <4>1. Emitted \cup C \subseteq UNION {result'[j] : j \in 1 .. i}
        BY <1>11, <3>2 DEF Emitted, Elements
      <4> QED BY <1>11, <1>13, <1>14, <1>15, <2>1, <3>2, <4>1
    <3> QED BY <1>11, <3>1, <3>2
  <2> QED BY <2>1 DEF Components
<1>21. LinkReaches'
  <2>1. ASSUME NEW x \in OnStack'
        PROVE  /\ lowlink'[x] <= index'[x]
               /\ \E m \in OnStack' : index'[m] = lowlink'[x]
                                      /\ Reach(x, m)'
    <3>1. x \in OnStack /\ index[x] < index[Top] /\ lowlink[x] <= index[x]
      BY <1>4, <1>9 DEF TarjanInv, LinkReaches, C
    <3>2. PICK m \in OnStack : index[m] = lowlink[x] /\ Reach(x, m)
      BY <3>1 DEF TarjanInv, LinkReaches
    <3>3. m \in OnStack'
      BY <1>4, <1>9, <3>1, <3>2 DEF C
    <3> QED BY <1>12, <1>15, <3>1, <3>2, <3>3
  <2> QED BY <2>1 DEF LinkReaches
<1>22. Anchored'
  <2>1. ASSUME NEW x \in OnStack'
        PROVE  \E v \in Elements(work)' :
                 index'[v] <= index'[x] /\ Reach(x, v)'
    <3>1. x \in OnStack /\ index[x] < index[Top]
      BY <1>4, <1>9 DEF C
    <3>2. PICK v \in Elements(work) : index[v] <= index[x] /\ Reach(x, v)
      BY <3>1 DEF TarjanInv, Anchored
    <3>3. v # Top
      BY <1>4, <3>1, <3>2
    <3> QED BY <1>15, <3>2, <3>3
  <2> QED BY <2>1 DEF Anchored
<1>23. LinkBounds' /\ PathReaches' /\ Scanned'
  <2>1. /\ OnStack' \subseteq OnStack
        /\ \A x \in OnStack' : ~(index[Top] <= index[x])
    BY <1>9 DEF C
  <2> QED BY <1>1, <1>3, <2>1, PoppedLinks
<1> QED
  BY <1>16, <1>17, <1>18, <1>19, <1>20, <1>21, <1>22, <1>23 DEF TarjanInv

LEMMA RetreatInv ==
  ASSUME TarjanInv, Retreat
  PROVE  TarjanInv'
<1>1. /\ work # <<>> /\ left[Top] = {} /\ lowlink[Top] # index[Top]
      /\ Return /\ UNCHANGED <<stack, result>>
  BY DEF Retreat
<1>2. Popped
  BY <1>1, ReturnSets
<1>3. /\ Len(work) \in Nat \ {0}
      /\ Top \in Elements(work) /\ Top \in OnStack
      /\ DOMAIN work = 1 .. Len(work)
      /\ \A x \in OnStack : index[x] \in Int /\ lowlink[x] \in Int
      /\ Elements(work) \subseteq OnStack
      /\ OnStack \subseteq Seen /\ Seen \subseteq Node
  BY <1>1, TopFacts DEF TarjanInv, Rising, Split, Seen
<1>4. /\ UNCHANGED <<roots, succ, left, index, counter, Live, Seen>>
      /\ \A x, y : Reach(x, y)' <=> Reach(x, y)
      /\ work' \in Seq(Node) /\ lowlink' \in [Node -> Int]
      /\ Elements(work)' = Elements(work) \ {Top}
  BY <1>2 DEF Popped
<1>5. UNCHANGED <<OnStack, Emitted>>
  BY <1>1 DEF OnStack, Emitted, Elements
<1>6. PICK v \in Elements(work) : index[v] < index[Top] /\ Reach(Top, v)
  <2>1. PICK m \in OnStack : index[m] = lowlink[Top] /\ Reach(Top, m)
    BY <1>3 DEF TarjanInv, LinkReaches
  <2>2. lowlink[Top] < index[Top]
    BY <1>1, <1>3 DEF TarjanInv, LinkReaches
  <2>3. PICK v \in Elements(work) : index[v] <= index[m] /\ Reach(m, v)
    BY DEF TarjanInv, Anchored
  <2> QED BY <1>3, <2>1, <2>2, <2>3, ReachTrans
<1>7. \A x \in Node :
        lowlink'[x] = IF Len(work) > 1 /\ x = work[Len(work) - 1]
                      THEN Smaller(lowlink[x], lowlink[Top])
                      ELSE lowlink[x]
  BY <1>2 DEF Popped
<1>8. TarjanTypeOK' /\ Numbered' /\ Split' /\ Components'
  <2>1. TarjanTypeOK'
    BY <1>1, <1>4 DEF TarjanInv, TarjanTypeOK
  <2>2. Numbered'
    BY <1>4 DEF TarjanInv, Numbered
  <2>3. Split'
    BY <1>1, <1>4, <1>5 DEF TarjanInv, Split
  <2>4. Components'
    BY <1>1, <1>4 DEF TarjanInv, Components
  <2> QED BY <2>1, <2>2, <2>3, <2>4
<1>9. Rising'
  <2>1. /\ DOMAIN work' = 1 .. Len(work) - 1
        /\ 1 .. Len(work) - 1 \subseteq DOMAIN work
        /\ \A i \in 1 .. Len(work) - 1 : work'[i] = work[i]
    <3>1. work' \in Seq(Node) /\ Len(work') = Len(work) - 1
          /\ \A i \in 1 .. Len(work) - 1 : work'[i] = work[i]
      BY <1>2 DEF Popped
    <3> QED BY <1>3, <3>1
  <2>2. \A i, j \in DOMAIN work' :
          i < j => index'[work'[i]] < index'[work'[j]]
    BY <1>4, <2>1 DEF TarjanInv, Rising
  <2> QED BY <1>1, <1>4, <1>5, <2>2 DEF TarjanInv, Rising
<1>10. LinkReaches'
  <2>1. ASSUME NEW x \in OnStack
        PROVE  /\ lowlink'[x] <= index[x]
               /\ \E m \in OnStack : index[m] = lowlink'[x] /\ Reach(x, m)
    <3>1. lowlink[x] <= index[x]
      BY DEF TarjanInv, LinkReaches
    <3>2. CASE lowlink'[x] = lowlink[x]
      BY <3>2 DEF TarjanInv, LinkReaches
    <3>3. CASE lowlink'[x] # lowlink[x]
      <4>1. /\ x = work[Len(work) - 1] /\ Len(work) > 1
            /\ lowlink'[x] = lowlink[Top] /\ lowlink[Top] <= lowlink[x]
        BY <1>3, <1>7, <3>3 DEF Smaller
      <4>2. x \in Elements(work)
        <5>1. Len(work) - 1 \in DOMAIN work
          BY <1>3, <4>1
        <5> QED BY <4>1, <5>1 DEF Elements
      <4>3. index[x] <= index[Top]
        BY <1>1, <1>3, <4>2, TopFacts
      <4>4. Reach(x, Top)
        BY <1>3, <4>2, <4>3 DEF TarjanInv, PathReaches
      <4>5. PICK m \in OnStack : index[m] = lowlink[Top] /\ Reach(Top, m)
        BY <1>3 DEF TarjanInv, LinkReaches
      <4>6. Reach(x, m)
        BY <4>4, <4>5, ReachTrans
      <4> QED BY <1>3, <3>1, <4>1, <4>5, <4>6
    <3> QED BY <3>2, <3>3
  <2> QED BY <1>4, <1>5, <2>1 DEF LinkReaches
<1>11. Anchored'
  <2>1. ASSUME NEW x \in OnStack
        PROVE  \E u \in Elements(work) \ {Top} :
                 index[u] <= index[x] /\ Reach(x, u)
    <3>1. PICK u \in Elements(work) : index[u] <= index[x] /\ Reach(x, u)
      BY DEF TarjanInv, Anchored
    <3>2. CASE u = Top
      <4>1. Reach(x, v)
        BY <1>6, <3>1, <3>2, ReachTrans
      <4> QED BY <1>3, <1>6, <3>1, <3>2, <4>1
    <3>3. CASE u # Top
      BY <3>1, <3>3
    <3> QED BY <3>2, <3>3
  <2> QED BY <1>4, <1>5, <2>1 DEF Anchored
<1>12. LinkBounds' /\ PathReaches' /\ Scanned'
  BY <1>1, <1>2, <1>5, PoppedLinks
<1> QED BY <1>8, <1>9, <1>10, <1>11, <1>12 DEF TarjanInv

-----------------------------------------------------------------------------

\* A step of the search, or none, keeps the invariant; other modules use it
\* for the searches they run.
LEMMA SearchInv ==
  ASSUME TarjanInv, [Search]_tarjanVars
  PROVE  TarjanInv'
<1>1. CASE StartRoot
  BY <1>1, StartRootInv
<1>2. CASE Descend
  BY <1>2, DescendInv
<1>3. CASE Look
  BY <1>3, LookInv
<1>4. CASE Emit
  BY <1>4, EmitInv
<1>5. CASE Retreat
  BY <1>5, RetreatInv
<1>6. CASE UNCHANGED tarjanVars
  BY <1>6, TarjanStutter
<1> QED BY <1>1, <1>2, <1>3, <1>4, <1>5, <1>6 DEF Search

\* The invariant gives what the callers rely on: a node that reaches a
\* component and is reached from it was emitted with it, because everything
\* a component reaches was emitted no later than it.
LEMMA InvScc ==
  ASSUME TarjanInv
  PROVE  SccCorrect
<1> DEFINE Upto(i) == UNION {result[j] : j \in 1 .. i}
<1>1. /\ result \in Seq(SUBSET Node)
      /\ DOMAIN result = 1 .. Len(result) /\ Len(result) \in Nat
  BY DEF TarjanInv, TarjanTypeOK
<1>2. ASSUME NEW i \in DOMAIN result
      PROVE  Upto(i) \subseteq Emitted /\ Emitted \subseteq Live
  BY <1>1 DEF TarjanInv, Split, Emitted, Elements
<1>3. ASSUME NEW i \in DOMAIN result, NEW x \in Upto(i)
      PROVE  succ[x] \subseteq Upto(i)
  <2>1. PICK j \in 1 .. i : x \in result[j]
    OBVIOUS
  <2>2. j \in DOMAIN result /\ 1 .. j \subseteq 1 .. i
    BY <1>1
  <2> QED BY <2>1, <2>2 DEF TarjanInv, Components
<1>4. ASSUME NEW i \in DOMAIN result, NEW x \in Upto(i), NEW y, Reach(x, y)
      PROVE  y \in Upto(i)
  BY <1>2, <1>3, <1>4 DEF Reach, Closed
<1>5. ASSUME NEW i \in DOMAIN result, NEW x \in result[i], NEW y \in Live,
             Reach(x, y), Reach(y, x)
      PROVE  y \in result[i]
  <2>1. x \in Upto(i)
    BY <1>1
  <2>2. y \in Upto(i)
    BY <1>4, <1>5, <2>1
  <2>3. PICK j \in 1 .. i : y \in result[j]
    BY <2>2
  <2>4. j \in DOMAIN result /\ y \in Upto(j)
    BY <1>1, <2>3
  <2>5. x \in Upto(j)
    BY <1>4, <1>5, <2>4
  <2>6. PICK k \in 1 .. j : x \in result[k]
    BY <2>5
  <2>7. k \in DOMAIN result
    BY <1>1, <2>6
  <2>8. k = i
    BY <2>6, <2>7 DEF TarjanInv, Split
  <2>9. j = i
    BY <1>1, <2>3, <2>6, <2>8
  <2> QED BY <2>3, <2>9
<1>6. ASSUME NEW i \in DOMAIN result, NEW x \in result[i]
      PROVE  /\ \A y \in Live : y \in result[i] <=> Reach(x, y) /\ Reach(y, x)
             /\ succ[x] \subseteq Upto(i)
  BY <1>5 DEF TarjanInv, Components
<1>7. ASSUME Finished PROVE roots \subseteq Emitted
  <2>1. Elements(work) = {}
    BY <1>7 DEF Finished, Elements
  <2>2. OnStack = {}
    BY <2>1 DEF TarjanInv, Anchored
  <2> QED BY <1>7, <2>2 DEF Finished, TarjanInv, Split
<1> QED BY <1>6, <1>7 DEF SccCorrect

\* The search started on any graph satisfies its invariant ...
THEOREM SearchInvariant == Spec => []TarjanInv
<1>1. Start => TarjanInv
  BY FreshInv DEF Start
<1>2. TarjanInv /\ [Search]_tarjanVars => TarjanInv'
  BY SearchInv
<1> QED BY <1>1, <1>2, PTL DEF Spec

\* ... and so tarjan_scc emits exactly the strongly connected components,
\* sinks first, of every graph (metrics.py, 40-100).
THEOREM SearchCorrect == Spec => []SccCorrect
<1>1. TarjanInv => SccCorrect
  BY InvScc
<1> QED BY <1>1, SearchInvariant, PTL

-----------------------------------------------------------------------------
\* The pipeline: its invariant.

\* From the recomposer's search on, the graph is the one of the parts.
OnParts ==
  stage \notin {"order", "cycles", "files"} =>
    roots = CodeModules /\ succ = PartGraph

PlanTypeOK ==
  /\ ftype \in FileTypes
  /\ imports \in Imports
  /\ stage \in Stages
  /\ units \subseteq SUBSET CodeModules
  /\ IsFiniteSet(units)
  /\ todo \subseteq units
  /\ owner \in [File -> Nat]
  /\ at \in Nat

\* Every code module is in a unit, and the steps stay as they were scheduled.
UnitsCover == stage = "relax" \/ Planned => UNION units = CodeModules
Scheduled  == Planned => steps = AllSteps

\* The numbers the single-owner pass has passed are those of steps whose
\* files are all claimed.
Claimed == {s \in steps : \A f \in s.files \cap File : owner[f] # 0}
ClaimedSoFar ==
  stage = "claim" =>
    /\ at >= 1
    /\ \A k \in 1 .. (at - 1) : \E s \in Claimed : Number(s) = k
AllClaimed == stage \in {"resolve", "done", "failed"} => Claimed = steps

PlanInv ==
  /\ TarjanInv
  /\ PlanTypeOK
  /\ OnParts
  /\ UnitsCover
  /\ Scheduled
  /\ ClaimedSoFar
  /\ AllClaimed

-----------------------------------------------------------------------------

\* The graphs the pipeline hands to the search are graphs over its nodes.
LEMMA GraphsOK ==
  /\ CodeModules \in SUBSET Node
  /\ ModuleGraph \in Graphs
  /\ PartGraph \in Graphs
  /\ \A c : GroupFiles(c) \in SUBSET Node /\ FileGraph(GroupFiles(c)) \in Graphs
<1>1. /\ Node = File \cup Module
      /\ Home \in [File -> Module]
  BY GraphAssumption
<1>2. CodeModules \in SUBSET Node
  BY <1>1 DEF CodeModules
<1>3. \A m : Prod(m) \subseteq Module
  BY <1>1 DEF Prod, Adjacency, Targets
<1>4. ModuleGraph \in Graphs /\ PartGraph \in Graphs
  BY <1>1, <1>3 DEF ModuleGraph, PartGraph, Graphs
<1>5. ASSUME NEW c
      PROVE  GroupFiles(c) \in SUBSET Node /\ FileGraph(GroupFiles(c)) \in Graphs
  <2>1. GroupFiles(c) \in SUBSET Node
    BY <1>1 DEF GroupFiles, Code
  <2> QED BY <2>1 DEF FileGraph, Graphs
<1> QED BY <1>2, <1>4, <1>5

\* What a function takes a finite set to is finite.
LEMMA FiniteRange ==
  ASSUME NEW S, IsFiniteSet(S), NEW f, DOMAIN f = S, f = [x \in S |-> f[x]]
  PROVE  IsFiniteSet({f[x] : x \in S})
<1> DEFINE T == {f[x] : x \in S}
<1>1. f \in Surjection(S, T)
  BY DEF Surjection
<1> QED BY <1>1, FS_Surjection

LEMMA FiniteElements ==
  ASSUME NEW S, NEW s \in Seq(S)
  PROVE  IsFiniteSet(Elements(s))
<1>1. DOMAIN s = 1 .. Len(s) /\ Len(s) \in Nat /\ s = [i \in DOMAIN s |-> s[i]]
  OBVIOUS
<1>2. Len(s) \in Int /\ 1 \in Int
  OBVIOUS
<1>3. IsFiniteSet(1 .. Len(s))
  BY <1>2, FS_Interval
<1> QED BY <1>1, <1>3, FiniteRange DEF Elements

\* A plan has finitely many steps.
LEMMA FiniteSteps ==
  ASSUME IsFiniteSet(units)
  PROVE  IsFiniteSet(AllSteps)
<1>1. ASSUME NEW A, NEW B, IsFiniteSet(A), IsFiniteSet(B)
      PROVE  IsFiniteSet(A \cup B)
  BY <1>1, FS_Union
<1>2. \A x : IsFiniteSet({x})
  BY FS_Singleton
<1>3. IsFiniteSet({})
  BY FS_EmptySet
<1>4. IsFiniteSet(FixedSteps)
  <2> DEFINE a == Step(1, -1, 0, {}, {}, {}, {})
             b == Step(2, -1, 0, {}, {}, {1}, Manifests \ Fixtures)
             c == Step(11, BigLayer, 0, {}, {}, {}, {})
  <2>1. FixedSteps = ({a} \cup {b}) \cup {c}
    BY DEF FixedSteps
  <2> HIDE DEF a, b, c
  <2> QED BY <2>1, <1>1, <1>2
<1>5. IsFiniteSet(FixtureSteps)
  <2> DEFINE a == Step(10, -2, 0, {}, {}, {1}, Fixtures)
  <2>1. FixtureSteps = {} \/ FixtureSteps = {a}
    BY DEF FixtureSteps
  <2> HIDE DEF a
  <2> QED BY <2>1, <1>2, <1>3
<1>6. IsFiniteSet(SchemaSteps)
  <2> DEFINE a == Step(3, -1, 0, {}, {}, {1, 2}, Schemas)
  <2>1. SchemaSteps = {} \/ SchemaSteps = {a}
    BY DEF SchemaSteps
  <2> HIDE DEF a
  <2> QED BY <2>1, <1>2, <1>3
<1>7. IsFiniteSet(DocSteps)
  <2> DEFINE a == Step(12, BigLayer, 0, {}, {}, {}, Documents)
  <2>1. DocSteps = {} \/ DocSteps = {a}
    BY DEF DocSteps
  <2> HIDE DEF a
  <2> QED BY <2>1, <1>2, <1>3
<1>8. IsFiniteSet(OpsSteps)
  <2> DEFINE S == {j \in 1 .. 6 : OpsFiles(j) # {}}
             f == [k \in S |-> Step(9, BigLayer, k, {}, {}, {1}, OpsFiles(k))]
  <2>1. IsFiniteSet(S)
    BY FS_Interval, FS_Subset, S \in SUBSET (1 .. 6)
  <2>2. OpsSteps = {f[k] : k \in S}
    BY DEF OpsSteps
  <2>3. DOMAIN f = S /\ f = [x \in S |-> f[x]]
    OBVIOUS
  <2> HIDE DEF S, f
  <2> QED BY <2>1, <2>2, <2>3, FiniteRange
<1>9. IsFiniteSet({UnitStep(u) : u \in units})
  <2> DEFINE f == [u \in units |-> UnitStep(u)]
  <2>1. {UnitStep(u) : u \in units} = {f[u] : u \in units}
    OBVIOUS
  <2>2. DOMAIN f = units /\ f = [x \in units |-> f[x]]
    OBVIOUS
  <2> HIDE DEF f
  <2> QED BY <2>1, <2>2, FiniteRange
<1>10. IsFiniteSet({WiringStep(d) : d \in {Home[f] : f \in {g \in File : Entry(g)}}})
  <2> DEFINE D == {Home[f] : f \in {g \in File : Entry(g)}}
             f == [d \in D |-> WiringStep(d)]
  <2>1. D \in SUBSET Node /\ IsFiniteSet(Node)
    BY GraphAssumption
  <2>2. IsFiniteSet(D)
    BY <2>1, FS_Subset
  <2>3. {WiringStep(d) : d \in D} = {f[d] : d \in D}
    OBVIOUS
  <2>4. DOMAIN f = D /\ f = [x \in D |-> f[x]]
    OBVIOUS
  <2> HIDE DEF D, f
  <2>5. IsFiniteSet({WiringStep(d) : d \in D})
    BY <2>2, <2>3, <2>4, FiniteRange
  <2> QED BY <2>5 DEF D
<1> QED BY <1>1, <1>4, <1>5, <1>6, <1>7, <1>8, <1>9, <1>10 DEF AllSteps

\* Every file is on the list of some step, unless it was generated into a
\* directory without code: the parts and the catch-all leave nothing out.
LEMMA FilesListed ==
  ASSUME PlanTypeOK, UNION units = CodeModules, NEW f \in File,
         ~(ftype[f] = "generated" /\ Home[f] \notin CodeModules)
  PROVE  \E s \in AllSteps : f \in s.files
<1>1. Home[f] \in Module
  BY GraphAssumption
<1>2. CASE Home[f] \in CodeModules
  <2>1. PICK u \in units : Home[f] \in u
    BY <1>2
  <2>2. UnitStep(u) \in AllSteps /\ f \in UnitStep(u).files
    BY <2>1 DEF AllSteps, UnitStep, Step
  <2> QED BY <2>2
<1>3. CASE f \in Documents
  <2>1. Step(12, BigLayer, 0, {}, {}, {}, Documents) \in AllSteps
    BY <1>3 DEF AllSteps, DocSteps
  <2> QED BY <2>1, <1>3 DEF Step
<1>4. CASE f \in Manifests
  <2>1. CASE f \in Fixtures
    <3>1. Step(10, -2, 0, {}, {}, {1}, Fixtures) \in AllSteps
      BY <2>1 DEF AllSteps, FixtureSteps
    <3> QED BY <2>1, <3>1 DEF Step
  <2>2. CASE f \notin Fixtures
    <3>1. Step(2, -1, 0, {}, {}, {1}, Manifests \ Fixtures) \in AllSteps
      BY DEF AllSteps, FixedSteps
    <3> QED BY <1>4, <2>2, <3>1 DEF Step
  <2> QED BY <2>1, <2>2
<1>5. ASSUME NEW k \in 1 .. 6, f \in OpsFiles(k)
      PROVE  \E s \in AllSteps : f \in s.files
  <2>1. Step(9, BigLayer, k, {}, {}, {1}, OpsFiles(k)) \in AllSteps
    BY <1>5 DEF AllSteps, OpsSteps
  <2> QED BY <2>1, <1>5 DEF Step
<1>6. CASE ftype[f] \in UNION Elements(Categories)
  <2>1. PICK k \in 1 .. 5 : ftype[f] \in Categories[k]
    BY <1>6 DEF Elements, Categories
  <2>2. f \in OpsFiles(k)
    BY <2>1 DEF OpsFiles, OfType
  <2> QED BY <2>2, <1>5
<1>7. CASE f \in Unclassified
  <2>1. f \in OpsFiles(6)
    BY <1>7 DEF OpsFiles
  <2> QED BY <2>1, <1>5
<1>8. \/ Home[f] \in CodeModules
      \/ f \in Documents \cup Manifests \cup Unclassified
      \/ ftype[f] \in UNION Elements(Categories)
  <2>1. ftype[f] \in {"source_code", "test_code"} => Home[f] \in CodeModules
    BY <1>1 DEF CodeModules, Code
  <2>2. f \notin Unclassified =>
          \/ f \in Manifests
          \/ ftype[f] \in {"source_code", "test_code", "documentation",
                           "generated"} \cup UNION Elements(Categories)
    BY DEF Unclassified, OfType
  <2> QED BY <2>1, <2>2 DEF Documents, OfType
<1> QED BY <1>2, <1>3, <1>4, <1>6, <1>7, <1>8

-----------------------------------------------------------------------------

THEOREM PlanInit == Init => PlanInv
<1> SUFFICES ASSUME Init PROVE PlanInv
  OBVIOUS
<1>1. TarjanInv
  BY GraphsOK, FreshInv DEF Init, DecomposeInit
<1>2. PlanTypeOK
  BY FS_EmptySet DEF Init, DecomposeInit, PlanTypeOK, Stages
<1> QED BY <1>1, <1>2 DEF Init, DecomposeInit, PlanInv, OnParts, UnitsCover,
          Scheduled, ClaimedSoFar, AllClaimed, Planned

\* What the definitions over the evidence read does not change.
LEMMA SameEvidence ==
  ASSUME UNCHANGED evidence
  PROVE  /\ UNCHANGED <<CodeModules, PartGraph, ModuleGraph>>
         /\ UNCHANGED <<ftype, imports>>
BY DEF evidence, CodeModules, Code, PartGraph, ModuleGraph, Prod, Adjacency,
       Targets, TestEdge, TestModules

\* A step of the decomposition or of a search leaves the plan alone.
LEMMA PlanUntouched ==
  ASSUME PlanInv, UNCHANGED evidence, UNCHANGED planVars, TarjanInv',
         OnParts', stage \in {"order", "cycles", "files", "units"},
         stage' \in {"order", "cycles", "files", "units"}
  PROVE  PlanInv'
<1>1. UNCHANGED <<units, phase, todo, steps, at, owner>>
  BY DEF planVars
<1>2. PlanTypeOK'
  BY <1>1, SameEvidence DEF PlanInv, PlanTypeOK, Stages
<1>3. (stage = "relax" \/ Planned)' = FALSE /\ Planned' = FALSE
  BY DEF Planned
<1>4. UnitsCover' /\ Scheduled'
  BY <1>3 DEF UnitsCover, Scheduled
<1>5. ClaimedSoFar' /\ AllClaimed'
  BY DEF ClaimedSoFar, AllClaimed
<1> QED BY <1>2, <1>4, <1>5 DEF PlanInv

LEMMA DecomposingInv ==
  ASSUME PlanInv, Decomposing
  PROVE  PlanInv'
<1>1. UNCHANGED planVars /\ DecomposeNext
  BY DEF Decomposing
<1>2. CASE Searching
  <2>1. /\ UNCHANGED <<evidence, stage, layer, cycles, fileOrder>>
        /\ stage \in {"order", "files", "units"}
        /\ Search
    BY <1>2 DEF Searching, docVars
  <2>2. TarjanInv'
    BY <2>1, SearchInv DEF PlanInv
  <2>3. UNCHANGED <<roots, succ>>
    BY <2>1 DEF Search, StartRoot, Descend, Look, Emit, Retreat, Return
  <2>4. OnParts'
    BY <2>1, <2>3, SameEvidence DEF PlanInv, OnParts
  <2> QED BY <1>1, <2>1, <2>2, <2>4, PlanUntouched
<1>3. CASE LayOut
  <2>1. /\ UNCHANGED evidence /\ UNCHANGED tarjanVars
        /\ stage = "order" /\ stage' = "cycles"
    BY <1>3 DEF LayOut
  <2>2. TarjanInv'
    BY <2>1, TarjanStutter DEF PlanInv
  <2>3. OnParts'
    BY <2>1 DEF OnParts
  <2> QED BY <1>1, <2>1, <2>2, <2>3, PlanUntouched
<1>4. CASE TakeCycle
  <2>1. /\ UNCHANGED evidence
        /\ stage = "cycles" /\ stage' = "files"
    BY <1>4 DEF TakeCycle
  <2>2. PICK c : Restart(GroupFiles(c), FileGraph(GroupFiles(c)))
    BY <1>4 DEF TakeCycle
  <2>3. TarjanInv'
    BY <2>2, GraphsOK, RestartInv
  <2>4. OnParts'
    BY <2>1 DEF OnParts
  <2> QED BY <1>1, <2>1, <2>3, <2>4, PlanUntouched
<1>5. CASE OrderFiles
  <2>1. /\ UNCHANGED evidence /\ UNCHANGED tarjanVars
        /\ stage = "files" /\ stage' = "cycles"
    BY <1>5 DEF OrderFiles
  <2>2. TarjanInv'
    BY <2>1, TarjanStutter DEF PlanInv
  <2>3. OnParts'
    BY <2>1 DEF OnParts
  <2> QED BY <1>1, <2>1, <2>2, <2>3, PlanUntouched
<1> QED BY <1>1, <1>2, <1>3, <1>4, <1>5 DEF DecomposeNext

LEMMA TakeUpInv ==
  ASSUME PlanInv, TakeUp
  PROVE  PlanInv'
<1>1. /\ UNCHANGED evidence /\ UNCHANGED planVars
      /\ stage = "cycles" /\ stage' = "units"
      /\ Restart(CodeModules, PartGraph)
  BY DEF TakeUp
<1>2. TarjanInv'
  BY <1>1, GraphsOK, RestartInv
<1>3. OnParts'
  BY <1>1, SameEvidence DEF OnParts, Restart
<1> QED BY <1>1, <1>2, <1>3, PlanUntouched

\* The finished search has put every code module into a component, and
\* nothing else.
LEMMA MakeUnitsInv ==
  ASSUME PlanInv, MakeUnits
  PROVE  PlanInv'
<1>1. /\ UNCHANGED evidence /\ UNCHANGED tarjanVars
      /\ UNCHANGED <<steps, at, owner>>
      /\ stage = "units" /\ stage' = "relax"
      /\ units' = Elements(result) /\ todo' = units'
      /\ Finished
  BY DEF MakeUnits
<1>2. TarjanInv'
  BY <1>1, TarjanStutter DEF PlanInv
<1>3. roots = CodeModules /\ succ = PartGraph
  BY <1>1 DEF PlanInv, OnParts
<1>4. Emitted \subseteq CodeModules
  <2>1. Emitted \subseteq Live
    BY DEF PlanInv, TarjanInv, Split
  <2>2. Live = CodeModules
    BY <1>3 DEF Live, PartGraph
  <2> QED BY <2>1, <2>2
<1>5. CodeModules \subseteq Emitted
  <2>1. SccCorrect
    BY InvScc DEF PlanInv
  <2> QED BY <1>1, <1>3, <2>1 DEF SccCorrect
<1>6. IsFiniteSet(Elements(result))
  BY FiniteElements DEF PlanInv, TarjanInv, TarjanTypeOK
<1>7. UNCHANGED <<roots, succ>>
  BY <1>1 DEF tarjanVars
<1>8. PlanTypeOK'
  <2>1. units' \subseteq SUBSET CodeModules
    BY <1>1, <1>4 DEF Emitted
  <2> QED BY <1>1, <1>6, <2>1, SameEvidence DEF PlanInv, PlanTypeOK, Stages
<1>9. OnParts'
  BY <1>3, <1>7, <1>1, SameEvidence DEF OnParts
<1>10. UnitsCover'
  BY <1>1, <1>4, <1>5, SameEvidence DEF UnitsCover, Emitted
<1>11. Planned' = FALSE
  BY <1>1 DEF Planned
<1>12. Scheduled' /\ ClaimedSoFar' /\ AllClaimed'
  BY <1>1, <1>11 DEF Scheduled, ClaimedSoFar, AllClaimed
<1> QED BY <1>2, <1>8, <1>9, <1>10, <1>12 DEF PlanInv

LEMMA RelaxInv ==
  ASSUME PlanInv, Relax
  PROVE  PlanInv'
<1>1. /\ UNCHANGED evidence /\ UNCHANGED tarjanVars
      /\ UNCHANGED <<stage, units, steps, at, owner>>
      /\ stage = "relax" /\ todo' \subseteq todo
  BY DEF Relax, docVars
<1>2. TarjanInv'
  BY <1>1, TarjanStutter DEF PlanInv
<1>3. PlanTypeOK'
  BY <1>1, SameEvidence DEF PlanInv, PlanTypeOK
<1>4. OnParts'
  BY <1>1, SameEvidence DEF PlanInv, OnParts, tarjanVars
<1>5. UnitsCover'
  BY <1>1, SameEvidence DEF PlanInv, UnitsCover
<1>6. Planned' = FALSE
  BY <1>1 DEF Planned
<1>7. Scheduled' /\ ClaimedSoFar' /\ AllClaimed'
  BY <1>1, <1>6 DEF Scheduled, ClaimedSoFar, AllClaimed
<1> QED BY <1>2, <1>3, <1>4, <1>5, <1>7 DEF PlanInv

\* The steps depend on the evidence, the layers, the units and their phases.
LEMMA SameSteps ==
  ASSUME UNCHANGED evidence, UNCHANGED <<layer, units, phase>>
  PROVE  UNCHANGED AllSteps
<1>1. UNCHANGED <<ftype, imports>> /\ UNCHANGED CodeModules
  BY SameEvidence
<1>2. UNCHANGED TestModules
  BY <1>1 DEF TestModules, Code
<1>3. /\ \A types : OfType(types)' = OfType(types)
      /\ UNCHANGED <<Manifests, Documents, Unclassified, Schemas>>
  BY <1>1 DEF OfType, Manifests, Documents, Unclassified
<1>4. UNCHANGED Fixtures
  BY <1>1, <1>2, <1>3 DEF Fixtures, TestOwned
<1>5. \A k : OpsFiles(k)' = OpsFiles(k)
  BY <1>3 DEF OpsFiles
<1>6. \A m : Prod(m)' = Prod(m)
  BY <1>1, <1>2 DEF Prod, Adjacency, Targets, TestEdge
<1>7. \A u : UnitStep(u)' = UnitStep(u)
  BY <1>1, <1>6 DEF UnitStep, Step, UnitLayer, Needs
<1>8. \A f : Entry(f)' <=> Entry(f)
  BY <1>1 DEF Entry
<1>9. ASSUME NEW d PROVE WiringStep(d)' = WiringStep(d)
  <2> DEFINE entries == {f \in File : Entry(f) /\ Home[f] = d}
             met == {Home[g] : g \in UNION {Targets(f) : f \in entries}}
  <2>1. UNCHANGED entries
    BY <1>8
  <2>2. \A f : Targets(f)' = Targets(f)
    BY <1>1 DEF Targets
  <2>3. UNCHANGED met
    BY <2>1, <2>2
  <2>4. WiringStep(d) = Step(7, BigLayer, d, {}, met \cup {d}, {}, entries)
    BY DEF WiringStep
  <2>5. WiringStep(d)' =
          Step(7, BigLayer, d, {}, met' \cup {d}, {}, entries')
    BY DEF WiringStep
  <2> QED BY <2>1, <2>3, <2>4, <2>5
<1>10. UNCHANGED <<FixedSteps, FixtureSteps, SchemaSteps, OpsSteps, DocSteps>>
  BY <1>3, <1>4, <1>5 DEF FixedSteps, FixtureSteps, SchemaSteps, OpsSteps,
     DocSteps, Step
<1>11. UNCHANGED {UnitStep(u) : u \in units}
  BY <1>7
<1>12. UNCHANGED {WiringStep(d) : d \in {Home[f] : f \in {g \in File : Entry(g)}}}
  BY <1>8, <1>9
<1> QED BY <1>10, <1>11, <1>12 DEF AllSteps

LEMMA ScheduleInv ==
  ASSUME PlanInv, Schedule
  PROVE  PlanInv'
<1>1. /\ UNCHANGED evidence /\ UNCHANGED tarjanVars
      /\ UNCHANGED <<layer, units, phase, todo, owner>>
      /\ stage = "relax" /\ stage' = "claim"
      /\ steps' = AllSteps /\ at' = 1
  BY DEF Schedule
<1>2. TarjanInv'
  BY <1>1, TarjanStutter DEF PlanInv
<1>3. PlanTypeOK'
  BY <1>1, SameEvidence DEF PlanInv, PlanTypeOK, Stages
<1>4. OnParts'
  BY <1>1, SameEvidence DEF PlanInv, OnParts, tarjanVars
<1>5. UnitsCover'
  BY <1>1, SameEvidence DEF PlanInv, UnitsCover
<1>6. Scheduled'
  BY <1>1, SameSteps DEF Scheduled
<1>7. ClaimedSoFar' /\ AllClaimed'
  BY <1>1 DEF ClaimedSoFar, AllClaimed
<1> QED BY <1>2, <1>3, <1>4, <1>5, <1>6, <1>7 DEF PlanInv

\* As many numbers as steps: when each is the number of a claimed step, every
\* step is claimed.
LEMMA Counted ==
  ASSUME IsFiniteSet(steps), NEW C \in SUBSET steps,
         \A k \in 1 .. Cardinality(steps) : \E s \in C : Number(s) = k
  PROVE  C = steps
<1> DEFINE n == Cardinality(steps)
           D == {s \in C : Number(s) \in 1 .. n}
           f == [s \in D |-> Number(s)]
<1>1. n \in Nat
  BY FS_CardinalityType
<1>2. D \in SUBSET steps /\ IsFiniteSet(D)
  BY FS_Subset
<1>3. f \in Surjection(D, 1 .. n)
  BY DEF Surjection
<1>4. Cardinality(1 .. n) = n
  <2>1. n \in Int /\ 1 \in Int
    BY <1>1
  <2>2. Cardinality(1 .. n) = IF 1 > n THEN 0 ELSE n - 1 + 1
    BY <2>1, FS_Interval
  <2> HIDE DEF n
  <2> QED BY <1>1, <2>2
<1> HIDE DEF f
<1>5. n <= Cardinality(D)
  BY <1>2, <1>3, <1>4, FS_Surjection
<1>6. Cardinality(D) <= n /\ (n = Cardinality(D) => steps = D)
  BY <1>2, FS_Subset
<1>7. Cardinality(D) \in Nat
  BY <1>2, FS_CardinalityType
<1>8. n = Cardinality(D)
  <2> HIDE DEF n, D
  <2> QED BY <1>1, <1>5, <1>6, <1>7
<1> QED BY <1>6, <1>8

LEMMA ClaimInv ==
  ASSUME PlanInv, Claim
  PROVE  PlanInv'
<1>1. /\ UNCHANGED evidence /\ UNCHANGED tarjanVars
      /\ UNCHANGED <<layer, units, phase, todo, steps>>
      /\ stage = "claim"
  BY DEF Claim
<1>2. \/ stage' = "resolve" /\ at' = 1 /\ at = Cardinality(steps)
      \/ stage' = "claim" /\ at' = at + 1
  BY DEF Claim
<1>3. PICK s \in steps :
        /\ Number(s) = at
        /\ owner' = [f \in File |-> IF f \in s.files /\ owner[f] = 0
                                    THEN at ELSE owner[f]]
  BY DEF Claim
<1>4. at \in Nat /\ at >= 1 /\ owner \in [File -> Nat]
  BY <1>1 DEF PlanInv, PlanTypeOK, ClaimedSoFar
<1>5. TarjanInv'
  BY <1>1, TarjanStutter DEF PlanInv
<1>6. owner' \in [File -> Nat]
  BY <1>3, <1>4
<1>7. PlanTypeOK'
  BY <1>1, <1>2, <1>4, <1>6, SameEvidence DEF PlanInv, PlanTypeOK, Stages
<1>8. OnParts'
  BY <1>1, <1>2, SameEvidence DEF PlanInv, OnParts, tarjanVars
<1>9. Planned /\ Planned'
  BY <1>1, <1>2 DEF Planned
<1>10. UnitsCover'
  BY <1>1, <1>9, SameEvidence DEF PlanInv, UnitsCover
<1>11. Scheduled'
  BY <1>1, <1>9, SameSteps DEF PlanInv, Scheduled
<1>12. Claimed \subseteq Claimed' /\ s \in Claimed'
  BY <1>1, <1>3, <1>4 DEF Claimed
<1>13. \A r : Number(r)' = Number(r)
  BY <1>1 DEF Number, Before
<1>14. \A k \in 1 .. at : \E r \in Claimed' : Number(r) = k
  <2>1. \A k \in 1 .. (at - 1) : \E r \in Claimed : Number(r) = k
    BY <1>1 DEF PlanInv, ClaimedSoFar
  <2>2. \A k \in 1 .. at : k = at \/ k \in 1 .. (at - 1)
    BY <1>4
  <2> QED BY <2>1, <2>2, <1>3, <1>12
<1>15. CASE stage' = "resolve" /\ at = Cardinality(steps)
  <2>1. IsFiniteSet(steps)
    BY <1>9, FiniteSteps DEF PlanInv, PlanTypeOK, Scheduled
  <2>2. Claimed' \in SUBSET steps
    BY <1>1 DEF Claimed
  <2>3. Claimed' = steps
    BY <1>14, <1>15, <2>1, <2>2, Counted
  <2>4. ClaimedSoFar' /\ AllClaimed'
    BY <1>1, <1>15, <2>3 DEF ClaimedSoFar, AllClaimed
  <2> QED BY <1>5, <1>7, <1>8, <1>10, <1>11, <2>4 DEF PlanInv
<1>16. CASE stage' = "claim" /\ at' = at + 1
  <2>1. at' >= 1 /\ at' - 1 = at
    BY <1>4, <1>16
  <2>2. ClaimedSoFar' /\ AllClaimed'
    BY <1>13, <1>14, <1>16, <2>1 DEF ClaimedSoFar, AllClaimed
  <2> QED BY <1>5, <1>7, <1>8, <1>10, <1>11, <2>2 DEF PlanInv
<1> QED BY <1>2, <1>15, <1>16

LEMMA ResolveInv ==
  ASSUME PlanInv, Resolve
  PROVE  PlanInv'
<1>1. /\ UNCHANGED evidence /\ UNCHANGED tarjanVars
      /\ UNCHANGED <<layer, units, phase, todo, steps, owner>>
      /\ stage = "resolve" /\ stage' \in {"resolve", "done", "failed"}
      /\ at' = at \/ at' = at + 1
  BY DEF Resolve
<1>2. TarjanInv'
  BY <1>1, TarjanStutter DEF PlanInv
<1>3. PlanTypeOK'
  BY <1>1, SameEvidence DEF PlanInv, PlanTypeOK, Stages
<1>4. OnParts'
  BY <1>1, SameEvidence DEF PlanInv, OnParts, tarjanVars
<1>5. Planned /\ Planned'
  BY <1>1 DEF Planned
<1>6. UnitsCover'
  BY <1>1, <1>5, SameEvidence DEF PlanInv, UnitsCover
<1>7. Scheduled'
  BY <1>1, <1>5, SameSteps DEF PlanInv, Scheduled
<1>8. ClaimedSoFar' /\ AllClaimed'
  BY <1>1 DEF PlanInv, ClaimedSoFar, AllClaimed, Claimed
<1> QED BY <1>2, <1>3, <1>4, <1>6, <1>7, <1>8 DEF PlanInv

LEMMA PlanStutter ==
  ASSUME PlanInv, UNCHANGED allVars
  PROVE  PlanInv'
<1>1. /\ UNCHANGED evidence /\ UNCHANGED tarjanVars
      /\ UNCHANGED <<stage, layer, units, phase, todo, steps, at, owner>>
  BY DEF allVars, docVars, planVars
<1>2. TarjanInv'
  BY <1>1, TarjanStutter DEF PlanInv
<1>3. PlanTypeOK'
  BY <1>1, SameEvidence DEF PlanInv, PlanTypeOK
<1>4. OnParts'
  BY <1>1, SameEvidence DEF PlanInv, OnParts, tarjanVars
<1>5. Planned' <=> Planned
  BY <1>1 DEF Planned
<1>6. UnitsCover'
  BY <1>1, <1>5, SameEvidence DEF PlanInv, UnitsCover
<1>7. Scheduled'
  BY <1>1, <1>5, SameSteps DEF PlanInv, Scheduled
<1>8. UNCHANGED Claimed /\ \A r : Number(r)' = Number(r)
  BY <1>1 DEF Claimed, Number, Before
<1>9. ClaimedSoFar' /\ AllClaimed'
  BY <1>1, <1>8 DEF PlanInv, ClaimedSoFar, AllClaimed
<1> QED BY <1>2, <1>3, <1>4, <1>6, <1>7, <1>9 DEF PlanInv

\* The invariant of the whole pipeline, decomposition and plan.
THEOREM PlanInvariant == PlanSpec => []PlanInv
<1>1. PlanInv /\ [Next]_allVars => PlanInv'
  BY DecomposingInv, TakeUpInv, MakeUnitsInv, RelaxInv, ScheduleInv, ClaimInv,
     ResolveInv, PlanStutter DEF Next
<1> QED BY PlanInit, <1>1, PTL DEF PlanSpec

-----------------------------------------------------------------------------

\* The pipeline keeps its types.
THEOREM PlanTypes == PlanSpec => []TypeOK
<1>1. PlanInv => TypeOK
  <2> SUFFICES ASSUME PlanInv PROVE TypeOK
    OBVIOUS
  <2>1. TarjanTypeOK
    BY DEF PlanInv, TarjanInv
  <2>2. Elements(stack) \subseteq Node /\ Elements(work) \subseteq Node
    BY <2>1 DEF TarjanTypeOK, Elements
  <2>3. Emitted \subseteq Node
    BY <2>1 DEF TarjanTypeOK, Emitted, Elements
  <2> QED BY <2>1, <2>2, <2>3 DEF PlanInv, PlanTypeOK, TarjanTypeOK, TypeOK
<1> QED BY <1>1, PlanInvariant, PTL

\* Every search of the pipeline - over the modules, over the files of a cycle,
\* over the parts of the plan - emits strongly connected components, sinks
\* first, although the three run on the same variables one after the other.
THEOREM PlanSccCorrect == PlanSpec => []SccCorrect
<1>1. PlanInv => SccCorrect
  BY InvScc DEF PlanInv
<1> QED BY <1>1, PlanInvariant, PTL

\* A finished plan creates every file, but for what was generated into
\* directories without code.
THEOREM PlanDropsNothing == PlanSpec => []NothingDropped
<1>1. PlanInv => NothingDropped
  <2> SUFFICES ASSUME PlanInv, stage = "done", NEW f \in File,
                      ~(ftype[f] = "generated" /\ Home[f] \notin CodeModules)
               PROVE  owner[f] # 0
    BY DEF NothingDropped
  <2>1. Planned
    BY DEF Planned
  <2>2. UNION units = CodeModules /\ steps = AllSteps /\ Claimed = steps
    BY <2>1 DEF PlanInv, UnitsCover, Scheduled, AllClaimed
  <2>3. PICK s \in AllSteps : f \in s.files
    BY <2>2, FilesListed DEF PlanInv
  <2> QED BY <2>2, <2>3 DEF Claimed
<1> QED BY <1>1, PlanInvariant, PTL

-----------------------------------------------------------------------------

\* The least-number principle, for a set.
LEMMA LeastNatural ==
  ASSUME NEW S \in SUBSET Nat, S # {}
  PROVE  \E n \in S : \A m \in S : n <= m
<1> DEFINE R == OpToRel(<, Nat)
<1>1. IsWellFoundedOn(R, Nat)
  BY NatLessThanWellFounded
<1>2. ASSUME NEW x \in Nat, NEW y \in Nat, x < y PROVE <<x, y>> \in R
  BY <1>2 DEF OpToRel
<1>3. S \subseteq Nat
  OBVIOUS
<1> HIDE DEF R
<1>4. PICK x \in S : \A y \in S : ~ (<<y, x>> \in R)
  BY <1>1, <1>3, WFMin
<1>5. ASSUME NEW y \in S PROVE x <= y
  <2>1. ~(y < x)
    BY <1>2, <1>4
  <2> QED BY <2>1
<1> QED BY <1>5

\* A finite set of numbers has a greatest: the one with fewest above it.
LEMMA GreatestNumber ==
  ASSUME NEW S \in SUBSET Int, IsFiniteSet(S), S # {}
  PROVE  \E d \in S : \A e \in S : e <= d
<1> DEFINE Over(x) == {y \in S : x < y}
           K == {Cardinality(Over(x)) : x \in S}
<1>1. \A x : Over(x) \in SUBSET S /\ IsFiniteSet(Over(x))
  <2>1. \A x : Over(x) \in SUBSET S
    OBVIOUS
  <2> HIDE DEF Over
  <2> QED BY <2>1, FS_Subset
<1>2. K \in SUBSET Nat /\ K # {}
  BY <1>1, FS_CardinalityType
<1>3. PICK k \in K : \A j \in K : k <= j
  BY <1>2, LeastNatural
<1>4. PICK d \in S : k = Cardinality(Over(d))
  BY <1>3
<1>5. ASSUME NEW e \in S, d < e PROVE FALSE
  <2>1. Over(e) \in SUBSET Over(d) /\ e \in Over(d) /\ e \notin Over(e)
    <3>1. d \in Int /\ e \in Int /\ \A y \in S : y \in Int
      OBVIOUS
    <3>2. \A y \in S : e < y => d < y
      BY <3>1, <1>5
    <3>3. Over(e) \in SUBSET Over(d)
      BY <3>2
    <3>4. e \in Over(d) /\ e \notin Over(e)
      BY <3>1, <1>5
    <3> QED BY <3>3, <3>4
  <2>2. Over(e) # Over(d)
    BY <2>1
  <2>3. Cardinality(Over(e)) <= k /\ Cardinality(Over(e)) # k
    <3> HIDE DEF Over
    <3> QED BY <1>1, <1>4, <2>1, <2>2, FS_Subset
  <2>4. k <= Cardinality(Over(e))
    BY <1>3
  <2>5. k \in Nat /\ Cardinality(Over(e)) \in Nat
    BY <1>2, <1>1, FS_CardinalityType
  <2> HIDE DEF Over
  <2> QED BY <2>3, <2>4, <2>5
<1> QED BY <1>5

LEMMA LeastFacts ==
  ASSUME NEW S \in SUBSET Nat, S # {}
  PROVE  Least(S) \in S /\ \A m \in S : Least(S) <= m
BY LeastNatural DEF Least

\* One set of finitely many is smaller than another it is part of.
LEMMA SmallerPart ==
  ASSUME NEW T, IsFiniteSet(T), NEW S \in SUBSET T, NEW x \in T \ S
  PROVE  Cardinality(S) < Cardinality(T)
<1>1. IsFiniteSet(S) /\ Cardinality(S) <= Cardinality(T)
      /\ (Cardinality(S) = Cardinality(T) => S = T)
  BY FS_Subset
<1>2. Cardinality(S) \in Nat /\ Cardinality(T) \in Nat
  BY <1>1, FS_CardinalityType
<1> QED BY <1>1, <1>2

-----------------------------------------------------------------------------
\* The levels of a condensation.

LEMMA CompOfFacts ==
  ASSUME TarjanInv, NEW i \in DOMAIN result, NEW x \in result[i]
  PROVE  CompOf(x) = i
BY DEF TarjanInv, Split, CompOf

\* Components come sinks first.
LEMMA DepsBelow ==
  ASSUME TarjanInv, NEW i \in DOMAIN result
  PROVE  CompDeps(i) \subseteq 1 .. (i - 1)
<1>1. DOMAIN result = 1 .. Len(result) /\ Len(result) \in Nat
  BY DEF TarjanInv, TarjanTypeOK
<1> SUFFICES ASSUME NEW n \in result[i], NEW m \in succ[n], CompOf(m) # i
             PROVE  CompOf(m) \in 1 .. (i - 1)
  BY DEF CompDeps
<1>2. PICK j \in 1 .. i : m \in result[j]
  BY DEF TarjanInv, Components
<1>3. j \in DOMAIN result
  BY <1>1
<1>4. CompOf(m) = j
  BY <1>2, <1>3, CompOfFacts
<1> QED BY <1>1, <1>4

Highest(S) == CHOOSE d \in S : \A e \in S : e <= d
LevelBody(g, i) ==
  IF CompDeps(i) = {} THEN 0 ELSE 1 + Highest({g[j] : j \in CompDeps(i)})

LevelFn == CHOOSE g : g = [i \in DOMAIN result |-> LevelBody(g, i)]

LEMMA LevelsFn == Levels = [n \in roots |-> LevelFn[CompOf(n)]]
BY DEF Levels, LevelFn, LevelBody, Highest

\* A level is a number above the levels of what the component depends on.
LEMMA LevelBodyFacts ==
  ASSUME NEW i \in Nat, NEW g, CompDeps(i) \subseteq 1 .. (i - 1),
         \A j \in 1 .. (i - 1) : g[j] \in Nat
  PROVE  LevelBody(g, i) \in Nat /\ \A j \in CompDeps(i) : g[j] < LevelBody(g, i)
<1> DEFINE deep == {g[j] : j \in CompDeps(i)}
           f == [j \in CompDeps(i) |-> g[j]]
<1>1. CASE CompDeps(i) = {}
  BY <1>1 DEF LevelBody
<1>2. CASE CompDeps(i) # {}
  <2>1. IsFiniteSet(CompDeps(i))
    <3>1. 1 \in Int /\ i - 1 \in Int
      OBVIOUS
    <3>2. IsFiniteSet(1 .. (i - 1))
      BY <3>1, FS_Interval
    <3> QED BY <3>2, FS_Subset
  <2>2. f \in Surjection(CompDeps(i), deep)
    BY DEF Surjection
  <2>3. IsFiniteSet(deep)
    <3> HIDE DEF f, deep
    <3> QED BY <2>1, <2>2, FS_Surjection
  <2>4. deep \in SUBSET Int /\ deep \in SUBSET Nat /\ deep # {}
    BY <1>2
  <2> DEFINE top == Highest(deep)
  <2>5. top \in deep /\ \A e \in deep : e <= top
    <3> HIDE DEF deep
    <3> QED BY <2>3, <2>4, GreatestNumber DEF Highest
  <2>6. LevelBody(g, i) = 1 + top
    BY <1>2 DEF LevelBody
  <2>7. \A j \in CompDeps(i) : g[j] \in deep
    OBVIOUS
  <2>8. top \in Nat /\ \A j \in CompDeps(i) : g[j] \in Nat /\ g[j] <= top
    <3> HIDE DEF top, deep
    <3> QED BY <2>4, <2>5, <2>7
  <2> HIDE DEF top, deep
  <2> QED BY <2>6, <2>8
<1> QED BY <1>1, <1>2

LEMMA LevelBodyAgrees ==
  ASSUME NEW i, NEW g, NEW h, \A j \in CompDeps(i) : g[j] = h[j]
  PROVE  LevelBody(g, i) = LevelBody(h, i)
<1>1. {g[j] : j \in CompDeps(i)} = {h[j] : j \in CompDeps(i)}
  OBVIOUS
<1> QED BY <1>1 DEF LevelBody

\* The recursive definition defines: the levels of the first components give
\* that of the next.
LEMMA LevelEquation ==
  ASSUME TarjanInv
  PROVE  /\ LevelFn = [i \in DOMAIN result |-> LevelBody(LevelFn, i)]
         /\ \A i \in DOMAIN result : LevelFn[i] \in Nat
<1> DEFINE Solves(g, k) ==
             /\ g \in [1 .. k -> Nat]
             /\ \A i \in 1 .. k : g[i] = LevelBody(g, i)
           Unsolved == {k \in 0 .. Len(result) : ~ \E g : Solves(g, k)}
<1>1. DOMAIN result = 1 .. Len(result) /\ Len(result) \in Nat
  BY DEF TarjanInv, TarjanTypeOK
<1>2. Unsolved = {}
  <2> SUFFICES ASSUME Unsolved # {} PROVE FALSE
    OBVIOUS
  <2>1. Unsolved \in SUBSET Nat
    BY <1>1
  <2>2. PICK k \in Unsolved : \A j \in Unsolved : k <= j
    BY <2>1, LeastNatural
  <2>3. k \in 0 .. Len(result) /\ ~ \E g : Solves(g, k)
    BY <2>2
  <2>4. k # 0
    <3>1. Solves([i \in 1 .. 0 |-> 0], 0)
      OBVIOUS
    <3> QED BY <2>3, <3>1
  <2>5. k \in DOMAIN result /\ k - 1 \in 0 .. Len(result) /\ k \in Nat
    BY <1>1, <2>3, <2>4
  <2>6. k - 1 \notin Unsolved
    <3> HIDE DEF Unsolved
    <3> QED BY <2>2, <2>5
  <2>7. PICK g : Solves(g, k - 1)
    BY <2>5, <2>6
  <2> DEFINE h == [i \in 1 .. k |-> IF i = k THEN LevelBody(g, k) ELSE g[i]]
  <2>8. \A i \in 1 .. k : CompDeps(i) \subseteq 1 .. (i - 1)
    BY <1>1, <2>5, DepsBelow
  <2>9. LevelBody(g, k) \in Nat
    <3>1. \A j \in 1 .. (k - 1) : g[j] \in Nat
      BY <2>7
    <3>2. CompDeps(k) \subseteq 1 .. (k - 1)
      BY <2>5, <2>8
    <3> QED BY <2>5, <3>1, <3>2, LevelBodyFacts
  <2>10. h \in [1 .. k -> Nat]
    <3>1. \A i \in 1 .. k : i # k => i \in 1 .. (k - 1)
      BY <2>5
    <3>2. \A i \in 1 .. (k - 1) : g[i] \in Nat
      BY <2>7
    <3>3. ASSUME NEW i \in 1 .. k PROVE h[i] \in Nat
      BY <2>9, <3>1, <3>2
    <3> HIDE DEF Solves
    <3> QED BY <3>3
  <2>11. ASSUME NEW i \in 1 .. k PROVE h[i] = LevelBody(h, i)
    <3>0. ASSUME NEW j \in CompDeps(i) PROVE g[j] = h[j]
      <4>1. j \in 1 .. (i - 1)
        BY <2>8
      <4>2. j \in 1 .. k /\ j # k
        BY <2>5, <4>1
      <4> QED BY <4>2
    <3>1. \A j \in CompDeps(i) : g[j] = h[j]
      BY <3>0
    <3>2. LevelBody(g, i) = LevelBody(h, i)
      <4> HIDE DEF h
      <4> QED BY <3>1, LevelBodyAgrees
    <3>3. h[i] = LevelBody(g, i)
      <4>1. CASE i = k
        BY <4>1
      <4>2. CASE i # k
        <5>1. i \in 1 .. (k - 1)
          BY <2>5, <4>2
        <5>2. g[i] = LevelBody(g, i)
          BY <2>7, <5>1
        <5> QED BY <4>2, <5>2
      <4> QED BY <4>1, <4>2
    <3> QED BY <3>2, <3>3
  <2>12. Solves(h, k)
    <3> HIDE DEF h
    <3> QED BY <2>10, <2>11
  <2> QED BY <2>3, <2>12
<1>3. PICK g : Solves(g, Len(result))
  <2>1. Len(result) \in 0 .. Len(result)
    BY <1>1
  <2> QED BY <1>2, <2>1
<1>4. g = [i \in DOMAIN result |-> LevelBody(g, i)]
  BY <1>1, <1>3
<1>5. LevelFn = [i \in DOMAIN result |-> LevelBody(LevelFn, i)]
  <2>1. \E f : f = [i \in DOMAIN result |-> LevelBody(f, i)]
    BY <1>4
  <2> HIDE DEF Solves
  <2> QED BY <2>1 DEF LevelFn
<1>6. ASSUME \E i \in DOMAIN result : LevelFn[i] \notin Nat PROVE FALSE
  <2> DEFINE Odd == {i \in DOMAIN result : LevelFn[i] \notin Nat}
  <2>1. Odd \in SUBSET Nat /\ Odd # {}
    BY <1>1, <1>6
  <2> HIDE DEF Odd
  <2>2. PICK k \in Odd : \A j \in Odd : k <= j
    BY <2>1, LeastNatural
  <2> USE DEF Odd
  <2>3. k \in DOMAIN result /\ k \in Nat
    BY <1>1, <2>2
  <2>4. \A j \in 1 .. (k - 1) : LevelFn[j] \in Nat
    BY <1>1, <2>2, <2>3
  <2>5. LevelBody(LevelFn, k) \in Nat
    BY <2>3, <2>4, DepsBelow, LevelBodyFacts
  <2>6. LevelFn[k] = LevelBody(LevelFn, k)
    <3> HIDE DEF Odd
    <3> QED BY <1>5, <2>3
  <2> QED BY <2>2, <2>5, <2>6
<1> QED BY <1>5, <1>6

LEMMA LevelRises ==
  ASSUME TarjanInv, NEW i \in DOMAIN result, NEW j \in CompDeps(i)
  PROVE  j \in DOMAIN result /\ LevelFn[j] < LevelFn[i]
<1>1. DOMAIN result = 1 .. Len(result) /\ Len(result) \in Nat
  BY DEF TarjanInv, TarjanTypeOK
<1>2. CompDeps(i) \subseteq 1 .. (i - 1)
  BY DepsBelow
<1>3. \A k \in 1 .. (i - 1) : k \in DOMAIN result /\ LevelFn[k] \in Nat
  BY <1>1, LevelEquation
<1>4. LevelFn[j] < LevelBody(LevelFn, i)
  BY <1>1, <1>2, <1>3, LevelBodyFacts
<1>5. LevelFn[i] = LevelBody(LevelFn, i)
  BY LevelEquation
<1> QED BY <1>2, <1>3, <1>4, <1>5
-----------------------------------------------------------------------------
\* What is read off a finished search.

LEMMA RootComp ==
  ASSUME TarjanInv, Finished, NEW n \in roots
  PROVE  /\ CompOf(n) \in DOMAIN result
         /\ n \in result[CompOf(n)]
<1>1. n \in Emitted
  BY InvScc DEF SccCorrect
<1>2. PICK i \in DOMAIN result : n \in result[i]
  BY <1>1 DEF Emitted, Elements
<1> QED BY <1>2, CompOfFacts

\* Along an edge between roots the level falls, but inside a component.
LEMMA LevelsFall ==
  ASSUME TarjanInv, Finished
  PROVE  /\ Levels \in [roots -> Nat]
         /\ \A n \in roots : \A m \in succ[n] \cap roots :
              CompOf(m) = CompOf(n) \/ Levels[m] < Levels[n]
<1>1. \A n \in roots : LevelFn[CompOf(n)] \in Nat
  BY RootComp, LevelEquation
<1>2. Levels = [n \in roots |-> LevelFn[CompOf(n)]]
  BY LevelsFn
<1>3. ASSUME NEW n \in roots, NEW m \in succ[n] \cap roots,
             CompOf(m) # CompOf(n)
      PROVE  Levels[m] < Levels[n]
  <2>1. CompOf(n) \in DOMAIN result /\ n \in result[CompOf(n)]
    BY RootComp
  <2>2. CompOf(m) \in CompDeps(CompOf(n))
    BY <1>3, <2>1 DEF CompDeps
  <2>3. LevelFn[CompOf(m)] < LevelFn[CompOf(n)]
    BY <2>1, <2>2, LevelRises
  <2> QED BY <1>2, <2>3
<1> QED BY <1>1, <1>2, <1>3

\* Dropping the layers that hold no module keeps their order.
LEMMA LayersKeepOrder ==
  ASSUME NEW level \in [roots -> Nat]
  PROVE  /\ LayersOf(level) \in [roots -> Nat]
         /\ \A m, n \in roots :
              /\ level[m] < level[n] => LayersOf(level)[m] < LayersOf(level)[n]
              /\ level[m] = level[n] => LayersOf(level)[m] = LayersOf(level)[n]
<1> DEFINE used == {level[n] : n \in roots}
           A(m) == used \cap 0 .. level[m] - 1
<1>1. LayersOf(level) = [m \in roots |-> Cardinality(A(m))]
  BY DEF LayersOf
<1>2. ASSUME NEW m \in roots PROVE IsFiniteSet(A(m))
  <2>1. 0 \in Int /\ level[m] - 1 \in Int
    OBVIOUS
  <2>2. IsFiniteSet(0 .. level[m] - 1)
    BY <2>1, FS_Interval
  <2> QED BY <2>2, FS_Subset
<1>3. \A m \in roots : Cardinality(A(m)) \in Nat
  <2> HIDE DEF A
  <2> QED BY <1>2, FS_CardinalityType
<1>4. ASSUME NEW m \in roots, NEW n \in roots, level[m] < level[n]
      PROVE  Cardinality(A(m)) < Cardinality(A(n))
  <2>1. A(m) \in SUBSET A(n)
    BY <1>4
  <2>2. level[m] \in A(n) \ A(m)
    BY <1>4
  <2> HIDE DEF A
  <2> QED BY <1>2, <2>1, <2>2, SmallerPart
<1>5. ASSUME NEW m \in roots, NEW n \in roots, level[m] = level[n]
      PROVE  A(m) = A(n)
  BY <1>5
<1> HIDE DEF A
<1> QED BY <1>1, <1>3, <1>4, <1>5

\* The file of the lower level comes first.
LEMMA PlacesKeepOrder ==
  ASSUME NEW level \in [roots -> Nat], roots \subseteq Node,
         NEW f \in roots, NEW g \in roots, level[g] < level[f]
  PROVE  Places(level)[g] < Places(level)[f]
<1> DEFINE A(x) == {h \in roots : \/ level[h] < level[x]
                                  \/ level[h] = level[x] /\ h <= x}
<1>1. Places(level) = [x \in roots |-> Cardinality(A(x))]
  BY DEF Places
<1>2. \A h \in roots : h \in Nat /\ level[h] \in Nat
  BY NodeAssumption
<1>3. IsFiniteSet(roots)
  BY GraphAssumption, FS_Subset
<1>4. IsFiniteSet(A(f))
  BY <1>3, FS_Subset
<1>5. A(g) \in SUBSET A(f)
  BY <1>2
<1>6. f \in A(f) \ A(g)
  BY <1>2
<1>7. Cardinality(A(g)) < Cardinality(A(f))
  <2> HIDE DEF A
  <2> QED BY <1>4, <1>5, <1>6, SmallerPart
<1> HIDE DEF A
<1> QED BY <1>1, <1>7

\* A node that reaches another does so through one it points to.
LEMMA FirstEdge ==
  ASSUME TarjanTypeOK, NEW x \in Live, NEW y, x # y, Reach(x, y)
  PROVE  \E z \in succ[x] : Reach(z, y)
<1> SUFFICES ASSUME \A z \in succ[x] : ~ Reach(z, y) PROVE FALSE
  OBVIOUS
<1> DEFINE S == {x} \cup {w \in Live : ~ Reach(w, y)}
<1>1. Live \subseteq Node /\ \A w \in Node : succ[w] \subseteq Live
  BY DEF Live, TarjanTypeOK, Graphs
<1>2. ASSUME NEW w \in S, NEW v \in succ[w] PROVE v \in S
  <2>1. v \in Live
    BY <1>1
  <2>2. CASE w = x
    BY <2>1, <2>2
  <2>3. CASE w # x
    <3>1. ~ Reach(w, y)
      BY <2>3
    <3>2. ~ Reach(v, y)
      BY <3>1, ReachEdge, ReachTrans
    <3> QED BY <2>1, <3>2
  <2> QED BY <2>2, <2>3
<1>3. S \in SUBSET Live /\ x \in S /\ Closed(S)
  BY <1>2 DEF Closed
<1>4. y \in S
  <2> HIDE DEF S
  <2> QED BY <1>3 DEF Reach
<1> QED BY <1>4, ReachRefl

-----------------------------------------------------------------------------

\* The searches of the decomposition and what has been read off them.
OnModules == stage = "order" => roots = CodeModules /\ succ = ModuleGraph
CyclesApart ==
  /\ cycles \subseteq SUBSET Node
  /\ \A c, d \in cycles : c # d => c \cap d = {}
OnGroup ==
  stage = "files" =>
    \E c \in cycles :
      /\ \E m \in c : First(m, UNION cycles)
      /\ roots = GroupFiles(c)
      /\ succ = FileGraph(GroupFiles(c))

DecompInv ==
  /\ OnModules
  /\ CyclesApart
  /\ OnGroup
  /\ LayersSound
  /\ FileOrderSound

\* What SameEvidence says, for the rest of what the decomposition reads.
LEMMA SameModules ==
  ASSUME UNCHANGED evidence
  PROVE  /\ \A f : Targets(f)' = Targets(f)
         /\ \A m : Prod(m)' = Prod(m)
         /\ \A c : GroupFiles(c)' = GroupFiles(c)
         /\ \A g : FileGraph(g)' = FileGraph(g)
         /\ \A p, g : Orders(p, g)' <=> Orders(p, g)
         /\ \A g : CannotOrder(g)' <=> CannotOrder(g)
<1>1. UNCHANGED <<ftype, imports>> /\ UNCHANGED CodeModules
  BY SameEvidence
<1>2. \A f : Targets(f)' = Targets(f)
  BY <1>1 DEF Targets
<1>3. UNCHANGED TestModules
  BY <1>1 DEF TestModules, Code
<1>4. \A m : Prod(m)' = Prod(m)
  BY <1>1, <1>2, <1>3 DEF Prod, Adjacency, TestEdge
<1>5. \A c : GroupFiles(c)' = GroupFiles(c)
  BY <1>1 DEF GroupFiles, Code
<1>6. \A g : FileGraph(g)' = FileGraph(g)
  BY <1>2 DEF FileGraph
<1>7. \A p, g : Orders(p, g)' <=> Orders(p, g)
  BY <1>2 DEF Orders
<1>8. \A g : CannotOrder(g)' <=> CannotOrder(g)
  BY <1>2 DEF CannotOrder
<1> QED BY <1>2, <1>4, <1>5, <1>6, <1>7, <1>8

LEMMA LayersKept ==
  ASSUME UNCHANGED evidence, UNCHANGED layer, LayersSound,
         stage = "order" => stage' = "order"
  PROVE  LayersSound'
<1>1. UNCHANGED CodeModules /\ \A m : Prod(m)' = Prod(m)
  BY SameEvidence, SameModules
<1> QED BY <1>1 DEF LayersSound

LEMMA OrdersKept ==
  ASSUME UNCHANGED evidence, UNCHANGED fileOrder, FileOrderSound
  PROVE  FileOrderSound'
BY SameModules DEF FileOrderSound

\* A component of more than one node, or with an edge to itself, and what it
\* is otherwise.
LEMMA CompSize ==
  ASSUME NEW C \in SUBSET Node, NEW x \in C
  PROVE  Cardinality(C) > 1 <=> \E y \in C : y # x
<1>1. IsFiniteSet(C)
  BY GraphAssumption, FS_Subset
<1>2. Cardinality({x}) = 1
  BY FS_Singleton
<1>3. ASSUME NEW y \in C, y # x PROVE Cardinality(C) > 1
  <2>1. {x} \in SUBSET C /\ y \in C \ {x}
    BY <1>3
  <2>2. Cardinality({x}) < Cardinality(C)
    BY <1>1, <2>1, SmallerPart
  <2>3. Cardinality(C) \in Nat
    BY <1>1, FS_CardinalityType
  <2> QED BY <1>2, <2>2, <2>3
<1>4. ASSUME \A y \in C : y = x PROVE ~ (Cardinality(C) > 1)
  <2>1. C = {x}
    BY <1>4
  <2> QED BY <1>2, <2>1
<1> QED BY <1>3, <1>4

\* The components of a search are sets of nodes that reach one another.
LEMMA CompMembers ==
  ASSUME TarjanInv, NEW i \in DOMAIN result
  PROVE  /\ result[i] \subseteq Live /\ result[i] \subseteq Node
         /\ \A x, y \in result[i] : Reach(x, y)
         /\ \A x \in result[i], z \in Live :
              Reach(x, z) /\ Reach(z, x) => z \in result[i]
<1>1. result[i] \subseteq Emitted
  BY DEF Emitted, Elements
<1>2. result[i] \subseteq Live
  BY <1>1 DEF TarjanInv, Split
<1>3. result[i] \subseteq Node
  BY DEF TarjanInv, TarjanTypeOK
<1> QED BY <1>2, <1>3, InvScc DEF SccCorrect, TarjanInv, Components

LEMMA DecomposeInitInv == Init => DecompInv
BY DEF Init, DecomposeInit, Fresh, DecompInv, OnModules, CyclesApart, OnGroup,
       LayersSound, FileOrderSound

\* The build order read off the search over the modules.
LEMMA LayOutSound ==
  ASSUME TarjanInv, Finished, roots = CodeModules, succ = ModuleGraph,
         NEW m \in CodeModules, NEW d \in Prod(m) \cap CodeModules
  PROVE  LET level == LayersOf(Levels) IN
           \/ level[d] < level[m]
           \/ /\ level[d] = level[m]
              /\ \A S \in SUBSET Module :
                   d \in S /\ (\A x \in S : Prod(x) \subseteq S) => m \in S
<1>1. m \in Module /\ Node = File \cup Module /\ roots \subseteq Node
  BY GraphAssumption DEF CodeModules
<1>2. d \in succ[m] \cap roots
  BY <1>1 DEF ModuleGraph
<1>3. Levels \in [roots -> Nat]
  BY LevelsFall
<1>4. CASE Levels[d] < Levels[m]
  BY <1>2, <1>3, <1>4, LayersKeepOrder
<1>5. CASE CompOf(d) = CompOf(m)
  <2>1. Levels[d] = Levels[m]
    BY <1>2, <1>5, LevelsFn
  <2>2. LayersOf(Levels)[d] = LayersOf(Levels)[m]
    BY <1>2, <1>3, <2>1, LayersKeepOrder
  <2>3. Reach(d, m) /\ d \in Live
    BY <1>2, <1>5, RootComp, CompMembers
  <2>4. ASSUME NEW S \in SUBSET Module, d \in S,
               \A x \in S : Prod(x) \subseteq S
        PROVE  m \in S
    <3> DEFINE T == S \cap Live
    <3>1. \A x \in Node : succ[x] \subseteq Live
      BY DEF Live
    <3>2. \A x \in S : x \in Node /\ succ[x] = Prod(x)
      BY <1>1 DEF ModuleGraph
    <3>3. T \in SUBSET Live /\ Closed(T) /\ d \in T
      BY <2>3, <2>4, <3>1, <3>2 DEF Closed
    <3> QED BY <2>3, <3>3 DEF Reach
  <2> QED BY <2>2, <2>4
<1> QED BY <1>2, <1>4, <1>5, LevelsFall

LEMMA LayOutInv ==
  ASSUME PlanInv, DecompInv, LayOut
  PROVE  DecompInv'
<1>1. /\ UNCHANGED evidence /\ UNCHANGED fileOrder
      /\ stage = "order" /\ stage' = "cycles" /\ Finished
      /\ layer' = LayersOf(Levels) /\ cycles' = CycleComps
  BY DEF LayOut
<1>2. TarjanInv /\ roots = CodeModules /\ succ = ModuleGraph
  BY <1>1 DEF PlanInv, DecompInv, OnModules
<1>3. layer' \in [CodeModules -> Nat]
  BY <1>1, <1>2, LevelsFall, LayersKeepOrder
<1>4. LayersSound'
  <2>1. UNCHANGED CodeModules /\ \A m : Prod(m)' = Prod(m)
    BY <1>1, SameEvidence, SameModules
  <2> QED BY <1>1, <1>2, <1>3, <2>1, LayOutSound DEF LayersSound
<1>5. CyclesApart'
  <2>1. CycleComps \subseteq Elements(result)
    BY DEF CycleComps
  <2>2. Elements(result) \subseteq SUBSET Node
    BY <1>2, CompMembers DEF Elements
  <2>3. \A c, d \in Elements(result) : c # d => c \cap d = {}
    BY <1>2 DEF TarjanInv, Split, Elements
  <2> QED BY <1>1, <2>1, <2>2, <2>3 DEF CyclesApart
<1>6. OnModules' /\ OnGroup'
  BY <1>1 DEF OnModules, OnGroup
<1>7. FileOrderSound'
  BY <1>1, OrdersKept DEF DecompInv
<1> QED BY <1>4, <1>5, <1>6, <1>7 DEF DecompInv

LEMMA TakeCycleInv ==
  ASSUME PlanInv, DecompInv, TakeCycle
  PROVE  DecompInv'
<1>1. /\ UNCHANGED evidence /\ UNCHANGED <<layer, cycles, fileOrder>>
      /\ stage = "cycles" /\ stage' = "files"
  BY DEF TakeCycle
<1>2. PICK c \in cycles :
        /\ \E m \in c : First(m, UNION cycles)
        /\ Restart(GroupFiles(c), FileGraph(GroupFiles(c)))
  BY DEF TakeCycle
<1>3. OnGroup'
  BY <1>1, <1>2, SameModules DEF OnGroup, Restart, First
<1>4. LayersSound' /\ FileOrderSound'
  BY <1>1, LayersKept, OrdersKept DEF DecompInv
<1>5. OnModules' /\ CyclesApart'
  BY <1>1 DEF OnModules, DecompInv, CyclesApart
<1> QED BY <1>3, <1>4, <1>5 DEF DecompInv

LEMMA FileEdges ==
  ASSUME NEW G \in SUBSET Node, NEW x \in G
  PROVE  FileGraph(G)[x] = Targets(x) \cap G
<1>1. x \in Node
  OBVIOUS
<1>2. FileGraph(G)[x] = IF x \in G THEN Targets(x) \cap G ELSE {}
  BY <1>1, Zenon DEF FileGraph
<1> QED BY <1>2

\* A group of files that the search finds a cycle in cannot be ordered ...
LEMMA CyclicGroup ==
  ASSUME TarjanInv, NEW G \in SUBSET Node, roots = G, succ = FileGraph(G),
         CycleComps # {}
  PROVE  CannotOrder(G)
<1>1. PICK C \in Elements(result) :
        Cardinality(C) > 1 \/ \E n \in C : n \in succ[n]
  BY DEF CycleComps
<1>2. PICK i \in DOMAIN result : C = result[i]
  BY DEF Elements
<1>3. Live \subseteq G
  BY DEF Live, FileGraph
<1>4. C \in SUBSET G /\ C \in SUBSET Node
  BY <1>2, <1>3, CompMembers
<1>5. ASSUME NEW x \in G PROVE succ[x] = Targets(x) \cap G
  BY FileEdges
<1>6. ASSUME NEW n \in C, n \in succ[n] PROVE CannotOrder(G)
  <2>1. n \in Targets(n)
    BY <1>4, <1>5, <1>6
  <2> DEFINE S == {n}
  <2>2. S \in SUBSET G /\ S # {}
    BY <1>4
  <2>3. \A f \in S : Targets(f) \cap S # {}
    BY <2>1
  <2> HIDE DEF S
  <2> QED BY <2>2, <2>3 DEF CannotOrder
<1>7. CASE Cardinality(C) > 1
  <2>1. ASSUME NEW f \in C PROVE Targets(f) \cap C # {}
    <3>1. PICK y \in C : y # f
      BY <1>4, <1>7, CompSize
    <3>2. f \in Live /\ Reach(f, y) /\ Reach(y, f)
      BY <1>2, CompMembers
    <3>3. PICK z \in succ[f] : Reach(z, y)
      BY <3>1, <3>2, FirstEdge DEF TarjanInv
    <3>4. Reach(f, z) /\ Reach(z, f)
      BY <3>2, <3>3, ReachEdge, ReachTrans
    <3>5. z \in Live
      BY <1>4, <3>3 DEF Live
    <3>6. z \in C
      BY <1>2, <3>4, <3>5, CompMembers
    <3> QED BY <1>4, <1>5, <3>3, <3>6
  <2>2. C # {}
    <3>1. CASE C = {}
      <4>1. Cardinality(C) = 0
        BY <3>1, FS_EmptySet
      <4> QED BY <1>7, <4>1
    <3> QED BY <3>1
  <2> QED BY <1>4, <2>1, <2>2 DEF CannotOrder
<1> QED BY <1>1, <1>6, <1>7

\* ... and the places of any other are an order of it.
LEMMA AcyclicGroup ==
  ASSUME TarjanInv, Finished, NEW G \in SUBSET Node, roots = G,
         succ = FileGraph(G), CycleComps = {}
  PROVE  Orders(Places(Levels), G)
<1>1. DOMAIN Places(Levels) = G
  BY DEF Places
<1>2. ASSUME NEW f \in G, NEW g \in Targets(f) \cap G
      PROVE  Places(Levels)[g] < Places(Levels)[f]
  <2>1. g \in succ[f] \cap roots
    BY <1>2 DEF FileGraph
  <2>2. CompOf(g) # CompOf(f)
    <3> SUFFICES ASSUME CompOf(g) = CompOf(f) PROVE FALSE
      OBVIOUS
    <3> DEFINE C == result[CompOf(f)]
    <3>1. CompOf(f) \in DOMAIN result /\ f \in C /\ g \in C
      BY <2>1, RootComp
    <3>2. C \in SUBSET Node /\ C \in Elements(result)
      BY <3>1, CompMembers DEF Elements
    <3> HIDE DEF C
    <3>3. C \in CycleComps
      <4>1. CASE g = f
        BY <2>1, <3>1, <3>2, <4>1 DEF CycleComps
      <4>2. CASE g # f
        <5>1. Cardinality(C) > 1
          BY <3>1, <3>2, <4>2, CompSize
        <5> QED BY <3>2, <5>1 DEF CycleComps
      <4> QED BY <4>1, <4>2
    <3> QED BY <3>3
  <2>3. Levels \in [roots -> Nat] /\ Levels[g] < Levels[f]
    BY <2>1, <2>2, LevelsFall
  <2> QED BY <2>1, <2>3, PlacesKeepOrder
<1> QED BY <1>1, <1>2 DEF Orders

LEMMA OrderFilesInv ==
  ASSUME PlanInv, DecompInv, OrderFiles
  PROVE  DecompInv'
<1>1. /\ UNCHANGED evidence /\ UNCHANGED layer
      /\ stage = "files" /\ stage' = "cycles" /\ Finished
  BY DEF OrderFiles
<1>2. PICK c \in cycles :
        /\ \E m \in c : First(m, UNION cycles)
        /\ cycles' = cycles \ {c}
        /\ fileOrder' =
             [d \in DOMAIN fileOrder \cup {c} |->
                IF d \in DOMAIN fileOrder THEN fileOrder[d]
                ELSE IF CycleComps # {} THEN <<>> ELSE Places(Levels)]
  BY DEF OrderFiles
<1>3. PICK b \in cycles :
        /\ \E m \in b : First(m, UNION cycles)
        /\ roots = GroupFiles(b)
        /\ succ = FileGraph(GroupFiles(b))
  BY <1>1 DEF DecompInv, OnGroup
<1>4. cycles \subseteq SUBSET Node /\ \A x, y \in cycles : x # y => x \cap y = {}
  BY DEF DecompInv, CyclesApart
<1>5. b = c
  <2>1. PICK m \in c : First(m, UNION cycles)
    BY <1>2
  <2>2. PICK n \in b : First(n, UNION cycles)
    BY <1>3
  <2>3. m <= n /\ n <= m /\ m \in Nat /\ n \in Nat
    BY <1>4, <2>1, <2>2, NodeAssumption DEF First
  <2>4. m = n
    BY <2>3
  <2> QED BY <1>4, <2>4
<1>6. TarjanInv /\ roots = GroupFiles(c) /\ succ = FileGraph(GroupFiles(c))
  BY <1>3, <1>5 DEF PlanInv
<1>7. GroupFiles(c) \in SUBSET Node
  BY GraphsOK
<1>8. ASSUME NEW d \in DOMAIN fileOrder'
      PROVE  \/ Orders(fileOrder'[d], GroupFiles(d))
             \/ fileOrder'[d] = <<>> /\ CannotOrder(GroupFiles(d))
  <2>1. CASE d \in DOMAIN fileOrder
    BY <1>2, <2>1 DEF DecompInv, FileOrderSound
  <2>2. CASE d \notin DOMAIN fileOrder
    <3>1. d = c /\ fileOrder'[d] =
            IF CycleComps # {} THEN <<>> ELSE Places(Levels)
      BY <1>2, <1>8, <2>2
    <3>2. CASE CycleComps # {}
      BY <1>6, <1>7, <3>1, <3>2, CyclicGroup
    <3>3. CASE CycleComps = {}
      BY <1>1, <1>6, <1>7, <3>1, <3>3, AcyclicGroup
    <3> QED BY <3>2, <3>3
  <2> QED BY <2>1, <2>2
<1>9. FileOrderSound'
  BY <1>1, <1>8, SameModules DEF FileOrderSound
<1>10. LayersSound'
  BY <1>1, LayersKept DEF DecompInv
<1>11. CyclesApart'
  BY <1>2, <1>4 DEF CyclesApart
<1>12. OnModules' /\ OnGroup'
  BY <1>1 DEF OnModules, OnGroup
<1> QED BY <1>9, <1>10, <1>11, <1>12 DEF DecompInv

\* Every other step leaves the graph of an unfinished search alone, and what
\* the finished ones have left.
LEMMA DecompKept ==
  ASSUME DecompInv, UNCHANGED evidence, UNCHANGED <<layer, cycles, fileOrder>>,
         \/ UNCHANGED <<roots, succ, stage>>
         \/ stage # "order" /\ stage' \notin {"order", "files"}
  PROVE  DecompInv'
<1>1. LayersSound' /\ FileOrderSound' /\ CyclesApart'
  BY LayersKept, OrdersKept DEF DecompInv, CyclesApart
<1>2. OnModules' /\ OnGroup'
  BY SameEvidence, SameModules DEF DecompInv, OnModules, OnGroup, First
<1> QED BY <1>1, <1>2 DEF DecompInv

LEMMA DecompStep ==
  ASSUME PlanInv, DecompInv, [Next]_allVars
  PROVE  DecompInv'
<1>1. CASE Decomposing
  <2>1. CASE Searching
    <3>1. UNCHANGED evidence /\ UNCHANGED docVars /\ Search
      BY <2>1 DEF Searching
    <3>2. UNCHANGED <<roots, succ>>
      BY <3>1 DEF Search, StartRoot, Descend, Look, Emit, Retreat, Return
    <3> QED BY <3>1, <3>2, DecompKept DEF docVars
  <2> QED BY <1>1, <2>1, LayOutInv, TakeCycleInv, OrderFilesInv
          DEF Decomposing, DecomposeNext
<1>2. CASE TakeUp
  BY <1>2, DecompKept DEF TakeUp, evidence
<1>3. CASE MakeUnits
  BY <1>3, DecompKept DEF MakeUnits
<1>4. CASE Relax
  BY <1>4, DecompKept DEF Relax, docVars, tarjanVars
<1>5. CASE Schedule
  BY <1>5, DecompKept DEF Schedule
<1>6. CASE Claim
  BY <1>6, DecompKept DEF Claim
<1>7. CASE Resolve
  BY <1>7, DecompKept DEF Resolve
<1>8. CASE UNCHANGED allVars
  BY <1>8, DecompKept DEF allVars, docVars, tarjanVars
<1> QED BY <1>1, <1>2, <1>3, <1>4, <1>5, <1>6, <1>7, <1>8 DEF Next

\* What the decomposition has read off its searches stays true of the evidence
\* to the end of the plan.
THEOREM DecompInvariant == PlanSpec => []DecompInv
<1>1. PlanInv /\ DecompInv /\ [Next]_allVars => DecompInv'
  BY DecompStep
<1> QED BY DecomposeInitInv, PlanInvariant, <1>1, PTL DEF PlanSpec

\* Every module has a layer above those of what it depends on, but for the
\* members of its own cycle, on every repository (build_order).
THEOREM PlanLayersSound == PlanSpec => []LayersSound
<1>1. DecompInv => LayersSound
  BY DEF DecompInv
<1> QED BY <1>1, DecompInvariant, PTL

\* An order given for the files of a cycle is one they can be created in, and
\* one is withheld only where there is none (_cycle_resolutions).
THEOREM PlanFileOrder == PlanSpec => []FileOrderSound
<1>1. DecompInv => FileOrderSound
  BY DEF DecompInv
<1> QED BY <1>1, DecompInvariant, PTL

-----------------------------------------------------------------------------
\* The units and their layers.

InUnits == stage = "relax" \/ Planned

NoEmptyComp == \A i \in DOMAIN result : result[i] # {}
UnitsFound  == InUnits => Finished /\ units = Elements(result)

\* The units are the components of the parts' own graph.
LEMMA UnitFacts ==
  ASSUME PlanInv, NoEmptyComp, UnitsFound, InUnits
  PROVE  /\ Live = CodeModules
         /\ \A x \in CodeModules : succ[x] = Prod(x) \cap CodeModules
         /\ \A u \in units : u # {} /\ u \subseteq CodeModules
         /\ \A u, v \in units : u # v => u \cap v = {}
         /\ \A x \in CodeModules : \E u \in units : x \in u
         /\ \A u \in units : \A x, y \in u : Reach(x, y)
         /\ \A u \in units : \A x \in u, z \in CodeModules :
              Reach(x, z) /\ Reach(z, x) => z \in u
<1>1. /\ TarjanInv /\ roots = CodeModules /\ succ = PartGraph
      /\ units = Elements(result) /\ Finished
  BY DEF PlanInv, OnParts, UnitsFound, InUnits, Planned
<1>2. CodeModules \subseteq Node
  BY GraphsOK
<1>3. Live = CodeModules
  BY <1>1 DEF Live, PartGraph
<1>4. \A x \in CodeModules : succ[x] = Prod(x) \cap CodeModules
  <2> TAKE x \in CodeModules
  <2>1. x \in Node
    BY <1>2
  <2>2. PartGraph[x] =
          IF x \in CodeModules THEN Prod(x) \cap CodeModules ELSE {}
    BY <2>1, Zenon DEF PartGraph
  <2> QED BY <1>1, <2>2
<1>5. \A u \in units : \E i \in DOMAIN result : u = result[i]
  BY <1>1 DEF Elements
<1>6. \A u \in units : u # {}
  BY <1>5 DEF NoEmptyComp
<1>7. \A u, v \in units : u # v => u \cap v = {}
  BY <1>1, <1>5 DEF TarjanInv, Split
<1>8. /\ \A u \in units : u \subseteq CodeModules
      /\ \A u \in units : \A x, y \in u : Reach(x, y)
      /\ \A u \in units : \A x \in u, z \in CodeModules :
           Reach(x, z) /\ Reach(z, x) => z \in u
  BY <1>1, <1>3, <1>5, CompMembers
<1>9. ASSUME NEW x \in CodeModules PROVE \E u \in units : x \in u
  <2>1. UNION units = CodeModules
    BY DEF PlanInv, UnitsCover, InUnits
  <2> QED BY <2>1
<1> QED BY <1>3, <1>4, <1>6, <1>7, <1>8, <1>9

\* Nothing is below what it depends on, so the members of a unit share their
\* layer.
LEMMA UnitLayers ==
  ASSUME PlanInv, LayersSound, NoEmptyComp, UnitsFound, InUnits
  PROVE  /\ layer \in [CodeModules -> Nat]
         /\ \A u \in units : \A m \in u : UnitLayer(u) = layer[m]
<1>1. stage # "order"
  BY DEF InUnits, Planned
<1>2. layer \in [CodeModules -> Nat]
  BY <1>1 DEF LayersSound
<1>3. ASSUME NEW x \in CodeModules, NEW y, Reach(x, y)
      PROVE  y \in CodeModules /\ layer[y] <= layer[x]
  <2> DEFINE S == {z \in CodeModules : layer[z] <= layer[x]}
  <2>1. ASSUME NEW m \in S, NEW d \in succ[m] PROVE d \in S
    <3>1. d \in Prod(m) \cap CodeModules
      BY UnitFacts
    <3>2. layer[d] <= layer[m]
      <4>1. layer[d] < layer[m] \/ layer[d] = layer[m]
        BY <1>1, <3>1 DEF LayersSound
      <4> QED BY <1>2, <3>1, <4>1
    <3> QED BY <1>2, <3>1, <3>2
  <2>2. S \in SUBSET Live /\ Closed(S) /\ x \in S
    <3>1. x \in S
      BY <1>2
    <3>2. S \in SUBSET Live
      BY UnitFacts
    <3> HIDE DEF S
    <3> QED BY <2>1, <3>1, <3>2 DEF Closed
  <2>3. y \in S
    <3> HIDE DEF S
    <3> QED BY <1>3, <2>2 DEF Reach
  <2> QED BY <2>3
<1>4. ASSUME NEW u \in units, NEW m \in u PROVE UnitLayer(u) = layer[m]
  <2> DEFINE L == {layer[x] : x \in u}
  <2>1. ASSUME NEW x \in u PROVE layer[x] = layer[m]
    <3>1. x \in CodeModules /\ m \in CodeModules /\ Reach(x, m) /\ Reach(m, x)
      BY UnitFacts
    <3>2. layer[x] <= layer[m] /\ layer[m] <= layer[x]
      BY <1>3, <3>1
    <3> QED BY <1>2, <3>1, <3>2
  <2>2. L = {layer[m]}
    BY <2>1
  <2>3. layer[m] \in Nat
    BY <1>2, UnitFacts
  <2>4. L \in SUBSET Nat /\ L # {}
    BY <2>2, <2>3
  <2>5. Least(L) \in L
    <3> HIDE DEF L
    <3> QED BY <2>4, LeastFacts
  <2> QED BY <2>2, <2>5 DEF UnitLayer
<1> QED BY <1>2, <1>4

LEMMA ProdModules ==
  CodeModules \subseteq Module /\ \A x : Prod(x) \subseteq Module
<1>1. CodeModules \subseteq Module
  BY DEF CodeModules
<1>2. ASSUME NEW x PROVE Prod(x) \subseteq Module
  <2>1. Home \in [File -> Module]
    BY GraphAssumption
  <2>2. Adjacency(x) \subseteq Module
    BY <2>1 DEF Adjacency, Targets
  <2> QED BY <2>2 DEF Prod
<1> QED BY <1>1, <1>2

\* Without generated code on a cycle the two condensations agree: what a unit
\* depends on is in a lower layer.
LEMMA DepLayers ==
  ASSUME PlanInv, LayersSound, NoEmptyComp, UnitsFound, InUnits,
         ~ CodelessCycle, NEW u \in units, NEW d \in DepUnits(u)
  PROVE  d \in units /\ d # u /\ UnitLayer(d) < UnitLayer(u)
<1>1. PICK n \in d : n \in Needs(u)
  BY DEF DepUnits
<1>2. d \in units /\ d # u
  BY DEF DepUnits
<1>3. PICK m \in u : n \in Prod(m)
  BY <1>1 DEF Needs
<1>4. m \in CodeModules /\ n \in CodeModules /\ n \notin u /\ m # n
  BY <1>1, <1>2, <1>3, UnitFacts
<1>5. stage # "order"
  BY DEF InUnits, Planned
<1> DEFINE Shut(S) == \A x \in S : Prod(x) \subseteq S
           Meets(x, y) == \A S \in SUBSET Module : x \in S /\ Shut(S) => y \in S
<1>6. ASSUME Meets(n, m) PROVE FALSE
  <2> DEFINE T == {y \in CodeModules : Reach(n, y)}
                    \cup {z \in Module : ~ Meets(z, m)}
  <2>1. Reach(m, n) /\ ~ Reach(n, m)
    <3>1. n \in succ[m]
      BY <1>3, <1>4, UnitFacts
    <3> QED BY <1>3, <1>4, <3>1, UnitFacts, ReachEdge
  <2>2. CodeModules \subseteq Module /\ \A x : Prod(x) \subseteq Module
    BY ProdModules
  <2>3. T \in SUBSET Module /\ n \in T /\ m \notin T
    BY <1>4, <2>1, <2>2, ReachRefl
  <2>4. PICK x \in T : \E y \in Prod(x) : y \notin T
    <3> HIDE DEF T
    <3> QED BY <1>6, <2>3
  <2>5. PICK c \in Prod(x) : c \notin T
    BY <2>4
  <2>6. c \in Module /\ Meets(c, m)
    BY <2>2, <2>5
  <2>7. Meets(x, m)
    BY <2>6, <2>5
  <2>8. x \in CodeModules /\ Reach(n, x)
    BY <2>4, <2>7
  <2>9. c \notin CodeModules
    <3> SUFFICES ASSUME c \in CodeModules PROVE FALSE
      OBVIOUS
    <3>1. c \in succ[x]
      BY <2>8, <2>5, UnitFacts
    <3>2. Reach(n, c)
      BY <2>8, <3>1, ReachEdge, ReachTrans
    <3> QED BY <2>5, <3>2
  <2>10. ASSUME NEW S \in SUBSET Module, n \in S, Shut(S) PROVE x \in S
    <3> DEFINE V == S \cap CodeModules
    <3>1. V \in SUBSET Live /\ n \in V
      BY <1>4, <2>10, UnitFacts
    <3>2. ASSUME NEW w \in V PROVE succ[w] \subseteq V
      <4>1. succ[w] = Prod(w) \cap CodeModules
        BY UnitFacts
      <4> QED BY <2>10, <4>1
    <3>3. Closed(V)
      BY <3>2 DEF Closed
    <3> HIDE DEF V
    <3>4. x \in V
      BY <2>8, <3>1, <3>3 DEF Reach
    <3> QED BY <3>4 DEF V
  <2>11. ASSUME NEW S \in SUBSET Module, Shut(S), S \cap {c, m, n} # {}
         PROVE  {c, m, n} \subseteq S
    <3>1. m \in S => n \in S
      BY <1>3, <2>11
    <3>2. c \in S => m \in S
      BY <2>6, <2>11
    <3>3. n \in S => c \in S
      BY <2>10, <2>11, <2>5
    <3> QED BY <2>11, <3>1, <3>2, <3>3
  <2>12. c \in Module \ CodeModules
    BY <2>6, <2>9
  <2>13. CodelessCycle
    BY <1>4, <2>11, <2>12 DEF CodelessCycle
  <2> QED BY <2>13
<1>7. layer[n] < layer[m]
  <2>1. n \in Prod(m) \cap CodeModules
    BY <1>3, <1>4
  <2>2. \/ layer[n] < layer[m]
        \/ \A S \in SUBSET Module : n \in S /\ Shut(S) => m \in S
    BY <1>4, <1>5, <2>1 DEF LayersSound
  <2> QED BY <1>6, <2>2
<1>8. UnitLayer(d) = layer[n] /\ UnitLayer(u) = layer[m]
  BY <1>1, <1>2, <1>3, UnitLayers
<1> QED BY <1>2, <1>7, <1>8

-----------------------------------------------------------------------------
\* _relax_phases.

\* The module needs some member of the unit, directly or through others.
Asks(n, u) ==
  \A S \in SUBSET CodeModules :
    n \in S /\ (\A x \in S : PartGraph[x] \subseteq S) => u \cap S # {}

\* A phase is asked for by some module that needs the unit; no member is
\* left behind its own; and the units that are processed have passed their
\* phase on, to units processed after them.
PhaseAsked ==
  \A u \in units : \E n \in CodeModules :
    Asks(n, u) /\ phase[u] = NominalPhase(n)
PhaseNominal ==
  \A u \in units : \A m \in u : phase[u] <= NominalPhase(m)
PassedOn ==
  \A v \in units \ todo : \A d \in DepUnits(v) : phase[d] <= phase[v]
HighestFirst ==
  \A v \in units \ todo : \A w \in units : v \in DepUnits(w) => w \notin todo

RelaxOK ==
  InUnits =>
    /\ phase \in [units -> Nat]
    /\ PhaseAsked
    /\ PhaseNominal
    /\ ~ CodelessCycle => PassedOn /\ HighestFirst
    /\ Planned => todo = {}

OrderInv == NoEmptyComp /\ UnitsFound /\ RelaxOK

LEMMA NominalPhases == \A m : NominalPhase(m) \in {3, 4, 5, 6, 10}
BY DEF NominalPhase

\* The earliest member's phase is one the members ask for.
LEMMA MakeUnitsPhases ==
  ASSUME PlanInv, NoEmptyComp, MakeUnits
  PROVE  OrderInv'
<1>1. /\ UNCHANGED evidence /\ UNCHANGED tarjanVars
      /\ stage = "units" /\ stage' = "relax" /\ Finished
      /\ units' = Elements(result) /\ todo' = units'
      /\ phase' = [u \in units' |-> Least({NominalPhase(m) : m \in u})]
  BY DEF MakeUnits
<1>2. UNCHANGED <<CodeModules, PartGraph>> /\ \A m : NominalPhase(m)' = NominalPhase(m)
  BY <1>1, SameEvidence DEF NominalPhase, TestModules, Code
<1>3. NoEmptyComp' /\ UnitsFound'
  <2>1. UNCHANGED <<result, work, roots, Seen>>
    BY <1>1 DEF tarjanVars, Seen
  <2> QED BY <1>1, <2>1 DEF NoEmptyComp, UnitsFound, Finished, Elements
<1>4. PlanInv'
  BY MakeUnitsInv
<1>5. InUnits'
  BY <1>1 DEF InUnits
<1>6. \A u \in units' : u # {} /\ u \subseteq CodeModules
  <2>1. units' \subseteq SUBSET CodeModules
    BY <1>2, <1>4 DEF PlanInv, PlanTypeOK
  <2>2. \A u \in units' : u # {}
    BY <1>1 DEF NoEmptyComp, Elements
  <2> QED BY <2>1, <2>2
<1>7. ASSUME NEW u \in units'
      PROVE  /\ \E n \in u : phase'[u] = NominalPhase(n)
             /\ \A m \in u : phase'[u] <= NominalPhase(m)
             /\ phase'[u] \in Nat
  <2> DEFINE N == {NominalPhase(m) : m \in u}
  <2>1. N \in SUBSET Nat /\ N # {}
    BY <1>6, NominalPhases
  <2>2. Least(N) \in N /\ \A k \in N : Least(N) <= k
    <3> HIDE DEF N
    <3> QED BY <2>1, LeastFacts
  <2>3. phase'[u] = Least(N)
    BY <1>1
  <2> QED BY <2>1, <2>2, <2>3
<1>8. phase' \in [units' -> Nat]
  BY <1>1, <1>7
<1>9. PhaseAsked'
  <2> SUFFICES ASSUME NEW u \in units'
               PROVE  (\E n \in CodeModules :
                         Asks(n, u) /\ phase[u] = NominalPhase(n))'
    BY DEF PhaseAsked
  <2>1. PICK n \in u : phase'[u] = NominalPhase(n)
    BY <1>7
  <2>2. Asks(n, u)' /\ n \in CodeModules'
    BY <1>2, <1>6, <2>1 DEF Asks
  <2> QED BY <1>2, <2>1, <2>2
<1>10. PhaseNominal'
  BY <1>2, <1>7 DEF PhaseNominal
<1>11. PassedOn' /\ HighestFirst'
  BY <1>1 DEF PassedOn, HighestFirst
<1>12. ~ Planned'
  BY <1>1 DEF Planned
<1> QED BY <1>3, <1>8, <1>9, <1>10, <1>11, <1>12 DEF OrderInv, RelaxOK

\* What the phases are compared with does not change while they are relaxed.
LEMMA SamePlan ==
  ASSUME UNCHANGED evidence, UNCHANGED <<units, layer>>
  PROVE  /\ \A m : NominalPhase(m)' = NominalPhase(m)
         /\ \A n, u : Asks(n, u)' <=> Asks(n, u)
         /\ \A u : DepUnits(u)' = DepUnits(u)
         /\ \A u : UnitLayer(u)' = UnitLayer(u)
         /\ CodelessCycle' <=> CodelessCycle
<1>1. UNCHANGED <<ftype, imports>> /\ UNCHANGED <<CodeModules, PartGraph>>
  BY SameEvidence
<1>2. \A m : Prod(m)' = Prod(m)
  BY SameModules
<1>3. \A m : NominalPhase(m)' = NominalPhase(m)
  BY <1>1 DEF NominalPhase, TestModules, Code
<1>4. \A n, u : Asks(n, u)' <=> Asks(n, u)
  BY <1>1 DEF Asks
<1>5. \A u : DepUnits(u)' = DepUnits(u)
  BY <1>2 DEF DepUnits, Needs
<1>6. \A u : UnitLayer(u)' = UnitLayer(u)
  BY DEF UnitLayer
<1>7. CodelessCycle' <=> CodelessCycle
  BY <1>1, <1>2 DEF CodelessCycle
<1> QED BY <1>3, <1>4, <1>5, <1>6, <1>7

\* What is asked of a unit is asked of what it depends on.
LEMMA AsksDeps ==
  ASSUME PlanInv, NoEmptyComp, UnitsFound, InUnits,
         NEW u \in units, NEW d \in DepUnits(u), NEW n, Asks(n, u)
  PROVE  Asks(n, d)
<1> SUFFICES ASSUME NEW S \in SUBSET CodeModules, n \in S,
                    \A x \in S : PartGraph[x] \subseteq S
             PROVE  d \cap S # {}
  BY DEF Asks
<1>1. PICK x \in u : x \in S
  BY DEF Asks
<1>2. PICK y \in d : y \in Needs(u)
  BY DEF DepUnits
<1>3. PICK m \in u : y \in Prod(m)
  BY <1>2 DEF Needs
<1>4. succ = PartGraph
  BY DEF PlanInv, OnParts, InUnits, Planned
<1>5. S \in SUBSET Live /\ Closed(S)
  BY <1>4, UnitFacts DEF Closed
<1>6. Reach(x, m)
  BY <1>1, <1>3, UnitFacts
<1>7. m \in S
  BY <1>1, <1>5, <1>6 DEF Reach
<1>8. d \in units
  BY DEF DepUnits
<1>9. y \in succ[m]
  BY <1>2, <1>3, <1>8, UnitFacts
<1>10. y \in S
  BY <1>5, <1>7, <1>9 DEF Closed
<1> QED BY <1>2, <1>10

LEMMA RelaxPhases ==
  ASSUME PlanInv, LayersSound, OrderInv, Relax
  PROVE  OrderInv'
<1>1. /\ UNCHANGED evidence /\ UNCHANGED tarjanVars
      /\ UNCHANGED <<stage, layer, units>>
      /\ stage = "relax"
  BY DEF Relax, docVars
<1>2. PICK u \in todo :
        /\ \A v \in todo :
             \/ UnitLayer(v) < UnitLayer(u)
             \/ UnitLayer(v) = UnitLayer(u) /\ Least(u) <= Least(v)
        /\ phase' = [v \in units |-> IF v \in DepUnits(u)
                                     THEN Smaller(phase[v], phase[u])
                                     ELSE phase[v]]
        /\ todo' = todo \ {u}
  BY DEF Relax
<1>3. InUnits /\ ~ Planned' /\ InUnits'
  BY <1>1 DEF InUnits, Planned
<1>4. /\ phase \in [units -> Nat] /\ PhaseAsked /\ PhaseNominal
      /\ ~ CodelessCycle => PassedOn /\ HighestFirst
  BY <1>3 DEF OrderInv, RelaxOK
<1>5. u \in units /\ todo \subseteq units
  BY DEF PlanInv, PlanTypeOK
<1>6. NoEmptyComp' /\ UnitsFound'
  <2>1. UNCHANGED <<result, work, roots, Seen>>
    BY <1>1 DEF tarjanVars, Seen
  <2> QED BY <1>1, <1>3, <2>1
          DEF OrderInv, NoEmptyComp, UnitsFound, Finished, Elements
<1>7. \A v \in units : phase[v] \in Nat
  BY <1>4
<1>8. ASSUME NEW v \in units
      PROVE  /\ phase'[v] \in Nat /\ phase'[v] <= phase[v]
             /\ v \in DepUnits(u) => phase'[v] <= phase[u]
             /\ v \notin DepUnits(u) => phase'[v] = phase[v]
             /\ \/ phase'[v] = phase[v]
                \/ v \in DepUnits(u) /\ phase'[v] = phase[u]
  <2>1. phase'[v] = IF v \in DepUnits(u) THEN Smaller(phase[v], phase[u])
                    ELSE phase[v]
    BY <1>2
  <2> QED BY <1>5, <1>7, <2>1 DEF Smaller
<1>9. phase' \in [units' -> Nat]
  BY <1>1, <1>2, <1>8
<1>10. PhaseAsked'
  <2> SUFFICES ASSUME NEW v \in units
               PROVE  \E n \in CodeModules :
                        Asks(n, v) /\ phase'[v] = NominalPhase(n)
    BY <1>1, SamePlan, SameEvidence DEF PhaseAsked
  <2>1. CASE phase'[v] = phase[v]
    BY <1>4, <2>1 DEF PhaseAsked
  <2>2. CASE v \in DepUnits(u) /\ phase'[v] = phase[u]
    <3>1. PICK n \in CodeModules : Asks(n, u) /\ phase[u] = NominalPhase(n)
      BY <1>4, <1>5 DEF PhaseAsked
    <3>2. Asks(n, v)
      BY <1>3, <1>5, <2>2, <3>1, AsksDeps DEF OrderInv
    <3> QED BY <2>2, <3>1, <3>2
  <2> QED BY <1>8, <2>1, <2>2
<1>11. PhaseNominal'
  <2> SUFFICES ASSUME NEW v \in units, NEW m \in v
               PROVE  phase'[v] <= NominalPhase(m)
    BY <1>1, SamePlan DEF PhaseNominal
  <2>1. phase[v] <= NominalPhase(m) /\ NominalPhase(m) \in Nat
    BY <1>4, NominalPhases DEF PhaseNominal
  <2> QED BY <1>7, <1>8, <2>1
<1>12. ASSUME ~ CodelessCycle PROVE PassedOn' /\ HighestFirst'
  <2>1. \A w \in units : \A d \in DepUnits(w) :
          d \in units /\ d # w /\ UnitLayer(d) < UnitLayer(w)
    BY <1>3, <1>12, DepLayers DEF OrderInv
  <2>2. \A v \in units : UnitLayer(v) \in Nat
    BY <1>3, UnitLayers, UnitFacts DEF OrderInv
  <2>3. ASSUME NEW v \in units \ todo', NEW w \in units, v \in DepUnits(w)
        PROVE  w \notin todo'
    <3>1. CASE v = u
      <4>1. UnitLayer(u) < UnitLayer(w)
        BY <2>1, <2>3, <3>1
      <4> QED BY <1>2, <1>5, <2>2, <4>1
    <3>2. CASE v # u
      BY <1>2, <1>4, <1>12, <2>3, <3>2 DEF HighestFirst
    <3> QED BY <3>1, <3>2
  <2>4. ASSUME NEW v \in units \ todo', NEW d \in DepUnits(v)
        PROVE  phase'[d] <= phase'[v]
    <3>1. d \in units /\ d # v
      BY <2>1
    <3>2. CASE v = u
      <4>1. u \notin DepUnits(u)
        BY DEF DepUnits
      <4> QED BY <1>5, <1>8, <3>1, <3>2, <4>1
    <3>3. CASE v # u
      <4>1. v \notin todo
        BY <1>2, <2>4, <3>3
      <4>2. v \notin DepUnits(u)
        BY <1>2, <1>4, <1>5, <1>12, <4>1 DEF HighestFirst
      <4>3. phase[d] <= phase[v]
        BY <1>4, <1>12, <2>4, <4>1 DEF PassedOn
      <4>4. phase'[d] <= phase[d] /\ phase'[v] = phase[v]
        BY <1>8, <3>1, <4>2
      <4> QED BY <1>7, <1>8, <3>1, <4>3, <4>4
    <3> QED BY <3>2, <3>3
  <2>5. HighestFirst'
    BY <1>1, <2>3, SamePlan DEF HighestFirst
  <2>6. PassedOn'
    BY <1>1, <2>4, SamePlan DEF PassedOn
  <2> QED BY <2>5, <2>6
<1>13. ~ CodelessCycle' => PassedOn' /\ HighestFirst'
  BY <1>1, <1>12, SamePlan
<1> QED BY <1>3, <1>6, <1>9, <1>10, <1>11, <1>13 DEF OrderInv, RelaxOK

\* From then on neither the units nor their phases change.
LEMMA OrderKept ==
  ASSUME OrderInv, UNCHANGED evidence, UNCHANGED tarjanVars,
         UNCHANGED <<layer, units, phase, todo>>,
         InUnits' => InUnits, Planned' => todo = {}
  PROVE  OrderInv'
<1>1. NoEmptyComp' /\ UnitsFound'
  <2>1. UNCHANGED <<result, work, roots, Seen>>
    BY DEF tarjanVars, Seen
  <2> QED BY <2>1 DEF OrderInv, NoEmptyComp, UnitsFound, Finished, Elements
<1>2. ASSUME InUnits' PROVE /\ PhaseAsked' /\ PhaseNominal'
                            /\ ~ CodelessCycle' => PassedOn' /\ HighestFirst'
  <2>1. /\ PhaseAsked /\ PhaseNominal
        /\ ~ CodelessCycle => PassedOn /\ HighestFirst
    BY <1>2 DEF OrderInv, RelaxOK
  <2>2. PhaseAsked'
    BY <2>1, SamePlan, SameEvidence DEF PhaseAsked
  <2>3. PhaseNominal'
    BY <2>1, SamePlan DEF PhaseNominal
  <2>4. PassedOn => PassedOn'
    BY SamePlan DEF PassedOn
  <2>5. HighestFirst => HighestFirst'
    BY SamePlan DEF HighestFirst
  <2> QED BY <2>1, <2>2, <2>3, <2>4, <2>5, SamePlan
<1> QED BY <1>1, <1>2 DEF OrderInv, RelaxOK

\* A search of the decomposition emits no empty component.
LEMMA NoEmptyKept ==
  ASSUME PlanInv, NoEmptyComp,
         \/ UNCHANGED result \/ result' = <<>> \/ Emit
  PROVE  NoEmptyComp'
<1>1. CASE Emit
  <2>1. PICK k \in DOMAIN stack :
          result' = Append(result, {stack[i] : i \in k .. Len(stack)})
    BY <1>1 DEF Emit
  <2>2. stack \in Seq(Node) /\ result \in Seq(SUBSET Node)
    BY DEF PlanInv, TarjanInv, TarjanTypeOK
  <2>3. k \in k .. Len(stack)
    BY <2>2
  <2> DEFINE C == {stack[i] : i \in k .. Len(stack)}
  <2>4. C # {} /\ C \in SUBSET Node
    <3>1. \A i \in k .. Len(stack) : stack[i] \in Node
      BY <2>2
    <3> QED BY <2>3, <3>1
  <2>5. result' = Append(result, C)
    BY <2>1
  <2> HIDE DEF C
  <2>6. \A i \in DOMAIN result' :
          \/ result'[i] = C
          \/ i \in DOMAIN result /\ result'[i] = result[i]
    <3>1. /\ DOMAIN result' = 1 .. Len(result) + 1 /\ Len(result) \in Nat
          /\ DOMAIN result = 1 .. Len(result)
          /\ \A i \in 1 .. Len(result) : result'[i] = result[i]
          /\ result'[Len(result) + 1] = C
      BY <2>2, <2>4, <2>5
    <3> TAKE i \in DOMAIN result'
    <3>2. CASE i = Len(result) + 1
      BY <3>1, <3>2
    <3>3. CASE i \in 1 .. Len(result)
      BY <3>1, <3>3
    <3>4. i = Len(result) + 1 \/ i \in 1 .. Len(result)
      BY <3>1
    <3> QED BY <3>2, <3>3, <3>4
  <2> QED BY <2>4, <2>6 DEF NoEmptyComp
<1>2. CASE UNCHANGED result
  BY <1>2 DEF NoEmptyComp
<1>3. CASE result' = <<>>
  BY <1>3 DEF NoEmptyComp
<1> QED BY <1>1, <1>2, <1>3

LEMMA OrderStep ==
  ASSUME PlanInv, LayersSound, OrderInv, [Next]_allVars
  PROVE  OrderInv'
<1>1. CASE Decomposing \/ TakeUp
  <2>1. NoEmptyComp'
    <3>1. UNCHANGED result \/ result' = <<>> \/ Emit
      BY <1>1 DEF Decomposing, DecomposeNext, Searching, LayOut, TakeCycle,
         OrderFiles, TakeUp, Restart, Search, StartRoot, Descend, Look,
         Retreat, tarjanVars
    <3> QED BY <3>1, NoEmptyKept DEF OrderInv
  <2>2. ~ InUnits'
    BY <1>1 DEF Decomposing, DecomposeNext, Searching, LayOut, TakeCycle,
       OrderFiles, TakeUp, docVars, InUnits, Planned
  <2> QED BY <2>1, <2>2 DEF OrderInv, UnitsFound, RelaxOK
<1>2. CASE MakeUnits
  BY <1>2, MakeUnitsPhases DEF OrderInv
<1>3. CASE Relax
  BY <1>3, RelaxPhases
<1>4. CASE Schedule
  BY <1>4, OrderKept DEF Schedule, InUnits
<1>5. CASE Claim
  <2>1. Planned
    BY <1>5 DEF Claim, Planned
  <2> QED BY <1>5, <2>1, OrderKept DEF Claim, InUnits, OrderInv, RelaxOK
<1>6. CASE Resolve
  <2>1. Planned
    BY <1>6 DEF Resolve, Planned
  <2> QED BY <1>6, <2>1, OrderKept DEF Resolve, InUnits, OrderInv, RelaxOK
<1>7. CASE UNCHANGED allVars
  <2>1. /\ UNCHANGED evidence /\ UNCHANGED tarjanVars
        /\ UNCHANGED <<stage, layer, units, phase, todo>>
    BY <1>7 DEF allVars, docVars, planVars
  <2>2. (InUnits' <=> InUnits) /\ (Planned' => InUnits /\ Planned)
    BY <2>1 DEF InUnits, Planned
  <2> QED BY <2>1, <2>2, OrderKept DEF OrderInv, RelaxOK
<1> QED BY <1>1, <1>2, <1>3, <1>4, <1>5, <1>6, <1>7 DEF Next

\* The units are the components of the parts' graph, and their phases are
\* relaxed from the highest layer down.
THEOREM OrderInvariant == PlanSpec => []OrderInv
<1>1. Init => OrderInv
  BY DEF Init, DecomposeInit, Fresh, OrderInv, NoEmptyComp, UnitsFound,
     RelaxOK, InUnits, Planned
<1>2. PlanInv /\ DecompInv /\ OrderInv /\ [Next]_allVars => OrderInv'
  BY OrderStep DEF DecompInv
<1> QED BY <1>1, <1>2, PlanInvariant, DecompInvariant, PTL DEF PlanSpec

\* A finished relaxation gives every unit the earliest phase a module that
\* needs it asks for, and no other (_relax_phases).
THEOREM PlanPhases == PlanSpec => []PhasesRelaxed
<1>1. PlanInv /\ DecompInv /\ OrderInv => PhasesRelaxed
  <2> SUFFICES ASSUME PlanInv, DecompInv, OrderInv, Planned, ~ CodelessCycle,
                      NEW u \in units
               PROVE  phase[u] = Least({NominalPhase(m) : m \in
                                         {n \in CodeModules : Asks(n, u)}})
    BY DEF PhasesRelaxed, Asks
  <2> DEFINE N == {NominalPhase(m) : m \in {n \in CodeModules : Asks(n, u)}}
  <2>1. /\ InUnits /\ NoEmptyComp /\ UnitsFound
        /\ phase \in [units -> Nat] /\ todo = {}
        /\ PhaseAsked /\ PhaseNominal /\ PassedOn
    BY DEF InUnits, OrderInv, RelaxOK
  <2>2. phase[u] \in N
    BY <2>1 DEF PhaseAsked
  <2>3. ASSUME NEW n \in CodeModules, Asks(n, u)
        PROVE  phase[u] <= NominalPhase(n)
    <3> DEFINE S == UNION {v \in units : phase[v] <= NominalPhase(n)}
    <3>1. S \in SUBSET CodeModules
      BY <2>1, UnitFacts
    <3>2. n \in S
      <4>1. PICK v \in units : n \in v
        BY <2>1, UnitFacts
      <4> QED BY <2>1, <4>1 DEF PhaseNominal
    <3>3. ASSUME NEW x \in S, NEW y \in PartGraph[x] PROVE y \in S
      <4>1. PICK v \in units : x \in v /\ phase[v] <= NominalPhase(n)
        OBVIOUS
      <4>2. y \in Prod(x) \cap CodeModules
        <5>1. succ = PartGraph
          BY DEF PlanInv, OnParts, Planned
        <5> QED BY <2>1, <3>1, <3>3, <5>1, UnitFacts
      <4>3. PICK w \in units : y \in w
        BY <2>1, <4>2, UnitFacts
      <4>4. CASE w = v
        BY <4>1, <4>3, <4>4
      <4>5. CASE w # v
        <5>1. y \notin v
          BY <2>1, <4>3, <4>5, UnitFacts
        <5>2. y \in Needs(v)
          <6>1. y \in UNION {Prod(m) : m \in v}
            BY <4>1, <4>2
          <6> QED BY <5>1, <6>1 DEF Needs
        <5>3. w \in DepUnits(v)
          BY <4>3, <4>5, <5>2 DEF DepUnits
        <5>4. phase[w] <= phase[v]
          BY <2>1, <5>3 DEF PassedOn
        <5>5. phase[w] \in Nat /\ phase[v] \in Nat /\ NominalPhase(n) \in Nat
          BY <2>1, NominalPhases
        <5>6. phase[w] <= NominalPhase(n)
          BY <4>1, <5>4, <5>5
        <5> QED BY <4>3, <5>6
      <4> QED BY <4>4, <4>5
    <3>4. u \cap S # {}
      <4> HIDE DEF S
      <4> QED BY <2>3, <3>1, <3>2, <3>3 DEF Asks
    <3>5. PICK v \in units : u \cap v # {} /\ phase[v] <= NominalPhase(n)
      BY <3>4
    <3>6. v = u
      BY <2>1, <3>5, UnitFacts
    <3> QED BY <3>5, <3>6
  <2>4. \A k \in N : phase[u] <= k
    BY <2>3
  <2>5. N \in SUBSET Nat
    BY NominalPhases
  <2>6. Least(N) \in N /\ \A k \in N : Least(N) <= k
    <3> HIDE DEF N
    <3> QED BY <2>2, <2>5, LeastFacts
  <2>7. phase[u] = Least(N)
    <3> HIDE DEF N
    <3>1. phase[u] \in Nat /\ Least(N) \in Nat
      BY <2>2, <2>5, <2>6
    <3>2. phase[u] <= Least(N) /\ Least(N) <= phase[u]
      BY <2>2, <2>4, <2>6
    <3> QED BY <3>1, <3>2
  <2> QED BY <2>7
<1> QED BY <1>1, PlanInvariant, DecompInvariant, OrderInvariant, PTL

-----------------------------------------------------------------------------
\* The numbers of the steps.

Keyed(S) == \A s \in S : s.phase \in Int /\ s.layer \in Int /\ s.name \in Int

\* A step sorted before another has the smaller number.
LEMMA NumbersRise ==
  ASSUME IsFiniteSet(steps), Keyed(steps), NEW s \in steps, NEW t \in steps,
         Before(t, s)
  PROVE  /\ Number(t) < Number(s) /\ Number(t) >= 1
         /\ Number(t) \in Nat /\ Number(s) \in Nat
<1> DEFINE A(x) == {r \in steps : Before(r, x)}
<1>1. \A x : IsFiniteSet(A(x)) /\ Cardinality(A(x)) \in Nat
  <2>1. \A x : A(x) \in SUBSET steps
    OBVIOUS
  <2> HIDE DEF A
  <2> QED BY <2>1, FS_Subset, FS_CardinalityType
<1>2. ASSUME NEW r \in steps, Before(r, t) PROVE Before(r, s)
  BY <1>2 DEF Keyed, Before
<1>3. ~ Before(t, t)
  BY DEF Keyed, Before
<1>4. A(t) \in SUBSET A(s) /\ t \in A(s) \ A(t)
  BY <1>2, <1>3
<1>5. Number(t) = 1 + Cardinality(A(t)) /\ Number(s) = 1 + Cardinality(A(s))
  BY DEF Number
<1> HIDE DEF A
<1>6. Cardinality(A(t)) < Cardinality(A(s))
  BY <1>1, <1>4, SmallerPart
<1> QED BY <1>1, <1>5, <1>6

\* The sort keys are numbers, and only the step of a unit builds parts.
StepOK(s) ==
  /\ s.phase \in Int /\ s.layer \in Int /\ s.name \in Int
  /\ s.members # {} => \E u \in units : s = UnitStep(u)

LEMMA StepFacts ==
  ASSUME PlanInv, DecompInv, OrderInv, InUnits
  PROVE  /\ Keyed(AllSteps)
         /\ \A s \in AllSteps :
              s.members # {} => \E u \in units : s = UnitStep(u)
         /\ \A u \in units : phase[u] >= 3 /\ phase[u] \in Nat
<1>1. /\ phase \in [units -> Nat] /\ PhaseAsked
      /\ NoEmptyComp /\ UnitsFound /\ LayersSound
  BY DEF OrderInv, RelaxOK, DecompInv
<1>2. ASSUME NEW u \in units
      PROVE  /\ phase[u] >= 3 /\ phase[u] \in Nat
             /\ UnitLayer(u) \in Nat /\ Least(u) \in Nat
  <2>1. phase[u] \in {3, 4, 5, 6, 10}
    BY <1>1, NominalPhases DEF PhaseAsked
  <2>2. UnitLayer(u) \in Nat
    BY <1>1, UnitFacts, UnitLayers
  <2>3. u \in SUBSET Nat /\ u # {}
    <3>1. CodeModules \subseteq Node /\ Node \subseteq Nat
      BY GraphsOK, NodeAssumption
    <3> QED BY <1>1, <3>1, UnitFacts
  <2>4. Least(u) \in Nat
    BY <2>3, LeastFacts
  <2> QED BY <2>1, <2>2, <2>4
<1>3. ASSUME NEW s \in AllSteps PROVE StepOK(s)
  <2>1. BigLayer \in Int
    BY DEF BigLayer
  <2>2. ASSUME NEW p \in Int, NEW l \in Int, NEW n \in Int, NEW a, NEW b, NEW c,
               s = Step(p, l, n, {}, a, b, c)
        PROVE  StepOK(s)
    BY <2>2 DEF Step, StepOK
  <2>3. CASE s \in FixedSteps
    BY <2>1, <2>2, <2>3 DEF FixedSteps
  <2>4. CASE s \in FixtureSteps
    BY <2>2, <2>4 DEF FixtureSteps
  <2>5. CASE s \in SchemaSteps
    BY <2>2, <2>5 DEF SchemaSteps
  <2>6. CASE s \in OpsSteps
    <3>1. PICK k \in 1 .. 6 :
            s = Step(9, BigLayer, k, {}, {}, {1}, OpsFiles(k))
      BY <2>6 DEF OpsSteps
    <3> QED BY <2>1, <2>2, <3>1
  <2>7. CASE s \in DocSteps
    <3>1. PICK D : s = Step(12, BigLayer, 0, {}, {}, {}, D)
      BY <2>7 DEF DocSteps
    <3> QED BY <2>1, <2>2, <3>1
  <2>8. ASSUME NEW u \in units, s = UnitStep(u) PROVE StepOK(s)
    <3>1. s.phase = phase[u] /\ s.layer = UnitLayer(u) /\ s.name = Least(u)
      BY <2>8 DEF UnitStep, Step
    <3> QED BY <1>2, <2>8, <3>1 DEF StepOK
  <2>9. ASSUME NEW d \in Module, s = WiringStep(d) PROVE StepOK(s)
    <3>1. d \in Nat
      BY GraphAssumption, NodeAssumption
    <3>2. s.phase = 7 /\ s.layer = BigLayer /\ s.name = d /\ s.members = {}
      BY <2>9 DEF WiringStep, Step
    <3> QED BY <2>1, <3>1, <3>2 DEF StepOK
  <2>10. \A f \in File : Home[f] \in Module
    BY GraphAssumption
  <2>11. CASE s \in {UnitStep(u) : u \in units}
    <3>1. PICK u \in units : s = UnitStep(u)
      BY <2>11
    <3> QED BY <2>8, <3>1
  <2>12. CASE s \in {WiringStep(d) :
                      d \in {Home[f] : f \in {g \in File : Entry(g)}}}
    <3>1. PICK f \in File : s = WiringStep(Home[f])
      BY <2>12
    <3> QED BY <2>9, <2>10, <3>1
  <2> QED BY <2>3, <2>4, <2>5, <2>6, <2>7, <2>11, <2>12 DEF AllSteps
<1> QED BY <1>2, <1>3 DEF Keyed, StepOK

\* What a step requires has a smaller number.
LEMMA Backward ==
  ASSUME PlanInv, DecompInv, OrderInv, Planned, ~ TestWiring,
         ~ CodelessCycle, NEW s \in steps
  PROVE  \A r \in Requires(s) : r \in Int /\ r < Number(s)
         /\ Number(s) \in Int
<1>1. /\ steps = AllSteps /\ IsFiniteSet(steps) /\ InUnits
  BY FiniteSteps DEF PlanInv, Scheduled, PlanTypeOK, InUnits
<1>2. /\ phase \in [units -> Nat] /\ PhaseNominal /\ PassedOn /\ todo = {}
      /\ NoEmptyComp /\ UnitsFound /\ LayersSound
  BY <1>1 DEF OrderInv, RelaxOK, DecompInv
<1>3. Keyed(steps)
  BY <1>1, StepFacts
<1> DEFINE one == Step(1, -1, 0, {}, {}, {}, {})
           two == Step(2, -1, 0, {}, {}, {1}, Manifests \ Fixtures)
<1>4. one \in steps /\ two \in steps
  BY <1>1 DEF AllSteps, FixedSteps
<1>5. s.phase \in Int
  BY <1>3 DEF Keyed
<1>6. s.phase > 1 => Number(s) > 1
  <2> SUFFICES ASSUME s.phase > 1 PROVE Number(s) > 1
    OBVIOUS
  <2>1. Before(one, s)
    BY DEF Before, Step
  <2> HIDE DEF one
  <2>2. Number(one) < Number(s) /\ Number(one) >= 1 /\ Number(one) \in Nat
        /\ Number(s) \in Nat
    BY <1>1, <1>3, <1>4, <2>1, NumbersRise
  <2> QED BY <2>2
<1>7. s.phase > 2 => Number(s) > 2
  <2> SUFFICES ASSUME s.phase > 2 PROVE Number(s) > 2
    OBVIOUS
  <2>1. Before(one, two) /\ Before(two, s)
    BY DEF Before, Step
  <2> HIDE DEF one, two
  <2>2. /\ Number(one) < Number(two) /\ Number(two) < Number(s)
        /\ Number(one) >= 1 /\ Number(one) \in Nat
        /\ Number(two) \in Nat /\ Number(s) \in Nat
    BY <1>1, <1>3, <1>4, <2>1, NumbersRise
  <2> QED BY <2>2
<1>8. \/ s.after = {}
      \/ s.phase > 1 /\ s.after = {1}
      \/ s.phase > 2 /\ s.after \subseteq {1, 2}
  <2>1. CASE s \in FixedSteps
    BY <2>1 DEF FixedSteps, Step
  <2>2. CASE s \in FixtureSteps \cup SchemaSteps \cup DocSteps
    BY <2>2 DEF FixtureSteps, SchemaSteps, DocSteps, Step
  <2>3. CASE s \in OpsSteps
    BY <2>3 DEF OpsSteps, Step
  <2>4. ASSUME NEW u \in units, s = UnitStep(u)
        PROVE  s.phase > 2 /\ s.after \subseteq {1, 2}
    <3>1. phase[u] >= 3 /\ phase[u] \in Nat
      BY <1>1, StepFacts
    <3> QED BY <2>4, <3>1 DEF UnitStep, Step
  <2>5. ASSUME NEW d, s = WiringStep(d) PROVE s.after = {}
    BY <2>5 DEF WiringStep, Step
  <2> QED BY <1>1, <2>1, <2>2, <2>3, <2>4, <2>5 DEF AllSteps
<1>9. Number(s) \in Int
  <2>1. {t \in steps : Before(t, s)} \in SUBSET steps
    OBVIOUS
  <2>2. Cardinality({t \in steps : Before(t, s)}) \in Nat
    BY <1>1, <2>1, FS_Subset, FS_CardinalityType
  <2> QED BY <2>2 DEF Number
<1>10. \A r \in s.after : r \in Int /\ r < Number(s)
  <2> HIDE DEF one, two
  <2> QED BY <1>6, <1>7, <1>8, <1>9
<1>11. ASSUME NEW t \in steps, t # s, t.members \cap s.needs # {}
       PROVE  Before(t, s)
  <2>1. PICK v \in units : t = UnitStep(v)
    BY <1>1, <1>11, StepFacts
  <2>2. t.members = v /\ t.phase = phase[v] /\ t.layer = UnitLayer(v)
    BY <2>1 DEF UnitStep, Step
  <2>3. ASSUME NEW u \in units, s = UnitStep(u) PROVE Before(t, s)
    <3>1. s.needs = Needs(u) /\ s.phase = phase[u] /\ s.layer = UnitLayer(u)
      BY <2>3 DEF UnitStep, Step
    <3>2. v # u
      BY <1>11, <2>1, <2>3
    <3>3. v \in DepUnits(u)
      BY <1>11, <2>2, <3>1, <3>2 DEF DepUnits
    <3>4. phase[v] <= phase[u]
      BY <1>2, <3>3 DEF PassedOn
    <3>5. UnitLayer(v) < UnitLayer(u)
      BY <1>1, <1>2, <3>3, DepLayers
    <3>6. phase[v] \in Nat /\ phase[u] \in Nat
      BY <1>2
    <3> QED BY <2>2, <3>1, <3>4, <3>5, <3>6 DEF Before
  <2>4. ASSUME NEW f \in File, Entry(f), s = WiringStep(Home[f])
        PROVE  Before(t, s)
    <3>1. PICK x \in v : x \in s.needs
      BY <1>11, <2>2
    <3>2. s.phase = 7
      BY <2>4 DEF WiringStep, Step
    <3>3. x \notin TestModules
      <4>1. \/ x = Home[f]
            \/ \E e \in File : \E g \in Targets(e) :
                 Entry(e) /\ x = Home[g]
        BY <2>4, <3>1 DEF WiringStep, Step
      <4> QED BY <2>4, <4>1 DEF TestWiring
    <3>4. NominalPhase(x) \in {3, 4, 5, 6}
      BY <3>3 DEF NominalPhase
    <3>5. phase[v] <= NominalPhase(x) /\ phase[v] \in Nat
      BY <1>2 DEF PhaseNominal
    <3> QED BY <2>2, <3>2, <3>4, <3>5 DEF Before
  <2>5. s.needs # {}
    BY <1>11
  <2>6. s \notin FixedSteps \cup FixtureSteps \cup SchemaSteps \cup DocSteps
    BY <2>5 DEF FixedSteps, FixtureSteps, SchemaSteps, DocSteps, Step
  <2>7. s \notin OpsSteps
    BY <2>5 DEF OpsSteps, Step
  <2> QED BY <1>1, <2>3, <2>4, <2>6, <2>7 DEF AllSteps
<1>12. \A t \in steps : t # s /\ t.members \cap s.needs # {}
                          => Number(t) \in Int /\ Number(t) < Number(s)
  <2> HIDE DEF one, two
  <2> QED BY <1>1, <1>3, <1>11, NumbersRise
<1> HIDE DEF one, two
<1> QED BY <1>9, <1>12, <1>10 DEF Requires

\* The two shapes of repository are shapes of the evidence.
LEMMA SameFailure ==
  ASSUME UNCHANGED evidence, TestWiring \/ CodelessCycle
  PROVE  (TestWiring \/ CodelessCycle)'
<1>1. UNCHANGED <<ftype, imports>> /\ UNCHANGED CodeModules
  BY SameEvidence
<1>2. (\A m : Prod(m)' = Prod(m)) /\ \A f : Targets(f)' = Targets(f)
  BY SameModules
<1>3. TestWiring => TestWiring'
  BY <1>1, <1>2 DEF TestWiring, Entry, TestModules, Code
<1>4. CodelessCycle => CodelessCycle'
  BY <1>1, <1>2 DEF CodelessCycle
<1> QED BY <1>3, <1>4

\* A plan is refused only for a test among the entry points or their imports,
\* or for generated code on an import cycle; every other plan builds backward
\* (recompose: forward dependency in plan).
THEOREM PlanFailsOnlyOn == PlanSpec => []FailsOnlyOn
<1>1. Init => FailsOnlyOn
  BY DEF Init, DecomposeInit, FailsOnlyOn
<1>2. PlanInv /\ DecompInv /\ OrderInv /\ FailsOnlyOn /\ [Next]_allVars
        => FailsOnlyOn'
  <2> SUFFICES ASSUME PlanInv, DecompInv, OrderInv, FailsOnlyOn,
                      [Next]_allVars, stage' = "failed"
               PROVE  (TestWiring \/ CodelessCycle)'
    BY DEF FailsOnlyOn
  <2>1. CASE Resolve
    <3>1. UNCHANGED evidence /\ UNCHANGED <<units, layer>> /\ Planned
      BY <2>1 DEF Resolve, Planned
    <3>2. PICK s \in steps : \E r \in Requires(s) : r >= Number(s)
      <4>1. at # at + 1
        BY DEF PlanInv, PlanTypeOK
      <4> QED BY <2>1 DEF Resolve
    <3>3. TestWiring \/ CodelessCycle
      <4> SUFFICES ASSUME ~ TestWiring, ~ CodelessCycle PROVE FALSE
        OBVIOUS
      <4>1. PICK r \in Requires(s) : r >= Number(s)
        BY <3>2
      <4>2. r \in Int /\ r < Number(s) /\ Number(s) \in Int
        BY <3>1, Backward
      <4> QED BY <4>1, <4>2
    <3> QED BY <3>1, <3>3, SameFailure
  <2>2. CASE stage = "failed" /\ UNCHANGED evidence
    BY <2>2, SameFailure DEF FailsOnlyOn
  <2>3. CASE Claim
    <3>1. stage' \in {"claim", "resolve"}
      BY <2>3 DEF Claim
    <3> QED BY <3>1
  <2>4. CASE Decomposing \/ Relax \/ UNCHANGED allVars
    <3>1. UNCHANGED evidence /\ (UNCHANGED stage \/ stage' # "failed")
      BY <2>4 DEF Decomposing, DecomposeNext, Searching, LayOut, TakeCycle,
         OrderFiles, Relax, allVars, docVars
    <3> QED BY <2>2, <3>1
  <2>5. CASE TakeUp \/ MakeUnits \/ Schedule
    BY <2>5 DEF TakeUp, MakeUnits, Schedule
  <2> QED BY <2>1, <2>3, <2>4, <2>5 DEF Next
<1> QED BY <1>1, <1>2, PlanInvariant, DecompInvariant, OrderInvariant, PTL
        DEF PlanSpec

=============================================================================
