--------------------------- MODULE CodePatchProofs ---------------------------
(***************************************************************************)
(* The code-patch applier, for every source and every patch: its types,    *)
(* the freshness of the symbol table, and what is left of the symbols of a *)
(* text when one of them is taken out, gets other lines or is moved.       *)
(***************************************************************************)
EXTENDS CodePatch, TLAPS, FiniteSetTheorems, SequenceTheorems,
        WellFoundedInduction

-----------------------------------------------------------------------------
\* Least and greatest numbers, and the first of the lines found.

LEMMA LeastLine ==
  ASSUME NEW S \in SUBSET Nat, S # {}
  PROVE  \E n \in S : \A m \in S : n <= m
<1> DEFINE R == OpToRel(<, Nat)
<1>1. IsWellFoundedOn(R, Nat)
  BY NatLessThanWellFounded
<1>2. ASSUME NEW x \in Nat, NEW y \in Nat, x < y PROVE <<x, y>> \in R
  BY <1>2 DEF OpToRel
<1>3. S \subseteq Nat
  OBVIOUS
<1> HIDE DEF R
<1>4. PICK x \in S : \A y \in S : ~ (<<y, x>> \in R)
  BY <1>1, <1>3, WFMin
<1>5. ASSUME NEW y \in S PROVE x <= y
  <2>1. ~(y < x)
    BY <1>2, <1>4
  <2> QED BY <2>1
<1> QED BY <1>5

\* The last of the numbers up to n is the one that is least far from n.
LEMMA LastLine ==
  ASSUME NEW n \in Nat, NEW S \in SUBSET (0 .. n), S # {}
  PROVE  \E m \in S : \A k \in S : k <= m
<1> DEFINE D == {n - k : k \in S}
<1>0. \A k \in S : k \in 0 .. n
  OBVIOUS
<1>1. D \in SUBSET Nat /\ D # {}
  <2>1. \A k \in S : n - k \in Nat
    BY <1>0
  <2> QED BY <2>1
<1>2. PICK d \in D : \A e \in D : d <= e
  BY <1>1, LeastLine
<1>3. PICK m \in S : d = n - m
  BY <1>2
<1>4. \A k \in S : n - m <= n - k
  BY <1>2, <1>3
<1>5. \A k \in S : n - m <= n - k => k <= m
  BY <1>0, <1>3
<1> QED BY <1>4, <1>5

LEMMA FirstFacts ==
  ASSUME NEW S \in SUBSET Nat
  PROVE  /\ First(S) \in Nat
         /\ S # {} => First(S) \in S /\ \A k \in S : First(S) <= k
         /\ S = {} => First(S) = 0
<1>1. CASE S = {}
  BY <1>1 DEF First
<1>2. CASE S # {}
  <2>1. \E i \in S : \A j \in S : i <= j
    BY <1>2, LeastLine
  <2>2. First(S) \in S /\ \A k \in S : First(S) <= k
    BY <1>2, <2>1 DEF First
  <2> QED BY <1>2, <2>2
<1> QED BY <1>1, <1>2

-----------------------------------------------------------------------------
\* Ranges of lines.

LEMMA TakeFacts ==
  ASSUME NEW S, NEW ls \in Seq(S), NEW n \in Nat
  PROVE  /\ Take(ls, n) \in Seq(S)
         /\ Len(Take(ls, n)) = Smaller(n, Len(ls))
         /\ \A i \in 1 .. Smaller(n, Len(ls)) : Take(ls, n)[i] = ls[i]
<1>1. Smaller(n, Len(ls)) \in 0 .. Len(ls) /\ Len(ls) \in Nat
  BY LenProperties DEF Smaller
<1>2. \A i \in 1 .. Smaller(n, Len(ls)) : ls[i] \in S
  BY <1>1, ElementOfSeq
<1> QED BY <1>1, <1>2, SubSeqProperties DEF Take

LEMMA DropFacts ==
  ASSUME NEW S, NEW ls \in Seq(S), NEW n \in Nat
  PROVE  /\ Drop(ls, n) \in Seq(S)
         /\ Len(Drop(ls, n)) = IF n <= Len(ls) THEN Len(ls) - n ELSE 0
         /\ \A i \in 1 .. (Len(ls) - n) : Drop(ls, n)[i] = ls[n + i]
<1>1. Len(ls) \in Nat
  BY LenProperties
<1>2. \A i \in n + 1 .. Len(ls) : ls[i] \in S
  BY <1>1, ElementOfSeq
<1>3. /\ SubSeq(ls, n + 1, Len(ls)) \in Seq(S)
      /\ Len(SubSeq(ls, n + 1, Len(ls))) =
           IF n + 1 <= Len(ls) THEN Len(ls) - (n + 1) + 1 ELSE 0
      /\ \A i \in 1 .. Len(ls) - (n + 1) + 1 :
           SubSeq(ls, n + 1, Len(ls))[i] = ls[n + 1 + i - 1]
  BY <1>1, <1>2, SubSeqProperties
<1>4. Len(ls) - (n + 1) + 1 = Len(ls) - n /\ \A i \in Int : n + 1 + i - 1 = n + i
  BY <1>1
<1> QED BY <1>1, <1>3, <1>4 DEF Drop

LEMMA SliceType ==
  ASSUME NEW S, NEW ls \in Seq(S), NEW from \in Nat \ {0}, NEW to \in Nat \ {0}
  PROVE  Slice(ls, from, to) \in Seq(S)
<1>1. from - 1 \in Nat /\ to - 1 \in Nat
  OBVIOUS
<1>2. Take(ls, to - 1) \in Seq(S)
  BY <1>1, TakeFacts
<1> QED BY <1>1, <1>2, DropFacts DEF Slice

\* What a splice leaves of a text: the lines before the range keep their
\* places, those behind it shift.
LEMMA SpliceFacts ==
  ASSUME NEW S, NEW ls \in Seq(S), NEW new \in Seq(S),
         NEW from \in Nat \ {0}, NEW to \in Nat \ {0}, from <= to
  PROVE  /\ Splice(ls, from, to, new) \in Seq(S)
         /\ \A i \in 1 .. Len(ls) :
              /\ i < from => /\ i \in 1 .. Len(Splice(ls, from, to, new))
                             /\ Splice(ls, from, to, new)[i] = ls[i]
              /\ to <= i =>
                   LET j == i - (to - from) + Len(new)
                   IN  /\ j \in 1 .. Len(Splice(ls, from, to, new))
                       /\ Splice(ls, from, to, new)[j] = ls[i]
         /\ to <= Len(ls) + 1 =>
              Len(Splice(ls, from, to, new)) = Len(ls) - (to - from) + Len(new)
         /\ from <= Len(ls) + 1 =>
              \A k \in 1 .. Len(new) :
                /\ from - 1 + k \in 1 .. Len(Splice(ls, from, to, new))
                /\ Splice(ls, from, to, new)[from - 1 + k] = new[k]
<1> DEFINE a == Take(ls, from - 1)
           c == Drop(ls, to - 1)
           r == Splice(ls, from, to, new)
<1>1. Len(ls) \in Nat /\ Len(new) \in Nat /\ from - 1 \in Nat /\ to - 1 \in Nat
  BY LenProperties
<1>2. /\ a \in Seq(S) /\ Len(a) = Smaller(from - 1, Len(ls))
      /\ \A i \in 1 .. Smaller(from - 1, Len(ls)) : a[i] = ls[i]
  BY <1>1, TakeFacts
<1>3. /\ c \in Seq(S) /\ Len(c) = IF to - 1 <= Len(ls) THEN Len(ls) - (to - 1) ELSE 0
      /\ \A i \in 1 .. (Len(ls) - (to - 1)) : c[i] = ls[(to - 1) + i]
  BY <1>1, DropFacts
<1>4. /\ a \o new \in Seq(S) /\ Len(a \o new) = Len(a) + Len(new)
      /\ \A i \in 1 .. Len(a) + Len(new) :
           (a \o new)[i] = IF i <= Len(a) THEN a[i] ELSE new[i - Len(a)]
  <2> HIDE DEF a
  <2> QED BY <1>2, ConcatProperties
<1>5. /\ r \in Seq(S) /\ Len(r) = Len(a) + Len(new) + Len(c)
      /\ \A i \in 1 .. Len(a) + Len(new) + Len(c) :
           r[i] = IF i <= Len(a) + Len(new) THEN (a \o new)[i]
                  ELSE c[i - (Len(a) + Len(new))]
  <2>1. r = (a \o new) \o c
    BY DEF Splice
  <2>2. c \in Seq(S) /\ a \o new \in Seq(S)
    BY <1>3, <1>4
  <2> HIDE DEF a, c, r
  <2>3. /\ (a \o new) \o c \in Seq(S)
        /\ Len((a \o new) \o c) = Len(a \o new) + Len(c)
        /\ \A i \in 1 .. Len(a \o new) + Len(c) :
             ((a \o new) \o c)[i] = IF i <= Len(a \o new) THEN (a \o new)[i]
                                    ELSE c[i - Len(a \o new)]
    BY <2>2, ConcatProperties
  <2> QED BY <2>1, <2>3, <1>4
<1> HIDE DEF a, c, r
<1>6. Smaller(from - 1, Len(ls)) = IF from - 1 <= Len(ls) THEN from - 1 ELSE Len(ls)
  BY DEF Smaller
<1>7. Len(a) \in Nat /\ Len(c) \in Nat
  BY <1>1, <1>2, <1>3, <1>6
<1>8. ASSUME NEW i \in 1 .. Len(ls), i < from
      PROVE  i \in 1 .. Len(r) /\ r[i] = ls[i]
  <2>1. i \in 1 .. Len(a)
    BY <1>1, <1>2, <1>6, <1>8
  <2>2. (a \o new)[i] = ls[i]
    BY <2>1, <1>1, <1>2, <1>4, <1>7
  <2>3. i \in 1 .. Len(a) + Len(new) + Len(c) /\ i <= Len(a) + Len(new)
    BY <2>1, <1>1, <1>7
  <2> QED BY <2>2, <2>3, <1>5
<1>9. ASSUME NEW i \in 1 .. Len(ls), to <= i
      PROVE  LET j == i - (to - from) + Len(new)
             IN  j \in 1 .. Len(r) /\ r[j] = ls[i]
  <2> DEFINE j == i - (to - from) + Len(new)
             k == i - (to - 1)
  <2>1. Len(a) = from - 1 /\ Len(c) = Len(ls) - (to - 1)
    BY <1>1, <1>2, <1>3, <1>6, <1>9
  <2>2. /\ k \in 1 .. Len(ls) - (to - 1) /\ (to - 1) + k = i
        /\ j = Len(a) + Len(new) + k
    BY <1>1, <1>9, <2>1
  <2>3. c[k] = ls[i]
    BY <2>2, <1>3
  <2>4. /\ j \in 1 .. Len(a) + Len(new) + Len(c)
        /\ ~(j <= Len(a) + Len(new)) /\ j - (Len(a) + Len(new)) = k
    BY <2>1, <2>2, <1>1, <1>7
  <2> QED BY <2>3, <2>4, <1>5
<1>10. to <= Len(ls) + 1 => Len(r) = Len(ls) - (to - from) + Len(new)
  BY <1>1, <1>2, <1>3, <1>5, <1>6
<1>11. ASSUME from <= Len(ls) + 1, NEW k \in 1 .. Len(new)
       PROVE  from - 1 + k \in 1 .. Len(r) /\ r[from - 1 + k] = new[k]
  <2>1. Len(a) = from - 1
    BY <1>1, <1>2, <1>6, <1>11
  <2>2. /\ from - 1 + k \in 1 .. Len(a) + Len(new) + Len(c)
        /\ from - 1 + k \in 1 .. Len(a) + Len(new)
        /\ ~(from - 1 + k <= Len(a)) /\ from - 1 + k - Len(a) = k
        /\ from - 1 + k <= Len(a) + Len(new)
    BY <2>1, <1>1, <1>7
  <2>3. (a \o new)[from - 1 + k] = new[k]
    <3> DEFINE i == from - 1 + k
    <3>1. i \in 1 .. Len(a) + Len(new) /\ ~(i <= Len(a)) /\ i - Len(a) = k
      BY <2>2
    <3> HIDE DEF i
    <3>2. (a \o new)[i] = IF i <= Len(a) THEN a[i] ELSE new[i - Len(a)]
      BY <3>1, <1>4
    <3> QED BY <3>1, <3>2 DEF i
  <2> QED BY <2>2, <2>3, <1>5
<1> QED BY <1>5, <1>8, <1>9, <1>10, <1>11 DEF r

LEMMA SpliceType ==
  ASSUME NEW ls \in Seq(Line), NEW new \in Seq(Line),
         NEW from \in Nat \ {0}, NEW to \in Nat \ {0}
  PROVE  Splice(ls, from, to, new) \in Seq(Line)
<1>1. from - 1 \in Nat /\ to - 1 \in Nat
  OBVIOUS
<1>2. Take(ls, from - 1) \in Seq(Line) /\ Drop(ls, to - 1) \in Seq(Line)
  BY <1>1, TakeFacts, DropFacts
<1> QED BY <1>2, ConcatProperties DEF Splice

-----------------------------------------------------------------------------
\* Symbols: where they begin and end.

LEMMA LineOK ==
  ASSUME NEW ls \in Seq(Line)
  PROVE  /\ Len(ls) \in Nat /\ DOMAIN ls = 1 .. Len(ls)
         /\ \A i \in 1 .. Len(ls) : ls[i] \in Line /\ ls[i].indent \in Nat
                                    /\ ls[i].name \in Name \cup {NoName}
<1>1. Len(ls) \in Nat /\ DOMAIN ls = 1 .. Len(ls)
  BY LenProperties
<1>2. \A i \in 1 .. Len(ls) : ls[i] \in Line
  BY <1>1, ElementOfSeq
<1> QED BY <1>1, <1>2 DEF Line

\* What makes e the end of the symbol declared in line i.
EndsAt(ls, i, e) ==
  /\ e \in i + 1 .. Len(ls) + 1
  /\ \A j \in i + 1 .. e - 1 :
       ls[j].kind = "blank" \/ ls[j].indent > ls[i].indent
  /\ e <= Len(ls) => ls[e].kind # "blank" /\ ls[e].indent <= ls[i].indent

LEMMA BodyEndFacts ==
  ASSUME NEW ls \in Seq(Line), NEW i \in 1 .. Len(ls)
  PROVE  /\ EndsAt(ls, i, BodyEnd(ls, i))
         /\ \A e : EndsAt(ls, i, e) => e = BodyEnd(ls, i)
<1> DEFINE after == {j \in DOMAIN ls : /\ j > i /\ ls[j].kind # "blank"
                                       /\ ls[j].indent <= ls[i].indent}
<1>1. /\ Len(ls) \in Nat /\ DOMAIN ls = 1 .. Len(ls)
      /\ \A j \in 1 .. Len(ls) : ls[j].indent \in Nat
  BY LineOK
<1>2. BodyEnd(ls, i) = IF after = {} THEN Len(ls) + 1 ELSE First(after)
  BY DEF BodyEnd
<1>3. after \in SUBSET Nat
  BY <1>1
<1>4. \A j \in 1 .. Len(ls) : j \in after <=>
         j > i /\ ls[j].kind # "blank" /\ ls[j].indent <= ls[i].indent
  BY <1>1
<1>5. after \subseteq 1 .. Len(ls)
  BY <1>1
<1> HIDE DEF after
<1>6. CASE after = {}
  <2>1. BodyEnd(ls, i) = Len(ls) + 1
    BY <1>2, <1>6
  <2>2. ASSUME NEW j \in i + 1 .. Len(ls)
        PROVE  ls[j].kind = "blank" \/ ls[j].indent > ls[i].indent
    BY <1>1, <1>4, <1>6
  <2>3. EndsAt(ls, i, Len(ls) + 1)
    BY <1>1, <2>2 DEF EndsAt
  <2>4. ASSUME NEW e, EndsAt(ls, i, e) PROVE e = Len(ls) + 1
    <3>1. e \in i + 1 .. Len(ls) + 1
      BY <2>4 DEF EndsAt
    <3>2. ~(e <= Len(ls))
      <4> SUFFICES ASSUME e <= Len(ls) PROVE FALSE
        OBVIOUS
      <4>1. e \in after
        BY <1>1, <1>4, <2>4, <3>1 DEF EndsAt
      <4> QED BY <4>1, <1>6
    <3> QED BY <1>1, <3>1, <3>2
  <2> QED BY <2>1, <2>3, <2>4
<1>7. CASE after # {}
  <2> DEFINE f == First(after)
  <2>1. BodyEnd(ls, i) = f /\ f \in after /\ \A k \in after : f <= k
    BY <1>2, <1>3, <1>7, FirstFacts
  <2>2. f \in 1 .. Len(ls) /\ f > i /\ ls[f].kind # "blank"
        /\ ls[f].indent <= ls[i].indent
    BY <1>4, <1>5, <2>1
  <2> HIDE DEF f
  <2>3. ASSUME NEW j \in i + 1 .. f - 1
        PROVE  ls[j].kind = "blank" \/ ls[j].indent > ls[i].indent
    <3>1. j \in 1 .. Len(ls) /\ j > i /\ j \notin after
      BY <1>1, <2>1, <2>2
    <3> QED BY <1>1, <1>4, <3>1
  <2>4. EndsAt(ls, i, f)
    BY <1>1, <2>2, <2>3 DEF EndsAt
  <2>5. ASSUME NEW e, EndsAt(ls, i, e) PROVE e = f
    <3>1. /\ e \in i + 1 .. Len(ls) + 1
          /\ \A j \in i + 1 .. e - 1 :
               ls[j].kind = "blank" \/ ls[j].indent > ls[i].indent
          /\ e <= Len(ls) => ls[e].kind # "blank" /\ ls[e].indent <= ls[i].indent
      BY <2>5 DEF EndsAt
    <3>2. ~(f < e)
      <4> SUFFICES ASSUME f < e PROVE FALSE
        OBVIOUS
      <4>1. f \in i + 1 .. e - 1
        BY <1>1, <2>2, <3>1
      <4> QED BY <1>1, <2>2, <3>1, <4>1
    <3>3. ~(e < f)
      <4> SUFFICES ASSUME e < f PROVE FALSE
        OBVIOUS
      <4>1. e \in 1 .. Len(ls) /\ e > i
        BY <1>1, <2>2, <3>1
      <4>2. e \in after
        BY <1>4, <3>1, <4>1
      <4> QED BY <2>1, <2>2, <3>1, <4>1, <4>2
    <3> QED BY <2>2, <3>1, <3>2, <3>3
  <2> QED BY <2>1, <2>4, <2>5
<1> QED BY <1>6, <1>7

\* A symbol begins with the decorators above it and no other line.
LEMMA PrefixFacts ==
  ASSUME NEW ls \in Seq(Line), NEW i \in 1 .. Len(ls)
  PROVE  LET p == PrefixStart(ls, i)
         IN  /\ p \in 1 .. i
             /\ \A k \in p .. i - 1 : ls[k].kind = "deco"
             /\ \A q \in 1 .. i : (\A k \in q .. i - 1 : ls[k].kind = "deco")
                                    => p <= q
<1> DEFINE S == {j \in 1 .. i : \A k \in j .. i - 1 : ls[k].kind = "deco"}
<1>1. S \in SUBSET Nat /\ i \in Nat
  BY LineOK
<1>2. i \in S
  BY LineOK
<1>3. PrefixStart(ls, i) = First(S)
  BY DEF PrefixStart
<1>4. First(S) \in S /\ \A k \in S : First(S) <= k
  <2> HIDE DEF S
  <2> QED BY <1>1, <1>2, FirstFacts
<1> QED BY <1>3, <1>4

LEMMA SymbolFacts ==
  ASSUME NEW ls \in Seq(Line), NEW s \in Parse(ls)
  PROVE  /\ s # NoSymbol
         /\ s.decl \in Decls(ls) /\ s.decl \in 1 .. Len(ls)
         /\ s = Symbol(ls, s.decl)
         /\ s.start = PrefixStart(ls, s.decl) /\ s.end = BodyEnd(ls, s.decl)
         /\ s.start \in Nat \ {0} /\ s.decl \in Nat \ {0} /\ s.end \in Nat \ {0}
         /\ s.start <= s.decl /\ s.decl < s.end /\ s.end <= Len(ls) + 1
         /\ s.name = ls[s.decl].name
<1>1. Len(ls) \in Nat /\ DOMAIN ls = 1 .. Len(ls)
  BY LineOK
<1>2. PICK i \in Decls(ls) : s = Symbol(ls, i)
  BY DEF Parse
<1>3. i \in 1 .. Len(ls)
  BY <1>1 DEF Decls
<1>4. /\ s.decl = i /\ s.start = PrefixStart(ls, i) /\ s.end = BodyEnd(ls, i)
      /\ s.name = ls[i].name
  BY <1>2 DEF Symbol
<1>5. s # NoSymbol
  BY <1>3, <1>4 DEF NoSymbol
<1>6. PrefixStart(ls, i) \in 1 .. i
  BY <1>3, PrefixFacts
<1>7. BodyEnd(ls, i) \in i + 1 .. Len(ls) + 1
  BY <1>3, BodyEndFacts DEF EndsAt
<1> QED BY <1>1, <1>2, <1>3, <1>4, <1>5, <1>6, <1>7

-----------------------------------------------------------------------------
\* What the resolver and the searches find.

LEMMA LastOfFacts ==
  ASSUME NEW ls \in Seq(Line), NEW found \in SUBSET Parse(ls)
  PROVE  /\ found = {} => LastOf(found) = NoSymbol
         /\ found # {} => /\ LastOf(found) \in found
                          /\ \A r \in found : r.decl <= LastOf(found).decl
<1>1. CASE found = {}
  BY <1>1 DEF LastOf
<1>2. CASE found # {}
  <2> DEFINE D == {s.decl : s \in found}
  <2>1. D \in SUBSET (0 .. Len(ls)) /\ D # {} /\ Len(ls) \in Nat
    <3>1. \A s \in found : s.decl \in 1 .. Len(ls)
      BY SymbolFacts
    <3> QED BY <1>2, <3>1, LineOK
  <2>2. PICK m \in D : \A k \in D : k <= m
    <3> HIDE DEF D
    <3> QED BY <2>1, LastLine
  <2>3. \E s \in found : \A r \in found : r.decl <= s.decl
    BY <2>2
  <2> QED BY <1>2, <2>3 DEF LastOf
<1> QED BY <1>1, <1>2

LEMMA ResolveFacts ==
  ASSUME NEW ls \in Seq(Line), NEW id
  PROVE  Resolve(Parse(ls), id) \in Parse(ls) \cup {NoSymbol}
<1> DEFINE found == Parse(ls)
           typed     == {s \in found : s.kind = id.kind /\ id.path = <<s.name>>}
           qualified == {s \in found : s.path = id.path}
           bare      == {s \in found : <<s.name>> = id.path}
<1>1. Resolve(found, id) \in
        {LastOf(typed), LastOf(qualified), LastOf(bare), NoSymbol}
  BY DEF Resolve
<1>2. typed \in SUBSET found /\ qualified \in SUBSET found /\ bare \in SUBSET found
  OBVIOUS
<1> HIDE DEF typed, qualified, bare
<1>3. /\ LastOf(typed) \in found \cup {NoSymbol}
      /\ LastOf(qualified) \in found \cup {NoSymbol}
      /\ LastOf(bare) \in found \cup {NoSymbol}
  BY <1>2, LastOfFacts
<1> QED BY <1>1, <1>3

\* A range a search looks through.
Ranged(r) == r.start \in Nat \ {0} /\ r.end \in Nat

LEMMA ScopeFacts ==
  ASSUME NEW ls \in Seq(Line), NEW id
  PROVE  Ranged(Scope(ls, Parse(ls), id))
<1>1. Resolve(Parse(ls), id) \in Parse(ls) \cup {NoSymbol}
  BY ResolveFacts
<1> QED BY <1>1, SymbolFacts, LineOK DEF Scope, Ranged

LEMMA LooseFacts ==
  ASSUME NEW ls \in Seq(Line), NEW scope, NEW target
  PROVE  /\ Loose(ls, scope, target) \in SUBSET (1 .. Len(ls))
         /\ Loose(ls, scope, target) \in SUBSET Nat
BY LineOK DEF Loose

LEMMA FindFacts ==
  ASSUME NEW ls \in Seq(Line), NEW scope, NEW target
  PROVE  /\ First(Loose(ls, scope, target)) \in 0 .. Len(ls)
         /\ Find(ls, scope, target) \in 0 .. Len(ls)
         /\ FindAnchor(ls, scope, target) \in 0 .. Len(ls)
<1> DEFINE loose == Loose(ls, scope, target)
           exact == {i \in loose : ls[i].indent >= target.indent}
           some  == IF exact # {} THEN exact ELSE loose
<1>1. loose \in SUBSET (1 .. Len(ls)) /\ loose \in SUBSET Nat
  BY LooseFacts
<1>2. some \in SUBSET (1 .. Len(ls)) /\ some \in SUBSET Nat
  BY <1>1
<1>3. Find(ls, scope, target) = First(some)
  BY DEF Find
<1> HIDE DEF loose, some
<1>4. First(loose) \in 0 .. Len(ls) /\ First(some) \in 0 .. Len(ls)
  BY <1>1, <1>2, FirstFacts, LineOK
<1> QED BY <1>3, <1>4 DEF FindAnchor, loose

LEMMA FindBlockFacts ==
  ASSUME NEW ls \in Seq(Line), NEW scope, NEW target
  PROVE  LET r == FindBlock(ls, scope, target)
         IN  /\ r[1] \in 0 .. Len(ls) /\ r[2] \in 0 .. Len(ls)
             /\ r[1] # 0 => r[2] # 0
<1> DEFINE b == First(Loose(ls, scope, target))
           within == [scope EXCEPT !.start = b + 1]
           close == [target EXCEPT !.kind = "end"]
           e == First(Loose(ls, within, close))
           one == Find(ls, scope, target)
<1>1. FindBlock(ls, scope, target) =
        IF target.kind # "block" THEN <<one, one>>
        ELSE IF b = 0 \/ e = 0 THEN <<0, 0>> ELSE <<b, e>>
  BY DEF FindBlock
<1> HIDE DEF within, close
<1>2. b \in 0 .. Len(ls) /\ e \in 0 .. Len(ls) /\ one \in 0 .. Len(ls)
  BY FindFacts
<1> HIDE DEF b, e, one
<1> QED BY <1>1, <1>2, LineOK

-----------------------------------------------------------------------------
\* The inductive invariant: the types, and a fresh table between operations.

CodeInv == TypeOK /\ TableFresh

\* What every operation does: its index is settled, and the text is left
\* alone or replaced together with its table.
Outcome ==
  \/ Applied
  \/ Failed
  \/ status' = "blocked" /\ UNCHANGED <<applied, skipped, halted>>
  \/ /\ halted' = TRUE
     /\ skipped' = skipped \cup {Len(edits')}
     /\ UNCHANGED <<applied, status>>
Runs(op) == Begin(op) /\ Rest /\ Outcome
Renews   == Keep \/ \E ls \in Seq(Line) : Put(ls)

\* What the table says of the text it is fresh for.
LEMMA Fresh ==
  ASSUME CodeInv, Running
  PROVE  /\ symbols = Parse(lines) /\ lines \in Seq(Line)
         /\ \A id : Of(id) \in Parse(lines) \cup {NoSymbol}
         /\ \A id : Ranged(Scope(lines, symbols, id))
<1>1. symbols = Parse(lines) /\ lines \in Seq(Line)
  BY DEF CodeInv, Running, TableFresh, TypeOK
<1> QED BY <1>1, ResolveFacts, ScopeFacts DEF Of

LEMMA CutType ==
  ASSUME NEW ls \in Seq(Line), NEW s \in Parse(ls)
  PROVE  Remove(ls, s) \in Seq(Line) /\ Extract(ls, s) \in Seq(Line)
<1>1. s.start \in Nat \ {0} /\ s.end \in Nat \ {0} /\ <<>> \in Seq(Line)
  BY SymbolFacts
<1> QED BY <1>1, SpliceType, SliceType DEF Remove, Extract

LEMMA AssertRuns ==
  ASSUME CodeInv, Assert
  PROVE  \E op \in Edits : Runs(op) /\ Renews
BY DEF Assert, EditsOf, Runs, Outcome, Renews

\* An operation on one symbol writes the text it has made.
LEMMA OnSymbolRuns ==
  ASSUME CodeInv, NEW op \in Edits, NEW ls, OnSymbol(op, ls),
         Of(op.sym) \in Parse(lines) => ls \in Seq(Line)
  PROVE  Runs(op) /\ Renews
<1>1. Runs(op)
  BY DEF OnSymbol, Runs, Outcome
<1>2. Of(op.sym) \in Parse(lines) \cup {NoSymbol}
  BY Fresh DEF OnSymbol, Begin
<1> QED BY <1>1, <1>2 DEF OnSymbol, Renews

LEMMA RenameSymbolRuns ==
  ASSUME CodeInv, RenameSymbol
  PROVE  \E op \in Edits : Runs(op) /\ Renews
<1> PICK op \in EditsOf("rename_symbol") : RenameSymbol!(op)
  BY DEF RenameSymbol
<1> DEFINE s == Of(op.sym)
           new == [lines EXCEPT ![s.decl].name = op.new]
<1>1. op \in Edits /\ op.new \in Name /\ OnSymbol(op, new)
  BY EditAssumption DEF EditsOf
<1>2. lines \in Seq(Line)
  BY <1>1, Fresh DEF OnSymbol, Begin
<1>3. ASSUME s \in Parse(lines) PROVE new \in Seq(Line)
  <2> DEFINE l == [lines[s.decl] EXCEPT !.name = op.new]
  <2>1. s.decl \in 1 .. Len(lines)
    BY <1>2, <1>3, SymbolFacts
  <2>2. l \in Line
    <3>1. lines[s.decl] \in Line
      BY <1>2, <2>1, LineOK
    <3>2. \A r \in Line, n \in Name : [r EXCEPT !.name = n] \in Line
      BY DEF Line
    <3> HIDE DEF s
    <3> QED BY <1>1, <3>1, <3>2
  <2>3. new = [lines EXCEPT ![s.decl] = l]
    OBVIOUS
  <2> HIDE DEF new, l, s
  <2> QED BY <1>2, <2>1, <2>2, <2>3, ExceptSeq
<1> HIDE DEF new
<1> QED BY <1>1, <1>3, OnSymbolRuns

LEMMA ReplaceSymbolRuns ==
  ASSUME CodeInv, ReplaceSymbol
  PROVE  \E op \in Edits : Runs(op) /\ Renews
<1> PICK op \in EditsOf("replace_symbol") : ReplaceSymbol!(op)
  BY DEF ReplaceSymbol
<1> DEFINE s == Of(op.sym)
           new == Splice(lines, s.decl + 1, s.end, op.new)
<1>1. op \in Edits /\ op.new \in Seq(Line) /\ OnSymbol(op, new)
  BY EditAssumption DEF EditsOf
<1>2. lines \in Seq(Line)
  BY <1>1, Fresh DEF OnSymbol, Begin
<1>3. ASSUME s \in Parse(lines) PROVE new \in Seq(Line)
  <2>1. s.decl + 1 \in Nat \ {0} /\ s.end \in Nat \ {0}
    BY <1>2, <1>3, SymbolFacts
  <2> QED BY <1>1, <1>2, <2>1, SpliceType
<1> HIDE DEF new
<1> QED BY <1>1, <1>3, OnSymbolRuns

LEMMA DeleteSymbolRuns ==
  ASSUME CodeInv, DeleteSymbol
  PROVE  \E op \in Edits : Runs(op) /\ Renews
<1> PICK op \in EditsOf("delete_symbol") : DeleteSymbol!(op)
  BY DEF DeleteSymbol
<1> DEFINE new == Remove(lines, Of(op.sym))
<1>1. op \in Edits /\ OnSymbol(op, new)
  BY DEF EditsOf
<1>2. lines \in Seq(Line)
  BY <1>1, Fresh DEF OnSymbol, Begin
<1>3. Of(op.sym) \in Parse(lines) => new \in Seq(Line)
  BY <1>2, CutType
<1> HIDE DEF new
<1> QED BY <1>1, <1>3, OnSymbolRuns

LEMMA ChangeSignatureRuns ==
  ASSUME CodeInv, ChangeSignature
  PROVE  \E op \in Edits : Runs(op) /\ Renews
<1> PICK op \in EditsOf("change_signature") : ChangeSignature!(op)
  BY DEF ChangeSignature
<1> DEFINE s == Of(op.sym)
           new == Splice(lines, s.decl, s.decl + 1, op.new)
<1>1. op \in Edits /\ op.new \in Seq(Line) /\ OnSymbol(op, new)
  BY EditAssumption DEF EditsOf
<1>2. lines \in Seq(Line)
  BY <1>1, Fresh DEF OnSymbol, Begin
<1>3. ASSUME s \in Parse(lines) PROVE new \in Seq(Line)
  <2>1. s.decl \in Nat \ {0} /\ s.decl + 1 \in Nat \ {0}
    BY <1>2, <1>3, SymbolFacts
  <2> QED BY <1>1, <1>2, <2>1, SpliceType
<1> HIDE DEF new
<1> QED BY <1>1, <1>3, OnSymbolRuns

LEMMA AddDecoratorRuns ==
  ASSUME CodeInv, AddDecorator
  PROVE  \E op \in Edits : Runs(op) /\ Renews
<1> PICK op \in EditsOf("add_decorator") : AddDecorator!(op)
  BY DEF AddDecorator
<1> DEFINE s == Of(op.sym)
           new == Splice(lines, s.start, s.start, op.new)
<1>1. op \in Edits /\ op.new \in Seq(Line) /\ OnSymbol(op, new)
  BY EditAssumption DEF EditsOf
<1>2. lines \in Seq(Line)
  BY <1>1, Fresh DEF OnSymbol, Begin
<1>3. ASSUME s \in Parse(lines) PROVE new \in Seq(Line)
  <2>1. s.start \in Nat \ {0}
    BY <1>2, <1>3, SymbolFacts
  <2> QED BY <1>1, <1>2, <2>1, SpliceType
<1> HIDE DEF new
<1> QED BY <1>1, <1>3, OnSymbolRuns

LEMMA MoveSymbolRuns ==
  ASSUME CodeInv, MoveSymbol
  PROVE  \E op \in Edits : Runs(op) /\ Renews
<1> PICK op \in EditsOf("move_symbol") : MoveSymbol!(op)
  BY DEF MoveSymbol
<1> DEFINE s == Of(op.sym)
           rest == Remove(lines, s)
           t == Resolve(Parse(rest), op.to)
<1>1. op \in Edits /\ Runs(op)
  BY DEF EditsOf, Runs, Outcome
<1>2. lines \in Seq(Line) /\ s \in Parse(lines) \cup {NoSymbol}
  BY <1>1, Fresh DEF Runs, Begin
<1>3. CASE Keep
  BY <1>1, <1>3 DEF Renews
<1>4. CASE ~Keep
  <2>1. s \in Parse(lines)
    BY <1>2, <1>4
  <2>2. rest \in Seq(Line) /\ Extract(lines, s) \in Seq(Line)
    BY <1>2, <2>1, CutType
  <2>3. t \in Parse(rest) \cup {NoSymbol}
    BY <2>2, ResolveFacts
  <2>4. CASE Put(rest)
    BY <1>1, <2>2, <2>4 DEF Renews
  <2>5. CASE t # NoSymbol /\ Put(Splice(rest, t.end, t.end, Extract(lines, s)))
    <3>1. t.end \in Nat \ {0}
      BY <2>2, <2>3, <2>5, SymbolFacts
    <3>2. Splice(rest, t.end, t.end, Extract(lines, s)) \in Seq(Line)
      BY <2>2, <3>1, SpliceType
    <3> QED BY <1>1, <2>5, <3>2 DEF Renews
  <2> QED BY <1>4, <2>4, <2>5
<1> QED BY <1>3, <1>4

LEMMA SwapSymbolsRuns ==
  ASSUME CodeInv, SwapSymbols
  PROVE  \E op \in Edits : Runs(op) /\ Renews
<1> PICK op \in EditsOf("swap_symbols") : SwapSymbols!(op)
  BY DEF SwapSymbols
<1> DEFINE p == Of(op.sym)
           q == Of(op.to)
           a == IF p.start > q.start THEN q ELSE p
           b == IF p.start > q.start THEN p ELSE q
           new == Take(lines, a.start - 1) \o Extract(lines, b)
                    \o Slice(lines, a.end, b.start) \o Extract(lines, a)
                    \o Drop(lines, b.end - 1)
<1>1. op \in Edits /\ Runs(op)
  BY DEF EditsOf, Runs, Outcome
<1>2. /\ lines \in Seq(Line)
      /\ p \in Parse(lines) \cup {NoSymbol} /\ q \in Parse(lines) \cup {NoSymbol}
  BY <1>1, Fresh DEF Runs, Begin
<1>3. CASE Keep
  BY <1>1, <1>3 DEF Renews
<1>4. CASE ~Keep
  <2>1. NoSymbol \notin {p, q} /\ Put(new)
    BY <1>4
  <2>2. a \in Parse(lines) /\ b \in Parse(lines)
    BY <1>2, <2>1
  <2>3. /\ a.start \in Nat \ {0} /\ a.end \in Nat \ {0}
        /\ b.start \in Nat \ {0} /\ b.end \in Nat \ {0}
    <3> HIDE DEF a, b
    <3> QED BY <1>2, <2>2, SymbolFacts
  <2>4. /\ Take(lines, a.start - 1) \in Seq(Line)
        /\ Extract(lines, b) \in Seq(Line)
        /\ Slice(lines, a.end, b.start) \in Seq(Line)
        /\ Extract(lines, a) \in Seq(Line)
        /\ Drop(lines, b.end - 1) \in Seq(Line)
    <3> HIDE DEF a, b
    <3>1. a.start - 1 \in Nat /\ b.end - 1 \in Nat
      BY <2>3
    <3> QED BY <1>2, <2>2, <2>3, <3>1, TakeFacts, DropFacts, SliceType, CutType
  <2>5. new \in Seq(Line)
    <3> HIDE DEF a, b
    <3> QED BY <2>4, ConcatProperties
  <2> QED BY <1>1, <2>1, <2>5 DEF Renews
<1> QED BY <1>3, <1>4

\* The new lines take the indentation of the line they replace.
LEMMA EditedType ==
  ASSUME NEW l \in Line, NEW find \in Line, NEW new \in Seq(Line)
  PROVE  Edited(l, find, new) \in Seq(Line)
<1> DEFINE more == l.indent - find.indent
<1>1. l.indent \in Nat /\ find.indent \in Nat /\ more \in Int
  BY DEF Line
<1>2. CASE more <= 0 \/ new = <<find>>
  BY <1>2 DEF Edited
<1>3. CASE ~(more <= 0 \/ new = <<find>>) /\ new = <<>>
  <2>1. Blank \in Line
    BY DEF Blank, Line
  <2> QED BY <1>3, <2>1 DEF Edited
<1>4. CASE ~(more <= 0 \/ new = <<find>>) /\ new # <<>>
  <2> DEFINE first == [new[1] EXCEPT !.indent = new[1].indent + more]
  <2>1. Edited(l, find, new) = [new EXCEPT ![1] = first]
    BY <1>4 DEF Edited
  <2>2. 1 \in 1 .. Len(new) /\ new[1] \in Line
    BY <1>4, EmptySeq, LenProperties, ElementOfSeq
  <2>3. \A r \in Line, n \in Nat : [r EXCEPT !.indent = n] \in Line
    BY DEF Line
  <2>4. first \in Line
    <3>1. new[1].indent + more \in Nat
      BY <1>1, <1>4, <2>2, LineOK
    <3> HIDE DEF more
    <3> QED BY <2>2, <2>3, <3>1
  <2> HIDE DEF first, more
  <2> QED BY <2>1, <2>2, <2>4, ExceptSeq
<1> QED BY <1>2, <1>3, <1>4

LEMMA EditTextRuns ==
  ASSUME CodeInv, EditText
  PROVE  \E op \in Edits : Runs(op) /\ Renews
<1> PICK op \in EditsOf("edit_text") : EditText!(op)
  BY DEF EditText
<1> DEFINE at == Find(lines, Scope(lines, symbols, op.sym), op.find)
           new == Edited(lines[at], op.find, op.new)
<1>1. op \in Edits /\ Runs(op)
  BY DEF EditsOf, Runs, Outcome
<1>2. lines \in Seq(Line) /\ op.find \in Line /\ op.new \in Seq(Line)
  BY <1>1, Fresh, EditAssumption DEF Runs, Begin, EditsOf
<1>3. CASE Keep
  BY <1>1, <1>3 DEF Renews
<1>4. CASE ~Keep
  <2>1. at # 0 /\ Put(Splice(lines, at, at + 1, new))
    BY <1>4
  <2>2. at \in 1 .. Len(lines) /\ at \in Nat \ {0} /\ at + 1 \in Nat \ {0}
    BY <1>2, <2>1, FindFacts, LineOK
  <2>3. lines[at] \in Line
    BY <1>2, <2>2, LineOK
  <2> HIDE DEF at
  <2>4. new \in Seq(Line)
    BY <1>2, <2>3, EditedType
  <2> HIDE DEF new
  <2>5. Splice(lines, at, at + 1, new) \in Seq(Line)
    BY <1>2, <2>2, <2>4, SpliceType
  <2> QED BY <1>1, <2>1, <2>5 DEF Renews
<1> QED BY <1>3, <1>4

LEMMA ReplaceBlockRuns ==
  ASSUME CodeInv, ReplaceBlock
  PROVE  \E op \in Edits : Runs(op) /\ Renews
<1> PICK op \in EditsOf("replace_block") : ReplaceBlock!(op)
  BY DEF ReplaceBlock
<1> DEFINE scope == Scope(lines, symbols, op.sym)
           block == FindBlock(lines, scope, op.find)
           one   == Find(lines, scope, op.find)
           range == IF block[1] # 0 THEN block ELSE <<one, one>>
<1>1. op \in Edits /\ Runs(op)
  BY DEF EditsOf, Runs, Outcome
<1>2. lines \in Seq(Line) /\ op.new \in Seq(Line)
  BY <1>1, Fresh, EditAssumption DEF Runs, Begin, EditsOf
<1>3. CASE Keep
  BY <1>1, <1>3 DEF Renews
<1>4. CASE ~Keep
  <2>1. range[1] # 0 /\ Put(Splice(lines, range[1], range[2] + 1, op.new))
    BY <1>4
  <2>2. /\ one \in Nat
        /\ block[1] \in Nat /\ block[2] \in Nat
    BY <1>2, FindFacts, FindBlockFacts, LineOK
  <2>3. range[1] \in Nat \ {0} /\ range[2] + 1 \in Nat \ {0}
    <3> HIDE DEF block, one
    <3> QED BY <2>1, <2>2
  <2> HIDE DEF range
  <2>4. Splice(lines, range[1], range[2] + 1, op.new) \in Seq(Line)
    BY <1>2, <2>3, SpliceType
  <2> QED BY <1>1, <2>1, <2>4 DEF Renews
<1> QED BY <1>3, <1>4

LEMMA InsertBlockRuns ==
  ASSUME CodeInv, InsertBlock
  PROVE  \E op \in Edits : Runs(op) /\ Renews
<1> PICK op \in EditsOf("insert_block") : InsertBlock!(op)
  BY DEF InsertBlock
<1> DEFINE at == FindAnchor(lines, Scope(lines, symbols, op.sym), op.find)
<1>1. op \in Edits /\ Runs(op)
  BY DEF EditsOf, Runs, Outcome
<1>2. lines \in Seq(Line) /\ op.new \in Seq(Line)
  BY <1>1, Fresh, EditAssumption DEF Runs, Begin, EditsOf
<1>3. CASE Keep
  BY <1>1, <1>3 DEF Renews
<1>4. CASE ~Keep
  <2>1. Put(Splice(lines, at + 1, at + 1, op.new))
    BY <1>4
  <2>2. at + 1 \in Nat \ {0}
    BY <1>2, FindFacts, LineOK
  <2>3. Splice(lines, at + 1, at + 1, op.new) \in Seq(Line)
    BY <1>2, <2>2, SpliceType
  <2> QED BY <1>1, <2>1, <2>3 DEF Renews
<1> QED BY <1>3, <1>4

LEMMA MoveBlockRuns ==
  ASSUME CodeInv, MoveBlock
  PROVE  \E op \in Edits : Runs(op) /\ Renews
<1> PICK op \in EditsOf("move_block") : MoveBlock!(op)
  BY DEF MoveBlock
<1> DEFINE range == FindBlock(lines, Scope(lines, symbols, op.sym), op.find)
           rest  == Splice(lines, range[1], range[2] + 1, <<>>)
           at    == FindAnchor(rest, Scope(rest, Parse(rest), op.to), op.after)
           block == Slice(lines, range[1], range[2] + 1)
<1>1. op \in Edits /\ Runs(op)
  BY DEF EditsOf, Runs, Outcome
<1>2. lines \in Seq(Line) /\ <<>> \in Seq(Line)
  BY <1>1, Fresh DEF Runs, Begin
<1>3. CASE Keep
  BY <1>1, <1>3 DEF Renews
<1>4. CASE ~Keep
  <2>1. /\ range[1] # 0
        /\ Put(rest) \/ Put(Splice(rest, at + 1, at + 1, block))
    BY <1>4
  <2>2. range[1] \in Nat \ {0} /\ range[2] + 1 \in Nat \ {0}
    BY <1>2, <2>1, FindBlockFacts, LineOK
  <2> HIDE DEF range
  <2>3. rest \in Seq(Line) /\ block \in Seq(Line)
    BY <1>2, <2>2, SpliceType, SliceType
  <2> HIDE DEF rest, block
  <2>4. at + 1 \in Nat \ {0}
    BY <2>3, FindFacts, LineOK
  <2> HIDE DEF at
  <2>5. Splice(rest, at + 1, at + 1, block) \in Seq(Line)
    BY <2>3, <2>4, SpliceType
  <2> QED BY <1>1, <2>1, <2>3, <2>5 DEF Renews
<1> QED BY <1>3, <1>4

LEMMA CopyBlockRuns ==
  ASSUME CodeInv, CopyBlock
  PROVE  \E op \in Edits : Runs(op) /\ Renews
<1> PICK op \in EditsOf("copy_block") : CopyBlock!(op)
  BY DEF CopyBlock
<1> DEFINE range == FindBlock(lines, Scope(lines, symbols, op.sym), op.find)
           at    == FindAnchor(lines, Scope(lines, symbols, op.to), op.after)
           block == Slice(lines, range[1], range[2] + 1)
<1>1. op \in Edits /\ Runs(op)
  BY DEF EditsOf, Runs, Outcome
<1>2. lines \in Seq(Line)
  BY <1>1, Fresh DEF Runs, Begin
<1>3. CASE Keep
  BY <1>1, <1>3 DEF Renews
<1>4. CASE ~Keep
  <2>1. range[1] # 0 /\ Put(Splice(lines, at + 1, at + 1, block))
    BY <1>4
  <2>2. /\ range[1] \in Nat \ {0} /\ range[2] + 1 \in Nat \ {0}
        /\ at + 1 \in Nat \ {0}
    BY <1>2, <2>1, FindBlockFacts, FindFacts, LineOK
  <2> HIDE DEF range, at
  <2>3. block \in Seq(Line)
    BY <1>2, <2>2, SliceType
  <2> HIDE DEF block
  <2>4. Splice(lines, at + 1, at + 1, block) \in Seq(Line)
    BY <1>2, <2>2, <2>3, SpliceType
  <2> QED BY <1>1, <2>1, <2>4 DEF Renews
<1> QED BY <1>3, <1>4

\* The text and the range markers are put into, one by one.
Spot == [lines : Seq(Line), start : Nat \ {0}, end : Nat]

LEMMA MarkedType ==
  ASSUME NEW m \in Marks, NEW so \in Spot
  PROVE  Marked(m, so) \in Spot
<1> DEFINE w == Find(so.lines, so, m.at)
           kind == IF m.type = "block" THEN "block" ELSE "anchor"
           at == IF m.type = "block" THEN w ELSE w + 1
           begun == Splice(so.lines, at, at, <<Marker(kind, m.name)>>)
           opened == [lines |-> begun,
                      start |-> so.start + 1, end |-> so.end + 1]
           u == Find(opened.lines, [opened EXCEPT !.start = w + 1], m.until)
           ended == Splice(opened.lines, u + 1, u + 1,
                           <<Marker("end", m.name)>>)
           closed == [lines |-> ended,
                      start |-> opened.start + 1, end |-> opened.end + 1]
<1>1. Marked(m, so) = IF w = 0 THEN so
                      ELSE IF m.type # "block" \/ u = 0 THEN opened ELSE closed
  BY DEF Marked
<1>2. CASE w = 0
  BY <1>1, <1>2
<1>3. CASE w # 0
  <2>1. so.lines \in Seq(Line) /\ so.start \in Nat \ {0} /\ so.end \in Nat
    BY DEF Spot
  <2>2. w \in Nat \ {0}
    BY <1>3, <2>1, FindFacts, LineOK
  <2>3. at \in Nat \ {0}
    <3> HIDE DEF w
    <3> QED BY <2>2
  <2>4. m.name \in Name
    BY DEF Marks
  <2>5. Marker(kind, m.name) \in Line /\ Marker("end", m.name) \in Line
    BY <2>4 DEF Marker, Line
  <2>6. /\ <<Marker(kind, m.name)>> \in Seq(Line)
        /\ <<Marker("end", m.name)>> \in Seq(Line)
    BY <2>5
  <2> HIDE DEF at, kind
  <2>7. begun \in Seq(Line)
    BY <2>1, <2>3, <2>6, SpliceType
  <2> HIDE DEF begun
  <2>8. opened \in Spot /\ opened.lines = begun /\ opened.start \in Nat \ {0}
        /\ opened.end \in Nat
    BY <2>1, <2>7 DEF Spot
  <2> HIDE DEF opened
  <2>9. u + 1 \in Nat \ {0}
    BY <2>7, <2>8, FindFacts, LineOK
  <2> HIDE DEF u
  <2>10. ended \in Seq(Line)
    BY <2>6, <2>7, <2>8, <2>9, SpliceType
  <2> HIDE DEF ended
  <2>11. closed \in Spot
    BY <2>8, <2>10 DEF Spot
  <2> QED BY <1>1, <1>3, <2>8, <2>11
<1> QED BY <1>2, <1>3

\* The recursive definition defines, and what it defines is a spot: the first
\* marker that had none would have one.
LEMMA InjectedType ==
  ASSUME NEW from \in Spot, NEW marks \in Seq(Marks)
  PROVE  Injected(from, marks) \in Spot
<1> DEFINE Solves(g, k) ==
             /\ g \in [0 .. k -> Spot]
             /\ \A n \in 0 .. k :
                  g[n] = IF n = 0 THEN from ELSE Marked(marks[n], g[n - 1])
           Unsolved == {k \in 0 .. Len(marks) : ~ \E g : Solves(g, k)}
           Is(f, S) == f = [n \in S |-> IF n = 0 THEN from
                                        ELSE Marked(marks[n], f[n - 1])]
<1>1. Len(marks) \in Nat /\ \A n \in 1 .. Len(marks) : marks[n] \in Marks
  BY LenProperties, ElementOfSeq
<1>2. Unsolved = {}
  <2> SUFFICES ASSUME Unsolved # {} PROVE FALSE
    OBVIOUS
  <2>1. Unsolved \in SUBSET Nat
    BY <1>1
  <2>2. PICK k \in Unsolved : \A j \in Unsolved : k <= j
    <3> HIDE DEF Unsolved
    <3> QED BY <2>1, LeastLine
  <2>3. k \in 0 .. Len(marks) /\ ~ \E g : Solves(g, k)
    BY <2>2
  <2>4. k # 0
    <3>1. Solves([n \in 0 .. 0 |-> from], 0)
      OBVIOUS
    <3> QED BY <2>3, <3>1
  <2>5. k \in 1 .. Len(marks) /\ k - 1 \in 0 .. Len(marks) /\ k \in Nat
    BY <1>1, <2>3, <2>4
  <2>6. k - 1 \notin Unsolved
    <3> HIDE DEF Unsolved
    <3> QED BY <2>2, <2>5
  <2>7. PICK g : Solves(g, k - 1)
    BY <2>5, <2>6
  <2> DEFINE top == Marked(marks[k], g[k - 1])
             h == [n \in 0 .. k |-> IF n = k THEN top ELSE g[n]]
  <2>8. top \in Spot
    <3>1. g[k - 1] \in Spot
      BY <2>5, <2>7
    <3> QED BY <1>1, <2>5, <3>1, MarkedType
  <2>9. ASSUME NEW n \in 0 .. k, n # k PROVE n \in 0 .. (k - 1)
    BY <2>5, <2>9
  <2>10. h \in [0 .. k -> Spot]
    <3>1. \A n \in 0 .. (k - 1) : g[n] \in Spot
      BY <2>7
    <3> HIDE DEF Solves, top
    <3> QED BY <2>8, <2>9, <3>1
  <2>11. ASSUME NEW n \in 0 .. k
         PROVE  h[n] = IF n = 0 THEN from ELSE Marked(marks[n], h[n - 1])
    <3>1. n # 0 => n - 1 \in 0 .. k /\ n - 1 # k
      BY <2>5
    <3>2. n # 0 => h[n - 1] = g[n - 1]
      <4> HIDE DEF Solves, top
      <4> QED BY <3>1
    <3>3. CASE n = k
      <4> HIDE DEF Solves
      <4> QED BY <2>4, <3>2, <3>3
    <3>4. CASE n # k
      <4>1. h[n] = g[n] /\ n \in 0 .. (k - 1)
        <5> HIDE DEF Solves, top
        <5> QED BY <2>9, <3>4
      <4>2. g[n] = IF n = 0 THEN from ELSE Marked(marks[n], g[n - 1])
        BY <2>7, <4>1
      <4> HIDE DEF Solves, h
      <4> QED BY <3>2, <4>1, <4>2
    <3> QED BY <3>3, <3>4
  <2>12. Solves(h, k)
    <3> HIDE DEF h
    <3> QED BY <2>10, <2>11
  <2> QED BY <2>3, <2>12
<1>3. PICK g : Solves(g, Len(marks))
  <2>1. Len(marks) \in 0 .. Len(marks)
    BY <1>1
  <2> QED BY <1>2, <2>1
<1>4. \E f : Is(f, 0 .. Len(marks))
  <2>1. Is(g, 0 .. Len(marks))
    BY <1>3
  <2> QED BY <2>1
<1> DEFINE f == CHOOSE f : Is(f, 0 .. Len(marks))
<1>5. Is(f, 0 .. Len(marks))
  <2> HIDE DEF Is
  <2> QED BY <1>4
<1>6. Injected(from, marks) = f[Len(marks)]
  BY DEF Injected
<1> HIDE DEF f
<1>7. ASSUME \E n \in 0 .. Len(marks) : f[n] \notin Spot PROVE FALSE
  <2> DEFINE Odd == {n \in 0 .. Len(marks) : f[n] \notin Spot}
  <2>1. Odd \in SUBSET Nat /\ Odd # {}
    BY <1>1, <1>7
  <2> HIDE DEF Odd
  <2>2. PICK k \in Odd : \A j \in Odd : k <= j
    BY <2>1, LeastLine
  <2> USE DEF Odd
  <2>3. k \in 0 .. Len(marks) /\ k \in Nat /\ f[k] \notin Spot
    BY <1>1, <2>2
  <2>4. f[k] = IF k = 0 THEN from ELSE Marked(marks[k], f[k - 1])
    BY <1>5, <2>3
  <2>5. k # 0
    BY <2>3, <2>4
  <2>6. k - 1 \in 0 .. Len(marks) /\ k \in 1 .. Len(marks) /\ ~(k <= k - 1)
    BY <1>1, <2>3, <2>5
  <2>7. f[k - 1] \in Spot
    BY <2>2, <2>6
  <2>8. Marked(marks[k], f[k - 1]) \in Spot
    BY <1>1, <2>6, <2>7, MarkedType
  <2> QED BY <2>3, <2>4, <2>5, <2>8
<1>8. Len(marks) \in 0 .. Len(marks)
  BY <1>1
<1> QED BY <1>6, <1>7, <1>8

LEMMA InjectMarkersRuns ==
  ASSUME CodeInv, InjectMarkers
  PROVE  \E op \in Edits : Runs(op) /\ Renews
<1> PICK op \in EditsOf("inject_markers") : InjectMarkers!(op)
  BY DEF InjectMarkers
<1> DEFINE s == Of(op.sym)
           from == IF op.sym = NoId
                   THEN [lines |-> lines, start |-> 1, end |-> Len(lines) + 1]
                   ELSE [lines |-> lines, start |-> s.decl, end |-> s.end]
<1>1. op \in Edits /\ Runs(op)
  BY DEF EditsOf, Runs, Outcome
<1>2. /\ lines \in Seq(Line) /\ op.marks \in Seq(Marks)
      /\ s \in Parse(lines) \cup {NoSymbol}
  BY <1>1, Fresh, EditAssumption DEF Runs, Begin, EditsOf
<1>3. CASE Keep
  BY <1>1, <1>3 DEF Renews
<1>4. CASE ~Keep
  <2>1. /\ op.sym = NoId \/ s # NoSymbol
        /\ Put(Injected(from, op.marks).lines)
    BY <1>4
  <2>2. s # NoSymbol => s.decl \in Nat \ {0} /\ s.end \in Nat
    BY <1>2, SymbolFacts
  <2>3. Len(lines) + 1 \in Nat
    BY <1>2, LineOK
  <2>4. from \in Spot
    <3> HIDE DEF s
    <3> QED BY <1>2, <2>1, <2>2, <2>3 DEF Spot
  <2> HIDE DEF from
  <2>5. Injected(from, op.marks) \in Spot
    BY <1>2, <2>4, InjectedType
  <2>6. Injected(from, op.marks).lines \in Seq(Line)
    BY <2>5 DEF Spot
  <2> QED BY <1>1, <2>1, <2>6 DEF Renews
<1> QED BY <1>3, <1>4

\* The line an import is put before.
LEMMA InsertPointFacts ==
  ASSUME NEW ls \in Seq(Line)
  PROVE  InsertPoint(ls) \in Nat \ {0}
<1> DEFINE code == {i \in DOMAIN ls :
                      ls[i].kind \notin {"blank", "block", "end", "anchor"}}
<1>1. Imports(ls) \in SUBSET (0 .. Len(ls)) /\ code \in SUBSET (1 .. Len(ls))
  BY LineOK DEF Imports
<1>2. Len(ls) \in Nat /\ \A i \in code : i \in Nat \ {0}
  BY LineOK
<1>3. CASE Imports(ls) # {}
  <2>1. \E i \in Imports(ls) : \A j \in Imports(ls) : j <= i
    BY <1>1, <1>2, <1>3, LastLine
  <2> DEFINE last == CHOOSE i \in Imports(ls) : \A j \in Imports(ls) : j <= i
  <2>2. last \in Imports(ls)
    BY <2>1
  <2>3. InsertPoint(ls) = last + 1
    BY <1>3 DEF InsertPoint
  <2> HIDE DEF last
  <2> QED BY <1>1, <1>2, <2>2, <2>3
<1>4. CASE Imports(ls) = {}
  <2>1. InsertPoint(ls) = IF code = {} THEN 1 ELSE First(code)
    BY <1>4 DEF InsertPoint
  <2> HIDE DEF code
  <2>2. code # {} => First(code) \in code
    BY <1>1, <1>2, FirstFacts
  <2>3. code # {} => First(code) \in Nat \ {0}
    BY <1>2, <2>2
  <2>4. CASE code = {}
    BY <2>1, <2>4
  <2>5. CASE code # {}
    BY <2>1, <2>3, <2>5
  <2> QED BY <2>4, <2>5
<1> QED BY <1>3, <1>4

LEMMA AddImportRuns ==
  ASSUME CodeInv, AddImport
  PROVE  \E op \in Edits : Runs(op) /\ Renews
<1> PICK op \in EditsOf("add_import") : AddImport!(op)
  BY DEF AddImport
<1> DEFINE at == InsertPoint(lines)
<1>1. op \in Edits /\ Runs(op)
  BY DEF EditsOf, Runs, Outcome
<1>2. lines \in Seq(Line) /\ op.new \in Line
  BY <1>1, Fresh, EditAssumption DEF Runs, Begin, EditsOf
<1>3. CASE Keep
  BY <1>1, <1>3 DEF Renews
<1>4. CASE ~Keep
  <2>1. Put(Splice(lines, at, at, <<op.new>>))
    BY <1>4
  <2>2. at \in Nat \ {0} /\ <<op.new>> \in Seq(Line)
    BY <1>2, InsertPointFacts
  <2> HIDE DEF at
  <2>3. Splice(lines, at, at, <<op.new>>) \in Seq(Line)
    BY <1>2, <2>2, SpliceType
  <2> QED BY <1>1, <2>1, <2>3 DEF Renews
<1> QED BY <1>3, <1>4

LEMMA RemoveImportRuns ==
  ASSUME CodeInv, RemoveImport
  PROVE  \E op \in Edits : Runs(op) /\ Renews
<1> PICK op \in EditsOf("remove_import") : RemoveImport!(op)
  BY DEF RemoveImport
<1> DEFINE at == First(Same(lines, op.new.name))
<1>1. op \in Edits /\ Runs(op)
  BY DEF EditsOf, Runs, Outcome
<1>2. lines \in Seq(Line) /\ <<>> \in Seq(Line)
  BY <1>1, Fresh DEF Runs, Begin
<1>3. CASE Keep
  BY <1>1, <1>3 DEF Renews
<1>4. CASE ~Keep
  <2>1. at # 0 /\ Put(Splice(lines, at, at + 1, <<>>))
    BY <1>4
  <2>2. Same(lines, op.new.name) \in SUBSET Nat
    BY <1>2, LineOK DEF Same, Imports
  <2>3. at \in Nat \ {0} /\ at + 1 \in Nat \ {0}
    BY <2>1, <2>2, FirstFacts
  <2> HIDE DEF at
  <2>4. Splice(lines, at, at + 1, <<>>) \in Seq(Line)
    BY <1>2, <2>3, SpliceType
  <2> QED BY <1>1, <2>1, <2>4 DEF Renews
<1> QED BY <1>3, <1>4

-----------------------------------------------------------------------------
\* The invariant holds throughout.

LEMMA LedgerGrows ==
  ASSUME TypeOK, NEW op \in Edits, edits' = Append(edits, op),
         Len(edits) < MaxEdits
  PROVE  /\ edits' \in Seq(Edits) /\ Len(edits') = Len(edits) + 1
         /\ Len(edits') <= MaxEdits /\ edits'[Len(edits')] = op
         /\ applied \subseteq DOMAIN edits' /\ skipped \subseteq DOMAIN edits'
         /\ Len(edits') \in DOMAIN edits'
         /\ Len(edits') \notin applied /\ Len(edits') \notin skipped
<1>1. /\ edits \in Seq(Edits)
      /\ applied \subseteq DOMAIN edits /\ skipped \subseteq DOMAIN edits
  BY DEF TypeOK
<1>2. Len(edits) \in Nat /\ DOMAIN edits = 1 .. Len(edits)
  BY <1>1, LenProperties
<1>3. /\ edits' \in Seq(Edits) /\ Len(edits') = Len(edits) + 1
      /\ edits'[Len(edits) + 1] = op
  BY <1>1, AppendProperties
<1>4. DOMAIN edits' = 1 .. Len(edits')
  BY <1>3, LenProperties
<1> QED BY <1>1, <1>2, <1>3, <1>4, SourceAssumption

Statuses == {"start", "applying", "full_success", "partial_success",
             "no_change", "discarded", "blocked", "envelope_error",
             "not_attempted"}

LEMMA EditKeeps ==
  ASSUME CodeInv, NEW op \in Edits, Runs(op), Renews
  PROVE  CodeInv'
<1>1. TypeOK /\ Begin(op) /\ Rest /\ Outcome
  BY DEF CodeInv, Runs
<1>2. /\ status = "applying" /\ UNCHANGED <<mode, original, copy>>
      /\ edits' = Append(edits, op) /\ Len(edits) < MaxEdits
  BY <1>1 DEF Begin, Running, Rest
<1>3. lines' \in Seq(Line) /\ symbols' = Parse(lines')
  BY <1>1, <1>2 DEF Renews, Keep, Put, CodeInv, TypeOK, TableFresh
<1>4. /\ edits' \in Seq(Edits) /\ Len(edits') <= MaxEdits
      /\ applied' \subseteq DOMAIN edits' /\ skipped' \subseteq DOMAIN edits'
      /\ applied' \cap skipped' = {}
      /\ halted' \in BOOLEAN
      /\ status' \in Statuses
  <2>1. /\ edits' \in Seq(Edits) /\ Len(edits') <= MaxEdits
        /\ applied \subseteq DOMAIN edits' /\ skipped \subseteq DOMAIN edits'
        /\ Len(edits') \in DOMAIN edits'
        /\ Len(edits') \notin applied /\ Len(edits') \notin skipped
    BY <1>1, <1>2, LedgerGrows
  <2>2. /\ applied \cap skipped = {} /\ halted \in BOOLEAN /\ status \in Statuses
    BY <1>1 DEF TypeOK, Statuses
  <2>3. /\ applied' \in {applied, applied \cup {Len(edits')}}
        /\ skipped' \in {skipped, skipped \cup {Len(edits')}}
        /\ applied' = applied \/ skipped' = skipped
        /\ halted' \in BOOLEAN
        /\ status' \in Statuses
    BY <1>1, <2>2 DEF Outcome, Applied, Failed, Statuses
  <2> QED BY <2>1, <2>2, <2>3
<1>5. TypeOK'
  BY <1>1, <1>2, <1>3, <1>4 DEF TypeOK, Statuses
<1> QED BY <1>3, <1>5 DEF CodeInv, TableFresh

LEMMA EditRuns ==
  ASSUME CodeInv, Edit
  PROVE  \E op \in Edits : Runs(op) /\ Renews
BY AssertRuns, RenameSymbolRuns, ReplaceSymbolRuns, DeleteSymbolRuns,
   ChangeSignatureRuns, AddDecoratorRuns, MoveSymbolRuns, SwapSymbolsRuns,
   EditTextRuns, ReplaceBlockRuns, InsertBlockRuns, MoveBlockRuns,
   CopyBlockRuns, InjectMarkersRuns, AddImportRuns, RemoveImportRuns DEF Edit

LEMMA FrameKeeps ==
  ASSUME CodeInv, Reject \/ Open \/ SkipRest \/ Finish
  PROVE  CodeInv'
<1>1. TypeOK /\ TableFresh /\ <<>> \in Seq(Line)
  BY DEF CodeInv
<1>2. CASE Reject
  BY <1>1, <1>2 DEF CodeInv, Reject, TypeOK, TableFresh
<1>3. CASE Open
  BY <1>1, <1>3 DEF CodeInv, Open, TypeOK, TableFresh
<1>4. CASE SkipRest
  <2>1. PICK op \in Edits : edits' = Append(edits, op)
    BY <1>4 DEF SkipRest
  <2>2. /\ Len(edits) < MaxEdits
        /\ skipped' = skipped \cup {Len(edits')}
        /\ UNCHANGED <<mode, original, lines, symbols, applied, halted, status,
                       copy>>
    BY <1>4 DEF SkipRest
  <2>3. /\ edits' \in Seq(Edits) /\ Len(edits') <= MaxEdits
        /\ applied \subseteq DOMAIN edits' /\ skipped \subseteq DOMAIN edits'
        /\ Len(edits') \in DOMAIN edits' /\ Len(edits') \notin applied
    BY <1>1, <2>1, <2>2, LedgerGrows
  <2> QED BY <1>1, <2>2, <2>3 DEF CodeInv, TypeOK, TableFresh
<1>5. CASE Finish
  <2>1. /\ status' \in {"full_success", "no_change", "partial_success"}
        /\ copy' \in Seq(Line)
        /\ UNCHANGED <<mode, original, lines, symbols, edits, applied, skipped,
                       halted>>
    BY <1>1, <1>5 DEF Finish, TypeOK
  <2> QED BY <1>1, <2>1 DEF CodeInv, TypeOK, TableFresh
<1> QED BY <1>2, <1>3, <1>4, <1>5

LEMMA CodeStart == Init => CodeInv
<1> SUFFICES ASSUME Init PROVE CodeInv
  OBVIOUS
<1>1. original \in Sources /\ lines = original /\ lines \in Seq(Line)
  BY SourceAssumption DEF Init
<1>2. /\ edits = <<>> /\ edits \in Seq(Edits) /\ Len(edits) = 0
      /\ copy \in Seq(Line) /\ MaxEdits \in Nat
  BY SourceAssumption DEF Init
<1>3. /\ mode \in {"atomic", "best_effort"} /\ applied = {} /\ skipped = {}
      /\ halted \in BOOLEAN /\ status = "start"
  BY DEF Init
<1> QED BY <1>1, <1>2, <1>3 DEF CodeInv, TypeOK, TableFresh

LEMMA CodeStep == CodeInv /\ [Next]_vars => CodeInv'
<1> SUFFICES ASSUME CodeInv, [Next]_vars PROVE CodeInv'
  OBVIOUS
<1>1. CASE UNCHANGED vars
  BY <1>1 DEF vars, CodeInv, TypeOK, TableFresh
<1>2. CASE Edit
  BY <1>2, EditRuns, EditKeeps
<1>3. CASE Reject \/ Open \/ SkipRest \/ Finish
  BY <1>3, FrameKeeps
<1> QED BY <1>1, <1>2, <1>3 DEF Next

(***************************************************************************)
(* Every handler leaves the state well formed, whatever the source and the *)
(* patch: the working copy stays a text, and no operation is both applied  *)
(* and skipped.                                                            *)
(***************************************************************************)
THEOREM CodeTypes == Spec => []TypeOK
<1>1. CodeInv => TypeOK
  BY DEF CodeInv
<1> QED BY <1>1, CodeStart, CodeStep, PTL DEF Spec

(***************************************************************************)
(* The symbol table is that of the working copy whenever an operation      *)
(* begins: each handler renews it on every path that changes a line, the   *)
(* failing ones included.                                                  *)
(***************************************************************************)
THEOREM CodeTableFresh == Spec => []TableFresh
<1>1. CodeInv => TableFresh
  BY DEF CodeInv
<1> QED BY <1>1, CodeStart, CodeStep, PTL DEF Spec

-----------------------------------------------------------------------------
\* What taking a symbol out does to the others: in a text whose decorators
\* are indented like what they decorate, nothing but shift them.

\* All that is indented no deeper ends a body, so bodies are nested and the
\* classes around a function are those whose body it begins in.
LEMMA BodiesNest ==
  ASSUME NEW ls \in Seq(Line), NEW c \in 1 .. Len(ls), NEW i \in 1 .. Len(ls),
         c < i, i < BodyEnd(ls, c), ls[i].kind # "blank"
  PROVE  ls[c].indent < ls[i].indent /\ BodyEnd(ls, i) <= BodyEnd(ls, c)
<1> DEFINE e == BodyEnd(ls, c)
           d == BodyEnd(ls, i)
<1>1. /\ Len(ls) \in Nat
      /\ \A j \in 1 .. Len(ls) : ls[j].indent \in Nat
  BY LineOK
<1>2. /\ e \in c + 1 .. Len(ls) + 1
      /\ \A j \in c + 1 .. e - 1 :
           ls[j].kind = "blank" \/ ls[j].indent > ls[c].indent
      /\ e <= Len(ls) => ls[e].kind # "blank" /\ ls[e].indent <= ls[c].indent
  BY BodyEndFacts DEF EndsAt
<1>3. /\ d \in i + 1 .. Len(ls) + 1
      /\ \A j \in i + 1 .. d - 1 :
           ls[j].kind = "blank" \/ ls[j].indent > ls[i].indent
  BY BodyEndFacts DEF EndsAt
<1> HIDE DEF d
<1>4. i < e
  OBVIOUS
<1> HIDE DEF e
<1>5. i \in c + 1 .. e - 1
  BY <1>1, <1>2, <1>4
<1>6. ls[c].indent < ls[i].indent
  BY <1>1, <1>2, <1>5
<1>7. d <= e
  <2> SUFFICES ASSUME e < d PROVE FALSE
    BY <1>1, <1>2, <1>3
  <2>1. e \in i + 1 .. d - 1 /\ e <= Len(ls) /\ e \in 1 .. Len(ls)
    BY <1>1, <1>2, <1>3, <1>4
  <2>2. ls[e].kind # "blank" /\ ls[e].indent <= ls[c].indent
    BY <1>2, <2>1
  <2>3. ls[e].indent > ls[i].indent
    BY <1>3, <2>1, <2>2
  <2> QED BY <1>1, <1>6, <2>1, <2>2, <2>3
<1> QED BY <1>6, <1>7 DEF d, e

LEMMA ClassesFacts ==
  ASSUME NEW ls \in Seq(Line), NEW i \in Decls(ls)
  PROVE  Classes(ls, i) =
           {c \in Decls(ls) : /\ ls[c].kind = "class" /\ ls[i].kind = "def"
                              /\ c < i /\ i < BodyEnd(ls, c)}
<1>1. /\ Len(ls) \in Nat /\ DOMAIN ls = 1 .. Len(ls)
      /\ \A c \in Decls(ls) : c \in 1 .. Len(ls) /\ ls[c].kind # "blank"
  BY LineOK DEF Decls
<1>2. BodyEnd(ls, i) \in i + 1 .. Len(ls) + 1
  BY <1>1, BodyEndFacts DEF EndsAt
<1>3. ASSUME NEW c \in Decls(ls), c < i
      PROVE  BodyEnd(ls, i) <= BodyEnd(ls, c) <=> i < BodyEnd(ls, c)
  <2>1. BodyEnd(ls, c) \in c + 1 .. Len(ls) + 1
    BY <1>1, BodyEndFacts DEF EndsAt
  <2>2. i < BodyEnd(ls, c) => BodyEnd(ls, i) <= BodyEnd(ls, c)
    BY <1>1, <1>3, BodiesNest
  <2>3. BodyEnd(ls, i) <= BodyEnd(ls, c) => i < BodyEnd(ls, c)
    BY <1>1, <1>2, <2>1
  <2> QED BY <2>2, <2>3
<1> QED BY <1>3 DEF Classes

\* So the innermost class is the last.
LEMMA InnermostFacts ==
  ASSUME NEW ls \in Seq(Line), NEW i \in Decls(ls), Classes(ls, i) # {}
  PROVE  LET c == Innermost(ls, Classes(ls, i))
         IN  c \in Classes(ls, i) /\ \A d \in Classes(ls, i) : d <= c
<1> DEFINE C == Classes(ls, i)
           Inner(c) == \A d \in C : BodyEnd(ls, c) - c <= BodyEnd(ls, d) - d
<1>1. /\ Len(ls) \in Nat /\ DOMAIN ls = 1 .. Len(ls)
      /\ \A c \in Decls(ls) : c \in 1 .. Len(ls) /\ ls[c].kind # "blank"
  BY LineOK DEF Decls
<1>2. /\ C \subseteq Decls(ls)
      /\ \A c \in C : c \in 1 .. Len(ls) /\ c < i /\ i < BodyEnd(ls, c)
  BY <1>1, ClassesFacts
<1>3. C \in SUBSET (0 .. Len(ls)) /\ i \in Nat
  BY <1>1, <1>2
<1>4. \A c \in C : BodyEnd(ls, c) \in Nat
  BY <1>1, <1>2, BodyEndFacts DEF EndsAt
<1>5. ASSUME NEW c \in C, NEW d \in C, d < c
      PROVE  BodyEnd(ls, c) - c < BodyEnd(ls, d) - d
  <2>1. c < BodyEnd(ls, d) /\ ls[c].kind # "blank"
    BY <1>1, <1>2, <1>4, <1>3, <1>5
  <2>2. BodyEnd(ls, c) <= BodyEnd(ls, d)
    BY <1>2, <1>5, <2>1, BodiesNest
  <2> QED BY <1>2, <1>4, <1>5, <2>2
<1> HIDE DEF C
<1>6. PICK last \in C : \A d \in C : d <= last
  <2>1. C # {}
    BY DEF C
  <2> QED BY <1>1, <1>3, <2>1, LastLine
<1>7. Inner(last)
  <2> SUFFICES ASSUME NEW d \in C
               PROVE  BodyEnd(ls, last) - last <= BodyEnd(ls, d) - d
    OBVIOUS
  <2>1. CASE d = last
    BY <1>2, <1>4, <2>1
  <2>2. CASE d # last
    <3>1. d < last
      BY <1>2, <1>6, <2>2
    <3> QED BY <1>2, <1>4, <1>5, <3>1
  <2> QED BY <2>1, <2>2
<1>8. ASSUME NEW c \in C, Inner(c) PROVE c = last
  <2> SUFFICES ASSUME c # last PROVE FALSE
    OBVIOUS
  <2>1. c < last
    BY <1>2, <1>6
  <2>2. BodyEnd(ls, last) - last < BodyEnd(ls, c) - c
    BY <1>5, <2>1
  <2>3. BodyEnd(ls, c) - c <= BodyEnd(ls, last) - last
    BY <1>8
  <2> QED BY <1>2, <1>4, <2>2, <2>3
<1>9. Innermost(ls, C) = CHOOSE c \in C : Inner(c)
  BY DEF Innermost
<1>10. Innermost(ls, C) = last
  <2> HIDE DEF Inner
  <2> QED BY <1>7, <1>8, <1>9
<1> QED BY <1>6, <1>10 DEF C

\* The lines of a symbol: decorators as deep as the declaration, then lines
\* that are deeper or blank.
LEMMA LinesOfSymbol ==
  ASSUME NEW ls \in Seq(Line), Aligned(ls), NEW s \in Parse(ls)
  PROVE  /\ \A k \in s.start .. s.decl :
              ls[k].kind # "blank" /\ ls[k].indent = ls[s.decl].indent
         /\ \A k \in s.decl + 1 .. s.end - 1 :
              ls[k].kind = "blank" \/ ls[k].indent > ls[s.decl].indent
         /\ s.end <= Len(ls) => /\ ls[s.end].kind # "blank"
                                /\ ls[s.end].indent <= ls[s.decl].indent
<1>1. /\ s.decl \in 1 .. Len(ls) /\ s.decl \in Decls(ls)
      /\ s.start \in Nat \ {0} /\ s.start <= s.decl
      /\ s.start = PrefixStart(ls, s.decl) /\ s.end = BodyEnd(ls, s.decl)
  BY SymbolFacts
<1>2. /\ Len(ls) \in Nat /\ DOMAIN ls = 1 .. Len(ls)
      /\ ls[s.decl].kind \in {"def", "class"}
  BY <1>1, LineOK DEF Decls
<1>3. \A k \in s.start .. s.decl - 1 : ls[k].kind = "deco"
  BY <1>1, PrefixFacts
<1> DEFINE Off == {k \in s.start .. s.decl : ls[k].indent # ls[s.decl].indent}
<1>4. Off = {}
  <2> SUFFICES ASSUME Off # {} PROVE FALSE
    OBVIOUS
  <2>1. Off \in SUBSET (0 .. s.decl) /\ s.decl \in Nat
    BY <1>1, <1>2
  <2>2. PICK k \in Off : \A j \in Off : j <= k
    <3> HIDE DEF Off
    <3> QED BY <2>1, LastLine
  <2>3. k \in s.start .. s.decl - 1
    BY <1>1, <1>2, <2>2
  <2>4. k \in DOMAIN ls /\ ls[k].kind = "deco"
    BY <1>1, <1>2, <1>3, <2>3
  <2>5. ls[k + 1].indent = ls[k].indent
    <3>1. k + 1 \in s.start .. s.decl - 1 \/ k + 1 = s.decl
      BY <1>1, <2>3
    <3>2. ls[k + 1].kind \in {"deco", "def", "class"}
      BY <1>2, <1>3, <3>1
    <3> QED BY <2>4, <3>2 DEF Aligned
  <2>6. k + 1 \in s.start .. s.decl /\ ~(k + 1 <= k)
    BY <1>1, <1>2, <2>3
  <2>7. k + 1 \notin Off
    BY <2>2, <2>6
  <2> QED BY <2>2, <2>5, <2>6, <2>7
<1>5. ASSUME NEW k \in s.start .. s.decl
      PROVE  ls[k].kind # "blank" /\ ls[k].indent = ls[s.decl].indent
  <2>1. k = s.decl \/ k \in s.start .. s.decl - 1
    BY <1>1, <1>2
  <2> QED BY <1>2, <1>3, <1>4, <2>1
<1>6. EndsAt(ls, s.decl, s.end)
  BY <1>1, BodyEndFacts
<1> QED BY <1>5, <1>6 DEF EndsAt

\* A symbol that begins among the lines of another is a part of it.
LEMMA PartOf ==
  ASSUME NEW ls \in Seq(Line), NEW s \in Parse(ls), NEW t \in Parse(ls),
         s.start <= t.decl, t.decl < s.end
  PROVE  Within(t, s)
<1>1. /\ s.decl \in 1 .. Len(ls) /\ s.decl \in Decls(ls) /\ s = Symbol(ls, s.decl)
      /\ s.start \in Nat \ {0} /\ s.start <= s.decl
      /\ s.start = PrefixStart(ls, s.decl) /\ s.end = BodyEnd(ls, s.decl)
  BY SymbolFacts
<1>2. /\ t.decl \in 1 .. Len(ls) /\ t.decl \in Decls(ls) /\ t = Symbol(ls, t.decl)
      /\ t.start \in Nat \ {0} /\ t.start <= t.decl
      /\ t.start = PrefixStart(ls, t.decl) /\ t.end = BodyEnd(ls, t.decl)
      /\ s.end \in Nat /\ t.end \in Nat
  BY SymbolFacts
<1>3. /\ Len(ls) \in Nat /\ DOMAIN ls = 1 .. Len(ls)
      /\ ls[s.decl].kind \in {"def", "class"} /\ ls[t.decl].kind \in {"def", "class"}
  BY <1>1, <1>2, LineOK DEF Decls
<1>4. \A k \in s.start .. s.decl - 1 : ls[k].kind = "deco"
  BY <1>1, PrefixFacts
<1>5. ~(t.decl < s.decl)
  BY <1>1, <1>2, <1>3, <1>4
<1>6. CASE t.decl = s.decl
  BY <1>1, <1>2, <1>6 DEF Within
<1>7. CASE s.decl < t.decl
  <2>1. t.end <= s.end
    BY <1>1, <1>2, <1>3, <1>7, BodiesNest
  <2>2. \A k \in t.start .. t.decl - 1 : ls[k].kind = "deco"
    BY <1>2, PrefixFacts
  <2>3. s.start <= t.start
    <3> SUFFICES ASSUME t.start < s.start PROVE FALSE
      BY <1>1, <1>2
    <3>1. s.decl \in t.start .. t.decl - 1
      BY <1>1, <1>2, <1>3, <1>7
    <3> QED BY <1>3, <2>2, <3>1
  <2> QED BY <2>1, <2>3 DEF Within
<1> QED BY <1>1, <1>2, <1>3, <1>5, <1>6, <1>7

-----------------------------------------------------------------------------
\* What is left of the other symbols when one symbol gets other lines, or none:
\* rest is ls with n lines in place of those of s, indented as it or further.
Kept(s, i)     == i < s.start \/ s.end <= i
Moved(s, n, i) == IF i < s.start THEN i ELSE i - (s.end - s.start) + n

Reshaped(ls, s, n, rest) ==
  /\ rest \in Seq(Line)
  /\ Len(rest) = Len(ls) - (s.end - s.start) + n
  /\ \A i \in 1 .. Len(ls) : Kept(s, i) =>
       Moved(s, n, i) \in 1 .. Len(rest) /\ rest[Moved(s, n, i)] = ls[i]
  /\ \A k \in s.start .. s.start + n - 1 :
       rest[k].kind = "blank" \/ rest[k].indent >= ls[s.decl].indent
  /\ n > 0 => /\ rest[s.start].kind # "blank"
              /\ rest[s.start].indent = ls[s.decl].indent
              /\ rest[s.start + n - 1].kind # "deco"

\* Every line of rest is one of the n or was there before.
LEMMA Whence ==
  ASSUME NEW ls \in Seq(Line), NEW s \in Parse(ls), NEW n \in Nat, NEW rest,
         Reshaped(ls, s, n, rest), NEW j \in 1 .. Len(rest)
  PROVE  \/ j \in s.start .. s.start + n - 1
         \/ \E i \in 1 .. Len(ls) : Kept(s, i) /\ j = Moved(s, n, i)
<1>1. /\ s.start \in Nat \ {0} /\ s.end \in Nat \ {0} /\ s.start < s.end
      /\ s.end <= Len(ls) + 1 /\ Len(ls) \in Nat
  BY SymbolFacts, LineOK
<1>2. Len(rest) = Len(ls) - (s.end - s.start) + n
  BY DEF Reshaped
<1>3. CASE j < s.start
  <2>1. j \in 1 .. Len(ls) /\ Kept(s, j) /\ j = Moved(s, n, j)
    BY <1>1, <1>2, <1>3 DEF Kept, Moved
  <2> QED BY <2>1
<1>4. CASE s.start + n <= j
  <2> DEFINE i == j + (s.end - s.start) - n
  <2>1. i \in 1 .. Len(ls) /\ s.end <= i /\ ~(i < s.start)
    BY <1>1, <1>2, <1>4
  <2>2. i - (s.end - s.start) + n = j
    BY <1>1
  <2>3. Kept(s, i) /\ j = Moved(s, n, i)
    BY <2>1, <2>2 DEF Kept, Moved
  <2> QED BY <2>1, <2>3
<1> QED BY <1>1, <1>3, <1>4

\* Distinct lines stay distinct and in order.
LEMMA MovedRises ==
  ASSUME NEW ls \in Seq(Line), NEW s \in Parse(ls), NEW n \in Nat,
         NEW i \in 1 .. Len(ls), NEW k \in 1 .. Len(ls), Kept(s, i), Kept(s, k)
  PROVE  /\ Moved(s, n, i) \in Nat /\ (i < k <=> Moved(s, n, i) < Moved(s, n, k))
         /\ Moved(s, n, i) = Moved(s, n, k) => i = k
<1>1. /\ s.start \in Nat \ {0} /\ s.end \in Nat \ {0} /\ s.start <= s.end
      /\ Len(ls) \in Nat
  BY SymbolFacts, LineOK
<1>2. (i < s.start \/ s.end <= i) /\ (k < s.start \/ s.end <= k)
  BY DEF Kept
<1> QED BY <1>1, <1>2 DEF Moved

\* A body outside s does not end among the lines of s.
LEMMA EndsOutside ==
  ASSUME NEW ls \in Seq(Line), Aligned(ls), NEW s \in Parse(ls),
         NEW i \in 1 .. Len(ls), Kept(s, i)
  PROVE  LET e == BodyEnd(ls, i)
         IN  /\ e <= s.start \/ s.end <= e
             /\ i < s.start /\ s.start < e => ls[i].indent < ls[s.decl].indent
             /\ e = s.start => ls[s.decl].indent <= ls[i].indent
<1> DEFINE e == BodyEnd(ls, i)
<1>1. /\ s.start \in Nat \ {0} /\ s.end \in Nat \ {0} /\ s.start <= s.decl
      /\ s.decl \in 1 .. Len(ls) /\ s.decl < s.end /\ s.end <= Len(ls) + 1
      /\ Len(ls) \in Nat
  BY SymbolFacts, LineOK
<1>2. \A k \in 1 .. Len(ls) : ls[k].indent \in Nat
  BY LineOK
<1>3. /\ \A k \in s.start .. s.decl :
           ls[k].kind # "blank" /\ ls[k].indent = ls[s.decl].indent
      /\ \A k \in s.decl + 1 .. s.end - 1 :
           ls[k].kind = "blank" \/ ls[k].indent > ls[s.decl].indent
  BY LinesOfSymbol
<1>4. /\ e \in i + 1 .. Len(ls) + 1
      /\ \A j \in i + 1 .. e - 1 :
           ls[j].kind = "blank" \/ ls[j].indent > ls[i].indent
      /\ e <= Len(ls) => ls[e].kind # "blank" /\ ls[e].indent <= ls[i].indent
  BY BodyEndFacts DEF EndsAt
<1>5. i < s.start \/ s.end <= i
  BY DEF Kept
<1> HIDE DEF e
<1>6. s.start \in s.start .. s.decl /\ s.start \in 1 .. Len(ls)
  BY <1>1
<1>7. ls[s.start].kind # "blank" /\ ls[s.start].indent = ls[s.decl].indent
  BY <1>3, <1>6
<1>8. ASSUME i < s.start, s.start < e
      PROVE  ls[i].indent < ls[s.decl].indent
  <2>1. s.start \in i + 1 .. e - 1
    BY <1>1, <1>4, <1>8
  <2>2. ls[s.start].indent > ls[i].indent
    BY <1>4, <1>7, <2>1
  <2> QED BY <1>2, <1>6, <1>7, <2>2
<1>9. ASSUME e = s.start PROVE ls[s.decl].indent <= ls[i].indent
  <2>1. e <= Len(ls)
    BY <1>1, <1>9
  <2> QED BY <1>4, <1>7, <1>9, <2>1
<1>10. e <= s.start \/ s.end <= e
  <2> SUFFICES ASSUME s.start < e, e < s.end PROVE FALSE
    BY <1>1, <1>4
  <2>1. i < s.start
    BY <1>1, <1>4, <1>5
  <2>2. ls[i].indent < ls[s.decl].indent
    BY <1>8, <2>1
  <2>3. e \in 1 .. Len(ls) /\ ls[e].kind # "blank" /\ ls[e].indent <= ls[i].indent
    BY <1>1, <1>4
  <2>4. e \in s.start .. s.decl \/ e \in s.decl + 1 .. s.end - 1
    BY <1>1, <1>4
  <2>5. ls[e].indent = ls[s.decl].indent \/ ls[e].indent > ls[s.decl].indent
    BY <1>3, <2>3, <2>4
  <2> QED BY <1>1, <1>2, <2>2, <2>3, <2>5
<1> QED BY <1>8, <1>9, <1>10 DEF e

\* A body ends where it ended, or where s began.
LEMMA EndKept ==
  ASSUME NEW ls \in Seq(Line), Aligned(ls), NEW s \in Parse(ls), NEW n \in Nat,
         NEW rest, Reshaped(ls, s, n, rest), NEW i \in 1 .. Len(ls), Kept(s, i)
  PROVE  /\ BodyEnd(ls, i) <= s.start \/ s.end <= BodyEnd(ls, i)
         /\ BodyEnd(ls, i) \in i + 1 .. Len(ls) + 1
         /\ BodyEnd(rest, Moved(s, n, i)) =
              IF BodyEnd(ls, i) <= s.start THEN BodyEnd(ls, i)
              ELSE BodyEnd(ls, i) - (s.end - s.start) + n
<1> DEFINE w == s.end - s.start
           d == ls[s.decl].indent
           e == BodyEnd(ls, i)
           h == IF e <= s.start THEN e ELSE e - w + n
           g == Moved(s, n, i)
<1>1. /\ s.start \in Nat \ {0} /\ s.end \in Nat \ {0} /\ s.start < s.end
      /\ s.end <= Len(ls) + 1 /\ Len(ls) \in Nat /\ i \in Nat \ {0}
  BY SymbolFacts, LineOK
<1>2. d \in Nat /\ \A k \in 1 .. Len(ls) : ls[k].indent \in Nat
  BY SymbolFacts, LineOK
<1>3. s.end <= Len(ls) => ls[s.end].kind # "blank" /\ ls[s.end].indent <= d
  BY LinesOfSymbol
<1>4. /\ e \in i + 1 .. Len(ls) + 1
      /\ \A j \in i + 1 .. e - 1 :
           ls[j].kind = "blank" \/ ls[j].indent > ls[i].indent
      /\ e <= Len(ls) => ls[e].kind # "blank" /\ ls[e].indent <= ls[i].indent
  BY BodyEndFacts DEF EndsAt
<1>5. /\ e <= s.start \/ s.end <= e
      /\ i < s.start /\ s.start < e => ls[i].indent < d
      /\ e = s.start => d <= ls[i].indent
  BY EndsOutside
<1>6. /\ \A k \in 1 .. Len(ls) : Kept(s, k) =>
           Moved(s, n, k) \in 1 .. Len(rest) /\ rest[Moved(s, n, k)] = ls[k]
      /\ rest \in Seq(Line)
  BY DEF Reshaped
<1>7. /\ \A k \in s.start .. s.start + n - 1 :
           rest[k].kind = "blank" \/ rest[k].indent >= d
      /\ n > 0 => rest[s.start].kind # "blank" /\ rest[s.start].indent = d
  BY DEF Reshaped
<1>8. /\ Len(rest) = Len(ls) - w + n /\ Len(rest) \in Nat
      /\ \A k \in 1 .. Len(rest) : rest[k].indent \in Nat
  BY <1>6, LineOK DEF Reshaped
<1>9. g \in 1 .. Len(rest) /\ rest[g] = ls[i]
  BY <1>6
<1>10. (i < s.start /\ g = i) \/ (s.end <= i /\ ~(i < s.start) /\ g = i - w + n)
  BY <1>1 DEF Kept, Moved
<1> HIDE DEF g, e, d
<1>11. /\ e \in Nat /\ i < e /\ e <= Len(ls) + 1
       /\ g \in Nat /\ g <= Len(rest) /\ w \in Nat \ {0}
  <2>1. e \in i + 1 .. Len(ls) + 1
    BY <1>4
  <2>2. e \in Nat /\ i < e /\ e <= Len(ls) + 1
    BY <1>1, <2>1
  <2>3. Len(rest) \in Nat
    BY <1>8
  <2>4. g \in Nat /\ g <= Len(rest)
    BY <1>9, <2>3
  <2>5. w \in Nat \ {0}
    BY <1>1
  <2> QED BY <2>2, <2>4, <2>5
<1> HIDE DEF w
<1>12. (e <= s.start /\ h = e) \/ (s.end <= e /\ s.start < e /\ h = e - w + n)
  BY <1>1, <1>5, <1>11, SMTT(30)
<1>13. s.end = s.start + w
  BY <1>1 DEF w
<1> HIDE DEF h
<1>14. EndsAt(rest, g, h)
  <2>1. h \in g + 1 .. Len(rest) + 1
    <3>1. h <= Len(rest) + 1 /\ h \in Int
      BY <1>1, <1>8, <1>11, <1>12, <1>13, SMTT(30)
    <3>2. g < h
      BY <1>1, <1>10, <1>11, <1>12, <1>13, SMTT(30)
    <3> QED BY <1>8, <1>11, <3>1, <3>2
  <2>2. ASSUME NEW j \in g + 1 .. h - 1
        PROVE  rest[j].kind = "blank" \/ rest[j].indent > rest[g].indent
    <3>1. j \in 1 .. Len(rest) /\ g < j /\ j < h
      BY <1>8, <1>11, <2>1
    <3>2. CASE j \in s.start .. s.start + n - 1
      <4>1. i < s.start /\ s.start < e
        BY <1>1, <1>10, <1>11, <1>12, <1>13, <3>1, <3>2, SMTT(30)
      <4>2. ls[i].indent < d
        BY <1>5, <4>1
      <4>3. rest[j].kind = "blank" \/ rest[j].indent >= d
        BY <1>7, <3>2
      <4> QED BY <1>2, <1>8, <1>9, <3>1, <4>2, <4>3
    <3>3. ASSUME NEW k \in 1 .. Len(ls), Kept(s, k), j = Moved(s, n, k)
          PROVE  rest[j].kind = "blank" \/ rest[j].indent > rest[g].indent
      <4>1. (k < s.start /\ j = k) \/ (s.end <= k /\ j = k - w + n)
        BY <1>1, <3>3 DEF Kept, Moved, w
      <4>2. i < k
        BY <1>1, <1>10, <1>11, <1>13, <3>1, <4>1, SMTT(30)
      <4>3. k < e
        BY <1>1, <1>11, <1>12, <1>13, <3>1, <4>1, SMTT(30)
      <4>4. k \in i + 1 .. e - 1
        BY <1>1, <1>11, <4>2, <4>3, SMTT(30)
      <4> QED BY <1>4, <1>6, <1>9, <3>3, <4>4
    <3> QED BY <3>1, <3>2, <3>3, Whence
  <2>3. ASSUME h <= Len(rest)
        PROVE  rest[h].kind # "blank" /\ rest[h].indent <= rest[g].indent
    <3>1. CASE e # s.start
      <4>1. e < s.start \/ s.end <= e
        BY <1>1, <1>11, <1>12, <3>1, SMTT(30)
      <4>2. e \in 1 .. Len(ls)
        BY <1>1, <1>8, <1>11, <1>12, <1>13, <2>3, <4>1, SMTT(30)
      <4>3. Kept(s, e) /\ Moved(s, n, e) = h
        BY <1>1, <1>11, <1>12, <4>1 DEF Kept, Moved, w
      <4>4. rest[h] = ls[e]
        BY <1>6, <4>2, <4>3
      <4> QED BY <1>4, <1>9, <1>11, <4>2, <4>4
    <3>2. CASE e = s.start /\ n > 0
      <4>1. h = s.start /\ d <= ls[i].indent
        BY <1>1, <1>5, <1>12, <3>2, SMTT(30)
      <4> QED BY <1>7, <1>9, <3>2, <4>1
    <3>3. CASE e = s.start /\ ~(n > 0)
      <4>1. h = s.start /\ n = 0
        BY <1>1, <1>12, <3>3, SMTT(30)
      <4>2. s.end \in 1 .. Len(ls)
        BY <1>1, <1>8, <1>11, <1>13, <2>3, <4>1, SMTT(30)
      <4>3. Kept(s, s.end) /\ Moved(s, n, s.end) = h
        BY <1>1, <4>1 DEF Kept, Moved
      <4>4. rest[h] = ls[s.end]
        BY <1>6, <4>2, <4>3
      <4>5. d <= ls[i].indent /\ ls[s.end].kind # "blank" /\ ls[s.end].indent <= d
        BY <1>3, <1>5, <3>3, <4>2
      <4> QED BY <1>2, <1>9, <4>2, <4>4, <4>5
    <3> QED BY <3>1, <3>2, <3>3
  <2> QED BY <2>1, <2>2, <2>3 DEF EndsAt
<1>15. h = BodyEnd(rest, g)
  BY <1>6, <1>9, <1>14, BodyEndFacts
<1> QED BY <1>4, <1>5, <1>15 DEF e, g, h, w

\* The declarations outside s are there, and others are among the n lines only.
LEMMA DeclsKept ==
  ASSUME NEW ls \in Seq(Line), NEW s \in Parse(ls), NEW n \in Nat, NEW rest,
         Reshaped(ls, s, n, rest)
  PROVE  /\ \A i \in Decls(ls) : Kept(s, i) => Moved(s, n, i) \in Decls(rest)
         /\ \A j \in Decls(rest) :
              \/ j \in s.start .. s.start + n - 1
              \/ \E i \in Decls(ls) : Kept(s, i) /\ j = Moved(s, n, i)
<1>1. /\ rest \in Seq(Line)
      /\ \A i \in 1 .. Len(ls) : Kept(s, i) =>
           Moved(s, n, i) \in 1 .. Len(rest) /\ rest[Moved(s, n, i)] = ls[i]
  BY DEF Reshaped
<1>2. DOMAIN ls = 1 .. Len(ls) /\ DOMAIN rest = 1 .. Len(rest)
  BY <1>1, LineOK
<1>3. ASSUME NEW j \in Decls(rest), j \notin s.start .. s.start + n - 1
      PROVE  \E i \in Decls(ls) : Kept(s, i) /\ j = Moved(s, n, i)
  <2>1. PICK i \in 1 .. Len(ls) : Kept(s, i) /\ j = Moved(s, n, i)
    BY <1>2, <1>3, Whence DEF Decls
  <2>2. i \in Decls(ls)
    BY <1>1, <1>2, <2>1 DEF Decls
  <2> QED BY <2>1, <2>2
<1>4. ASSUME NEW i \in Decls(ls), Kept(s, i) PROVE Moved(s, n, i) \in Decls(rest)
  BY <1>1, <1>2, <1>4 DEF Decls
<1> QED BY <1>3, <1>4

\* What is declared among the n lines ends there.
LEMMA EndsAmong ==
  ASSUME NEW ls \in Seq(Line), Aligned(ls), NEW s \in Parse(ls), NEW n \in Nat,
         NEW rest, Reshaped(ls, s, n, rest),
         NEW c \in s.start .. s.start + n - 1, c \in Decls(rest)
  PROVE  BodyEnd(rest, c) <= s.start + n
<1> DEFINE e == BodyEnd(rest, c)
           b == s.start + n
<1>1. /\ s.start \in Nat \ {0} /\ s.end \in Nat \ {0} /\ s.start < s.end
      /\ s.end <= Len(ls) + 1 /\ Len(ls) \in Nat
  BY SymbolFacts, LineOK
<1>2. ls[s.decl].indent \in Nat
  BY SymbolFacts, LineOK
<1>3. s.end <= Len(ls) =>
        ls[s.end].kind # "blank" /\ ls[s.end].indent <= ls[s.decl].indent
  BY LinesOfSymbol
<1>4. /\ rest \in Seq(Line) /\ Len(rest) = Len(ls) - (s.end - s.start) + n
      /\ \A i \in 1 .. Len(ls) : Kept(s, i) =>
           Moved(s, n, i) \in 1 .. Len(rest) /\ rest[Moved(s, n, i)] = ls[i]
      /\ rest[c].kind = "blank" \/ rest[c].indent >= ls[s.decl].indent
  BY DEF Reshaped
<1>5. /\ c \in 1 .. Len(rest) /\ rest[c].kind # "blank" /\ Len(rest) \in Nat
      /\ \A k \in 1 .. Len(rest) : rest[k].indent \in Nat
  BY <1>4, LineOK DEF Decls
<1>6. /\ e \in c + 1 .. Len(rest) + 1
      /\ \A j \in c + 1 .. e - 1 :
           rest[j].kind = "blank" \/ rest[j].indent > rest[c].indent
  BY <1>4, <1>5, BodyEndFacts DEF EndsAt
<1> HIDE DEF e
<1> SUFFICES ASSUME b < e PROVE FALSE
  BY <1>1, <1>5, <1>6 DEF e
<1>7. s.end \in 1 .. Len(ls) /\ Kept(s, s.end) /\ Moved(s, n, s.end) = b
  <2>1. b <= Len(rest)
    BY <1>1, <1>5, <1>6
  <2>2. s.end <= Len(ls)
    BY <1>1, <1>4, <2>1
  <2>3. s.end - (s.end - s.start) + n = b /\ ~(s.end < s.start)
    BY <1>1
  <2> QED BY <1>1, <2>2, <2>3 DEF Kept, Moved
<1>8. rest[b] = ls[s.end] /\ b \in 1 .. Len(rest)
  BY <1>4, <1>7
<1>9. b \in c + 1 .. e - 1
  BY <1>1, <1>5, <1>6
<1>10. rest[b].indent > rest[c].indent
  BY <1>3, <1>6, <1>7, <1>8, <1>9
<1> HIDE DEF b
<1> QED BY <1>2, <1>3, <1>4, <1>5, <1>7, <1>8, <1>10

LEMMA ClassesKept ==
  ASSUME NEW ls \in Seq(Line), Aligned(ls), NEW s \in Parse(ls), NEW n \in Nat,
         NEW rest, Reshaped(ls, s, n, rest), NEW i \in Decls(ls), Kept(s, i)
  PROVE  /\ \A c \in Classes(ls, i) : Kept(s, c) /\ c \in Decls(ls)
         /\ Classes(rest, Moved(s, n, i)) =
              {Moved(s, n, c) : c \in Classes(ls, i)}
<1> DEFINE g == Moved(s, n, i)
<1>1. /\ s.start \in Nat \ {0} /\ s.end \in Nat \ {0} /\ s.start <= s.decl
      /\ s.decl \in 1 .. Len(ls) /\ s.decl < s.end /\ s.end <= Len(ls) + 1
      /\ Len(ls) \in Nat /\ DOMAIN ls = 1 .. Len(ls)
  BY SymbolFacts, LineOK
<1>2. /\ rest \in Seq(Line)
      /\ \A k \in 1 .. Len(ls) : Kept(s, k) => rest[Moved(s, n, k)] = ls[k]
      /\ \A k \in Decls(ls) : Kept(s, k) => Moved(s, n, k) \in Decls(rest)
      /\ \A j \in Decls(rest) :
           \/ j \in s.start .. s.start + n - 1
           \/ \E k \in Decls(ls) : Kept(s, k) /\ j = Moved(s, n, k)
  <2>1. /\ rest \in Seq(Line)
        /\ \A k \in 1 .. Len(ls) : Kept(s, k) => rest[Moved(s, n, k)] = ls[k]
    BY DEF Reshaped
  <2> QED BY <2>1, DeclsKept
<1>3. g \in Decls(rest) /\ \A k \in Decls(ls) : k \in 1 .. Len(ls)
  BY <1>1, <1>2 DEF Decls
<1>4. /\ Classes(ls, i) =
           {c \in Decls(ls) : /\ ls[c].kind = "class" /\ ls[i].kind = "def"
                              /\ c < i /\ i < BodyEnd(ls, c)}
      /\ Classes(rest, g) =
           {c \in Decls(rest) : /\ rest[c].kind = "class" /\ rest[g].kind = "def"
                                /\ c < g /\ g < BodyEnd(rest, c)}
  <2> HIDE DEF g
  <2> QED BY <1>2, <1>3, ClassesFacts
<1>5. i < s.start \/ s.end <= i
  BY DEF Kept
<1>6. g = IF i < s.start THEN i ELSE i - (s.end - s.start) + n
  BY DEF Moved
<1> HIDE DEF g
<1>7. ASSUME NEW c \in Classes(ls, i) PROVE Kept(s, c)
  <2>1. c \in Decls(ls) /\ c < i /\ i < BodyEnd(ls, c) /\ c \in 1 .. Len(ls)
    BY <1>3, <1>4
  <2>2. i \in 1 .. Len(ls) /\ (i < s.start \/ s.end <= i)
    BY <1>3, <1>5
  <2> SUFFICES ASSUME s.start <= c, c < s.end PROVE FALSE
    BY <1>1, <2>1 DEF Kept
  <2>3. s.end <= i
    BY <1>1, <2>1, <2>2
  <2> DEFINE t == Symbol(ls, c)
  <2>4. t \in Parse(ls) /\ t.decl = c /\ t.end = BodyEnd(ls, c)
    BY <2>1 DEF Parse, Symbol
  <2>5. t.end <= s.end
    <3> HIDE DEF t
    <3> QED BY <2>4, PartOf DEF Within
  <2>6. BodyEnd(ls, c) \in Nat
    BY <2>1, <1>1, BodyEndFacts DEF EndsAt
  <2> QED BY <1>1, <2>1, <2>2, <2>3, <2>4, <2>5, <2>6
<1>8. ASSUME NEW c \in Decls(ls), Kept(s, c)
      PROVE  c \in Classes(ls, i) <=> Moved(s, n, c) \in Classes(rest, g)
  <2> DEFINE e == BodyEnd(ls, c)
             h == BodyEnd(rest, Moved(s, n, c))
  <2>1. c \in 1 .. Len(ls) /\ i \in 1 .. Len(ls) /\ Moved(s, n, c) \in Decls(rest)
    BY <1>2, <1>3, <1>8
  <2>2. rest[Moved(s, n, c)] = ls[c] /\ rest[g] = ls[i]
    BY <1>2, <1>8, <2>1 DEF g
  <2>3. c < i <=> Moved(s, n, c) < g
    BY <1>8, <2>1, MovedRises DEF g
  <2>4. /\ e <= s.start \/ s.end <= e
        /\ e \in c + 1 .. Len(ls) + 1
        /\ h = IF e <= s.start THEN e ELSE e - (s.end - s.start) + n
    BY <1>8, <2>1, EndKept
  <2> HIDE DEF e, h
  <2>5. i < e <=> g < h
    <3>1. e \in Nat /\ i \in Nat
      BY <1>1, <2>1, <2>4
    <3>2. CASE i < s.start /\ e <= s.start
      BY <1>6, <2>4, <3>2
    <3>3. CASE i < s.start /\ s.end <= e /\ ~(e <= s.start)
      <4>1. g = i /\ h = e - (s.end - s.start) + n
        BY <1>6, <2>4, <3>3
      <4>2. i < e /\ i < h
        BY <1>1, <3>1, <3>3, <4>1
      <4> QED BY <4>1, <4>2
    <3>4. CASE s.end <= i /\ e <= s.start
      <4>1. g = i - (s.end - s.start) + n /\ h = e
        BY <1>1, <1>6, <2>4, <3>1, <3>4
      <4>2. ~(i < e) /\ ~(g < h)
        BY <1>1, <3>1, <3>4, <4>1
      <4> QED BY <4>2
    <3>5. CASE s.end <= i /\ s.end <= e /\ ~(e <= s.start)
      BY <1>1, <1>6, <2>4, <3>1, <3>5
    <3> QED BY <1>5, <2>4, <3>2, <3>3, <3>4, <3>5
  <2> QED BY <1>4, <1>8, <2>1, <2>2, <2>3, <2>5 DEF e, h
<1>9. ASSUME NEW d \in Classes(rest, g)
      PROVE  \E c \in Classes(ls, i) : d = Moved(s, n, c)
  <2>1. d \in Decls(rest) /\ d < g /\ g < BodyEnd(rest, d)
    BY <1>4
  <2>2. d \notin s.start .. s.start + n - 1
    <3> SUFFICES ASSUME d \in s.start .. s.start + n - 1 PROVE FALSE
      OBVIOUS
    <3>1. BodyEnd(rest, d) <= s.start + n
      BY <2>1, EndsAmong
    <3>2. BodyEnd(rest, d) \in Nat
      BY <1>2, <2>1, LineOK, BodyEndFacts DEF Decls, EndsAt
    <3>3. i \in Nat /\ g < s.start + n /\ s.start <= g
      BY <1>1, <1>3, <1>5, <1>6, <2>1, <3>1, <3>2
    <3> QED BY <1>1, <1>5, <1>6, <3>3
  <2>3. PICK c \in Decls(ls) : Kept(s, c) /\ d = Moved(s, n, c)
    BY <1>2, <2>1, <2>2
  <2> QED BY <1>8, <2>3
<1>10. ASSUME NEW c \in Classes(ls, i)
      PROVE  c \in Decls(ls) /\ Moved(s, n, c) \in Classes(rest, g)
  BY <1>4, <1>7, <1>8
<1> QED BY <1>7, <1>9, <1>10 DEF g

LEMMA SymbolKept ==
  ASSUME NEW ls \in Seq(Line), Aligned(ls), NEW s \in Parse(ls), NEW n \in Nat,
         NEW rest, Reshaped(ls, s, n, rest), NEW i \in Decls(ls), Kept(s, i)
  PROVE  LET q == Symbol(rest, Moved(s, n, i))
             r == Symbol(ls, i)
         IN  /\ q \in Parse(rest)
             /\ q.kind = r.kind /\ q.path = r.path /\ q.name = r.name
<1> DEFINE g == Moved(s, n, i)
           old == Classes(ls, i)
           new == Classes(rest, g)
<1>1. /\ rest \in Seq(Line) /\ i \in 1 .. Len(ls)
      /\ \A k \in 1 .. Len(ls) : Kept(s, k) => rest[Moved(s, n, k)] = ls[k]
  BY LineOK DEF Decls, Reshaped
<1>2. g \in Decls(rest)
  BY DeclsKept
<1>3. /\ new = {Moved(s, n, c) : c \in old}
      /\ \A c \in old : Kept(s, c) /\ c \in Decls(ls)
  BY ClassesKept
<1>4. \A c \in old : c \in 1 .. Len(ls)
  BY <1>3, LineOK DEF Decls
<1>5. rest[g] = ls[i]
  BY <1>1
<1> HIDE DEF old, new, g
<1>6. old # {} => rest[Innermost(rest, new)].name = ls[Innermost(ls, old)].name
  <2> SUFFICES ASSUME old # {}
               PROVE  rest[Innermost(rest, new)].name = ls[Innermost(ls, old)].name
    OBVIOUS
  <2> DEFINE a == Innermost(ls, old)
             b == Innermost(rest, new)
  <2>1. a \in old /\ \A d \in old : d <= a
    BY InnermostFacts DEF old
  <2>2. b \in new /\ \A d \in new : d <= b
    <3>1. new # {}
      BY <1>3
    <3> QED BY <1>1, <1>2, <3>1, InnermostFacts DEF new
  <2> HIDE DEF a, b
  <2>3. PICK c \in old : b = Moved(s, n, c)
    BY <1>3, <2>2
  <2>4. Moved(s, n, a) \in new /\ a \in 1 .. Len(ls) /\ c \in 1 .. Len(ls)
        /\ Kept(s, a) /\ Kept(s, c)
    BY <1>3, <1>4, <2>1, <2>3
  <2>5. /\ Moved(s, n, a) \in Nat /\ Moved(s, n, c) \in Nat
        /\ c < a <=> Moved(s, n, c) < Moved(s, n, a)
    BY <2>4, MovedRises
  <2>6. a = c
    <3>1. c <= a /\ Moved(s, n, a) <= Moved(s, n, c)
      BY <2>1, <2>2, <2>3, <2>4
    <3> QED BY <2>4, <2>5, <3>1, LineOK
  <2> QED BY <1>1, <2>3, <2>4, <2>6 DEF a, b
<1>7. new = {} <=> old = {}
  BY <1>3
<1>8. /\ Symbol(rest, g).kind = Symbol(ls, i).kind
      /\ Symbol(rest, g).path = Symbol(ls, i).path
      /\ Symbol(rest, g).name = Symbol(ls, i).name
  BY <1>5, <1>6, <1>7 DEF Symbol, old, new
<1>9. Symbol(rest, g) \in Parse(rest)
  BY <1>2 DEF Parse
<1> QED BY <1>8, <1>9 DEF g

-----------------------------------------------------------------------------
\* Where the lines of ls are when new has replaced those from a to b.
Replaced(ls, a, b, new, cut) ==
  /\ cut \in Seq(Line)
  /\ \A i \in 1 .. Len(ls) :
       /\ i < a => i \in 1 .. Len(cut) /\ cut[i] = ls[i]
       /\ b <= i => LET j == i - (b - a) + Len(new)
                   IN  j \in 1 .. Len(cut) /\ cut[j] = ls[i]
  /\ b <= Len(ls) + 1 => Len(cut) = Len(ls) - (b - a) + Len(new)

LEMMA SplicedLines ==
  ASSUME NEW ls \in Seq(Line), NEW new \in Seq(Line),
         NEW a \in Nat \ {0}, NEW b \in Nat \ {0}, a <= b
  PROVE  Replaced(ls, a, b, new, Splice(ls, a, b, new))
<1> DEFINE cut == Splice(ls, a, b, new)
<1>1. cut \in Seq(Line)
  BY SpliceFacts
<1>2. \A i \in 1 .. Len(ls) :
        /\ i < a => i \in 1 .. Len(cut) /\ cut[i] = ls[i]
        /\ b <= i => LET j == i - (b - a) + Len(new)
                    IN  j \in 1 .. Len(cut) /\ cut[j] = ls[i]
  BY SpliceFacts
<1>3. b <= Len(ls) + 1 => Len(cut) = Len(ls) - (b - a) + Len(new)
  BY SpliceFacts
<1> HIDE DEF cut
<1>4. Replaced(ls, a, b, new, cut)
  BY <1>1, <1>2, <1>3 DEF Replaced
<1> QED BY <1>4 DEF cut

\* Taking s out.
LEMMA RemoveFacts ==
  ASSUME NEW ls \in Seq(Line), NEW s \in Parse(ls)
  PROVE  Reshaped(ls, s, 0, Remove(ls, s))
<1> DEFINE rest == Remove(ls, s)
           w == s.end - s.start
<1>1. /\ s.start \in Nat \ {0} /\ s.end \in Nat \ {0} /\ s.start <= s.end
      /\ s.end <= Len(ls) + 1 /\ <<>> \in Seq(Line) /\ Len(ls) \in Nat
  BY SymbolFacts, LineOK
<1>2. rest = Splice(ls, s.start, s.end, <<>>)
  BY DEF Remove
<1>3. Len(<<>>) = 0
  OBVIOUS
<1>4. Replaced(ls, s.start, s.end, <<>>, rest)
  BY <1>1, <1>2, SplicedLines
<1> HIDE DEF rest
<1>5. rest \in Seq(Line) /\ Len(rest) = Len(ls) - w + 0
  BY <1>1, <1>3, <1>4 DEF Replaced
<1>6. ASSUME NEW i \in 1 .. Len(ls), Kept(s, i)
      PROVE  Moved(s, 0, i) \in 1 .. Len(rest) /\ rest[Moved(s, 0, i)] = ls[i]
  <2>1. CASE i < s.start
    BY <1>4, <2>1 DEF Moved, Replaced
  <2>2. CASE s.end <= i
    <3>1. Moved(s, 0, i) = i - w + Len(<<>>)
      BY <1>1, <1>3, <2>2 DEF Moved
    <3> QED BY <1>4, <2>2, <3>1 DEF Replaced
  <2> QED BY <1>6, <2>1, <2>2 DEF Kept
<1>7. s.start .. s.start + 0 - 1 = {} /\ ~(0 > 0)
  BY <1>1
<1> QED BY <1>5, <1>6, <1>7 DEF rest, Reshaped

\* A text has finitely many symbols.
LEMMA FewSymbols ==
  ASSUME NEW ls \in Seq(Line), NEW found \in SUBSET Parse(ls)
  PROVE  IsFiniteSet(found)
<1>1. IsFiniteSet(Decls(ls))
  <2>1. Decls(ls) \in SUBSET (1 .. Len(ls))
    BY LineOK DEF Decls
  <2>2. IsFiniteSet(1 .. Len(ls))
    BY LineOK, FS_Interval
  <2> QED BY <2>1, <2>2, FS_Subset
<1>2. IsFiniteSet(Parse(ls))
  <2> DEFINE f == [i \in Decls(ls) |-> Symbol(ls, i)]
  <2>1. f \in Surjection(Decls(ls), Parse(ls))
    BY DEF Surjection, Parse
  <2> HIDE DEF f
  <2> QED BY <1>1, <2>1, FS_Surjection
<1> QED BY <1>2, FS_Subset

\* The last of some symbols is theirs, and no other.
LEMMA LastIs ==
  ASSUME NEW ls \in Seq(Line), NEW found \in SUBSET Parse(ls), NEW q \in found
  PROVE  (\A r \in found : r.decl <= q.decl) <=> LastOf(found) = q
<1>1. \A r \in found : r.decl \in Nat /\ r = Symbol(ls, r.decl)
  BY SymbolFacts
<1>2. LastOf(found) \in found /\ \A r \in found : r.decl <= LastOf(found).decl
  BY LastOfFacts
<1>3. ASSUME NEW s \in found, NEW r \in found, s.decl <= r.decl, r.decl <= s.decl
      PROVE  s = r
  BY <1>1, <1>3
<1> QED BY <1>2, <1>3

\* What is left of the symbols once s is taken out.
Left(ls, s, r) == Symbol(Remove(ls, s), Moved(s, 0, r.decl))

LEMMA LeftFacts ==
  ASSUME NEW ls \in Seq(Line), Aligned(ls), NEW s \in Parse(ls)
  PROVE  /\ \A r \in Parse(ls) : Kept(s, r.decl) =>
              LET q == Left(ls, s, r)
              IN  /\ q \in Parse(Remove(ls, s)) /\ q.decl = Moved(s, 0, r.decl)
                  /\ q.kind = r.kind /\ q.path = r.path /\ q.name = r.name
         /\ \A q \in Parse(Remove(ls, s)) :
              \E r \in Parse(ls) : Kept(s, r.decl) /\ q = Left(ls, s, r)
<1> DEFINE rest == Remove(ls, s)
<1>1. rest \in Seq(Line) /\ Reshaped(ls, s, 0, rest)
  BY CutType, RemoveFacts
<1> HIDE DEF rest
<1>2. ASSUME NEW r \in Parse(ls), Kept(s, r.decl)
      PROVE  LET q == Symbol(rest, Moved(s, 0, r.decl))
             IN  /\ q \in Parse(rest) /\ q.decl = Moved(s, 0, r.decl)
                 /\ q.kind = r.kind /\ q.path = r.path /\ q.name = r.name
  <2>1. r.decl \in Decls(ls) /\ r = Symbol(ls, r.decl)
    BY SymbolFacts
  <2>2. Symbol(rest, Moved(s, 0, r.decl)).decl = Moved(s, 0, r.decl)
    BY DEF Symbol
  <2> QED BY <1>1, <1>2, <2>1, <2>2, SymbolKept
<1>3. ASSUME NEW q \in Parse(rest)
      PROVE  \E r \in Parse(ls) :
               Kept(s, r.decl) /\ q = Symbol(rest, Moved(s, 0, r.decl))
  <2>1. q.decl \in Decls(rest) /\ q = Symbol(rest, q.decl)
    BY <1>1, SymbolFacts
  <2>2. PICK i \in Decls(ls) : Kept(s, i) /\ q.decl = Moved(s, 0, i)
    <3>1. s.start .. s.start + 0 - 1 = {}
      <4>1. s.start \in Nat
        BY SymbolFacts
      <4> QED BY <4>1
    <3> QED BY <1>1, <2>1, <3>1, DeclsKept
  <2> DEFINE r == Symbol(ls, i)
  <2>3. r \in Parse(ls) /\ r.decl = i
    BY DEF Parse, Symbol
  <2> HIDE DEF r
  <2> QED BY <2>1, <2>2, <2>3
<1> QED BY <1>2, <1>3 DEF Left, rest

\* Of several the last, if it is left, is the last of those that are left.
LEMMA LastLeft ==
  ASSUME NEW ls \in Seq(Line), Aligned(ls), NEW s \in Parse(ls),
         NEW was \in SUBSET Parse(ls), NEW now \in SUBSET Parse(Remove(ls, s)),
         \A q \in now : \E r \in was : Kept(s, r.decl) /\ q = Left(ls, s, r),
         NEW t \in was, t = LastOf(was), Kept(s, t.decl), Left(ls, s, t) \in now
  PROVE  LastOf(now) = Left(ls, s, t)
<1> DEFINE q == Left(ls, s, t)
<1>1. \A r \in was : r.decl <= t.decl
  BY LastIs
<1>2. \A r \in was : Kept(s, r.decl) =>
        /\ r.decl \in 1 .. Len(ls) /\ Moved(s, 0, r.decl) \in Nat
        /\ Left(ls, s, r).decl = Moved(s, 0, r.decl)
  <2> TAKE r \in was
  <2> HAVE Kept(s, r.decl)
  <2>1. r \in Parse(ls) /\ r.decl \in 1 .. Len(ls)
    BY SymbolFacts
  <2>2. Moved(s, 0, r.decl) \in Nat
    BY <2>1, MovedRises
  <2>3. Left(ls, s, r).decl = Moved(s, 0, r.decl)
    BY <2>1, LeftFacts
  <2> QED BY <2>1, <2>2, <2>3
<1>3. \A r \in was : Kept(s, r.decl) =>
        Moved(s, 0, r.decl) <= Moved(s, 0, t.decl)
  <2> TAKE r \in was
  <2> HAVE Kept(s, r.decl)
  <2>1. CASE r.decl = t.decl
    BY <1>2, <2>1
  <2>2. CASE r.decl < t.decl
    <3>1. Moved(s, 0, r.decl) < Moved(s, 0, t.decl)
      BY <1>2, <2>2, MovedRises
    <3> QED BY <1>2, <3>1
  <2> QED BY <1>1, <1>2, <2>1, <2>2, LineOK
<1>4. \A p \in now : p.decl <= q.decl
  BY <1>2, <1>3
<1> HIDE DEF q
<1>5. q \in now /\ Remove(ls, s) \in Seq(Line)
  BY CutType DEF q
<1>6. LastOf(now) = q
  BY <1>4, <1>5, LastIs
<1> QED BY <1>6 DEF q

\* An id that stands for a symbol outside s stands for what is left of it.
LEMMA StillThere ==
  ASSUME NEW ls \in Seq(Line), Aligned(ls), NEW s \in Parse(ls), NEW id,
         NEW t, t = Resolve(Parse(ls), id), t # NoSymbol, ~Within(t, s)
  PROVE  Kept(s, t.decl) /\ Resolve(Parse(Remove(ls, s)), id) = Left(ls, s, t)
<1> DEFINE found == Parse(ls)
           left == Parse(Remove(ls, s))
           q == Left(ls, s, t)
<1>1. t \in found /\ t.decl \in 1 .. Len(ls) /\ Len(ls) \in Nat
  BY ResolveFacts, SymbolFacts, LineOK
<1>2. Kept(s, t.decl)
  <2>1. s.start \in Nat /\ s.end \in Nat
    BY SymbolFacts
  <2> QED BY <1>1, <2>1, PartOf DEF Kept
<1>3. q \in left /\ q.kind = t.kind /\ q.path = t.path /\ q.name = t.name
  BY <1>1, <1>2, LeftFacts
<1>4. \A p \in left : \E r \in found :
        /\ Kept(s, r.decl) /\ p = Left(ls, s, r)
        /\ p.kind = r.kind /\ p.path = r.path /\ p.name = r.name
  BY LeftFacts
<1> HIDE DEF q, found, left
<1>5. CASE id.kind # NoName
  <2> DEFINE was == {r \in found : r.kind = id.kind /\ id.path = <<r.name>>}
             now == {r \in left : r.kind = id.kind /\ id.path = <<r.name>>}
  <2>1. t = LastOf(was) /\ Resolve(left, id) = LastOf(now)
    BY <1>5 DEF Resolve, found
  <2>2. was \in SUBSET found /\ now \in SUBSET left
    OBVIOUS
  <2>3. \A p \in now : \E r \in was : Kept(s, r.decl) /\ p = Left(ls, s, r)
    BY <1>4
  <2>4. t \in was => q \in now
    BY <1>3
  <2> HIDE DEF was, now
  <2>5. t \in was
    BY <2>1, <2>2, LastOfFacts DEF found
  <2> QED BY <1>2, <2>1, <2>2, <2>3, <2>4, <2>5, LastLeft DEF found, left, q
<1>6. CASE id.kind = NoName
  <2> DEFINE byPath == {r \in found : r.path = id.path}
             bare == {r \in found : <<r.name>> = id.path}
             byPathNow == {r \in left : r.path = id.path}
             bareNow == {r \in left : <<r.name>> = id.path}
  <2>1. /\ t = IF byPath # {} THEN LastOf(byPath)
               ELSE IF Cardinality(bare) = 1 THEN LastOf(bare) ELSE NoSymbol
        /\ Resolve(left, id) =
             IF byPathNow # {} THEN LastOf(byPathNow)
             ELSE IF Cardinality(bareNow) = 1 THEN LastOf(bareNow) ELSE NoSymbol
    BY <1>6 DEF Resolve, found
  <2>2. /\ byPath \in SUBSET found /\ bare \in SUBSET found
        /\ byPathNow \in SUBSET left /\ bareNow \in SUBSET left
    OBVIOUS
  <2>3. /\ \A p \in byPathNow :
             \E r \in byPath : Kept(s, r.decl) /\ p = Left(ls, s, r)
        /\ \A p \in bareNow :
             \E r \in bare : Kept(s, r.decl) /\ p = Left(ls, s, r)
    BY <1>4
  <2>4. (t \in byPath => q \in byPathNow) /\ (t \in bare => q \in bareNow)
    BY <1>3
  <2> HIDE DEF byPath, bare, byPathNow, bareNow
  <2>5. CASE byPath # {}
    <3>1. t = LastOf(byPath) /\ t \in byPath
      BY <2>1, <2>2, <2>5, LastOfFacts DEF found
    <3>2. LastOf(byPathNow) = q
      BY <1>2, <2>2, <2>3, <2>4, <3>1, LastLeft DEF found, left, q
    <3> QED BY <1>2, <2>1, <2>4, <3>1, <3>2 DEF left, q
  <2>6. CASE byPath = {}
    <3>1. byPathNow = {} /\ Cardinality(bare) = 1 /\ t = LastOf(bare)
      BY <2>1, <2>3, <2>6
    <3>2. PICK one : bare = {one}
      BY <2>2, <3>1, FewSymbols, FS_Singleton DEF found
    <3>3. bare = {t}
      BY <2>2, <3>1, <3>2, LastOfFacts DEF found
    <3>4. bareNow = {q}
      BY <2>3, <2>4, <3>3 DEF q
    <3>5. Cardinality(bareNow) = 1
      BY <3>4, FS_Singleton
    <3>6. t \in bare /\ q \in bareNow
      BY <3>3, <3>4
    <3>7. LastOf(bareNow) = q
      BY <1>2, <2>2, <2>3, <3>1, <3>6, LastLeft DEF found, left, q
    <3> QED BY <1>2, <2>1, <3>1, <3>5, <3>7 DEF left, q
  <2> QED BY <2>5, <2>6
<1> QED BY <1>5, <1>6

-----------------------------------------------------------------------------
\* Skipped operations.

Harmless ==
  skipped' # skipped /\ lines' # lines =>
    \/ /\ Op.op = "move_symbol"
       /\ Within(Of(Op.to), Of(Op.sym)) \/ ~Aligned(lines)
    \/ /\ Op.op = "move_block"
       /\ FindAnchor(lines', Scope(lines', symbols', Op.to), Op.after) = 0

LEMMA OpBegun ==
  ASSUME CodeInv, NEW op \in Edits, Begin(op)
  PROVE  Op = op
<1>1. TypeOK /\ edits' = Append(edits, op) /\ Len(edits) < MaxEdits
  BY DEF CodeInv, Begin
<1> QED BY <1>1, LedgerGrows DEF Op

LEMMA MoveSymbolHarmless ==
  ASSUME CodeInv, MoveSymbol
  PROVE  Harmless
<1> PICK op \in EditsOf("move_symbol") : MoveSymbol!(op)
  BY DEF MoveSymbol
<1> DEFINE s == Of(op.sym)
           rest == Remove(lines, s)
           t == Resolve(Parse(rest), op.to)
<1>1. op \in Edits /\ op.op = "move_symbol" /\ Begin(op)
  BY DEF EditsOf
<1>2. Op = op /\ Running
  BY <1>1, OpBegun DEF Begin
<1>3. /\ symbols = Parse(lines) /\ lines \in Seq(Line)
      /\ s \in Parse(lines) \cup {NoSymbol}
  BY <1>2, Fresh
<1> SUFFICES ASSUME skipped' # skipped, lines' # lines, Aligned(lines)
             PROVE  Within(Of(op.to), s)
  BY <1>1, <1>2 DEF Harmless
<1>4. ~Keep /\ ~Applied
  BY DEF Keep, Applied
<1>5. NoSymbol \notin {s, Of(op.to)} /\ t = NoSymbol
  BY <1>4
<1>6. s \in Parse(lines) /\ Of(op.to) = Resolve(Parse(lines), op.to)
      /\ Of(op.to) # NoSymbol
  BY <1>3, <1>5 DEF Of
<1> HIDE DEF s
<1>7. NoSymbol \notin Parse(rest)
  BY <1>3, <1>6, CutType, SymbolFacts
<1>8. ASSUME ~Within(Of(op.to), s) PROVE t \in Parse(rest)
  <2>1. Kept(s, Of(op.to).decl) /\ t = Left(lines, s, Of(op.to))
    BY <1>3, <1>6, <1>8, StillThere
  <2>2. Of(op.to) \in Parse(lines)
    BY <1>3, <1>6, ResolveFacts
  <2> QED BY <1>3, <1>6, <2>1, <2>2, LeftFacts
<1> QED BY <1>5, <1>7, <1>8

LEMMA MoveBlockHarmless ==
  ASSUME CodeInv, MoveBlock
  PROVE  Harmless
<1> PICK op \in EditsOf("move_block") : MoveBlock!(op)
  BY DEF MoveBlock
<1> DEFINE range == FindBlock(lines, Scope(lines, symbols, op.sym), op.find)
           rest  == Splice(lines, range[1], range[2] + 1, <<>>)
           at    == FindAnchor(rest, Scope(rest, Parse(rest), op.to), op.after)
<1>1. op \in Edits /\ op.op = "move_block" /\ Begin(op)
  BY DEF EditsOf
<1>2. Op = op
  BY <1>1, OpBegun
<1> SUFFICES ASSUME skipped' # skipped, lines' # lines
             PROVE  FindAnchor(lines', Scope(lines', symbols', op.to), op.after) = 0
  BY <1>1, <1>2 DEF Harmless
<1>3. ~Keep /\ ~Applied
  BY DEF Keep, Applied
<1>4. at = 0 /\ Put(rest)
  BY <1>3
<1> QED BY <1>4 DEF Put

\* No other operation both changes lines and is skipped.
LEMMA OthersHarmless ==
  ASSUME Assert \/ RenameSymbol \/ ReplaceSymbol \/ DeleteSymbol
           \/ ChangeSignature \/ AddDecorator \/ SwapSymbols \/ EditText
           \/ ReplaceBlock \/ InsertBlock \/ CopyBlock \/ InjectMarkers
           \/ AddImport \/ RemoveImport
           \/ Reject \/ Open \/ SkipRest \/ Finish \/ UNCHANGED vars
  PROVE  Harmless
<1> SUFFICES ASSUME skipped' # skipped, lines' # lines PROVE FALSE
  BY DEF Harmless
<1>1. ~Applied /\ ~Keep /\ ~UNCHANGED vars
  BY DEF Applied, Keep, vars
<1>2. ~RenameSymbol /\ ~ReplaceSymbol /\ ~DeleteSymbol /\ ~ChangeSignature
      /\ ~AddDecorator
  <2>1. \A op, ls : ~OnSymbol(op, ls)
    BY <1>1 DEF OnSymbol
  <2> QED BY <2>1 DEF RenameSymbol, ReplaceSymbol, DeleteSymbol,
                      ChangeSignature, AddDecorator
<1>3. ~SwapSymbols /\ ~EditText /\ ~ReplaceBlock /\ ~InsertBlock
  BY <1>1 DEF SwapSymbols, EditText, ReplaceBlock, InsertBlock
<1>4. ~CopyBlock /\ ~InjectMarkers /\ ~Assert
  BY <1>1 DEF CopyBlock, InjectMarkers, Assert
<1>5. ~AddImport /\ ~RemoveImport
  BY <1>1 DEF AddImport, RemoveImport
<1>6. ~Reject /\ ~Open /\ ~SkipRest /\ ~Finish
  BY DEF Reject, Open, SkipRest, Finish
<1> QED BY <1>1, <1>2, <1>3, <1>4, <1>5, <1>6

(***************************************************************************)
(* A skipped operation leaves the working copy as it was, but for a symbol *)
(* moved behind a part of itself and a block whose new place is not found  *)
(* once it is taken out: in every text that is Aligned the symbol to       *)
(* move behind is found again in what is left, although bodies now end at  *)
(* other lines and ids are resolved by the classes around them.            *)
(***************************************************************************)
THEOREM CodeSkipsHarmless == Spec => SkipsHarmless
<1>1. CodeInv /\ [Next]_vars => Harmless
  BY MoveSymbolHarmless, MoveBlockHarmless, OthersHarmless DEF Next, Edit
<1>2. CodeInv /\ [Next]_vars =>
        [ skipped' # skipped /\ lines' # lines =>
            \/ /\ Op.op = "move_symbol"
               /\ Within(Of(Op.to), Of(Op.sym)) \/ ~Aligned(lines)
            \/ /\ Op.op = "move_block"
               /\ FindAnchor(lines', Scope(lines', symbols', Op.to), Op.after) = 0
        ]_vars
  BY <1>1 DEF Harmless
<1> QED BY <1>2, CodeStart, CodeStep, PTL DEF Spec, SkipsHarmless

-----------------------------------------------------------------------------
\* The lines of the other symbols.

LEMMA PrefixIs ==
  ASSUME NEW ls \in Seq(Line), NEW i \in 1 .. Len(ls), NEW p \in 1 .. i,
         \A k \in p .. i - 1 : ls[k].kind = "deco",
         p = 1 \/ ls[p - 1].kind # "deco"
  PROVE  PrefixStart(ls, i) = p
<1> DEFINE q == PrefixStart(ls, i)
<1>1. /\ q \in 1 .. i /\ q <= p
      /\ \A k \in q .. i - 1 : ls[k].kind = "deco"
  BY PrefixFacts
<1> HIDE DEF q
<1> SUFFICES ASSUME q # p PROVE FALSE
  BY DEF q
<1>2. p - 1 \in q .. i - 1 /\ p # 1
  BY <1>1, LineOK
<1> QED BY <1>1, <1>2

LEMMA NoDecoAbove ==
  ASSUME NEW ls \in Seq(Line), NEW s \in Parse(ls)
  PROVE  s.start = 1 \/ ls[s.start - 1].kind # "deco"
<1>1. /\ s.decl \in 1 .. Len(ls) /\ s.start \in 1 .. s.decl
      /\ s.start = PrefixStart(ls, s.decl)
  BY SymbolFacts
<1> DEFINE q == s.start - 1
<1> SUFFICES ASSUME s.start # 1, ls[q].kind = "deco" PROVE FALSE
  OBVIOUS
<1>2. \A k \in s.start .. s.decl - 1 : ls[k].kind = "deco"
  BY <1>1, PrefixFacts
<1>3. q \in 1 .. s.decl /\ ~(s.start <= q)
  BY <1>1
<1>4. \A k \in q .. s.decl - 1 : k = q \/ k \in s.start .. s.decl - 1
  BY <1>1
<1>5. \A k \in q .. s.decl - 1 : ls[k].kind = "deco"
  BY <1>2, <1>4
<1> HIDE DEF q
<1> QED BY <1>1, <1>3, <1>5, PrefixFacts

IsSlice(ls, a, b, cut) ==
  /\ cut \in Seq(Line) /\ Len(cut) = b - a
  /\ \A k \in 1 .. b - a : cut[k] = ls[a - 1 + k]

LEMMA SliceFacts ==
  ASSUME NEW ls \in Seq(Line), NEW a \in Nat \ {0}, NEW b \in Nat \ {0},
         a <= b, b <= Len(ls) + 1
  PROVE  IsSlice(ls, a, b, Slice(ls, a, b))
<1> DEFINE head == Take(ls, b - 1)
           n == a - 1
<1>1. Len(ls) \in Nat /\ b - 1 \in Nat /\ n \in Nat
  BY LineOK
<1>2. Smaller(b - 1, Len(ls)) = b - 1
  BY <1>1 DEF Smaller
<1>3. /\ head \in Seq(Line) /\ Len(head) = b - 1
      /\ \A i \in 1 .. b - 1 : head[i] = ls[i]
  BY <1>1, <1>2, TakeFacts
<1> DEFINE cut == Drop(head, n)
<1>4. Slice(ls, a, b) = cut
  BY DEF Slice
<1>5. n = a - 1
  OBVIOUS
<1> HIDE DEF head, n
<1>6. /\ cut \in Seq(Line)
      /\ Len(cut) = IF n <= Len(head) THEN Len(head) - n ELSE 0
      /\ \A k \in 1 .. (Len(head) - n) : cut[k] = head[n + k]
  <2>1. cut \in Seq(Line)
    BY <1>1, <1>3, DropFacts
  <2>2. Len(cut) = IF n <= Len(head) THEN Len(head) - n ELSE 0
    BY <1>1, <1>3, DropFacts
  <2>3. ASSUME NEW k \in 1 .. (Len(head) - n) PROVE cut[k] = head[n + k]
    BY <1>1, <1>3, DropFacts
  <2> QED BY <2>1, <2>2, <2>3
<1> HIDE DEF cut
<1>7. Len(cut) = b - a
  BY <1>1, <1>3, <1>5, <1>6
<1>8. ASSUME NEW k \in 1 .. b - a PROVE cut[k] = ls[a - 1 + k]
  <2>1. k \in 1 .. (Len(head) - n) /\ n + k \in 1 .. b - 1
    BY <1>1, <1>3, <1>5
  <2> QED BY <1>3, <1>5, <1>6, <2>1
<1> QED BY <1>4, <1>6, <1>7, <1>8 DEF IsSlice

\* The n lines of m from c on are those of ls from a on.
SameLines(ls, a, m, c, n) == \A k \in 1 .. n : m[c - 1 + k] = ls[a - 1 + k]

LEMMA SameSlice ==
  ASSUME NEW ls, NEW a, NEW b, NEW x, IsSlice(ls, a, b, x),
         NEW m, NEW c, NEW d, NEW y, IsSlice(m, c, d, y),
         d - c = b - a, SameLines(ls, a, m, c, b - a)
  PROVE  y = x
<1>1. /\ x \in Seq(Line) /\ y \in Seq(Line) /\ Len(y) = Len(x)
      /\ Len(x) = b - a /\ \A k \in 1 .. b - a : y[k] = x[k]
  BY DEF IsSlice, SameLines
<1> QED BY <1>1, SeqEqual

\* A symbol's lines are a symbol wherever they stand, if no decorator is above
\* them and the line behind them ends it.
LEMMA Planted ==
  ASSUME NEW ls \in Seq(Line), NEW r \in Parse(ls), NEW m \in Seq(Line),
         NEW c \in Nat \ {0}, NEW z \in Nat, z = c + (r.end - r.start),
         z <= Len(m) + 1, SameLines(ls, r.start, m, c, r.end - r.start),
         c = 1 \/ m[c - 1].kind # "deco",
         z <= Len(m) => m[z].kind # "blank" /\ m[z].indent <= ls[r.decl].indent
  PROVE  LET q == Symbol(m, c + (r.decl - r.start))
         IN  q \in Parse(m) /\ Extract(m, q) = Extract(ls, r)
<1> DEFINE a == r.start
           d == r.decl
           b == r.end
           g == c + (d - a)
           q == Symbol(m, g)
<1>1. /\ a \in Nat \ {0} /\ d \in Nat \ {0} /\ b \in Nat \ {0}
      /\ a <= d /\ d < b /\ b <= Len(ls) + 1 /\ d \in 1 .. Len(ls)
      /\ Len(ls) \in Nat /\ Len(m) \in Nat
      /\ DOMAIN m = 1 .. Len(m)
      /\ ls[d].kind \in {"def", "class"}
  BY SymbolFacts, LineOK DEF Decls
<1>2. a = PrefixStart(ls, d) /\ b = BodyEnd(ls, d)
  BY SymbolFacts
<1>3. \A k \in a .. d - 1 : ls[k].kind = "deco"
  BY <1>1, <1>2, PrefixFacts
<1>4. EndsAt(ls, d, b)
  BY <1>1, <1>2, BodyEndFacts
<1>5. /\ \A k \in 1 .. b - a : m[c - 1 + k] = ls[a - 1 + k]
      /\ z = c + (b - a) /\ SameLines(ls, a, m, c, b - a)
      /\ z <= Len(m) => m[z].kind # "blank" /\ m[z].indent <= ls[d].indent
  BY DEF SameLines
<1>0. z = c + (b - a) /\ z \in Nat \ {0} /\ c <= z /\ z - c = b - a
  BY <1>1
<1> HIDE DEF a, b, d
<1>6. \A i \in a .. b - 1 :
        c + (i - a) \in 1 .. Len(m) /\ c + (i - a) < z /\ m[c + (i - a)] = ls[i]
  <2> TAKE i \in a .. b - 1
  <2>1. i - a + 1 \in 1 .. b - a
    BY <1>1
  <2>2. c - 1 + (i - a + 1) = c + (i - a) /\ a - 1 + (i - a + 1) = i
    BY <1>1
  <2>3. c + (i - a) \in 1 .. Len(m) /\ c + (i - a) < z
    BY <1>1, <1>5
  <2> QED BY <1>5, <2>1, <2>2, <2>3
<1>7. \A j \in c .. z - 1 : j = c + ((j - c + a) - a) /\ j - c + a \in a .. b - 1
  BY <1>1, <1>5
<1>8. g \in 1 .. Len(m) /\ c \in 1 .. g /\ g < z /\ m[g] = ls[d]
  <2>1. d \in a .. b - 1
    BY <1>1
  <2>2. g \in 1 .. Len(m) /\ g < z /\ m[g] = ls[d]
    BY <1>6, <2>1
  <2>3. c <= g
    BY <1>1
  <2> QED BY <1>1, <2>2, <2>3
<1>9. \A j \in c .. g - 1 : m[j].kind = "deco"
  <2> TAKE j \in c .. g - 1
  <2>1. j \in c .. z - 1 /\ j - c + a \in a .. d - 1
    BY <1>1, <1>8
  <2>2. m[j] = ls[j - c + a]
    BY <1>6, <1>7, <2>1
  <2> QED BY <1>3, <2>1, <2>2
<1>10. \A j \in g + 1 .. z - 1 : m[j].kind = "blank" \/ m[j].indent > m[g].indent
  <2> TAKE j \in g + 1 .. z - 1
  <2>1. j \in c .. z - 1 /\ j - c + a \in d + 1 .. b - 1
    <3>1. c <= g /\ g = c + (d - a) /\ g \in Nat
      BY <1>1, <1>8
    <3> HIDE DEF g
    <3>2. j \in Nat /\ g < j /\ j < z
      BY <1>0, <3>1
    <3>3. j - c + a > d /\ j - c + a < b
      BY <1>1, <1>0, <3>1, <3>2
    <3> QED BY <1>1, <1>0, <3>1, <3>2, <3>3
  <2>2. m[j] = ls[j - c + a]
    BY <1>6, <1>7, <2>1
  <2> QED BY <1>4, <1>8, <2>1, <2>2 DEF EndsAt
<1>11. EndsAt(m, g, z)
  <2>1. z \in g + 1 .. Len(m) + 1
    BY <1>1, <1>8
  <2> QED BY <1>5, <1>8, <1>10, <2>1 DEF EndsAt
<1>12. g \in Decls(m)
  BY <1>1, <1>8 DEF Decls
<1> HIDE DEF g
<1>13. BodyEnd(m, g) = z
  BY <1>8, <1>11, BodyEndFacts
<1>14. PrefixStart(m, g) = c
  BY <1>8, <1>9, PrefixIs
<1>15. q \in Parse(m) /\ q.start = c /\ q.end = z
  BY <1>12, <1>13, <1>14 DEF Parse, Symbol
<1> HIDE DEF q
<1>16. Slice(m, c, z) = Slice(ls, a, b)
  <2>1. a <= b /\ c <= z /\ z - c = b - a /\ z \in Nat \ {0}
    BY <1>1, <1>0
  <2>2. IsSlice(ls, a, b, Slice(ls, a, b))
    BY <1>1, <2>1, SliceFacts
  <2>3. IsSlice(m, c, z, Slice(m, c, z))
    BY <2>1, SliceFacts
  <2> QED BY <1>5, <2>1, <2>2, <2>3, SameSlice
<1> QED BY <1>15, <1>16 DEF Extract, a, b, d, g, q

\* Lines u to v, with d among them, before or behind a to b, which get n lines.
LEMMA ShiftedRange ==
  ASSUME NEW a \in Nat \ {0}, NEW b \in Nat \ {0}, a < b,
         NEW l \in Nat, b <= l + 1, NEW n \in Nat,
         NEW u \in Nat \ {0}, NEW d \in Nat \ {0}, NEW v \in Nat \ {0},
         u <= d, d < v, v <= l + 1, NEW p, NEW t,
         \/ v <= a /\ p = u /\ t = v
         \/ /\ b <= u /\ a < v
            /\ p = u - (b - a) + n /\ t = v - (b - a) + n
  PROVE  /\ p \in Nat \ {0} /\ t \in Nat \ {0} /\ t - p = v - u
         /\ t <= l - (b - a) + n + 1
         /\ p + (d - u) \in Int /\ p <= p + (d - u)
<1>1. CASE v <= a /\ p = u /\ t = v
  BY <1>1
<1>2. CASE b <= u /\ p = u - (b - a) + n /\ t = v - (b - a) + n
  BY <1>2
<1> QED BY <1>1, <1>2

\* A symbol apart from s keeps its path, its kind and its lines.
LEMMA BystanderKept ==
  ASSUME NEW ls \in Seq(Line), Aligned(ls), NEW s \in Parse(ls), NEW n \in Nat,
         NEW rest, Reshaped(ls, s, n, rest), NEW r \in Parse(ls), Apart(r, s)
  PROVE  LET q == Symbol(rest, Moved(s, n, r.decl))
         IN  /\ q \in Parse(rest) /\ q.path = r.path /\ q.kind = r.kind
             /\ Extract(rest, q) = Extract(ls, r)
<1> DEFINE g == Moved(s, n, r.decl)
           q == Symbol(rest, g)
           p == IF r.end <= s.start THEN r.start
                ELSE r.start - (s.end - s.start) + n
           t == IF r.end <= s.start THEN r.end
                ELSE r.end - (s.end - s.start) + n
<1>1. /\ s.start \in Nat \ {0} /\ s.end \in Nat \ {0} /\ s.start < s.end
      /\ s.end <= Len(ls) + 1 /\ Len(ls) \in Nat
  BY SymbolFacts, LineOK
<1>2. /\ r.start \in Nat \ {0} /\ r.decl \in Nat \ {0} /\ r.end \in Nat \ {0}
      /\ r.start <= r.decl /\ r.decl < r.end /\ r.end <= Len(ls) + 1
      /\ r.decl \in Decls(ls) /\ r.decl \in 1 .. Len(ls)
      /\ r = Symbol(ls, r.decl) /\ r.end = BodyEnd(ls, r.decl)
      /\ r.start = PrefixStart(ls, r.decl)
  BY SymbolFacts
<1>3. (r.end <= s.start /\ p = r.start /\ t = r.end)
        \/ (/\ s.end <= r.start /\ s.start < r.end
            /\ p = r.start - (s.end - s.start) + n
            /\ t = r.end - (s.end - s.start) + n)
  BY <1>1, <1>2 DEF Apart
<1> HIDE DEF p, t
<1>4. \A i \in r.start .. r.end - 1 :
        /\ i \in 1 .. Len(ls) /\ Kept(s, i)
        /\ Moved(s, n, i) = p + (i - r.start)
  BY <1>1, <1>2, <1>3 DEF Kept, Moved
<1>5. Kept(s, r.decl) /\ g = p + (r.decl - r.start)
  BY <1>2, <1>4
<1>6. /\ rest \in Seq(Line) /\ Len(rest) = Len(ls) - (s.end - s.start) + n
      /\ \A i \in 1 .. Len(ls) : Kept(s, i) =>
           Moved(s, n, i) \in 1 .. Len(rest) /\ rest[Moved(s, n, i)] = ls[i]
      /\ n > 0 => rest[s.start + n - 1].kind # "deco"
  BY DEF Reshaped
<1>7. q \in Parse(rest) /\ q.kind = r.kind /\ q.path = r.path
  BY <1>2, <1>5, SymbolKept
<1>8. /\ g \in 1 .. Len(rest) /\ q.start = PrefixStart(rest, g)
      /\ q.end = BodyEnd(rest, g)
  BY <1>2, <1>5, <1>6 DEF Symbol
<1>9. q.end = t
  BY <1>1, <1>2, <1>3, <1>5, <1>8, EndKept
<1> HIDE DEF g, q
<1>10. p \in 1 .. g /\ t - p = r.end - r.start /\ t \in Nat \ {0}
       /\ t <= Len(rest) + 1
  <2>1. /\ p \in Nat \ {0} /\ t \in Nat \ {0} /\ t - p = r.end - r.start
        /\ t <= Len(ls) - (s.end - s.start) + n + 1
        /\ p + (r.decl - r.start) \in Int /\ p <= p + (r.decl - r.start)
    <3> DEFINE a == s.start
               b == s.end
               u == r.start
               d == r.decl
               v == r.end
               l == Len(ls)
    <3>1. /\ a \in Nat \ {0} /\ b \in Nat \ {0} /\ a < b /\ l \in Nat /\ b <= l + 1
          /\ u \in Nat \ {0} /\ d \in Nat \ {0} /\ v \in Nat \ {0}
          /\ u <= d /\ d < v /\ v <= l + 1
      BY <1>1, <1>2
    <3>2. \/ v <= a /\ p = u /\ t = v
          \/ /\ b <= u /\ a < v
             /\ p = u - (b - a) + n /\ t = v - (b - a) + n
      BY <1>3
    <3> HIDE DEF a, b, u, d, v, l
    <3>3. /\ p \in Nat \ {0} /\ t \in Nat \ {0} /\ t - p = v - u
          /\ t <= l - (b - a) + n + 1
          /\ p + (d - u) \in Int /\ p <= p + (d - u)
      BY <3>1, <3>2, ShiftedRange
    <3> QED BY <3>3 DEF a, b, u, d, v, l
  <2>2. g \in Int /\ p <= g /\ t <= Len(rest) + 1
    BY <1>5, <1>6, <2>1
  <2> QED BY <2>1, <2>2
<1>11. \A k \in 1 .. r.end - r.start : rest[p - 1 + k] = ls[r.start - 1 + k]
  <2> TAKE k \in 1 .. r.end - r.start
  <2>1. r.start - 1 + k \in r.start .. r.end - 1
    BY <1>2
  <2>2. p + ((r.start - 1 + k) - r.start) = p - 1 + k
    BY <1>2, <1>10, LineOK
  <2> QED BY <1>4, <1>6, <2>1, <2>2
<1>12. p = 1 \/ rest[p - 1].kind # "deco"
  <2> SUFFICES ASSUME p # 1 PROVE rest[p - 1].kind # "deco"
    OBVIOUS
  <2>1. r.start = 1 \/ ls[r.start - 1].kind # "deco"
    BY NoDecoAbove
  <2>2. s.start = 1 \/ ls[s.start - 1].kind # "deco"
    BY NoDecoAbove
  <2>3. CASE r.start # s.end
    <3> DEFINE i == r.start - 1
    <3>1. r.start # 1
      BY <1>1, <1>2, <1>3
    <3>2. i \in 1 .. Len(ls)
      BY <1>1, <1>2, <3>1
    <3>3. (i < s.start /\ i = p - 1)
            \/ (~(i < s.start) /\ s.end <= i /\ i - (s.end - s.start) + n = p - 1)
      BY <1>1, <1>2, <1>3, <2>3
    <3> HIDE DEF i
    <3>4. Kept(s, i) /\ Moved(s, n, i) = p - 1
      BY <3>3 DEF Kept, Moved
    <3>5. rest[p - 1] = ls[i]
      BY <1>6, <3>2, <3>4
    <3> QED BY <2>1, <3>1, <3>5 DEF i
  <2>4. CASE r.start = s.end /\ n > 0
    <3>1. p - 1 = s.start + n - 1
      BY <1>1, <1>2, <1>3, <2>4
    <3> QED BY <1>6, <2>4, <3>1
  <2>5. CASE r.start = s.end /\ n = 0
    <3>1. p = s.start
      BY <1>1, <1>2, <1>3, <2>5
    <3>2. s.start - 1 \in 1 .. Len(ls) /\ Kept(s, s.start - 1)
          /\ Moved(s, n, s.start - 1) = p - 1
      BY <1>1, <3>1 DEF Kept, Moved
    <3> QED BY <1>6, <2>2, <3>1, <3>2
  <2> QED BY <2>3, <2>4, <2>5
<1>13. t <= Len(rest) => /\ rest[t].kind # "blank"
                         /\ rest[t].indent <= ls[r.decl].indent
  <2>1. EndsAt(rest, g, t)
    BY <1>6, <1>8, <1>9, BodyEndFacts
  <2>2. rest[g] = ls[r.decl]
    BY <1>2, <1>5, <1>6 DEF g
  <2> QED BY <2>1, <2>2 DEF EndsAt
<1>14. LET x == Symbol(rest, p + (r.decl - r.start))
       IN  x \in Parse(rest) /\ Extract(rest, x) = Extract(ls, r)
  <2>1. t = p + (r.end - r.start) /\ p \in Nat \ {0}
    <3>1. p \in Nat \ {0}
      BY <1>10
    <3> QED BY <1>2, <1>10, <3>1
  <2>2. SameLines(ls, r.start, rest, p, r.end - r.start)
    BY <1>11 DEF SameLines
  <2>3. rest \in Seq(Line) /\ t \in Nat /\ t <= Len(rest) + 1
    BY <1>6, <1>10
  <2> QED BY <1>12, <1>13, <2>1, <2>2, <2>3, Planted
<1>15. q = Symbol(rest, p + (r.decl - r.start))
  BY <1>5 DEF q
<1> QED BY <1>7, <1>14, <1>15 DEF q, g

-----------------------------------------------------------------------------
\* The operations on one symbol reshape it.

LEMMA LastIsNoDeco ==
  ASSUME NEW ls \in Seq(Line), Aligned(ls), NEW s \in Parse(ls)
  PROVE  ls[s.end - 1].kind # "deco"
<1> DEFINE k == s.end - 1
<1>1. /\ s.decl \in 1 .. Len(ls) /\ s.decl < s.end /\ s.end <= Len(ls) + 1
      /\ s.end \in Nat /\ Len(ls) \in Nat /\ DOMAIN ls = 1 .. Len(ls)
      /\ ls[s.decl].kind \in {"def", "class"}
      /\ ls[s.decl].indent \in Nat /\ \A i \in 1 .. Len(ls) : ls[i].indent \in Nat
  BY SymbolFacts, LineOK DEF Decls
<1>2. /\ \A i \in s.decl + 1 .. s.end - 1 :
           ls[i].kind = "blank" \/ ls[i].indent > ls[s.decl].indent
      /\ s.end <= Len(ls) => /\ ls[s.end].kind # "blank"
                             /\ ls[s.end].indent <= ls[s.decl].indent
  BY LinesOfSymbol
<1> SUFFICES ASSUME ls[k].kind = "deco" PROVE FALSE
  OBVIOUS
<1>3. k \in 1 .. Len(ls) /\ k + 1 = s.end /\ k # s.decl
  BY <1>1
<1>4. /\ k < Len(ls)
      /\ ls[k + 1].kind = "blank" \/ ls[k + 1].indent >= ls[k].indent
  BY <1>1, <1>3 DEF Aligned
<1>5. s.end \in 1 .. Len(ls) /\ k \in s.decl + 1 .. s.end - 1
  BY <1>1, <1>3, <1>4
<1>6. ls[k].indent > ls[s.decl].indent
  BY <1>2, <1>5
<1>7. ls[s.end].indent <= ls[s.decl].indent /\ ls[s.end].indent >= ls[k].indent
  BY <1>1, <1>2, <1>3, <1>4, <1>5
<1> HIDE DEF k
<1> QED BY <1>1, <1>3, <1>5, <1>6, <1>7

\* No line of new is indented less than d, and whether it can come first, last.
Deep(new, d)  == \A k \in 1 .. Len(new) : \/ new[k].kind = "blank"
                                          \/ new[k].indent >= d
Heads(new, d) == Len(new) > 0 /\ new[1].kind # "blank" /\ new[1].indent = d
Closes(new)   == Len(new) = 0 \/ new[Len(new)].kind # "deco"

\* How many lines a range has once a part of it has been replaced by m others,
\* and which is the last of them.
LEMMA RangeLength ==
  ASSUME NEW p \in Nat, NEW e \in Nat, NEW a \in Nat, NEW b \in Nat,
         NEW m \in Nat, p <= a, a <= b, b <= e
  PROVE  LET n == (e - p) - (b - a) + m
         IN  /\ n \in Nat /\ p + n = e - (b - a) + m
             /\ p + n - 1 = (e - 1) - (b - a) + m
             /\ b = e => p + n - 1 = a - 1 + m
OBVIOUS

LEMMA SpliceReshapes ==
  ASSUME NEW ls \in Seq(Line), Aligned(ls), NEW s \in Parse(ls),
         NEW a \in Nat \ {0}, NEW b \in Nat \ {0}, a <= b,
         s.start <= a, b <= s.end,
         NEW new \in Seq(Line), Deep(new, ls[s.decl].indent),
         a = s.start => Heads(new, ls[s.decl].indent),
         b = s.end => Closes(new),
         b = s.end /\ Len(new) = 0 => a = s.decl + 1
  PROVE  \E n \in Nat : Reshaped(ls, s, n, Splice(ls, a, b, new))
<1> DEFINE rest == Splice(ls, a, b, new)
           w == s.end - s.start
           m == Len(new)
           n == w - (b - a) + m
           d == ls[s.decl].indent
<1>1. /\ s.start \in Nat \ {0} /\ s.end \in Nat \ {0} /\ s.start <= s.decl
      /\ s.decl \in 1 .. Len(ls) /\ s.decl < s.end /\ s.end <= Len(ls) + 1
      /\ Len(ls) \in Nat /\ m \in Nat
  BY SymbolFacts, LineOK
<1>2. /\ \A k \in s.start .. s.decl :
           ls[k].kind # "blank" /\ ls[k].indent = d
      /\ \A k \in s.decl + 1 .. s.end - 1 :
           ls[k].kind = "blank" \/ ls[k].indent > d
  BY LinesOfSymbol
<1>3. d \in Nat /\ \A k \in 1 .. Len(ls) : ls[k].indent \in Nat
  BY <1>1, LineOK
<1>4. Replaced(ls, a, b, new, rest)
  BY SplicedLines
<1>5. \A k \in 1 .. m : rest[a - 1 + k] = new[k]
  <2>1. a <= Len(ls) + 1
    BY <1>1
  <2> TAKE k \in 1 .. Len(new)
  <2> QED BY <2>1, SpliceFacts
<1>6. /\ \A k \in 1 .. m : new[k].kind = "blank" \/ new[k].indent >= d
      /\ a = s.start => m > 0 /\ new[1].kind # "blank" /\ new[1].indent = d
      /\ b = s.end => m = 0 \/ new[m].kind # "deco"
  BY DEF Deep, Heads, Closes
<1> HIDE DEF rest
<1>7. /\ rest \in Seq(Line)
      /\ \A i \in 1 .. Len(ls) :
           /\ i < a => i \in 1 .. Len(rest) /\ rest[i] = ls[i]
           /\ b <= i => /\ i - (b - a) + m \in 1 .. Len(rest)
                        /\ rest[i - (b - a) + m] = ls[i]
  BY <1>4 DEF Replaced
<1>8. Len(rest) = Len(ls) - (b - a) + m
  BY <1>1, <1>4 DEF Replaced
<1> HIDE DEF m, d
<1>9. /\ n \in Nat /\ s.start + n = s.end - (b - a) + m
      /\ s.start + n - 1 = (s.end - 1) - (b - a) + m
      /\ b = s.end => s.start + n - 1 = a - 1 + m
  <2> DEFINE p == s.start
             e == s.end
  <2>1. /\ p \in Nat /\ e \in Nat /\ a \in Nat /\ b \in Nat
        /\ p <= a /\ b <= e
    BY <1>1
  <2>2. n = (e - p) - (b - a) + m
    OBVIOUS
  <2> HIDE DEF p, e, n
  <2>3. /\ n \in Nat /\ p + n = e - (b - a) + m
        /\ p + n - 1 = (e - 1) - (b - a) + m
        /\ b = e => p + n - 1 = a - 1 + m
    BY <1>1, <2>1, <2>2, RangeLength
  <2> QED BY <2>3 DEF p, e
<1>10. ASSUME NEW i \in 1 .. Len(ls), Kept(s, i)
       PROVE  Moved(s, n, i) \in 1 .. Len(rest) /\ rest[Moved(s, n, i)] = ls[i]
  <2>1. CASE i < s.start
    <3>1. Moved(s, n, i) = i /\ i < a
      BY <1>1, <2>1 DEF Moved
    <3> QED BY <1>7, <3>1
  <2>2. CASE s.end <= i
    <3>1. Moved(s, n, i) = i - (b - a) + m /\ b <= i
      BY <1>1, <2>2 DEF Moved
    <3> QED BY <1>7, <3>1
  <2> QED BY <1>10, <2>1, <2>2 DEF Kept
<1>11. Len(rest) = Len(ls) - (s.end - s.start) + n
  BY <1>1, <1>8
<1> HIDE DEF n
<1>12. ASSUME NEW k \in s.start .. s.start + n - 1
       PROVE  \/ k < a /\ k \in 1 .. Len(ls) /\ rest[k] = ls[k]
              \/ k - a + 1 \in 1 .. m /\ rest[k] = new[k - a + 1]
              \/ /\ k + (b - a) - m \in 1 .. Len(ls)
                 /\ k + (b - a) - m \in b .. s.end - 1
                 /\ rest[k] = ls[k + (b - a) - m]
  <2>1. CASE k < a
    <3>1. k \in 1 .. Len(ls)
      BY <1>1, <2>1
    <3> QED BY <1>7, <2>1, <3>1
  <2>2. CASE a <= k /\ k < a + m
    <3> DEFINE j == k - a + 1
    <3>1. j \in 1 .. m /\ a - 1 + j = k
      BY <1>1, <1>9, <2>2
    <3> HIDE DEF j
    <3>2. rest[k] = new[j]
      BY <1>5, <3>1
    <3> QED BY <3>1, <3>2 DEF j
  <2>3. CASE a + m <= k
    <3> DEFINE j == k + (b - a) - m
    <3>1. k \in Int /\ a \in Int /\ b \in Int /\ m \in Int /\ k < s.start + n
      BY <1>1, <1>9
    <3>2. k < s.end - (b - a) + m
      BY <1>9, <3>1
    <3>3. b <= j /\ j < s.end /\ j \in Int /\ j - (b - a) + m = k
      BY <1>1, <2>3, <3>1, <3>2
    <3> HIDE DEF j
    <3>4. j \in b .. s.end - 1 /\ j \in 1 .. Len(ls)
      BY <1>1, <3>3
    <3>5. rest[k] = ls[j]
      BY <1>7, <3>3, <3>4
    <3> QED BY <3>4, <3>5 DEF j
  <2> QED BY <1>1, <1>9, <2>1, <2>2, <2>3
<1>13. ASSUME NEW i \in s.start .. s.end - 1
       PROVE  ls[i].kind = "blank" \/ ls[i].indent >= d
  <2>1. i \in s.start .. s.decl \/ i \in s.decl + 1 .. s.end - 1
    BY <1>1
  <2>2. i \in 1 .. Len(ls)
    BY <1>1
  <2> QED BY <1>2, <1>3, <2>1, <2>2
<1>14. ASSUME NEW k \in s.start .. s.start + n - 1
       PROVE  rest[k].kind = "blank" \/ rest[k].indent >= d
  <2>1. CASE k < a /\ k \in 1 .. Len(ls) /\ rest[k] = ls[k]
    <3>1. k \in s.start .. s.end - 1
      BY <1>1, <1>9, <2>1
    <3> QED BY <1>13, <2>1, <3>1
  <2>2. CASE k - a + 1 \in 1 .. m /\ rest[k] = new[k - a + 1]
    BY <1>6, <2>2
  <2>3. CASE /\ k + (b - a) - m \in b .. s.end - 1
             /\ rest[k] = ls[k + (b - a) - m]
    <3> DEFINE j == k + (b - a) - m
    <3>1. j \in s.start .. s.end - 1
      <4>1. j \in b .. s.end - 1 /\ s.start <= b
        BY <1>1, <2>3
      <4> HIDE DEF j
      <4> QED BY <1>1, <4>1
    <3> HIDE DEF j
    <3>2. rest[k] = ls[j]
      BY <2>3 DEF j
    <3> QED BY <1>13, <3>1, <3>2
  <2> QED BY <1>12, <2>1, <2>2, <2>3
<1>15. ASSUME n > 0
       PROVE  rest[s.start].kind # "blank" /\ rest[s.start].indent = d
  <2>1. CASE a = s.start
    <3>1. 1 \in 1 .. m /\ a - 1 + 1 = s.start
      BY <1>1, <1>6, <2>1
    <3> QED BY <1>5, <1>6, <2>1, <3>1
  <2>2. CASE a # s.start
    <3>1. s.start < a /\ s.start \in 1 .. Len(ls) /\ s.start \in s.start .. s.decl
      BY <1>1, <2>2
    <3> QED BY <1>2, <1>7, <3>1
  <2> QED BY <2>1, <2>2
<1>16. ASSUME n > 0
       PROVE  rest[s.start + n - 1].kind # "deco"
  <2> DEFINE k == s.start + n - 1
  <2>1. CASE b < s.end
    <3>1. s.end - 1 \in 1 .. Len(ls) /\ b <= s.end - 1
          /\ (s.end - 1) - (b - a) + m = k
      <4>1. s.end - 1 \in 1 .. Len(ls) /\ b <= s.end - 1
        BY <1>1, <2>1
      <4>2. (s.end - 1) - (b - a) + m = k
        BY <1>9
      <4> QED BY <4>1, <4>2
    <3> HIDE DEF k
    <3>2. rest[k] = ls[s.end - 1]
      BY <1>7, <3>1
    <3> QED BY <3>2, LastIsNoDeco DEF k
  <2>2. CASE b = s.end /\ m > 0
    <3>1. m \in 1 .. m /\ a - 1 + m = k
      <4>1. a - 1 + m = k
        BY <1>9, <2>2
      <4> QED BY <1>1, <2>2, <4>1
    <3> HIDE DEF k
    <3>2. rest[k] = new[m]
      BY <1>5, <3>1
    <3> QED BY <1>6, <2>2, <3>2 DEF k
  <2>3. CASE b = s.end /\ m = 0
    <3>1. a = s.decl + 1
      BY <2>3 DEF m
    <3>2. k = s.decl /\ s.decl < a
      <4>1. k = a - 1 + m
        BY <1>9, <2>3
      <4> HIDE DEF k
      <4> QED BY <1>1, <2>3, <3>1, <4>1
    <3> HIDE DEF k
    <3>3. rest[k] = ls[s.decl]
      BY <1>1, <1>7, <3>2
    <3>4. ls[s.decl].kind # "deco"
      BY SymbolFacts DEF Decls
    <3> QED BY <3>3, <3>4 DEF k
  <2> QED BY <1>1, <2>1, <2>2, <2>3
<1>17. Reshaped(ls, s, n, rest)
  BY <1>7, <1>10, <1>14, <1>15, <1>16, <1>11 DEF Reshaped, d
<1> QED BY <1>9, <1>17 DEF rest

LEMMA RenameReshapes ==
  ASSUME NEW ls \in Seq(Line), Aligned(ls), NEW s \in Parse(ls), NEW new \in Name
  PROVE  \E n \in Nat : Reshaped(ls, s, n, [ls EXCEPT ![s.decl].name = new])
<1> DEFINE l == [ls[s.decl] EXCEPT !.name = new]
           rest == [ls EXCEPT ![s.decl].name = new]
           n == s.end - s.start
<1>1. /\ s.start \in Nat \ {0} /\ s.end \in Nat \ {0} /\ s.start <= s.decl
      /\ s.decl \in 1 .. Len(ls) /\ s.decl < s.end /\ s.end <= Len(ls) + 1
      /\ Len(ls) \in Nat /\ DOMAIN ls = 1 .. Len(ls)
  BY SymbolFacts, LineOK
<1>2. /\ \A k \in s.start .. s.decl :
           ls[k].kind # "blank" /\ ls[k].indent = ls[s.decl].indent
      /\ \A k \in s.decl + 1 .. s.end - 1 :
           ls[k].kind = "blank" \/ ls[k].indent > ls[s.decl].indent
  BY LinesOfSymbol
<1>3. \A k \in 1 .. Len(ls) : ls[k].indent \in Nat /\ ls[k] \in Line
  BY <1>1, LineOK
<1>4. l \in Line /\ l.kind = ls[s.decl].kind /\ l.indent = ls[s.decl].indent
  <2>1. \A r \in Line : LET q == [r EXCEPT !.name = new]
                        IN  q \in Line /\ q.kind = r.kind /\ q.indent = r.indent
    BY DEF Line
  <2> QED BY <1>1, <1>3, <2>1
<1>5. rest = [ls EXCEPT ![s.decl] = l]
  OBVIOUS
<1> HIDE DEF l, rest
<1>6. rest \in Seq(Line) /\ Len(rest) = Len(ls)
  BY <1>1, <1>4, <1>5, ExceptSeq
<1>7. /\ \A k \in 1 .. Len(ls) : k # s.decl => rest[k] = ls[k]
      /\ rest[s.decl] = l
  BY <1>1, <1>5
<1>8. ASSUME NEW k \in 1 .. Len(ls)
      PROVE  rest[k].kind = ls[k].kind /\ rest[k].indent = ls[k].indent
  BY <1>4, <1>7
<1>9. ASSUME NEW i \in 1 .. Len(ls), Kept(s, i)
      PROVE  Moved(s, n, i) \in 1 .. Len(rest) /\ rest[Moved(s, n, i)] = ls[i]
  <2>1. Moved(s, n, i) = i /\ i # s.decl
    BY <1>1, <1>9 DEF Kept, Moved
  <2> QED BY <1>6, <1>7, <2>1
<1>10. n \in Nat /\ n > 0 /\ s.start + n - 1 = s.end - 1
       /\ Len(rest) = Len(ls) - (s.end - s.start) + n
  <2>1. n \in Nat /\ n > 0 /\ s.start + n - 1 = s.end - 1
    BY <1>1
  <2>2. Len(ls) - (s.end - s.start) + (s.end - s.start) = Len(ls)
    BY <1>1
  <2> QED BY <1>6, <2>1, <2>2
<1> HIDE DEF n
<1> DEFINE d == ls[s.decl].indent
<1>11. ASSUME NEW k \in s.start .. s.end - 1
       PROVE  rest[k].kind = "blank" \/ rest[k].indent >= d
  <2>1. k \in s.start .. s.decl \/ k \in s.decl + 1 .. s.end - 1
    BY <1>1
  <2>2. k \in 1 .. Len(ls)
    BY <1>1
  <2>3. d \in Nat /\ ls[k].indent \in Nat
    BY <1>1, <1>3, <2>2
  <2>4. ls[k].kind = "blank" \/ ls[k].indent = d \/ ls[k].indent > d
    BY <1>2, <2>1
  <2> HIDE DEF d
  <2>5. ls[k].kind = "blank" \/ ls[k].indent >= d
    BY <2>3, <2>4
  <2> QED BY <1>8, <2>2, <2>5
<1>12. rest[s.start].kind # "blank" /\ rest[s.start].indent = ls[s.decl].indent
  <2>1. s.start \in s.start .. s.decl /\ s.start \in 1 .. Len(ls)
    BY <1>1
  <2> QED BY <1>2, <1>8, <2>1
<1>13. rest[s.end - 1].kind # "deco"
  <2>1. s.end - 1 \in 1 .. Len(ls)
    BY <1>1
  <2> QED BY <1>8, <2>1, LastIsNoDeco
<1>14. Reshaped(ls, s, n, rest)
  BY <1>6, <1>9, <1>10, <1>11, <1>12, <1>13 DEF Reshaped
<1> QED BY <1>10, <1>14 DEF rest

-----------------------------------------------------------------------------
\* Operations on one symbol.

OneReshaped ==
  applied' # applied /\ Op.op \in OnOne /\ Aligned(lines)
    /\ Fitting(Op, Of(Op.sym)) =>
      /\ lines \in Seq(Line) /\ symbols = Parse(lines) /\ symbols' = Parse(lines')
      /\ Of(Op.sym) \in Parse(lines)
      /\ \E n \in Nat : Reshaped(lines, Of(Op.sym), n, lines')

LEMMA OnSymbolReshapes ==
  ASSUME CodeInv, NEW op \in Edits, NEW ls, OnSymbol(op, ls),
         ASSUME lines \in Seq(Line), Of(op.sym) \in Parse(lines),
                Aligned(lines), Fitting(op, Of(op.sym))
         PROVE  \E n \in Nat : Reshaped(lines, Of(op.sym), n, ls)
  PROVE  OneReshaped
<1>1. Op = op /\ Running
  BY OpBegun DEF OnSymbol, Begin
<1>2. /\ symbols = Parse(lines) /\ lines \in Seq(Line)
      /\ Of(op.sym) \in Parse(lines) \cup {NoSymbol}
  BY <1>1, Fresh
<1> SUFFICES ASSUME applied' # applied, Aligned(lines), Fitting(op, Of(op.sym))
             PROVE  /\ symbols' = Parse(lines') /\ Of(op.sym) \in Parse(lines)
                    /\ \E n \in Nat : Reshaped(lines, Of(op.sym), n, lines')
  BY <1>1, <1>2 DEF OneReshaped
<1>3. ~Failed
  BY DEF Failed
<1>4. Of(op.sym) # NoSymbol /\ Put(ls)
  BY <1>3 DEF OnSymbol
<1>5. lines' = ls /\ symbols' = Parse(ls)
  BY <1>4 DEF Put
<1> QED BY <1>2, <1>4, <1>5

LEMMA RenameSymbolReshapes ==
  ASSUME CodeInv, RenameSymbol
  PROVE  OneReshaped
<1> PICK op \in EditsOf("rename_symbol") : RenameSymbol!(op)
  BY DEF RenameSymbol
<1> DEFINE s == Of(op.sym)
           new == [lines EXCEPT ![s.decl].name = op.new]
<1>1. op \in Edits /\ op.new \in Name /\ OnSymbol(op, new)
  BY EditAssumption DEF EditsOf
<1>2. ASSUME lines \in Seq(Line), s \in Parse(lines), Aligned(lines)
      PROVE  \E n \in Nat : Reshaped(lines, s, n, new)
  <2> HIDE DEF s
  <2> QED BY <1>1, <1>2, RenameReshapes
<1> HIDE DEF new
<1> QED BY <1>1, <1>2, OnSymbolReshapes

LEMMA DeleteSymbolReshapes ==
  ASSUME CodeInv, DeleteSymbol
  PROVE  OneReshaped
<1> PICK op \in EditsOf("delete_symbol") : DeleteSymbol!(op)
  BY DEF DeleteSymbol
<1> DEFINE s == Of(op.sym)
           new == Remove(lines, s)
<1>1. op \in Edits /\ OnSymbol(op, new)
  BY DEF EditsOf
<1>2. ASSUME lines \in Seq(Line), s \in Parse(lines)
      PROVE  \E n \in Nat : Reshaped(lines, s, n, new)
  <2>1. Reshaped(lines, s, 0, new)
    BY <1>2, RemoveFacts
  <2> HIDE DEF s, new
  <2> QED BY <2>1
<1> HIDE DEF new
<1> QED BY <1>1, <1>2, OnSymbolReshapes

\* The new lines of the other three, as Fitting asks.
LEMMA FittingLines ==
  ASSUME NEW op, NEW s, Fitting(op, s), op.new \in Seq(Line),
         op.op \in {"replace_symbol", "change_signature", "add_decorator"}
  PROVE  LET d == lines[s.decl].indent
         IN  /\ Deep(op.new, d)
             /\ op.op # "replace_symbol" => Heads(op.new, d)
             /\ op.op # "add_decorator" => Closes(op.new)
<1>1. DOMAIN op.new = 1 .. Len(op.new) /\ Len(op.new) \in Nat
  BY LineOK
<1>2. (op.new = <<>> => Len(op.new) = 0) /\ (Len(op.new) = 0 => op.new = <<>>)
  BY EmptySeq
<1>3. Deep(op.new, lines[s.decl].indent)
  BY <1>1 DEF Fitting, Deep
<1>4. op.op # "replace_symbol" => Heads(op.new, lines[s.decl].indent)
  BY <1>1, <1>2 DEF Fitting, Heads
<1>5. op.op # "add_decorator" => Closes(op.new)
  BY <1>2 DEF Fitting, Closes
<1> QED BY <1>3, <1>4, <1>5

LEMMA ReplaceSymbolReshapes ==
  ASSUME CodeInv, ReplaceSymbol
  PROVE  OneReshaped
<1> PICK op \in EditsOf("replace_symbol") : ReplaceSymbol!(op)
  BY DEF ReplaceSymbol
<1> DEFINE s == Of(op.sym)
           new == Splice(lines, s.decl + 1, s.end, op.new)
<1>1. op \in Edits /\ op.op = "replace_symbol" /\ op.new \in Seq(Line)
      /\ OnSymbol(op, new)
  BY EditAssumption DEF EditsOf
<1>2. ASSUME lines \in Seq(Line), s \in Parse(lines), Aligned(lines),
             Fitting(op, s)
      PROVE  \E n \in Nat : Reshaped(lines, s, n, new)
  <2>1. Deep(op.new, lines[s.decl].indent) /\ Closes(op.new)
    BY <1>1, <1>2, FittingLines
  <2> DEFINE a == s.decl + 1
  <2>2. /\ a \in Nat \ {0} /\ s.end \in Nat \ {0} /\ a <= s.end
        /\ s.start < a
    BY <1>2, SymbolFacts
  <2>3. a = s.decl + 1 /\ a # s.start /\ s.start <= a /\ s.end <= s.end
    BY <1>2, <2>2, SymbolFacts
  <2> HIDE DEF s, a
  <2>4. \E n \in Nat : Reshaped(lines, s, n, Splice(lines, a, s.end, op.new))
    BY <1>1, <1>2, <2>1, <2>2, <2>3, SpliceReshapes
  <2> QED BY <2>3, <2>4
<1> HIDE DEF new
<1> QED BY <1>1, <1>2, OnSymbolReshapes

LEMMA ChangeSignatureReshapes ==
  ASSUME CodeInv, ChangeSignature
  PROVE  OneReshaped
<1> PICK op \in EditsOf("change_signature") : ChangeSignature!(op)
  BY DEF ChangeSignature
<1> DEFINE s == Of(op.sym)
           new == Splice(lines, s.decl, s.decl + 1, op.new)
<1>1. op \in Edits /\ op.op = "change_signature" /\ op.new \in Seq(Line)
      /\ OnSymbol(op, new)
  BY EditAssumption DEF EditsOf
<1>2. ASSUME lines \in Seq(Line), s \in Parse(lines), Aligned(lines),
             Fitting(op, s)
      PROVE  \E n \in Nat : Reshaped(lines, s, n, new)
  <2>1. /\ Deep(op.new, lines[s.decl].indent) /\ Closes(op.new)
        /\ Heads(op.new, lines[s.decl].indent)
    BY <1>1, <1>2, FittingLines
  <2> DEFINE a == s.decl
             b == s.decl + 1
  <2>2. /\ a \in Nat \ {0} /\ b \in Nat \ {0} /\ a <= b /\ s.start <= a
        /\ b <= s.end
    BY <1>2, SymbolFacts
  <2>3. Len(op.new) # 0
    BY <1>1, <2>1, LineOK DEF Heads
  <2> HIDE DEF s, a, b
  <2>4. \E n \in Nat : Reshaped(lines, s, n, Splice(lines, a, b, op.new))
    BY <1>1, <1>2, <2>1, <2>2, <2>3, SpliceReshapes
  <2> QED BY <2>4 DEF a, b
<1> HIDE DEF new
<1> QED BY <1>1, <1>2, OnSymbolReshapes

LEMMA AddDecoratorReshapes ==
  ASSUME CodeInv, AddDecorator
  PROVE  OneReshaped
<1> PICK op \in EditsOf("add_decorator") : AddDecorator!(op)
  BY DEF AddDecorator
<1> DEFINE s == Of(op.sym)
           new == Splice(lines, s.start, s.start, op.new)
<1>1. op \in Edits /\ op.op = "add_decorator" /\ op.new \in Seq(Line)
      /\ OnSymbol(op, new)
  BY EditAssumption DEF EditsOf
<1>2. ASSUME lines \in Seq(Line), s \in Parse(lines), Aligned(lines),
             Fitting(op, s)
      PROVE  \E n \in Nat : Reshaped(lines, s, n, new)
  <2>1. /\ Deep(op.new, lines[s.decl].indent)
        /\ Heads(op.new, lines[s.decl].indent)
    BY <1>1, <1>2, FittingLines
  <2> DEFINE a == s.start
  <2>2. a \in Nat \ {0} /\ a <= a /\ s.start <= a /\ a <= s.end /\ a # s.end
    BY <1>2, SymbolFacts
  <2> HIDE DEF s, a
  <2>3. \E n \in Nat : Reshaped(lines, s, n, Splice(lines, a, a, op.new))
    BY <1>1, <1>2, <2>1, <2>2, SpliceReshapes
  <2> QED BY <2>3 DEF a
<1> HIDE DEF new
<1> QED BY <1>1, <1>2, OnSymbolReshapes

\* The tag of the operation begun, and the steps that begin none.
LEMMA Tagged ==
  ASSUME CodeInv, NEW t, \E op \in EditsOf(t) : Begin(op)
  PROVE  Op.op = t
BY OpBegun DEF EditsOf

LEMMA Tags ==
  ASSUME CodeInv
  PROVE  /\ Assert => Op.op = "assert"
         /\ MoveSymbol => Op.op = "move_symbol"
         /\ SwapSymbols => Op.op = "swap_symbols"
         /\ EditText => Op.op = "edit_text"
         /\ ReplaceBlock => Op.op = "replace_block"
         /\ InsertBlock => Op.op = "insert_block"
         /\ MoveBlock => Op.op = "move_block"
         /\ CopyBlock => Op.op = "copy_block"
         /\ InjectMarkers => Op.op = "inject_markers"
         /\ AddImport => Op.op = "add_import"
         /\ RemoveImport => Op.op = "remove_import"
         /\ RenameSymbol => Op.op = "rename_symbol"
         /\ ReplaceSymbol => Op.op = "replace_symbol"
         /\ DeleteSymbol => Op.op = "delete_symbol"
         /\ ChangeSignature => Op.op = "change_signature"
         /\ AddDecorator => Op.op = "add_decorator"
<1>1. Assert => Op.op = "assert"
  BY Tagged DEF Assert
<1>2. MoveSymbol => Op.op = "move_symbol"
  BY Tagged DEF MoveSymbol
<1>3. SwapSymbols => Op.op = "swap_symbols"
  BY Tagged DEF SwapSymbols
<1>4. EditText => Op.op = "edit_text"
  BY Tagged DEF EditText
<1>5. ReplaceBlock => Op.op = "replace_block"
  BY Tagged DEF ReplaceBlock
<1>6. InsertBlock => Op.op = "insert_block"
  BY Tagged DEF InsertBlock
<1>7. MoveBlock => Op.op = "move_block"
  BY Tagged DEF MoveBlock
<1>8. CopyBlock => Op.op = "copy_block"
  BY Tagged DEF CopyBlock
<1>9. InjectMarkers => Op.op = "inject_markers"
  BY Tagged DEF InjectMarkers
<1>10. AddImport => Op.op = "add_import"
  BY Tagged DEF AddImport
<1>11. RemoveImport => Op.op = "remove_import"
  BY Tagged DEF RemoveImport
<1>12. RenameSymbol => Op.op = "rename_symbol"
  BY Tagged DEF RenameSymbol, OnSymbol
<1>13. ReplaceSymbol => Op.op = "replace_symbol"
  BY Tagged DEF ReplaceSymbol, OnSymbol
<1>14. DeleteSymbol => Op.op = "delete_symbol"
  BY Tagged DEF DeleteSymbol, OnSymbol
<1>15. ChangeSignature => Op.op = "change_signature"
  BY Tagged DEF ChangeSignature, OnSymbol
<1>16. AddDecorator => Op.op = "add_decorator"
  BY Tagged DEF AddDecorator, OnSymbol
<1> QED BY <1>1, <1>2, <1>3, <1>4, <1>5, <1>6, <1>7, <1>8,
           <1>9, <1>10, <1>11, <1>12, <1>13, <1>14, <1>15, <1>16

LEMMA OthersTagged ==
  ASSUME CodeInv,
         Assert \/ MoveSymbol \/ SwapSymbols \/ EditText \/ ReplaceBlock
           \/ InsertBlock \/ MoveBlock \/ CopyBlock \/ InjectMarkers
           \/ AddImport \/ RemoveImport
  PROVE  Op.op \notin OnOne
BY Tags DEF OnOne

LEMMA FramesApplyNone ==
  ASSUME Reject \/ Open \/ SkipRest \/ Finish \/ UNCHANGED vars
  PROVE  applied' = applied
BY DEF Reject, Open, SkipRest, Finish, vars

LEMMA StepReshapes == CodeInv /\ [Next]_vars => OneReshaped
<1>1. CodeInv /\ (Assert \/ MoveSymbol \/ SwapSymbols \/ EditText
        \/ ReplaceBlock \/ InsertBlock \/ MoveBlock \/ CopyBlock
        \/ InjectMarkers \/ AddImport \/ RemoveImport) => OneReshaped
  BY OthersTagged DEF OneReshaped
<1>2. Reject \/ Open \/ SkipRest \/ Finish \/ UNCHANGED vars => OneReshaped
  BY FramesApplyNone DEF OneReshaped
<1> QED BY <1>1, <1>2, RenameSymbolReshapes, DeleteSymbolReshapes,
           ReplaceSymbolReshapes, ChangeSignatureReshapes, AddDecoratorReshapes
        DEF Next, Edit

(***************************************************************************)
(* An operation on a symbol keeps the symbols apart from it, with their    *)
(* paths, kinds and lines, in every text that is Aligned, for all new lines*)
(* that belong where they are put: taking a symbol out, renaming it or     *)
(* writing over a part of it makes no other body longer or shorter and     *)
(* puts no function in another class.                                      *)
(***************************************************************************)
THEOREM CodeBystandersKept == Spec => BystandersKept
<1>1. ASSUME CodeInv, [Next]_vars, applied' # applied, Op.op \in OnOne,
             Aligned(lines), Fitting(Op, Of(Op.sym)),
             NEW r \in symbols, Apart(r, Of(Op.sym))
      PROVE  \E q \in symbols' : /\ q.path = r.path /\ q.kind = r.kind
                                 /\ Extract(lines', q) = Extract(lines, r)
  <2> DEFINE s == Of(Op.sym)
  <2>1. /\ lines \in Seq(Line) /\ symbols = Parse(lines)
        /\ symbols' = Parse(lines') /\ s \in Parse(lines)
        /\ \E n \in Nat : Reshaped(lines, s, n, lines')
    BY <1>1, StepReshapes DEF OneReshaped
  <2> HIDE DEF s
  <2>2. PICK n \in Nat : Reshaped(lines, s, n, lines')
    BY <2>1
  <2> DEFINE q == Symbol(lines', Moved(s, n, r.decl))
  <2>3. /\ q \in Parse(lines') /\ q.path = r.path /\ q.kind = r.kind
        /\ Extract(lines', q) = Extract(lines, r)
    BY <1>1, <2>1, <2>2, BystanderKept DEF s
  <2> HIDE DEF q
  <2> QED BY <2>1, <2>3
<1>2. CodeInv /\ [Next]_vars =>
        [ applied' # applied /\ Op.op \in OnOne /\ Aligned(lines) =>
            LET s == Of(Op.sym) IN
            Fitting(Op, s) =>
              \A r \in symbols : Apart(r, s) =>
                \E q \in symbols' : /\ q.path = r.path /\ q.kind = r.kind
                                    /\ Extract(lines', q) = Extract(lines, r)
        ]_vars
  BY <1>1
<1> QED BY <1>2, CodeStart, CodeStep, PTL DEF Spec, BystandersKept

-----------------------------------------------------------------------------
\* The decorators of the symbols that stay when one is deleted.

LEMMA DecoratingFacts ==
  ASSUME NEW ls \in Seq(Line), NEW d \in 1 .. Len(ls), NEW j
  PROVE  j \in Decorating(ls, d) <=>
           /\ j \in 1 .. d - 1
           /\ ls[j].kind = "deco" /\ ls[j].indent = ls[d].indent
           /\ \A k \in j .. d - 1 :
                /\ ls[k].kind \in Plain
                /\ ls[k].kind = "blank" \/ ls[k].indent >= ls[d].indent
BY DEF Decorating

\* Where a symbol apart from s stands: above it, or at its end or below.
LEMMA AboveOrBelow ==
  ASSUME NEW ls \in Seq(Line), NEW s \in Parse(ls), NEW r \in Parse(ls),
         Apart(r, s)
  PROVE  /\ s.start \in Nat \ {0} /\ s.decl \in 1 .. Len(ls) /\ s.end \in Nat
         /\ s.start <= s.decl /\ s.decl < s.end /\ s.end <= Len(ls) + 1
         /\ r.decl \in 1 .. Len(ls) /\ Len(ls) \in Nat
         /\ r.decl < s.start \/ s.end <= r.decl
         /\ Kept(s, r.decl)
<1>1. /\ s.start \in Nat \ {0} /\ s.decl \in 1 .. Len(ls) /\ s.end \in Nat
      /\ s.start <= s.decl /\ s.decl < s.end /\ s.end <= Len(ls) + 1
  BY SymbolFacts
<1>2. /\ r.start \in Nat \ {0} /\ r.decl \in 1 .. Len(ls) /\ r.end \in Nat
      /\ r.start <= r.decl /\ r.decl < r.end
  BY SymbolFacts
<1>3. r.decl < s.start \/ s.end <= r.decl
  BY <1>1, <1>2, LineOK DEF Apart
<1> QED BY <1>1, <1>2, <1>3, LineOK DEF Kept

\* No decorator of another symbol is among the lines of s.
LEMMA DecoratorOutside ==
  ASSUME NEW ls \in Seq(Line), Aligned(ls), NEW s \in Parse(ls),
         NEW r \in Parse(ls), s.end <= r.decl, NEW j \in Decorating(ls, r.decl)
  PROVE  s.end <= j
<1> DEFINE d == r.decl
           c == s.decl
           e == s.end
<1>1. /\ c \in 1 .. Len(ls) /\ c < e /\ e \in Nat /\ e <= d
      /\ ls[c].kind \in {"def", "class"}
  BY SymbolFacts DEF Decls
<1>2. d \in 1 .. Len(ls) /\ Len(ls) \in Nat
      /\ \A i \in 1 .. Len(ls) : ls[i].indent \in Nat
  BY SymbolFacts, LineOK
<1>3. /\ j \in 1 .. d - 1
      /\ ls[j].kind = "deco" /\ ls[j].indent = ls[d].indent
      /\ \A k \in j .. d - 1 :
           /\ ls[k].kind \in Plain
           /\ ls[k].kind = "blank" \/ ls[k].indent >= ls[d].indent
  BY <1>2, DecoratingFacts
<1>4. /\ \A k \in c + 1 .. e - 1 :
           ls[k].kind = "blank" \/ ls[k].indent > ls[c].indent
      /\ e <= Len(ls) => ls[e].kind # "blank" /\ ls[e].indent <= ls[c].indent
  BY LinesOfSymbol
<1> HIDE DEF d, c, e
<1> SUFFICES ASSUME j < e PROVE FALSE
  BY <1>1, <1>2, <1>3 DEF e
<1>5. c < j
  <2> SUFFICES ASSUME j <= c PROVE FALSE
    BY <1>1, <1>2, <1>3
  <2>1. c \in j .. d - 1
    BY <1>1, <1>2, <1>3
  <2> QED BY <1>1, <1>3, <2>1 DEF Plain
<1>6. /\ j \in c + 1 .. e - 1 /\ j \in 1 .. Len(ls) /\ e \in 1 .. Len(ls)
      /\ e = d \/ e \in j .. d - 1
  BY <1>1, <1>2, <1>3, <1>5
<1>7. ls[j].indent > ls[c].indent
  BY <1>3, <1>4, <1>6
<1>8. ls[e].kind # "blank" /\ ls[e].indent <= ls[c].indent
  BY <1>4, <1>6
<1>9. ls[e].indent >= ls[d].indent
  BY <1>2, <1>3, <1>6, <1>8
<1>10. /\ ls[j].indent \in Nat /\ ls[c].indent \in Nat
       /\ ls[e].indent \in Nat /\ ls[d].indent \in Nat
  BY <1>1, <1>2, <1>6
<1> QED BY <1>3, <1>7, <1>8, <1>9, <1>10

\* The lines of m from i to g are those of ls, w lines further down, from
\* i + w to d.
SameRange(m, i, g, ls, w) ==
  \A k \in i .. g : k + w \in 1 .. Len(ls) /\ m[k] = ls[k + w]

LEMMA SameDecorating ==
  ASSUME NEW ls \in Seq(Line), NEW m \in Seq(Line), NEW d \in 1 .. Len(ls),
         NEW g \in 1 .. Len(m), NEW w \in Nat, d = g + w,
         NEW i \in 1 .. g - 1, SameRange(m, i, g, ls, w)
  PROVE  i \in Decorating(m, g) <=> i + w \in Decorating(ls, d)
<1>1. m[g] = ls[d] /\ m[i] = ls[i + w] /\ i + w \in 1 .. d - 1
  BY LineOK DEF SameRange
<1>2. ASSUME NEW k \in i .. g - 1
      PROVE  k + w \in i + w .. d - 1 /\ m[k] = ls[k + w]
  BY LineOK DEF SameRange
<1>3. ASSUME NEW k \in i + w .. d - 1
      PROVE  k - w \in i .. g - 1 /\ m[k - w] = ls[k]
  <2>1. k - w \in i .. g - 1 /\ k - w \in i .. g /\ (k - w) + w = k
    BY <1>1, LineOK
  <2> QED BY <2>1 DEF SameRange
<1> DEFINE Passes(n, top) == /\ n.kind \in Plain
                             /\ n.kind = "blank" \/ n.indent >= top.indent
<1>4. (\A k \in i .. g - 1 : Passes(m[k], m[g]))
        <=> (\A k \in i + w .. d - 1 : Passes(ls[k], ls[d]))
  <2> HIDE DEF Passes
  <2>1. ASSUME \A k \in i .. g - 1 : Passes(m[k], m[g])
        PROVE  \A k \in i + w .. d - 1 : Passes(ls[k], ls[d])
    BY <1>1, <1>3, <2>1
  <2>2. ASSUME \A k \in i + w .. d - 1 : Passes(ls[k], ls[d])
        PROVE  \A k \in i .. g - 1 : Passes(m[k], m[g])
    BY <1>1, <1>2, <2>2
  <2> QED BY <2>1, <2>2
<1>5. i \in Decorating(m, g) <=>
        /\ m[i].kind = "deco" /\ m[i].indent = m[g].indent
        /\ \A k \in i .. g - 1 : Passes(m[k], m[g])
  BY DecoratingFacts
<1>6. i + w \in Decorating(ls, d) <=>
        /\ ls[i + w].kind = "deco" /\ ls[i + w].indent = ls[d].indent
        /\ \A k \in i + w .. d - 1 : Passes(ls[k], ls[d])
  BY <1>1, DecoratingFacts
<1> HIDE DEF Passes
<1> QED BY <1>1, <1>4, <1>5, <1>6

\* Taking lines a to b - 1 out, and where a line beyond is then.
CutOut(ls, a, b, rest) ==
  /\ rest \in Seq(Line) /\ Len(rest) = Len(ls) - (b - a)
  /\ \A k \in 1 .. Len(ls) : /\ k < a => rest[k] = ls[k]
                             /\ b <= k => rest[k - (b - a)] = ls[k]
Shift(a, b, d) == IF b <= d THEN b - a ELSE 0

LEMMA CutRange ==
  ASSUME NEW ls \in Seq(Line), NEW a \in Nat \ {0}, NEW b \in Nat, a <= b,
         b <= Len(ls) + 1, NEW rest, CutOut(ls, a, b, rest),
         NEW d \in 1 .. Len(ls), d < a \/ b <= d,
         NEW i \in Nat \ {0}, b <= d => a <= i
  PROVE  LET w == Shift(a, b, d)
         IN  /\ w \in Nat /\ d - w \in 1 .. Len(rest)
             /\ SameRange(rest, i, d - w, ls, w)
<1> DEFINE w == Shift(a, b, d)
<1>1. Len(ls) \in Nat
  BY LineOK
<1>2. w \in Nat /\ d - w \in 1 .. Len(rest)
  BY <1>1 DEF Shift, CutOut
<1>3. ASSUME NEW k \in i .. d - w
      PROVE  k + w \in 1 .. Len(ls) /\ rest[k] = ls[k + w]
  <2>1. CASE b <= d
    <3>1. w = b - a
      BY <2>1 DEF Shift
    <3>2. k + (b - a) \in 1 .. Len(ls) /\ b <= k + (b - a)
          /\ (k + (b - a)) - (b - a) = k
      BY <1>1, <2>1, <3>1
    <3> QED BY <3>1, <3>2 DEF CutOut
  <2>2. CASE ~(b <= d)
    <3>1. w = 0
      BY <2>2 DEF Shift
    <3>2. k \in 1 .. Len(ls) /\ k < a /\ k + 0 = k
      BY <1>1, <2>2, <3>1
    <3> QED BY <3>1, <3>2 DEF CutOut
  <2> QED BY <2>1, <2>2
<1> QED BY <1>2, <1>3 DEF SameRange

\* That is how s is taken out.
LEMMA ReshapedCuts ==
  ASSUME NEW ls \in Seq(Line), NEW s \in Parse(ls), NEW r \in Parse(ls),
         Apart(r, s), NEW rest, Reshaped(ls, s, 0, rest)
  PROVE  /\ CutOut(ls, s.start, s.end, rest)
         /\ Moved(s, 0, r.decl) = r.decl - Shift(s.start, s.end, r.decl)
<1>1. /\ s.start \in Nat \ {0} /\ s.end \in Nat /\ s.start < s.end
      /\ r.decl \in 1 .. Len(ls) /\ Len(ls) \in Nat
      /\ r.decl < s.start \/ s.end <= r.decl
  BY AboveOrBelow
<1>2. /\ rest \in Seq(Line) /\ Len(rest) = Len(ls) - (s.end - s.start) + 0
      /\ \A k \in 1 .. Len(ls) : Kept(s, k) => rest[Moved(s, 0, k)] = ls[k]
  BY DEF Reshaped
<1>3. ASSUME NEW k \in 1 .. Len(ls)
      PROVE  /\ k < s.start => rest[k] = ls[k]
             /\ s.end <= k => rest[k - (s.end - s.start)] = ls[k]
  <2>1. k < s.start => Kept(s, k) /\ Moved(s, 0, k) = k
    BY <1>1 DEF Kept, Moved
  <2>2. s.end <= k => Kept(s, k) /\ Moved(s, 0, k) = k - (s.end - s.start)
    BY <1>1 DEF Kept, Moved
  <2> QED BY <1>2, <2>1, <2>2
<1>4. Len(rest) = Len(ls) - (s.end - s.start)
  BY <1>1, <1>2
<1>5. Moved(s, 0, r.decl) = r.decl - Shift(s.start, s.end, r.decl)
  BY <1>1 DEF Moved, Shift
<1> QED BY <1>2, <1>3, <1>4, <1>5 DEF CutOut

\* Taking s out takes no line from between a symbol and its decorators.
LEMMA DecoratorsForth ==
  ASSUME NEW ls \in Seq(Line), Aligned(ls), NEW s \in Parse(ls),
         NEW rest, Reshaped(ls, s, 0, rest), NEW r \in Parse(ls), Apart(r, s),
         NEW j \in Decorating(ls, r.decl)
  PROVE  \E i \in Decorating(rest, Moved(s, 0, r.decl)) : rest[i] = ls[j]
<1> DEFINE a == s.start
           b == s.end
           d == r.decl
           w == Shift(a, b, d)
           i == j - w
<1>1. /\ a \in Nat \ {0} /\ b \in Nat /\ a <= b /\ b <= Len(ls) + 1
      /\ d \in 1 .. Len(ls) /\ Len(ls) \in Nat
      /\ d < a \/ b <= d
  BY AboveOrBelow
<1>2. CutOut(ls, a, b, rest) /\ Moved(s, 0, d) = d - w
  BY ReshapedCuts
<1>3. j \in 1 .. d - 1
  BY <1>1, DecoratingFacts
<1>4. b <= d => b <= j
  BY DecoratorOutside
<1> HIDE DEF a, b, d
<1>5. /\ w \in Nat /\ i \in 1 .. d - w - 1 /\ i + w = j
      /\ b <= d => a <= i
  BY <1>1, <1>3, <1>4 DEF Shift
<1>6. d - w \in 1 .. Len(rest) /\ SameRange(rest, i, d - w, ls, w)
  <2> HIDE DEF i
  <2> QED BY <1>1, <1>2, <1>5, CutRange
<1> HIDE DEF w, i
<1>7. rest \in Seq(Line) /\ d = (d - w) + w
  BY <1>1, <1>2, <1>5 DEF CutOut
<1>8. j \in Decorating(ls, d)
  BY DEF d
<1>9. i \in Decorating(rest, d - w)
  BY <1>1, <1>5, <1>6, <1>7, <1>8, SameDecorating
<1>10. rest[i] = ls[j]
  BY <1>1, <1>5, <1>6 DEF SameRange
<1> QED BY <1>2, <1>9, <1>10 DEF d

\* Nor does it give a symbol one it had not, if s has none further up: where a
\* decorator is above s, some line between the two is neither.
LEMMA DecoratorBelow ==
  ASSUME NEW ls \in Seq(Line), NEW s \in Parse(ls), ~Detached(ls, s),
         NEW i \in 1 .. s.start - 1, ls[i].kind = "deco",
         \A k \in i .. s.start - 1 : ls[k].kind \in Plain
  PROVE  FALSE
<1>1. /\ s.start \in Nat \ {0} /\ s.decl \in Nat /\ s.start <= s.decl
      /\ s.decl \in 1 .. Len(ls) /\ s.start = PrefixStart(ls, s.decl)
  BY SymbolFacts
<1> DEFINE u == s.start - 1
<1>2. \A k \in s.start .. s.decl - 1 : ls[k].kind = "deco"
  BY <1>1, PrefixFacts
<1>3. ls[u].kind # "deco"
  BY <1>1, NoDecoAbove
<1>4. u \in i .. s.decl - 1 /\ i \in 1 .. s.decl - 1
  BY <1>1
<1>5. ASSUME NEW k \in i .. s.decl - 1 PROVE ls[k].kind \in Plain
  <2>1. k \in i .. s.start - 1 \/ k \in s.start .. s.decl - 1
    BY <1>1
  <2> QED BY <1>2, <2>1 DEF Plain
<1> HIDE DEF u
<1> QED BY <1>3, <1>4, <1>5 DEF Detached

LEMMA DecoratorsBack ==
  ASSUME NEW ls \in Seq(Line), Aligned(ls), NEW s \in Parse(ls),
         ~Detached(ls, s),
         NEW rest, Reshaped(ls, s, 0, rest), NEW r \in Parse(ls), Apart(r, s),
         NEW i \in Decorating(rest, Moved(s, 0, r.decl))
  PROVE  \E j \in Decorating(ls, r.decl) : ls[j] = rest[i]
<1> DEFINE a == s.start
           b == s.end
           d == r.decl
           w == Shift(a, b, d)
<1>1. /\ a \in Nat \ {0} /\ b \in Nat /\ a <= b /\ b <= Len(ls) + 1
      /\ d \in 1 .. Len(ls) /\ Len(ls) \in Nat
      /\ d < a \/ b <= d
  BY AboveOrBelow
<1>2. CutOut(ls, a, b, rest) /\ Moved(s, 0, d) = d - w
  BY ReshapedCuts
<1>3. i \in Decorating(rest, d - w)
  BY <1>2
<1> HIDE DEF a, b, d
<1>4. /\ w \in Nat /\ d - w \in 1 .. Len(rest) /\ rest \in Seq(Line)
      /\ b <= d => a <= d - w
  BY <1>1, <1>2 DEF Shift, CutOut
<1> HIDE DEF w
<1>5. /\ i \in 1 .. d - w - 1 /\ rest[i].kind = "deco"
      /\ \A k \in i .. d - w - 1 : rest[k].kind \in Plain
  BY <1>3, <1>4, DecoratingFacts
<1>6. b <= d => a <= i
  <2> SUFFICES ASSUME b <= d, i < a PROVE FALSE
    BY <1>1, <1>4, <1>5
  <2>1. ASSUME NEW k \in i .. a - 1
        PROVE  rest[k] = ls[k] /\ ls[k].kind \in Plain
    <3>1. k \in 1 .. Len(ls) /\ k < a /\ k \in i .. d - w - 1
      BY <1>1, <1>4, <1>5
    <3> QED BY <1>2, <1>5, <3>1 DEF CutOut
  <2>2. i \in 1 .. a - 1 /\ i \in i .. a - 1
    BY <1>1, <1>4, <1>5
  <2>3. ls[i].kind = "deco" /\ \A k \in i .. a - 1 : ls[k].kind \in Plain
    BY <1>5, <2>1, <2>2
  <2> QED BY <2>2, <2>3, DecoratorBelow DEF a
<1>7. SameRange(rest, i, d - w, ls, w)
  <2>1. i \in Nat \ {0}
    BY <1>4, <1>5
  <2> QED BY <1>1, <1>2, <1>6, <2>1, CutRange DEF w
<1>8. d = (d - w) + w
  BY <1>1, <1>4
<1>9. i + w \in Decorating(ls, d)
  BY <1>1, <1>3, <1>4, <1>5, <1>7, <1>8, SameDecorating
<1>10. rest[i] = ls[i + w]
  BY <1>4, <1>5, <1>7 DEF SameRange
<1> QED BY <1>9, <1>10 DEF d

LEMMA DecoratorsShift ==
  ASSUME NEW ls \in Seq(Line), Aligned(ls), NEW s \in Parse(ls),
         ~Detached(ls, s),
         NEW rest, Reshaped(ls, s, 0, rest), NEW r \in Parse(ls), Apart(r, s)
  PROVE  LET q == Symbol(rest, Moved(s, 0, r.decl))
         IN  DecoratorsOf(rest, q) = DecoratorsOf(ls, r)
<1> DEFINE g == Moved(s, 0, r.decl)
           q == Symbol(rest, g)
<1>1. q.decl = g
  BY DEF Symbol
<1>2. ASSUME NEW n \in DecoratorsOf(ls, r) PROVE n \in DecoratorsOf(rest, q)
  <2>1. PICK j \in Decorating(ls, r.decl) : n = ls[j].name
    BY DEF DecoratorsOf
  <2>2. PICK i \in Decorating(rest, g) : rest[i] = ls[j]
    BY DecoratorsForth
  <2> QED BY <1>1, <2>1, <2>2 DEF DecoratorsOf
<1>3. ASSUME NEW n \in DecoratorsOf(rest, q) PROVE n \in DecoratorsOf(ls, r)
  <2>1. PICK i \in Decorating(rest, g) : n = rest[i].name
    BY <1>1 DEF DecoratorsOf
  <2>2. PICK j \in Decorating(ls, r.decl) : ls[j] = rest[i]
    BY DecoratorsBack
  <2> QED BY <2>1, <2>2 DEF DecoratorsOf
<1> QED BY <1>2, <1>3

\* What a step that deletes a symbol does.
OneDeleted ==
  applied' # applied /\ Op.op = "delete_symbol" =>
    LET s == Of(Op.sym)
    IN  /\ lines \in Seq(Line) /\ symbols = Parse(lines)
        /\ symbols' = Parse(lines') /\ s \in Parse(lines)
        /\ Reshaped(lines, s, 0, lines')

LEMMA DeleteSymbolDeletes ==
  ASSUME CodeInv, DeleteSymbol
  PROVE  OneDeleted
<1> PICK op \in EditsOf("delete_symbol") : DeleteSymbol!(op)
  BY DEF DeleteSymbol
<1> DEFINE s == Of(op.sym)
           new == Remove(lines, s)
<1>1. OnSymbol(op, new) /\ op \in Edits
  BY DEF EditsOf
<1>2. Op = op /\ Running
  BY <1>1, OpBegun DEF OnSymbol, Begin
<1>3. /\ symbols = Parse(lines) /\ lines \in Seq(Line)
      /\ Of(op.sym) \in Parse(lines) \cup {NoSymbol}
  BY <1>1, <1>2, Fresh
<1> SUFFICES ASSUME applied' # applied
             PROVE  /\ symbols' = Parse(lines') /\ s \in Parse(lines)
                    /\ Reshaped(lines, s, 0, lines')
  BY <1>2, <1>3 DEF OneDeleted
<1>4. ~Failed
  BY DEF Failed
<1>5. s # NoSymbol /\ Put(new)
  BY <1>1, <1>4 DEF OnSymbol
<1>6. lines' = new /\ symbols' = Parse(new) /\ s \in Parse(lines)
  BY <1>3, <1>5 DEF Put
<1> HIDE DEF s
<1>7. Reshaped(lines, s, 0, new)
  BY <1>3, <1>6, RemoveFacts
<1> QED BY <1>6, <1>7

LEMMA StepDeletes == CodeInv /\ [Next]_vars => OneDeleted
<1>1. CodeInv /\ (Assert \/ MoveSymbol \/ SwapSymbols \/ EditText
        \/ ReplaceBlock \/ InsertBlock \/ MoveBlock \/ CopyBlock
        \/ InjectMarkers \/ AddImport \/ RemoveImport) => OneDeleted
  BY OthersTagged DEF OneDeleted, OnOne
<1>2. CodeInv /\ (RenameSymbol \/ ReplaceSymbol \/ ChangeSignature
        \/ AddDecorator) => OneDeleted
  BY Tags DEF OneDeleted
<1>3. Reject \/ Open \/ SkipRest \/ Finish \/ UNCHANGED vars => OneDeleted
  BY FramesApplyNone DEF OneDeleted
<1> QED BY <1>1, <1>2, <1>3, DeleteSymbolDeletes DEF Next, Edit

(***************************************************************************)
(* When a symbol is deleted, every other one has the decorators it had, in *)
(* every Aligned text, if no decorator of the deleted symbol is detached   *)
(* from it: the code's range ends where Python ends the symbol, so it cuts *)
(* no other symbol's decorators off, and leaves none of its own behind.    *)
(***************************************************************************)
THEOREM CodeDecoratorsKept == Spec => DecoratorsKept
<1>1. ASSUME CodeInv, [Next]_vars, applied' # applied,
             Op.op = "delete_symbol", Aligned(lines),
             ~Detached(lines, Of(Op.sym)),
             NEW r \in symbols, Apart(r, Of(Op.sym))
      PROVE  \E q \in symbols' :
               /\ q.path = r.path /\ q.kind = r.kind
               /\ DecoratorsOf(lines', q) = DecoratorsOf(lines, r)
  <2> DEFINE s == Of(Op.sym)
  <2>1. /\ lines \in Seq(Line) /\ symbols = Parse(lines)
        /\ symbols' = Parse(lines') /\ s \in Parse(lines)
        /\ Reshaped(lines, s, 0, lines')
    BY <1>1, StepDeletes DEF OneDeleted
  <2>2. Apart(r, s) /\ ~Detached(lines, s)
    BY <1>1
  <2> HIDE DEF s
  <2> DEFINE q == Symbol(lines', Moved(s, 0, r.decl))
  <2>3. q \in Parse(lines') /\ q.path = r.path /\ q.kind = r.kind
    BY <1>1, <2>1, <2>2, BystanderKept
  <2>4. DecoratorsOf(lines', q) = DecoratorsOf(lines, r)
    BY <1>1, <2>1, <2>2, DecoratorsShift
  <2> HIDE DEF q
  <2> QED BY <2>1, <2>3, <2>4
<1>2. CodeInv /\ [Next]_vars =>
        [ applied' # applied /\ Op.op = "delete_symbol" /\ Aligned(lines) =>
            LET s == Of(Op.sym) IN
            ~Detached(lines, s) =>
              \A r \in symbols : Apart(r, s) =>
                \E q \in symbols' :
                  /\ q.path = r.path /\ q.kind = r.kind
                  /\ DecoratorsOf(lines', q) = DecoratorsOf(lines, r)
        ]_vars
  BY <1>1
<1> QED BY <1>2, CodeStart, CodeStep, PTL DEF Spec, DecoratorsKept

-----------------------------------------------------------------------------
\* Lines p to q and lines q to v change places.
Place(p, q, v, i) == IF i < p \/ v <= i THEN i
                     ELSE IF i < q THEN i + (v - q) ELSE i - (q - p)
Swapped(ls, p, q, v, m) ==
  /\ m \in Seq(Line) /\ Len(m) = Len(ls)
  /\ \A i \in 1 .. Len(ls) : /\ Place(p, q, v, i) \in 1 .. Len(m)
                             /\ m[Place(p, q, v, i)] = ls[i]

\* Line i ends what is indented like d, if it is there.
Ends(ls, i, d) == i <= Len(ls) => ls[i].kind # "blank" /\ ls[i].indent <= d

\* The blocks end with no decorator, the symbol is within one of them, and it
\* ends no sooner and no later where its block is put.
Fits(ls, r, p, q, v) ==
  /\ p \in Nat \ {0} /\ q \in Nat /\ v \in Nat
  /\ p < q /\ q < v /\ v <= Len(ls) + 1
  /\ p > 1 => ls[p - 1].kind # "deco"
  /\ ls[q - 1].kind # "deco" /\ ls[v - 1].kind # "deco"
  /\ \/ r.end <= p
     \/ p <= r.start /\ r.end <= q
     \/ q <= r.start /\ r.end <= v
     \/ v <= r.start
  /\ r.end = p => Ends(ls, q, ls[r.decl].indent)
  /\ r.end = q => Ends(ls, v, ls[r.decl].indent)
  /\ r.end = v => Ends(ls, p, ls[r.decl].indent)

LEMMA SwapKeeps ==
  ASSUME NEW ls \in Seq(Line), NEW r \in Parse(ls), NEW p, NEW q, NEW v,
         Fits(ls, r, p, q, v), NEW m, Swapped(ls, p, q, v, m)
  PROVE  \E x \in Parse(m) : Extract(m, x) = Extract(ls, r)
<1> DEFINE a == r.start
           b == r.end
           d == ls[r.decl].indent
           c == Place(p, q, v, a)
           z == c + (b - a)
<1>1. /\ a \in Nat \ {0} /\ b \in Nat \ {0} /\ a < b /\ b <= Len(ls) + 1
      /\ Len(ls) \in Nat /\ a \in 1 .. Len(ls)
  BY SymbolFacts, LineOK
<1>2. a = 1 \/ ls[a - 1].kind # "deco"
  BY NoDecoAbove
<1>3. Ends(ls, b, d)
  <2>1. r.decl \in 1 .. Len(ls) /\ b = BodyEnd(ls, r.decl)
    BY SymbolFacts
  <2>2. EndsAt(ls, r.decl, b)
    BY <2>1, BodyEndFacts
  <2> QED BY <2>2 DEF EndsAt, Ends
<1>4. /\ b <= p \/ (p <= a /\ b <= q) \/ (q <= a /\ b <= v) \/ v <= a
      /\ b = p => Ends(ls, q, d)
      /\ b = q => Ends(ls, v, d)
      /\ b = v => Ends(ls, p, d)
      /\ p \in Nat \ {0} /\ q \in Nat /\ v \in Nat
      /\ p < q /\ q < v /\ v <= Len(ls) + 1
  BY DEF Fits
<1>0. /\ p > 1 => ls[p - 1].kind # "deco"
      /\ ls[q - 1].kind # "deco" /\ ls[v - 1].kind # "deco"
  BY DEF Fits
<1>5. /\ m \in Seq(Line) /\ Len(m) = Len(ls)
      /\ \A i \in 1 .. Len(ls) : /\ Place(p, q, v, i) \in 1 .. Len(m)
                                 /\ m[Place(p, q, v, i)] = ls[i]
  BY DEF Swapped
<1> HIDE DEF a, b, d
<1>6. c \in Nat \ {0} /\ z \in Nat /\ z <= Len(m) + 1
  <2>1. c \in 1 .. Len(m)
    BY <1>1, <1>5
  <2>2. z <= Len(ls) + 1
    BY <1>1, <1>4 DEF Place
  <2>3. c \in Nat \ {0} /\ Len(m) = Len(ls)
    BY <1>1, <1>5, <2>1
  <2> HIDE DEF c
  <2>4. z \in Nat
    BY <1>1, <2>3
  <2> QED BY <2>2, <2>3, <2>4
<1>7. \A i \in a .. b - 1 : Place(p, q, v, i) = c + (i - a)
  BY <1>1, <1>4 DEF Place
<1> HIDE DEF c
<1>8. SameLines(ls, a, m, c, b - a)
  <2> SUFFICES ASSUME NEW k \in 1 .. b - a PROVE m[c - 1 + k] = ls[a - 1 + k]
    BY DEF SameLines
  <2>1. a - 1 + k \in a .. b - 1 /\ a - 1 + k \in 1 .. Len(ls)
    BY <1>1
  <2>2. c + ((a - 1 + k) - a) = c - 1 + k
    BY <1>1, <1>6
  <2> QED BY <1>5, <1>7, <2>1, <2>2
<1>9. c = 1 \/ m[c - 1].kind # "deco"
  <2> SUFFICES ASSUME c # 1
               PROVE  \E i \in 1 .. Len(ls) : /\ Place(p, q, v, i) = c - 1
                                              /\ ls[i].kind # "deco"
    BY <1>5
  <2>1. CASE a = p
    <3>1. v - 1 \in 1 .. Len(ls) /\ Place(p, q, v, v - 1) = c - 1
      BY <1>1, <1>4, <2>1 DEF Place, c
    <3> QED BY <1>0, <3>1
  <2>2. CASE a = q
    <3>1. p - 1 \in 1 .. Len(ls) /\ Place(p, q, v, p - 1) = c - 1 /\ p > 1
      BY <1>1, <1>4, <2>2 DEF Place, c
    <3> QED BY <1>0, <3>1
  <2>3. CASE a = v
    <3>1. q - 1 \in 1 .. Len(ls) /\ Place(p, q, v, q - 1) = c - 1
      BY <1>1, <1>4, <2>3 DEF Place, c
    <3> QED BY <1>0, <3>1
  <2>4. CASE a \notin {p, q, v}
    <3>1. a - 1 \in 1 .. Len(ls) /\ Place(p, q, v, a - 1) = c - 1 /\ a # 1
      BY <1>1, <1>4, <2>4 DEF Place, c
    <3> QED BY <1>2, <3>1
  <2> QED BY <2>1, <2>2, <2>3, <2>4
<1>10. z <= Len(m) => m[z].kind # "blank" /\ m[z].indent <= d
  <2> SUFFICES ASSUME z <= Len(m)
               PROVE  \E i \in 1 .. Len(ls) : Place(p, q, v, i) = z /\ Ends(ls, i, d)
    <3>1. ASSUME NEW i \in 1 .. Len(ls), Place(p, q, v, i) = z, Ends(ls, i, d)
          PROVE  m[z].kind # "blank" /\ m[z].indent <= d
      <4>1. m[z] = ls[i] /\ i <= Len(ls)
        BY <1>1, <1>5, <3>1
      <4> QED BY <3>1, <4>1 DEF Ends
    <3> QED BY <3>1
  <2>1. CASE b = p
    <3>1. q \in 1 .. Len(ls) /\ Place(p, q, v, q) = z
      BY <1>1, <1>4, <2>1 DEF Place, c
    <3> QED BY <1>4, <2>1, <3>1
  <2>2. CASE b = q
    <3>1. v \in 1 .. Len(ls) /\ Place(p, q, v, v) = z
      BY <1>1, <1>4, <1>5, <2>2 DEF Place, c
    <3> QED BY <1>4, <2>2, <3>1
  <2>3. CASE b = v
    <3>1. p \in 1 .. Len(ls) /\ Place(p, q, v, p) = z
      BY <1>1, <1>4, <2>3 DEF Place, c
    <3> QED BY <1>4, <2>3, <3>1
  <2>4. CASE b \notin {p, q, v}
    <3>1. b \in 1 .. Len(ls) /\ Place(p, q, v, b) = z
      BY <1>1, <1>4, <1>5, <2>4 DEF Place, c
    <3> QED BY <1>3, <3>1
  <2> QED BY <2>1, <2>2, <2>3, <2>4
<1> HIDE DEF z
<1>11. z = c + (b - a)
  BY DEF z
<1>12. LET x == Symbol(m, c + (r.decl - r.start))
       IN  x \in Parse(m) /\ Extract(m, x) = Extract(ls, r)
  BY <1>5, <1>6, <1>8, <1>9, <1>10, <1>11, Planted DEF a, b, d
<1> QED BY <1>12

-----------------------------------------------------------------------------
\* Where the lines are when those of s have been put in before line e of the
\* rest.
Gone(s, e, i) ==
  LET w == s.end - s.start
      j == IF i < s.start THEN i ELSE i - w
  IN  IF ~Kept(s, i) THEN e + (i - s.start) ELSE IF j < e THEN j ELSE j + w

Carried(ls, s, e, m) ==
  /\ m \in Seq(Line) /\ Len(m) = Len(ls)
  /\ \A i \in 1 .. Len(ls) : /\ Gone(s, e, i) \in 1 .. Len(m)
                             /\ m[Gone(s, e, i)] = ls[i]

LEMMA MovedLines ==
  ASSUME NEW ls \in Seq(Line), NEW s \in Parse(ls), NEW e \in Nat \ {0},
         e <= Len(ls) - (s.end - s.start) + 1
  PROVE  Carried(ls, s, e, Splice(Remove(ls, s), e, e, Extract(ls, s)))
<1> DEFINE m == Splice(Remove(ls, s), e, e, Extract(ls, s))
           a == s.start
           b == s.end
           w == b - a
           rest == Remove(ls, s)
           new == Extract(ls, s)
<1>1. /\ a \in Nat \ {0} /\ b \in Nat \ {0} /\ a < b /\ b <= Len(ls) + 1
      /\ Len(ls) \in Nat /\ w \in Nat
  BY SymbolFacts, LineOK
<1>2. /\ rest \in Seq(Line) /\ Len(rest) = Len(ls) - w
      /\ \A i \in 1 .. Len(ls) : Kept(s, i) =>
           Moved(s, 0, i) \in 1 .. Len(rest) /\ rest[Moved(s, 0, i)] = ls[i]
  <2>1. Reshaped(ls, s, 0, rest) /\ rest \in Seq(Line)
    BY RemoveFacts, CutType
  <2> HIDE DEF rest
  <2>2. Len(rest) = Len(ls) - (s.end - s.start) + 0
    BY <2>1 DEF Reshaped
  <2>3. Len(rest) = Len(ls) - w
    BY <1>1, <2>2
  <2> QED BY <2>1, <2>3 DEF Reshaped
<1>3. /\ new \in Seq(Line) /\ Len(new) = w
      /\ \A k \in 1 .. w : new[k] = ls[a - 1 + k]
  <2>1. IsSlice(ls, a, b, Slice(ls, a, b))
    BY <1>1, SliceFacts
  <2> QED BY <2>1 DEF IsSlice, Extract
<1> HIDE DEF rest, new, m
<1>4. m = Splice(rest, e, e, new)
  BY DEF m, rest, new
<1>5. e <= Len(rest) + 1 /\ Len(rest) \in Nat
  BY <1>1, <1>2
<1>6. /\ m \in Seq(Line) /\ Len(m) = Len(rest) - (e - e) + Len(new)
      /\ \A j \in 1 .. Len(rest) :
           /\ j < e => j \in 1 .. Len(m) /\ m[j] = rest[j]
           /\ e <= j => LET k == j - (e - e) + Len(new)
                       IN  k \in 1 .. Len(m) /\ m[k] = rest[j]
      /\ \A k \in 1 .. Len(new) :
           e - 1 + k \in 1 .. Len(m) /\ m[e - 1 + k] = new[k]
  <2>1. e <= e /\ e \in Nat \ {0}
    OBVIOUS
  <2> HIDE DEF w
  <2>2. /\ rest \in Seq(Line) /\ new \in Seq(Line) /\ e <= Len(rest) + 1
    BY <1>2, <1>3, <1>5
  <2>3. m \in Seq(Line)
    BY <1>4, <2>1, <2>2, SpliceFacts
  <2>4. Len(m) = Len(rest) - (e - e) + Len(new)
    BY <1>4, <2>1, <2>2, SpliceFacts
  <2>5. \A j \in 1 .. Len(rest) :
          /\ j < e => j \in 1 .. Len(m) /\ m[j] = rest[j]
          /\ e <= j => LET k == j - (e - e) + Len(new)
                      IN  k \in 1 .. Len(m) /\ m[k] = rest[j]
    BY <1>4, <2>1, <2>2, SpliceFacts
  <2>6. \A k \in 1 .. Len(new) :
          e - 1 + k \in 1 .. Len(m) /\ m[e - 1 + k] = new[k]
    BY <1>4, <2>1, <2>2, SpliceFacts
  <2> QED BY <2>3, <2>4, <2>5, <2>6
<1>7. Len(m) = Len(ls)
  BY <1>1, <1>2, <1>3, <1>6
<1> HIDE DEF w
<1>8. ASSUME NEW i \in 1 .. Len(ls)
      PROVE  Gone(s, e, i) \in 1 .. Len(m) /\ m[Gone(s, e, i)] = ls[i]
  <2>1. CASE ~Kept(s, i)
    <3> DEFINE k == i - a + 1
    <3>1. a <= i /\ i < b
      BY <1>1, <2>1 DEF Kept
    <3> HIDE DEF a, b
    <3>2. k \in 1 .. w /\ a - 1 + k = i /\ e - 1 + k = e + (i - a)
      BY <1>1, <3>1 DEF w
    <3> HIDE DEF k
    <3>3. Gone(s, e, i) = e - 1 + k
      BY <2>1, <3>2 DEF Gone, a
    <3>4. e - 1 + k \in 1 .. Len(m) /\ m[e - 1 + k] = new[k]
      BY <1>3, <1>6, <3>2
    <3>5. new[k] = ls[i]
      BY <1>3, <3>2
    <3> QED BY <3>3, <3>4, <3>5
  <2>2. CASE Kept(s, i)
    <3> DEFINE j == Moved(s, 0, i)
    <3>1. j \in 1 .. Len(rest) /\ rest[j] = ls[i]
      BY <1>2, <2>2
    <3>2. j = IF i < s.start THEN i ELSE i - (s.end - s.start)
      BY <1>1, <3>1 DEF Moved
    <3> HIDE DEF j
    <3>3. Gone(s, e, i) = IF j < e THEN j ELSE j + w
      BY <2>2, <3>2 DEF Gone, w, a, b
    <3>4. j - (e - e) + Len(new) = j + w
      BY <1>1, <1>3, <1>5, <3>1
    <3>5. CASE j < e
      BY <1>6, <3>1, <3>3, <3>5
    <3>6. CASE e <= j
      <4>1. j + w \in 1 .. Len(m) /\ m[j + w] = rest[j]
        BY <1>6, <3>1, <3>4, <3>6
      <4>2. ~(j < e)
        BY <1>5, <3>1, <3>6
      <4> QED BY <3>1, <3>3, <4>1, <4>2
    <3> QED BY <1>5, <3>1, <3>5, <3>6
  <2> QED BY <2>1, <2>2
<1> QED BY <1>6, <1>7, <1>8 DEF Carried, m

\* A symbol moved behind another changes places with what is between them.
LEMMA MoveSwaps ==
  ASSUME NEW ls \in Seq(Line), Aligned(ls), NEW s \in Parse(ls),
         NEW t \in Parse(ls), Apart(s, t), NEW m,
         m = Splice(Remove(ls, s), Left(ls, s, t).end, Left(ls, s, t).end,
                    Extract(ls, s))
  PROVE  /\ t.end < s.start => Swapped(ls, t.end, s.start, s.end, m)
         /\ t.end = s.start => m = ls
         /\ s.start < t.end => /\ s.end <= t.start
                               /\ Swapped(ls, s.start, s.end, t.end, m)
<1> DEFINE a == s.start
           b == s.end
           u == t.end
           e == Left(ls, s, t).end
           l == Len(ls)
<1>1. /\ a \in Nat \ {0} /\ b \in Nat \ {0} /\ a < b /\ b <= l + 1
      /\ t.start \in Nat \ {0} /\ u \in Nat \ {0} /\ t.start < u /\ u <= l + 1
      /\ l \in Nat
  BY SymbolFacts, LineOK
<1>2. b <= t.start \/ u <= a
  BY DEF Apart
<1>3. e = IF u <= a THEN u ELSE u - (b - a)
  <2>1. /\ t.decl \in 1 .. Len(ls) /\ t.end = BodyEnd(ls, t.decl)
        /\ t.start <= t.decl /\ t.decl < t.end
    BY SymbolFacts
  <2>2. Kept(s, t.decl)
    BY <1>1, <1>2, <2>1 DEF Kept
  <2>3. e = BodyEnd(Remove(ls, s), Moved(s, 0, t.decl))
    BY DEF Left, Symbol
  <2>4. Reshaped(ls, s, 0, Remove(ls, s))
    BY RemoveFacts
  <2>5. e = IF u <= a THEN u ELSE u - (b - a) + 0
    BY <2>1, <2>2, <2>3, <2>4, EndKept
  <2> HIDE DEF e
  <2> QED BY <1>1, <2>5
<1> HIDE DEF e
<1>4. e \in Nat \ {0} /\ e <= Len(ls) - (s.end - s.start) + 1
  BY <1>1, <1>2, <1>3
<1>5. m = Splice(Remove(ls, s), e, e, Extract(ls, s))
  BY DEF e
<1>6. /\ m \in Seq(Line) /\ Len(m) = l
      /\ \A i \in 1 .. l : Gone(s, e, i) \in 1 .. Len(m) /\ m[Gone(s, e, i)] = ls[i]
  BY <1>4, <1>5, MovedLines DEF Carried
<1>7. \A i \in 1 .. l :
        Gone(s, e, i) = IF a <= i /\ i < b THEN e + (i - a)
                        ELSE LET j == IF i < a THEN i ELSE i - (b - a)
                             IN  IF j < e THEN j ELSE j + (b - a)
  <2> TAKE i \in 1 .. l
  <2>1. ~Kept(s, i) <=> a <= i /\ i < b
    BY <1>1 DEF Kept
  <2> QED BY <2>1 DEF Gone
<1> HIDE DEF a, b, u, l
<1>8. CASE u < a
  <2>1. \A i \in 1 .. l : Gone(s, e, i) = Place(u, a, b, i)
    <3> TAKE i \in 1 .. l
    <3>1. e = u
      BY <1>1, <1>3, <1>8
    <3> QED BY <1>1, <1>7, <1>8, <3>1 DEF Place
  <2>2. Swapped(ls, u, a, b, m)
    BY <1>6, <2>1 DEF Swapped, l
  <2> QED BY <1>1, <1>8, <2>2 DEF a, b, u
<1>9. CASE u = a
  <2>1. \A i \in 1 .. l : Gone(s, e, i) = i
    <3> TAKE i \in 1 .. l
    <3>1. e = a
      BY <1>1, <1>3, <1>9
    <3> QED BY <1>1, <1>7, <1>9, <3>1
  <2>2. \A i \in 1 .. Len(ls) : m[i] = ls[i]
    BY <1>6, <2>1 DEF l
  <2>3. m = ls
    BY <1>6, <2>2, SeqEqual DEF l
  <2> QED BY <1>1, <1>9, <2>3 DEF a, u
<1>10. CASE a < u
  <2>1. b <= t.start
    BY <1>1, <1>2, <1>10
  <2>2. \A i \in 1 .. l : Gone(s, e, i) = Place(a, b, u, i)
    <3> TAKE i \in 1 .. l
    <3>1. e = u - (b - a) /\ b < u
      BY <1>1, <1>3, <1>10, <2>1
    <3> QED BY <1>1, <1>7, <1>10, <3>1 DEF Place
  <2>3. Swapped(ls, a, b, u, m)
    BY <1>6, <2>2 DEF Swapped, l
  <2> QED BY <1>1, <1>10, <2>1, <2>3 DEF a, b, u
<1> QED BY <1>1, <1>8, <1>9, <1>10

\* Of two symbols indented alike, neither part of the other, one is moved behind
\* the other: the symbols around neither keep their lines.
LEMMA MoveKeeps ==
  ASSUME NEW ls \in Seq(Line), Aligned(ls), NEW s \in Parse(ls),
         NEW t \in Parse(ls), Apart(s, t),
         ls[s.start].indent = ls[t.decl].indent, NEW r \in Parse(ls),
         Apart(r, s) \/ Within(r, s), Apart(r, t) \/ Within(r, t), NEW m,
         m = Splice(Remove(ls, s), Left(ls, s, t).end, Left(ls, s, t).end,
                    Extract(ls, s))
  PROVE  \E x \in Parse(m) : Extract(m, x) = Extract(ls, r)
<1> DEFINE a == s.start
           b == s.end
           u == t.end
           d == ls[t.decl].indent
           g == ls[r.decl].indent
<1>1. /\ a \in Nat \ {0} /\ b \in Nat \ {0} /\ a < b /\ b <= Len(ls) + 1
      /\ t.start \in Nat \ {0} /\ u \in Nat \ {0} /\ t.start < u /\ u <= Len(ls) + 1
      /\ r.start \in Nat \ {0} /\ r.end \in Nat \ {0} /\ r.start < r.end
      /\ r.end <= Len(ls) + 1 /\ Len(ls) \in Nat
  <2>1. \A x \in Parse(ls) :
          /\ x.start \in Nat \ {0} /\ x.end \in Nat \ {0}
          /\ x.start < x.end /\ x.end <= Len(ls) + 1
    BY SymbolFacts
  <2> QED BY <2>1, LineOK
<1>2. /\ a > 1 => ls[a - 1].kind # "deco"
      /\ ls[b - 1].kind # "deco" /\ ls[u - 1].kind # "deco"
  BY <1>1, NoDecoAbove, LastIsNoDeco
<1>3. /\ ls[a].kind # "blank" /\ ls[a].indent = d /\ d \in Nat /\ g \in Nat
      /\ ls[s.decl].indent = d
  <2>1. a \in s.start .. s.decl /\ s.decl \in s.start .. s.decl
    BY SymbolFacts
  <2>2. t.decl \in 1 .. Len(ls) /\ r.decl \in 1 .. Len(ls)
    BY SymbolFacts
  <2> QED BY <2>1, <2>2, LinesOfSymbol, LineOK
<1>4. \A x \in Parse(ls) : Ends(ls, x.end, ls[x.decl].indent)
  BY LinesOfSymbol DEF Ends
\* What is part of s or of t is indented no less.
<1>5. ASSUME NEW x \in Parse(ls), ls[x.decl].indent = d, Within(r, x)
      PROVE  d <= g
  <2>1. r.decl \in x.start .. x.decl \/ r.decl \in x.decl + 1 .. x.end - 1
    <3>1. /\ r.decl \in Nat /\ r.start \in Nat /\ r.start <= r.decl
          /\ r.decl < r.end /\ r.end \in Nat
      BY SymbolFacts
    <3>2. x.decl \in Nat /\ x.start \in Nat /\ x.end \in Nat
      BY <1>5, SymbolFacts
    <3>3. x.start <= r.start /\ r.end <= x.end
      BY <1>5 DEF Within
    <3> QED BY <3>1, <3>2, <3>3
  <2>2. CASE r.decl \in x.start .. x.decl
    BY <1>3, <1>5, <2>2, LinesOfSymbol
  <2>3. CASE r.decl \in x.decl + 1 .. x.end - 1
    <3>1. ls[r.decl].kind # "blank"
      BY SymbolFacts DEF Decls
    <3> QED BY <1>3, <1>5, <2>3, <3>1, LinesOfSymbol
  <2> QED BY <2>1, <2>2, <2>3
<1>6. Within(r, s) \/ Within(r, t) => d <= g
  BY <1>3, <1>5
<1>7. Ends(ls, b, d) /\ Ends(ls, u, d) /\ Ends(ls, r.end, g) /\ Ends(ls, a, d)
  BY <1>3, <1>4 DEF Ends
<1>8. r.end = a => d <= g
  BY <1>1, <1>3, <1>7 DEF Ends
<1>9. ASSUME NEW i \in 1 .. Len(ls) + 1, Ends(ls, i, d), d <= g PROVE Ends(ls, i, g)
  <2>1. i <= Len(ls) => ls[i].indent \in Nat
    BY LineOK
  <2> QED BY <1>3, <1>9, <2>1 DEF Ends
<1>10. /\ r.end <= a \/ b <= r.start \/ (a <= r.start /\ r.end <= b /\ d <= g)
       /\ r.end <= t.start \/ u <= r.start
            \/ (t.start <= r.start /\ r.end <= u /\ d <= g)
  BY <1>6 DEF Apart, Within
<1>11. /\ u < a => Swapped(ls, u, a, b, m)
       /\ u = a => m = ls
       /\ a < u => b <= t.start /\ Swapped(ls, a, b, u, m)
  BY MoveSwaps
<1>12. r \in Parse(ls) /\ ls \in Seq(Line)
  OBVIOUS
<1> HIDE DEF a, b, u, d
<1>13. CASE u < a
  <2>1. \/ r.end <= u
        \/ u <= r.start /\ r.end <= a
        \/ a <= r.start /\ r.end <= b
        \/ b <= r.start
    BY <1>1, <1>10, <1>13
  <2>2. r.end = u => Ends(ls, a, g)
    <3>1. r.end = u => d <= g
      BY <1>1, <1>10, <1>13
    <3> QED BY <1>1, <1>7, <1>9, <3>1
  <2>3. r.end = a => Ends(ls, b, g)
    BY <1>1, <1>7, <1>8, <1>9
  <2>4. r.end = b => Ends(ls, u, g)
    <3>1. r.end = b => d <= g
      BY <1>1, <1>10, <1>13
    <3> QED BY <1>1, <1>7, <1>9, <3>1
  <2>5. u > 1 => ls[u - 1].kind # "deco"
    BY <1>2
  <2>6. Fits(ls, r, u, a, b)
    BY <1>1, <1>2, <1>13, <2>1, <2>2, <2>3, <2>4, <2>5 DEF Fits, g
  <2> QED BY <1>11, <1>12, <1>13, <2>6, SwapKeeps
<1>14. CASE u = a
  BY <1>11, <1>14
<1>15. CASE a < u
  <2>1. \/ r.end <= a
        \/ a <= r.start /\ r.end <= b
        \/ b <= r.start /\ r.end <= u
        \/ u <= r.start
    BY <1>1, <1>10, <1>11, <1>15
  <2>2. r.end = a => Ends(ls, b, g)
    BY <1>1, <1>7, <1>8, <1>9
  <2>3. r.end = b => Ends(ls, u, g)
    <3>1. r.end = b => d <= g
      BY <1>1, <1>10, <1>11, <1>15
    <3> QED BY <1>1, <1>7, <1>9, <3>1
  <2>4. r.end = u => Ends(ls, a, g)
    <3>1. r.end = u => d <= g
      BY <1>1, <1>10, <1>11, <1>15
    <3> QED BY <1>1, <1>7, <1>9, <3>1
  <2>5. b < u
    BY <1>1, <1>11, <1>15
  <2>6. Fits(ls, r, a, b, u)
    BY <1>1, <1>2, <1>15, <2>1, <2>2, <2>3, <2>4, <2>5 DEF Fits, g
  <2> QED BY <1>11, <1>12, <1>15, <2>6, SwapKeeps
<1> QED BY <1>1, <1>13, <1>14, <1>15

\* The step that applies a move is MoveSymbol.
LEMMA OnlyMove ==
  ASSUME CodeInv, [Next]_vars, applied' # applied, Op.op = "move_symbol"
  PROVE  MoveSymbol
<1>1. Edit
  BY FramesApplyNone DEF Next
<1> QED BY <1>1, Tags DEF Edit

LEMMA MoveSymbolKeeps ==
  ASSUME CodeInv, MoveSymbol, applied' # applied, Aligned(lines),
         Apart(Of(Op.sym), Of(Op.to)),
         lines[Of(Op.sym).start].indent = lines[Of(Op.to).decl].indent,
         NEW r \in symbols, \A x \in {Of(Op.sym), Of(Op.to)} :
                              Apart(r, x) \/ Within(r, x)
  PROVE  \E q \in symbols' : Extract(lines', q) = Extract(lines, r)
<1> PICK op \in EditsOf("move_symbol") : MoveSymbol!(op)
  BY DEF MoveSymbol
<1> DEFINE s == Of(op.sym)
           t == Of(op.to)
           rest == Remove(lines, s)
           there == Resolve(Parse(rest), op.to)
           m == Splice(rest, there.end, there.end, Extract(lines, s))
<1>1. op \in Edits /\ Begin(op) /\ Op = op /\ Running
  BY OpBegun DEF EditsOf, Begin
<1>2. /\ symbols = Parse(lines) /\ lines \in Seq(Line)
      /\ s \in Parse(lines) \cup {NoSymbol} /\ t \in Parse(lines) \cup {NoSymbol}
      /\ t = Resolve(Parse(lines), op.to)
  BY <1>1, Fresh DEF Of
<1>3. ~Failed
  BY DEF Failed
<1>4. NoSymbol \notin {s, t} /\ Put(m)
  BY <1>3
<1>5. lines' = m /\ symbols' = Parse(m)
  BY <1>4 DEF Put
<1>6. /\ Apart(s, t) /\ lines[s.start].indent = lines[t.decl].indent
      /\ Apart(r, s) \/ Within(r, s)
      /\ Apart(r, t) \/ Within(r, t)
      /\ s \in Parse(lines) /\ t \in Parse(lines) /\ r \in Parse(lines)
  BY <1>1, <1>2, <1>4
<1> HIDE DEF s, t
<1>7. ~Within(t, s)
  BY <1>2, <1>6, SymbolFacts DEF Apart, Within
<1>8. there = Left(lines, s, t)
  BY <1>2, <1>4, <1>6, <1>7, StillThere
<1>9. m = Splice(Remove(lines, s), Left(lines, s, t).end,
                 Left(lines, s, t).end, Extract(lines, s))
  BY <1>8
<1> HIDE DEF m
<1>10. \E x \in Parse(m) : Extract(m, x) = Extract(lines, r)
  BY <1>2, <1>6, <1>9, MoveKeeps
<1> QED BY <1>5, <1>10

(***************************************************************************)
(* A symbol moved behind another that is indented like it and is no part   *)
(* of it, nor it of the other, leaves every symbol around neither with its *)
(* lines, in every text that is Aligned: the insert point, found once the  *)
(* symbol is cut out, is the end of the one it goes behind, whose id still *)
(* stands for it.                                                          *)
(***************************************************************************)
THEOREM CodeMoveKeepsSymbols == Spec => MoveKeepsSymbols
<1>1. CodeInv /\ [Next]_vars =>
        [ applied' # applied /\ Op.op = "move_symbol" /\ Aligned(lines) =>
            LET s == Of(Op.sym)
                t == Of(Op.to) IN
            Apart(s, t) /\ lines[s.start].indent = lines[t.decl].indent =>
              \A r \in symbols : (\A x \in {s, t} : Apart(r, x) \/ Within(r, x))
                => \E q \in symbols' : Extract(lines', q) = Extract(lines, r)
        ]_vars
  BY OnlyMove, MoveSymbolKeeps
<1> QED BY <1>1, CodeStart, CodeStep, PTL DEF Spec, MoveKeepsSymbols

=============================================================================
