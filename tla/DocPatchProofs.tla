--------------------------- MODULE DocPatchProofs ---------------------------
(***************************************************************************)
(* The doc-patch applier, for every document and every patch: its types,   *)
(* the freshness of the section table, and what an operation that moves,   *)
(* is skipped or is scoped to a section does to the lines.                 *)
(***************************************************************************)
EXTENDS DocPatch, TLAPS, FiniteSetTheorems, SequenceTheorems,
        WellFoundedInduction

-----------------------------------------------------------------------------
\* Least and greatest numbers, and the first of the lines found.

LEMMA LeastLine ==
  ASSUME NEW S \in SUBSET Nat, S # {}
  PROVE  \E n \in S : \A m \in S : n <= m
<1> DEFINE R == OpToRel(<, Nat)
<1>1. IsWellFoundedOn(R, Nat)
  BY NatLessThanWellFounded
<1>2. ASSUME NEW x \in Nat, NEW y \in Nat, x < y PROVE <<x, y>> \in R
  BY <1>2 DEF OpToRel
<1>3. S \subseteq Nat
  OBVIOUS
<1> HIDE DEF R
<1>4. PICK x \in S : \A y \in S : ~ (<<y, x>> \in R)
  BY <1>1, <1>3, WFMin
<1>5. ASSUME NEW y \in S PROVE x <= y
  <2>1. ~(y < x)
    BY <1>2, <1>4
  <2> QED BY <2>1
<1> QED BY <1>5

\* The last of the numbers up to n is the one that is least far from n.
LEMMA LastLine ==
  ASSUME NEW n \in Nat, NEW S \in SUBSET (0 .. n), S # {}
  PROVE  \E m \in S : \A k \in S : k <= m
<1> DEFINE D == {n - k : k \in S}
<1>0. \A k \in S : k \in 0 .. n
  OBVIOUS
<1>1. D \in SUBSET Nat /\ D # {}
  <2>1. \A k \in S : n - k \in Nat
    BY <1>0
  <2> QED BY <2>1
<1>2. PICK d \in D : \A e \in D : d <= e
  BY <1>1, LeastLine
<1>3. PICK m \in S : d = n - m
  BY <1>2
<1>4. \A k \in S : n - m <= n - k
  BY <1>2, <1>3
<1>5. \A k \in S : n - m <= n - k => k <= m
  BY <1>0, <1>3
<1> QED BY <1>4, <1>5

LEMMA FirstFacts ==
  ASSUME NEW S \in SUBSET Nat
  PROVE  /\ First(S) \in Nat
         /\ S # {} => First(S) \in S /\ \A k \in S : First(S) <= k
         /\ S = {} => First(S) = 0
<1>1. CASE S = {}
  BY <1>1 DEF First
<1>2. CASE S # {}
  <2>1. \E i \in S : \A j \in S : i <= j
    BY <1>2, LeastLine
  <2>2. First(S) \in S /\ \A k \in S : First(S) <= k
    BY <1>2, <2>1 DEF First
  <2> QED BY <1>2, <2>2
<1> QED BY <1>1, <1>2

-----------------------------------------------------------------------------
\* Ranges of lines.

LEMMA TakeFacts ==
  ASSUME NEW S, NEW ls \in Seq(S), NEW n \in Nat
  PROVE  /\ Take(ls, n) \in Seq(S)
         /\ Len(Take(ls, n)) = Smaller(n, Len(ls))
         /\ \A i \in 1 .. Smaller(n, Len(ls)) : Take(ls, n)[i] = ls[i]
<1>1. Smaller(n, Len(ls)) \in 0 .. Len(ls) /\ Len(ls) \in Nat
  BY LenProperties DEF Smaller
<1>2. \A i \in 1 .. Smaller(n, Len(ls)) : ls[i] \in S
  BY <1>1, ElementOfSeq
<1> QED BY <1>1, <1>2, SubSeqProperties DEF Take

LEMMA DropFacts ==
  ASSUME NEW S, NEW ls \in Seq(S), NEW n \in Nat
  PROVE  /\ Drop(ls, n) \in Seq(S)
         /\ Len(Drop(ls, n)) = IF n <= Len(ls) THEN Len(ls) - n ELSE 0
         /\ \A i \in 1 .. (Len(ls) - n) : Drop(ls, n)[i] = ls[n + i]
<1>1. Len(ls) \in Nat
  BY LenProperties
<1>2. \A i \in n + 1 .. Len(ls) : ls[i] \in S
  BY <1>1, ElementOfSeq
<1>3. /\ SubSeq(ls, n + 1, Len(ls)) \in Seq(S)
      /\ Len(SubSeq(ls, n + 1, Len(ls))) =
           IF n + 1 <= Len(ls) THEN Len(ls) - (n + 1) + 1 ELSE 0
      /\ \A i \in 1 .. Len(ls) - (n + 1) + 1 :
           SubSeq(ls, n + 1, Len(ls))[i] = ls[n + 1 + i - 1]
  BY <1>1, <1>2, SubSeqProperties
<1>4. Len(ls) - (n + 1) + 1 = Len(ls) - n /\ \A i \in Int : n + 1 + i - 1 = n + i
  BY <1>1
<1> QED BY <1>1, <1>3, <1>4 DEF Drop

LEMMA SliceType ==
  ASSUME NEW S, NEW ls \in Seq(S), NEW from \in Nat \ {0}, NEW to \in Nat \ {0}
  PROVE  Slice(ls, from, to) \in Seq(S)
<1>1. from - 1 \in Nat /\ to - 1 \in Nat
  OBVIOUS
<1>2. Take(ls, to - 1) \in Seq(S)
  BY <1>1, TakeFacts
<1> QED BY <1>1, <1>2, DropFacts DEF Slice

\* What a splice leaves of a text: the lines before the range keep their
\* places, those behind it shift.
LEMMA SpliceFacts ==
  ASSUME NEW S, NEW ls \in Seq(S), NEW new \in Seq(S),
         NEW from \in Nat \ {0}, NEW to \in Nat \ {0}, from <= to
  PROVE  /\ Splice(ls, from, to, new) \in Seq(S)
         /\ \A i \in 1 .. Len(ls) :
              /\ i < from => /\ i \in 1 .. Len(Splice(ls, from, to, new))
                             /\ Splice(ls, from, to, new)[i] = ls[i]
              /\ to <= i =>
                   LET j == i - (to - from) + Len(new)
                   IN  /\ j \in 1 .. Len(Splice(ls, from, to, new))
                       /\ Splice(ls, from, to, new)[j] = ls[i]
         /\ to <= Len(ls) + 1 =>
              Len(Splice(ls, from, to, new)) = Len(ls) - (to - from) + Len(new)
         /\ from <= Len(ls) + 1 =>
              \A k \in 1 .. Len(new) :
                /\ from - 1 + k \in 1 .. Len(Splice(ls, from, to, new))
                /\ Splice(ls, from, to, new)[from - 1 + k] = new[k]
<1> DEFINE a == Take(ls, from - 1)
           c == Drop(ls, to - 1)
           r == Splice(ls, from, to, new)
<1>1. Len(ls) \in Nat /\ Len(new) \in Nat /\ from - 1 \in Nat /\ to - 1 \in Nat
  BY LenProperties
<1>2. /\ a \in Seq(S) /\ Len(a) = Smaller(from - 1, Len(ls))
      /\ \A i \in 1 .. Smaller(from - 1, Len(ls)) : a[i] = ls[i]
  BY <1>1, TakeFacts
<1>3. /\ c \in Seq(S) /\ Len(c) = IF to - 1 <= Len(ls) THEN Len(ls) - (to - 1) ELSE 0
      /\ \A i \in 1 .. (Len(ls) - (to - 1)) : c[i] = ls[(to - 1) + i]
  BY <1>1, DropFacts
<1>4. /\ a \o new \in Seq(S) /\ Len(a \o new) = Len(a) + Len(new)
      /\ \A i \in 1 .. Len(a) + Len(new) :
           (a \o new)[i] = IF i <= Len(a) THEN a[i] ELSE new[i - Len(a)]
  <2> HIDE DEF a
  <2> QED BY <1>2, ConcatProperties
<1>5. /\ r \in Seq(S) /\ Len(r) = Len(a) + Len(new) + Len(c)
      /\ \A i \in 1 .. Len(a) + Len(new) + Len(c) :
           r[i] = IF i <= Len(a) + Len(new) THEN (a \o new)[i]
                  ELSE c[i - (Len(a) + Len(new))]
  <2>1. r = (a \o new) \o c
    BY DEF Splice
  <2>2. c \in Seq(S) /\ a \o new \in Seq(S)
    BY <1>3, <1>4
  <2> HIDE DEF a, c, r
  <2>3. /\ (a \o new) \o c \in Seq(S)
        /\ Len((a \o new) \o c) = Len(a \o new) + Len(c)
        /\ \A i \in 1 .. Len(a \o new) + Len(c) :
             ((a \o new) \o c)[i] = IF i <= Len(a \o new) THEN (a \o new)[i]
                                    ELSE c[i - Len(a \o new)]
    BY <2>2, ConcatProperties
  <2> QED BY <2>1, <2>3, <1>4
<1> HIDE DEF a, c, r
<1>6. Smaller(from - 1, Len(ls)) = IF from - 1 <= Len(ls) THEN from - 1 ELSE Len(ls)
  BY DEF Smaller
<1>7. Len(a) \in Nat /\ Len(c) \in Nat
  BY <1>1, <1>2, <1>3, <1>6
<1>8. ASSUME NEW i \in 1 .. Len(ls), i < from
      PROVE  i \in 1 .. Len(r) /\ r[i] = ls[i]
  <2>1. i \in 1 .. Len(a)
    BY <1>1, <1>2, <1>6, <1>8
  <2>2. (a \o new)[i] = ls[i]
    BY <2>1, <1>1, <1>2, <1>4, <1>7
  <2>3. i \in 1 .. Len(a) + Len(new) + Len(c) /\ i <= Len(a) + Len(new)
    BY <2>1, <1>1, <1>7
  <2> QED BY <2>2, <2>3, <1>5
<1>9. ASSUME NEW i \in 1 .. Len(ls), to <= i
      PROVE  LET j == i - (to - from) + Len(new)
             IN  j \in 1 .. Len(r) /\ r[j] = ls[i]
  <2> DEFINE j == i - (to - from) + Len(new)
             k == i - (to - 1)
  <2>1. Len(a) = from - 1 /\ Len(c) = Len(ls) - (to - 1)
    BY <1>1, <1>2, <1>3, <1>6, <1>9
  <2>2. /\ k \in 1 .. Len(ls) - (to - 1) /\ (to - 1) + k = i
        /\ j = Len(a) + Len(new) + k
    BY <1>1, <1>9, <2>1
  <2>3. c[k] = ls[i]
    BY <2>2, <1>3
  <2>4. /\ j \in 1 .. Len(a) + Len(new) + Len(c)
        /\ ~(j <= Len(a) + Len(new)) /\ j - (Len(a) + Len(new)) = k
    BY <2>1, <2>2, <1>1, <1>7
  <2> QED BY <2>3, <2>4, <1>5
<1>10. to <= Len(ls) + 1 => Len(r) = Len(ls) - (to - from) + Len(new)
  BY <1>1, <1>2, <1>3, <1>5, <1>6
<1>11. ASSUME from <= Len(ls) + 1, NEW k \in 1 .. Len(new)
       PROVE  from - 1 + k \in 1 .. Len(r) /\ r[from - 1 + k] = new[k]
  <2>1. Len(a) = from - 1
    BY <1>1, <1>2, <1>6, <1>11
  <2>2. /\ from - 1 + k \in 1 .. Len(a) + Len(new) + Len(c)
        /\ from - 1 + k \in 1 .. Len(a) + Len(new)
        /\ ~(from - 1 + k <= Len(a)) /\ from - 1 + k - Len(a) = k
        /\ from - 1 + k <= Len(a) + Len(new)
    BY <2>1, <1>1, <1>7
  <2>3. (a \o new)[from - 1 + k] = new[k]
    <3> DEFINE i == from - 1 + k
    <3>1. i \in 1 .. Len(a) + Len(new) /\ ~(i <= Len(a)) /\ i - Len(a) = k
      BY <2>2
    <3> HIDE DEF i
    <3>2. (a \o new)[i] = IF i <= Len(a) THEN a[i] ELSE new[i - Len(a)]
      BY <3>1, <1>4
    <3> QED BY <3>1, <3>2 DEF i
  <2> QED BY <2>2, <2>3, <1>5
<1> QED BY <1>5, <1>8, <1>9, <1>10, <1>11 DEF r

\* A line put in before line w.
LEMMA InsertFacts ==
  ASSUME NEW ls \in Seq(Line), NEW w \in Nat \ {0}, w <= Len(ls) + 1,
         NEW b \in Line
  PROVE  LET new == Splice(ls, w, w, <<b>>)
         IN  /\ new \in Seq(Line) /\ Len(new) = Len(ls) + 1 /\ new[w] = b
             /\ \A i \in 1 .. Len(ls) :
                  /\ i < w  => new[i] = ls[i]
                  /\ w <= i => new[i + 1] = ls[i]
<1> DEFINE n == w - 1
           a == Take(ls, n)
           one == <<b>>
           ab == a \o one
           c == Drop(ls, n)
           new == Splice(ls, w, w, one)
<1>1. n \in Nat /\ n + 1 = w /\ n <= Len(ls) /\ Len(ls) \in Nat
  BY LenProperties
<1>2. new = ab \o c
  BY DEF Splice
<1>3. one \in Seq(Line) /\ Len(one) = 1 /\ one[1] = b
  OBVIOUS
<1> HIDE DEF n, one, new
<1>4. /\ a \in Seq(Line) /\ Len(a) = n /\ \A i \in 1 .. n : a[i] = ls[i]
  BY <1>1, TakeFacts DEF Smaller
<1>5. /\ c \in Seq(Line) /\ Len(c) = Len(ls) - n
      /\ \A i \in 1 .. (Len(ls) - n) : c[i] = ls[n + i]
  BY <1>1, DropFacts
<1> HIDE DEF a, c
<1>6. /\ ab \in Seq(Line) /\ Len(ab) = Len(a) + Len(one)
      /\ \A i \in 1 .. Len(a) + Len(one) :
           ab[i] = IF i <= Len(a) THEN a[i] ELSE one[i - Len(a)]
  BY <1>3, <1>4, ConcatProperties
<1>7. Len(ab) = w /\ ab[w] = b /\ \A i \in 1 .. n : ab[i] = ls[i]
  <2>1. w \in 1 .. Len(a) + Len(one) /\ ~(w <= Len(a)) /\ w - Len(a) = 1
    BY <1>1, <1>3, <1>4
  <2>2. \A i \in 1 .. n : i \in 1 .. Len(a) + Len(one) /\ i <= Len(a)
    BY <1>1, <1>3, <1>4
  <2>3. Len(ab) = w
    BY <1>1, <1>3, <1>4, <1>6
  <2> HIDE DEF ab
  <2> QED BY <1>3, <1>4, <1>6, <2>1, <2>2, <2>3
<1> HIDE DEF ab
<1>8. /\ new \in Seq(Line) /\ Len(new) = Len(ab) + Len(c)
      /\ \A i \in 1 .. Len(ab) + Len(c) :
           new[i] = IF i <= Len(ab) THEN ab[i] ELSE c[i - Len(ab)]
  BY <1>2, <1>5, <1>6, ConcatProperties
<1>9. Len(ab) + Len(c) = Len(ls) + 1
  <2>1. Len(c) = Len(ls) - n /\ Len(ab) = w
    BY <1>5, <1>7
  <2> QED BY <1>1, <2>1
<1>10. new[w] = b
  <2>1. w \in 1 .. Len(ab) + Len(c) /\ w <= Len(ab)
    BY <1>1, <1>7, <1>9
  <2> QED BY <1>7, <1>8, <2>1
<1>11. ASSUME NEW i \in 1 .. Len(ls), i < w PROVE new[i] = ls[i]
  <2>1. i \in 1 .. n /\ i \in 1 .. Len(ab) + Len(c) /\ i <= Len(ab)
    BY <1>1, <1>7, <1>9, <1>11
  <2> QED BY <1>7, <1>8, <2>1
<1>12. ASSUME NEW i \in 1 .. Len(ls), w <= i PROVE new[i + 1] = ls[i]
  <2> DEFINE k == i + 1 - w
  <2>1. /\ i + 1 \in 1 .. Len(ab) + Len(c) /\ ~(i + 1 <= Len(ab))
        /\ i + 1 - Len(ab) = k /\ k \in 1 .. Len(ls) - n /\ n + k = i
    BY <1>1, <1>7, <1>9, <1>12
  <2> HIDE DEF k
  <2> QED BY <1>5, <1>8, <2>1
<1>13. Len(new) = Len(ls) + 1
  BY <1>8, <1>9
<1> QED BY <1>8, <1>10, <1>11, <1>12, <1>13 DEF new, one

-----------------------------------------------------------------------------
\* What the parser and the searches find.

\* A section as ids are resolved to: its extent holds its heading.
Extent == {s \in [start : Nat \ {0}, end : Nat \ {0}, level : Nat, name : Name,
                  tag : Name \cup {NoName}] : s.start < s.end}

LEMMA LineOK ==
  ASSUME NEW ls \in Seq(Line), NEW i \in DOMAIN ls
  PROVE  /\ ls[i] \in Line
         /\ ls[i].level \in Nat
         /\ ls[i].name \in Name
         /\ ls[i].tag \in Name \cup {NoName}
<1>1. ls[i] \in Line
  BY LenProperties, ElementOfSeq
<1> QED BY <1>1 DEF Line

LEMMA ParseFacts ==
  ASSUME NEW ls \in Seq(Line)
  PROVE  /\ Parse(ls) \subseteq Extent
         /\ \A s \in Parse(ls) :
              /\ s.start \in 1 .. Len(ls) /\ s.end <= Len(ls) + 1
              /\ ls[s.start].kind = "head" /\ ls[s.start].level = s.level
              /\ ls[s.start].name = s.name /\ ls[s.start].tag = s.tag
<1>1. Len(ls) \in Nat /\ DOMAIN ls = 1 .. Len(ls)
  BY LenProperties
<1>2. SUFFICES ASSUME NEW i \in Heads(ls)
               PROVE  LET s == Section(ls, i)
                      IN  /\ s \in Extent
                          /\ s.start \in 1 .. Len(ls) /\ s.end <= Len(ls) + 1
                          /\ ls[s.start].kind = "head"
                          /\ ls[s.start].level = s.level
                          /\ ls[s.start].name = s.name
                          /\ ls[s.start].tag = s.tag
  BY DEF Parse
<1>3. i \in 1 .. Len(ls) /\ ls[i].kind = "head"
  BY <1>1 DEF Heads
<1>4. EndOf(ls, i) \in Nat \ {0} /\ i < EndOf(ls, i) /\ EndOf(ls, i) <= Len(ls) + 1
  <2> DEFINE after == {j \in Heads(ls) : j > i /\ ls[j].level <= ls[i].level}
  <2>1. \A j \in after : j \in Nat \ {0} /\ i < j /\ j <= Len(ls)
    BY <1>1, <1>3 DEF Heads
  <2>2. EndOf(ls, i) = IF after = {} THEN Len(ls) + 1 ELSE First(after)
    BY DEF EndOf
  <2> HIDE DEF after
  <2>3. CASE after = {}
    BY <2>2, <2>3, <1>1, <1>3
  <2>4. CASE after # {}
    <3>1. after \in SUBSET Nat
      BY <2>1
    <3>2. First(after) \in after
      BY <3>1, <2>4, FirstFacts
    <3> QED BY <3>2, <2>1, <2>2, <2>4, <1>1
  <2> QED BY <2>3, <2>4
<1>5. /\ ls[i].level \in Nat /\ ls[i].name \in Name
      /\ ls[i].tag \in Name \cup {NoName}
  BY <1>1, <1>3, LineOK
<1> QED BY <1>3, <1>4, <1>5 DEF Section, Extent

LEMMA NotASection == NoSection \notin Extent
BY DEF NoSection, Extent

\* An id is looked up with success exactly if a section is called so.
Called(found, id) == {s \in found : id \in {s.name, s.tag} \ {NoName}}

LEMMA LookupFacts ==
  ASSUME NEW ls \in Seq(Line), NEW id
  PROVE  /\ Lookup(Parse(ls), id) \in Parse(ls) \cup {NoSection}
         /\ Called(Parse(ls), id) # {} => Lookup(Parse(ls), id) \in Called(Parse(ls), id)
         /\ Lookup(Parse(ls), id) = NoSection <=> Called(Parse(ls), id) = {}
<1> DEFINE C == Called(Parse(ls), id)
           tagged == {s \in Parse(ls) : s.tag = id}
           named  == {s \in Parse(ls) : s.name = id}
           D == IF tagged # {} THEN tagged ELSE named
           P == {s.start : s \in D}
<1>1. C \subseteq Parse(ls)
  BY DEF Called
<1>2. /\ C = IF id = NoName THEN {} ELSE tagged \cup named
      /\ Lookup(Parse(ls), id) = IF C = {} THEN NoSection ELSE Last(D)
      /\ C # {} => D # {} /\ D \subseteq C
  BY DEF Lookup, Called
<1>3. Len(ls) \in Nat
  BY LenProperties
<1> HIDE DEF C, D
<1>4. ASSUME C # {}
      PROVE  Lookup(Parse(ls), id) \in C
  <2>1. \A s \in D : s.start \in 0 .. Len(ls)
    BY <1>1, <1>2, <1>3, <1>4, ParseFacts
  <2>2. P \in SUBSET (0 .. Len(ls)) /\ P # {}
    BY <1>2, <1>4, <2>1
  <2>3. PICK m \in P : \A k \in P : k <= m
    BY <2>2, <1>3, LastLine
  <2>4. \E s \in D : \A r \in D : r.start <= s.start
    BY <2>3
  <2>5. Last(D) \in D
    BY <2>4 DEF Last
  <2> QED BY <1>2, <1>4, <2>5
<1>5. NoSection \notin C
  BY <1>1, ParseFacts, NotASection
<1> QED BY <1>1, <1>2, <1>4, <1>5 DEF C

\* Provisional ids stand for extents; others for sections of the text parsed.
ProvOK == \A k \in DOMAIN prov : prov[k] \in Extent

LEMMA ResolveFacts ==
  ASSUME ProvOK, NEW ls \in Seq(Line), NEW id
  PROVE  /\ ResolveIn(Parse(ls), id) \in Extent \cup {NoSection}
         /\ id \notin Key => ResolveIn(Parse(ls), id) \in Parse(ls) \cup {NoSection}
<1>1. Lookup(Parse(ls), id) \in Parse(ls) \cup {NoSection}
  BY LookupFacts
<1>2. Parse(ls) \subseteq Extent
  BY ParseFacts
<1> QED BY <1>1, <1>2 DEF ResolveIn, ProvOK

\* A range a search looks through.
Ranged(r) == r.start \in Nat \ {0} /\ r.end \in Nat

LEMMA ScopeFacts ==
  ASSUME ProvOK, NEW ls \in Seq(Line), NEW new \in Seq(Line), NEW id
  PROVE  Ranged(Scope(new, Parse(ls), id))
<1>1. ResolveIn(Parse(ls), id) \in Extent \cup {NoSection}
  BY ResolveFacts
<1>2. Len(new) \in Nat
  BY LenProperties
<1> QED BY <1>1, <1>2 DEF Scope, Ranged, Extent

LEMMA HitsFacts ==
  ASSUME NEW ls \in Seq(Line), NEW scope, Ranged(scope), NEW target
  PROVE  /\ Hits(ls, scope, target) \in SUBSET Nat
         /\ \A i \in Hits(ls, scope, target) :
              i \in 1 .. Len(ls) /\ scope.start <= i /\ i < scope.end
BY LenProperties DEF Hits, Ranged

LEMMA FindFacts ==
  ASSUME NEW ls \in Seq(Line), NEW scope, Ranged(scope), NEW target
  PROVE  LET i == Find(ls, scope, target)
         IN  /\ i \in Nat
             /\ i # 0 => i \in 1 .. Len(ls) /\ scope.start <= i /\ i < scope.end
<1> DEFINE H == Hits(ls, scope, target)
<1>1. H \in SUBSET Nat /\ \A i \in H : i \in 1 .. Len(ls) /\ scope.start <= i /\ i < scope.end
  BY HitsFacts
<1> HIDE DEF H
<1>2. First(H) \in Nat /\ (First(H) # 0 => First(H) \in H)
  BY <1>1, FirstFacts
<1> QED BY <1>1, <1>2 DEF Find, H

LEMMA FindBlockFacts ==
  ASSUME NEW ls \in Seq(Line), NEW scope, Ranged(scope), NEW target
  PROVE  LET b == FindBlock(ls, scope, target)
         IN  b[1] # 0 => /\ b[1] \in 1 .. Len(ls) /\ b[2] \in 1 .. Len(ls)
                         /\ b[1] <= b[2] /\ scope.start <= b[1] /\ b[2] < scope.end
<1> DEFINE begins == Hits(ls, scope, target)
           ends   == {e \in Hits(ls, scope, EndOfBlock(target)) :
                        \E b \in begins : b < e}
           last   == First(ends)
           opens  == {b \in begins : b < last}
           f      == FindBlock(ls, scope, target)
<1>1. CASE target.kind # "block"
  <2>1. f = <<Find(ls, scope, target), Find(ls, scope, target)>>
    BY <1>1 DEF FindBlock
  <2> QED BY <2>1, FindFacts
<1>2. CASE target.kind = "block" /\ ends = {}
  BY <1>2 DEF FindBlock
<1>3. CASE target.kind = "block" /\ ends # {}
  <2>1. f = <<CHOOSE b \in opens : \A c \in opens : c <= b, last>>
    BY <1>3 DEF FindBlock
  <2>2. \A i \in begins : i \in 1 .. Len(ls) /\ scope.start <= i /\ i < scope.end
    BY HitsFacts
  <2>3. \A e \in ends : /\ e \in 1 .. Len(ls) /\ scope.start <= e /\ e < scope.end
                        /\ \E b \in begins : b < e
    BY HitsFacts
  <2>4. Len(ls) \in Nat
    BY LenProperties
  <2> HIDE DEF begins, ends, f
  <2>5. last \in ends
    <3>1. ends \in SUBSET Nat
      BY <2>3
    <3> QED BY <3>1, <1>3, FirstFacts
  <2> HIDE DEF last
  <2>6. opens \in SUBSET (0 .. Len(ls)) /\ opens # {}
    BY <2>2, <2>3, <2>4, <2>5
  <2>7. \E b \in opens : \A c \in opens : c <= b
    BY <2>4, <2>6, LastLine
  <2> DEFINE b1 == CHOOSE b \in opens : \A c \in opens : c <= b
  <2>8. b1 \in opens
    BY <2>7
  <2>9. b1 \in begins /\ b1 < last
    BY <2>8
  <2>10. f[1] = b1 /\ f[2] = last
    BY <2>1
  <2> HIDE DEF b1
  <2>11. /\ f[1] \in 1 .. Len(ls) /\ f[2] \in 1 .. Len(ls) /\ f[1] <= f[2]
         /\ scope.start <= f[1] /\ f[2] < scope.end
    BY <2>2, <2>3, <2>4, <2>5, <2>9, <2>10
  <2> QED BY <2>11 DEF f
<1> QED BY <1>1, <1>2, <1>3

LEMMA IntroFacts ==
  ASSUME NEW ls \in Seq(Line), NEW s \in Extent
  PROVE  LET e == IntroEnd(Parse(ls), s)
         IN  e \in Nat \ {0} /\ s.start < e /\ e <= s.end
<1> DEFINE subs == {r \in Parse(ls) : /\ s.start < r.start /\ r.start < s.end
                                     /\ r.level > s.level}
           P    == {r.start : r \in subs}
<1>1. s.start \in Nat \ {0} /\ s.end \in Nat \ {0} /\ s.start < s.end
  BY DEF Extent
<1>2. IntroEnd(Parse(ls), s) = IF subs = {} THEN s.end ELSE First(P)
  BY DEF IntroEnd
<1>3. \A r \in subs : r.start \in Nat \ {0} /\ s.start < r.start /\ r.start < s.end
  BY ParseFacts DEF Extent
<1> HIDE DEF subs
<1>4. CASE subs = {}
  BY <1>1, <1>2, <1>4
<1>5. CASE subs # {}
  <2>1. P \in SUBSET Nat /\ P # {}
    BY <1>3, <1>5
  <2>2. First(P) \in P
    BY <2>1, FirstFacts
  <2>3. First(P) \in Nat \ {0} /\ s.start < First(P) /\ First(P) < s.end
    BY <2>2, <1>3
  <2> QED BY <2>3, <1>1, <1>2, <1>5
<1> QED BY <1>4, <1>5

-----------------------------------------------------------------------------
\* The inductive invariant: the types, the extents provisional ids stand
\* for, a fresh table between operations, and the markers in progress, whose
\* operation is begun and neither applied nor skipped.

InProgress == [marks : Seq(Marks), sec : Extent \cup {NoSection},
               scope : [start : Nat \ {0}, end : Nat], off : Nat]

MarkingOK ==
  marking # Idle =>
    /\ marking \in InProgress
    /\ status = "applying" /\ ~halted
    /\ edits # <<>> /\ Len(edits) \notin skipped

DocInv == TypeOK /\ ProvOK /\ IndexFresh /\ MarkingOK

LEMMA NotIdle == \A m \in InProgress : m # Idle
<1> SUFFICES ASSUME NEW m \in InProgress, m = Idle PROVE FALSE
  OBVIOUS
<1>1. "sec" \in DOMAIN m
  BY DEF InProgress
<1>2. "sec" \notin DOMAIN Idle
  BY DEF Idle
<1> QED BY <1>1, <1>2

\* What every operation but an injection does: its index is settled, and the
\* document is left alone or replaced together with its parse.
Outcome ==
  \/ Applied
  \/ Failed
  \/ status' = "blocked" /\ UNCHANGED <<applied, skipped, halted>>
  \/ Crashed
  \/ /\ halted' = TRUE
     /\ skipped' = skipped \cup {Len(edits')}
     /\ UNCHANGED <<applied, status>>
Runs(op)  == Begin(op) /\ Rest /\ Outcome
Renews    == KeepDoc \/ \E ls \in Seq(Line) : Put(ls) /\ ProvOK'
                                            /\ DOMAIN prov' \subseteq Key

LEMMA PutRenews ==
  ASSUME ProvOK, DOMAIN prov \subseteq Key, NEW ls \in Seq(Line), Put(ls),
         UNCHANGED prov
  PROVE  Renews
BY DEF Renews, ProvOK

\* What a table says of the text it is fresh for.
LEMMA Fresh ==
  ASSUME DocInv, Running
  PROVE  /\ sections = Parse(lines) /\ lines \in Seq(Line)
         /\ \A id : Resolve(id) = ResolveIn(Parse(lines), id)
         /\ \A id : Resolve(id) \in Extent \cup {NoSection}
         /\ \A id : Ranged(Scope(lines, sections, id))
<1>1. sections = Parse(lines) /\ lines \in Seq(Line) /\ ProvOK
  BY DEF DocInv, Running, IndexFresh, TypeOK
<1> QED BY <1>1, ResolveFacts, ScopeFacts DEF Resolve

LEMMA ExtentFacts ==
  ASSUME NEW s \in Extent \cup {NoSection}, s # NoSection
  PROVE  /\ s \in Extent
         /\ s.start \in Nat \ {0} /\ s.end \in Nat \ {0} /\ s.start < s.end
         /\ s.level \in Nat /\ s.name \in Name /\ s.tag \in Name \cup {NoName}
BY DEF Extent

LEMMA SpliceType ==
  ASSUME NEW ls \in Seq(Line), NEW new \in Seq(Line),
         NEW from \in Nat \ {0}, NEW to \in Nat \ {0}
  PROVE  Splice(ls, from, to, new) \in Seq(Line)
<1>1. from - 1 \in Nat /\ to - 1 \in Nat
  OBVIOUS
<1>2. Take(ls, from - 1) \in Seq(Line) /\ Drop(ls, to - 1) \in Seq(Line)
  BY <1>1, TakeFacts, DropFacts
<1> QED BY <1>2, ConcatProperties DEF Splice

LEMMA RemoveType ==
  ASSUME NEW ls \in Seq(Line), NEW s \in Extent
  PROVE  Remove(ls, s) \in Seq(Line) /\ Extract(ls, s) \in Seq(Line)
<1>1. s.start \in Nat \ {0} /\ s.end \in Nat \ {0} /\ <<>> \in Seq(Line)
  BY DEF Extent
<1> QED BY <1>1, SpliceType, SliceType DEF Remove, Extract

LEMMA AssertRuns ==
  ASSUME DocInv, Assert
  PROVE  \E op \in Edits : Runs(op) /\ Renews
BY DEF Assert, EditsOf, Runs, Outcome, Renews

LEMMA MoveSectionRuns ==
  ASSUME DocInv, MoveSection
  PROVE  \E op \in Edits : Runs(op) /\ Renews
<1> PICK op \in EditsOf("move_section") : MoveSection!(op)
  BY DEF MoveSection
<1> DEFINE s == Resolve(op.sec)
           rest == Remove(lines, s)
           t == ResolveIn(Parse(rest), op.to)
<1>1. op \in Edits /\ Runs(op) /\ UNCHANGED prov
  BY DEF EditsOf, Runs, Outcome
<1>2. /\ lines \in Seq(Line) /\ ProvOK /\ DOMAIN prov \subseteq Key
      /\ s \in Extent \cup {NoSection}
  BY Fresh DEF Begin, DocInv, TypeOK
<1>3. CASE KeepDoc
  BY <1>1, <1>3 DEF Renews
<1>4. CASE ~KeepDoc
  <2>1. s \in Extent
    BY <1>2, <1>4
  <2>2. rest \in Seq(Line) /\ Extract(lines, s) \in Seq(Line)
    BY <1>2, <2>1, RemoveType
  <2>3. t \in Extent \cup {NoSection}
    BY <1>2, <2>2, ResolveFacts
  <2>4. CASE Put(rest)
    BY <1>1, <1>2, <2>2, <2>4, PutRenews
  <2>5. CASE t # NoSection /\ Put(Splice(rest, t.end, t.end, Extract(lines, s)))
    <3>1. t.end \in Nat \ {0}
      BY <2>3, <2>5, ExtentFacts
    <3>2. Splice(rest, t.end, t.end, Extract(lines, s)) \in Seq(Line)
      BY <2>2, <3>1, SpliceType
    <3> QED BY <1>1, <1>2, <2>5, <3>2, PutRenews
  <2> QED BY <1>4, <2>4, <2>5
<1> QED BY <1>3, <1>4

LEMMA SwapSectionsRuns ==
  ASSUME DocInv, SwapSections
  PROVE  \E op \in Edits : Runs(op) /\ Renews
<1> PICK op \in EditsOf("swap_sections") : SwapSections!(op)
  BY DEF SwapSections
<1> DEFINE p == Resolve(op.sec)
           q == Resolve(op.to)
           a == IF p.start > q.start THEN q ELSE p
           b == IF p.start > q.start THEN p ELSE q
           swapped == Take(lines, a.start - 1) \o Extract(lines, b)
                        \o Slice(lines, a.end, b.start) \o Extract(lines, a)
                        \o Drop(lines, b.end - 1)
<1>1. op \in Edits /\ Runs(op) /\ UNCHANGED prov
  BY DEF EditsOf, Runs, Outcome
<1>2. /\ lines \in Seq(Line) /\ ProvOK /\ DOMAIN prov \subseteq Key
      /\ p \in Extent \cup {NoSection} /\ q \in Extent \cup {NoSection}
  BY Fresh DEF Begin, DocInv, TypeOK
<1>3. CASE KeepDoc
  BY <1>1, <1>3 DEF Renews
<1>4. CASE ~KeepDoc
  <2>1. p \in Extent /\ q \in Extent /\ Put(swapped)
    BY <1>2, <1>4
  <2>2. a \in Extent /\ b \in Extent
    BY <2>1
  <2>3. /\ a.start \in Nat \ {0} /\ a.end \in Nat \ {0}
        /\ b.start \in Nat \ {0} /\ b.end \in Nat \ {0}
    BY <2>2 DEF Extent
  <2>4. a.start - 1 \in Nat /\ b.end - 1 \in Nat
    BY <2>3
  <2> HIDE DEF a, b
  <2>5. /\ Take(lines, a.start - 1) \in Seq(Line) /\ Extract(lines, b) \in Seq(Line)
        /\ Slice(lines, a.end, b.start) \in Seq(Line)
        /\ Extract(lines, a) \in Seq(Line) /\ Drop(lines, b.end - 1) \in Seq(Line)
    BY <1>2, <2>2, <2>3, <2>4, TakeFacts, DropFacts, SliceType, RemoveType
  <2>6. swapped \in Seq(Line)
    BY <2>5
  <2> QED BY <1>1, <1>2, <2>1, <2>6, PutRenews
<1> QED BY <1>3, <1>4

LEMMA CombineRuns ==
  ASSUME DocInv, Combine
  PROVE  \E op \in Edits : Runs(op) /\ Renews
<1> PICK op \in EditsOf("merge_sections") \cup EditsOf("absorb_section") :
      Combine!(op)
  BY DEF Combine
<1> DEFINE s == Resolve(op.sec)
           rest == Remove(lines, s)
           t == ResolveIn(Parse(rest), op.to)
           place == Place(op, Parse(rest), t)
<1>1. op \in Edits /\ Runs(op) /\ UNCHANGED prov
  BY DEF EditsOf, Runs, Outcome
<1>2. /\ lines \in Seq(Line) /\ ProvOK /\ DOMAIN prov \subseteq Key
      /\ s \in Extent \cup {NoSection}
  BY Fresh DEF Begin, DocInv, TypeOK
<1>3. CASE KeepDoc
  BY <1>1, <1>3 DEF Renews
<1>4. CASE ~KeepDoc
  <2>1. s \in Extent
    BY <1>2, <1>4
  <2>2. rest \in Seq(Line) /\ Extract(lines, s) \in Seq(Line)
    BY <1>2, <2>1, RemoveType
  <2>3. t \in Extent \cup {NoSection}
    BY <1>2, <2>2, ResolveFacts
  <2>4. CASE Put(rest)
    BY <1>1, <1>2, <2>2, <2>4, PutRenews
  <2>5. CASE t # NoSection /\ Put(Splice(rest, place, place, Drop(Extract(lines, s), 1)))
    <3>1. t \in Extent /\ t.start \in Nat \ {0} /\ t.end \in Nat \ {0}
      BY <2>3, <2>5, ExtentFacts
    <3>2. IntroEnd(Parse(rest), t) \in Nat \ {0}
      BY <2>2, <3>1, IntroFacts
    <3>3. place \in Nat \ {0}
      BY <3>1, <3>2 DEF Place
    <3>4. Drop(Extract(lines, s), 1) \in Seq(Line)
      BY <2>2, DropFacts
    <3>5. Splice(rest, place, place, Drop(Extract(lines, s), 1)) \in Seq(Line)
      BY <2>2, <3>3, <3>4, SpliceType
    <3> QED BY <1>1, <1>2, <2>5, <3>5, PutRenews
  <2> QED BY <1>4, <2>4, <2>5
<1> QED BY <1>3, <1>4

LEMMA SplitSectionRuns ==
  ASSUME DocInv, SplitSection
  PROVE  \E op \in Edits : Runs(op) /\ Renews
<1> PICK op \in EditsOf("split_section") : SplitSection!(op)
  BY DEF SplitSection
<1> DEFINE s == Resolve(op.sec)
           found == Find(lines, s, op.find)
           heading == [kind |-> "head", level |-> s.level, name |-> op.new,
                       tag |-> NoName]
           split == Splice(lines, found + 1, found + 1, <<heading>>)
<1>1. op \in Edits /\ Runs(op)
  BY DEF EditsOf, Runs, Outcome
<1>2. /\ lines \in Seq(Line) /\ ProvOK /\ DOMAIN prov \subseteq Key
      /\ s \in Extent \cup {NoSection}
  BY Fresh DEF Begin, DocInv, TypeOK
<1>3. CASE KeepDoc
  BY <1>1, <1>3 DEF Renews
<1>4. CASE ~KeepDoc
  <2>1. /\ s \in Extent /\ found # 0 /\ Put(split)
        /\ prov' = [k \in DOMAIN prov \cup ({op.key} \cap Key) |->
                      IF k = op.key THEN Section(split, found + 1) ELSE prov[k]]
    BY <1>2, <1>4
  <2>2. Ranged(s) /\ s.level \in Nat
    BY <2>1 DEF Extent, Ranged
  <2>3. found \in 1 .. Len(lines) /\ Len(lines) \in Nat
    BY <1>2, <2>1, <2>2, FindFacts, LenProperties
  <2>4. heading \in Line
    BY <2>2, EditAssumption DEF EditsOf, Line
  <2>5. <<heading>> \in Seq(Line) /\ Len(<<heading>>) = 1 /\ <<heading>>[1] = heading
    BY <2>4
  <2>6. split \in Seq(Line)
    <3>1. found + 1 \in Nat \ {0}
      BY <2>3
    <3> HIDE DEF heading, found
    <3> QED BY <1>2, <2>5, <3>1, SpliceType
  <2>7. found + 1 \in Heads(split)
    <3> DEFINE n == found + 1
    <3>1. n \in Nat \ {0} /\ n <= Len(lines) + 1
      BY <2>3
    <3>2. split = Splice(lines, n, n, <<heading>>)
      OBVIOUS
    <3> HIDE DEF n, split, heading
    <3>3. /\ Splice(lines, n, n, <<heading>>)[n] = heading
          /\ Len(Splice(lines, n, n, <<heading>>)) = Len(lines) + 1
      BY <1>2, <2>4, <3>1, InsertFacts
    <3>4. n \in 1 .. Len(lines) + 1
      BY <2>3, <3>1
    <3>5. n \in 1 .. Len(split) /\ split[n] = heading
      BY <3>2, <3>3, <3>4
    <3>6. DOMAIN split = 1 .. Len(split)
      BY <2>6, LenProperties
    <3>7. split[n].kind = "head"
      BY <3>5 DEF heading
    <3> QED BY <3>5, <3>6, <3>7 DEF Heads, n
  <2>8. Section(split, found + 1) \in Extent
    BY <2>6, <2>7, ParseFacts DEF Parse
  <2>9. ProvOK' /\ DOMAIN prov' \subseteq Key
    BY <1>2, <2>1, <2>8 DEF ProvOK
  <2> QED BY <1>1, <2>1, <2>6, <2>9 DEF Renews
<1> QED BY <1>3, <1>4

LEMMA DeleteSectionRuns ==
  ASSUME DocInv, DeleteSection
  PROVE  \E op \in Edits : Runs(op) /\ Renews
<1> PICK op \in EditsOf("delete_section") : DeleteSection!(op)
  BY DEF DeleteSection
<1> DEFINE s == Resolve(op.sec)
<1>1. op \in Edits /\ Runs(op) /\ UNCHANGED prov
  BY DEF EditsOf, Runs, Outcome
<1>2. /\ lines \in Seq(Line) /\ ProvOK /\ DOMAIN prov \subseteq Key
      /\ s \in Extent \cup {NoSection}
  BY Fresh DEF Begin, DocInv, TypeOK
<1>3. CASE KeepDoc
  BY <1>1, <1>3 DEF Renews
<1>4. CASE ~KeepDoc
  <2>1. s \in Extent /\ Put(Remove(lines, s))
    BY <1>2, <1>4
  <2>2. Remove(lines, s) \in Seq(Line)
    BY <1>2, <2>1, RemoveType
  <2> QED BY <1>1, <1>2, <2>1, <2>2, PutRenews
<1> QED BY <1>3, <1>4

LEMMA ReplaceBlockRuns ==
  ASSUME DocInv, ReplaceBlock
  PROVE  \E op \in Edits : Runs(op) /\ Renews
<1> PICK op \in EditsOf("replace_block") : ReplaceBlock!(op)
  BY DEF ReplaceBlock
<1> DEFINE scope == Scope(lines, sections, op.sec)
           block == FindBlock(lines, scope, op.find)
           one   == Find(lines, scope, op.find)
           range == IF block[1] # 0 THEN block ELSE <<one, one>>
<1>1. op \in Edits /\ Runs(op) /\ UNCHANGED prov
  BY DEF EditsOf, Runs, Outcome
<1>2. /\ lines \in Seq(Line) /\ ProvOK /\ DOMAIN prov \subseteq Key
      /\ Ranged(scope) /\ op.new \in Seq(Line)
  BY Fresh, EditAssumption DEF Begin, DocInv, TypeOK, EditsOf
<1>3. CASE KeepDoc
  BY <1>1, <1>3 DEF Renews
<1>4. CASE ~KeepDoc
  <2>1. range[1] # 0 /\ Put(Splice(lines, range[1], range[2] + 1, op.new))
    BY <1>4
  <2> HIDE DEF scope
  <2>2. range[1] \in Nat \ {0} /\ range[2] + 1 \in Nat \ {0}
    <3>1. CASE block[1] # 0
      BY <1>2, <3>1, FindBlockFacts
    <3>2. CASE block[1] = 0
      <4>1. one \in Nat /\ range = <<one, one>>
        BY <1>2, <3>2, FindFacts
      <4> HIDE DEF one, range
      <4> QED BY <2>1, <4>1
    <3> QED BY <3>1, <3>2
  <2> HIDE DEF range
  <2>3. Splice(lines, range[1], range[2] + 1, op.new) \in Seq(Line)
    BY <1>2, <2>2, SpliceType
  <2> QED BY <1>1, <1>2, <2>1, <2>3, PutRenews
<1> QED BY <1>3, <1>4

LEMMA InsertBlockRuns ==
  ASSUME DocInv, InsertBlock
  PROVE  \E op \in Edits : Runs(op) /\ Renews
<1> PICK op \in EditsOf("insert_block") : InsertBlock!(op)
  BY DEF InsertBlock
<1> DEFINE at == Find(lines, Scope(lines, sections, op.sec), op.find)
<1>1. op \in Edits /\ Runs(op) /\ UNCHANGED prov
  BY DEF EditsOf, Runs, Outcome
<1>2. /\ lines \in Seq(Line) /\ ProvOK /\ DOMAIN prov \subseteq Key
      /\ Ranged(Scope(lines, sections, op.sec)) /\ op.new \in Seq(Line)
  BY Fresh, EditAssumption DEF Begin, DocInv, TypeOK, EditsOf
<1>3. CASE KeepDoc
  BY <1>1, <1>3 DEF Renews
<1>4. CASE ~KeepDoc
  <2>1. at # 0 /\ Put(Splice(lines, at + 1, at + 1, op.new))
    BY <1>4
  <2>2. at \in Nat
    BY <1>2, FindFacts
  <2> HIDE DEF at
  <2>3. at + 1 \in Nat \ {0}
    BY <2>2
  <2>4. Splice(lines, at + 1, at + 1, op.new) \in Seq(Line)
    BY <1>2, <2>3, SpliceType
  <2> QED BY <1>1, <1>2, <2>1, <2>4, PutRenews
<1> QED BY <1>3, <1>4

LEMMA MoveBlockRuns ==
  ASSUME DocInv, MoveBlock
  PROVE  \E op \in Edits : Runs(op) /\ Renews
<1> PICK op \in EditsOf("move_block") : MoveBlock!(op)
  BY DEF MoveBlock
<1> DEFINE range == FindBlock(lines, Scope(lines, sections, op.sec), op.find)
           rest  == Splice(lines, range[1], range[2] + 1, <<>>)
           at    == Find(rest, Scope(rest, Parse(rest), op.to), op.after)
           block == Slice(lines, range[1], range[2] + 1)
<1>1. op \in Edits /\ Runs(op) /\ UNCHANGED prov
  BY DEF EditsOf, Runs, Outcome
<1>2. /\ lines \in Seq(Line) /\ ProvOK /\ DOMAIN prov \subseteq Key
      /\ Ranged(Scope(lines, sections, op.sec))
  BY Fresh DEF Begin, DocInv, TypeOK
<1>3. CASE KeepDoc
  BY <1>1, <1>3 DEF Renews
<1>4. CASE ~KeepDoc
  <2>1. range[1] # 0 /\ (Put(rest) \/ Put(Splice(rest, at + 1, at + 1, block)))
    BY <1>4
  <2>2. range[1] \in Nat \ {0} /\ range[2] + 1 \in Nat \ {0} /\ <<>> \in Seq(Line)
    BY <1>2, <2>1, FindBlockFacts
  <2> HIDE DEF range
  <2>3. rest \in Seq(Line) /\ block \in Seq(Line)
    BY <1>2, <2>2, SpliceType, SliceType
  <2> HIDE DEF rest, block
  <2>4. Ranged(Scope(rest, Parse(rest), op.to))
    BY <1>2, <2>3, ScopeFacts
  <2>5. at \in Nat
    BY <2>3, <2>4, FindFacts
  <2> HIDE DEF at
  <2>6. at + 1 \in Nat \ {0}
    BY <2>5
  <2>7. Splice(rest, at + 1, at + 1, block) \in Seq(Line)
    BY <2>3, <2>6, SpliceType
  <2> QED BY <1>1, <1>2, <2>1, <2>3, <2>7, PutRenews
<1> QED BY <1>3, <1>4

LEMMA CopyBlockRuns ==
  ASSUME DocInv, CopyBlock
  PROVE  \E op \in Edits : Runs(op) /\ Renews
<1> PICK op \in EditsOf("copy_block") : CopyBlock!(op)
  BY DEF CopyBlock
<1> DEFINE range == FindBlock(lines, Scope(lines, sections, op.sec), op.find)
           at    == Find(lines, Scope(lines, sections, op.to), op.after)
           block == Slice(lines, range[1], range[2] + 1)
<1>1. op \in Edits /\ Runs(op) /\ UNCHANGED prov
  BY DEF EditsOf, Runs, Outcome
<1>2. /\ lines \in Seq(Line) /\ ProvOK /\ DOMAIN prov \subseteq Key
      /\ Ranged(Scope(lines, sections, op.sec))
      /\ Ranged(Scope(lines, sections, op.to))
  BY Fresh DEF Begin, DocInv, TypeOK
<1>3. CASE KeepDoc
  BY <1>1, <1>3 DEF Renews
<1>4. CASE ~KeepDoc
  <2>1. range[1] # 0 /\ Put(Splice(lines, at + 1, at + 1, block))
    BY <1>4
  <2>2. range[1] \in Nat \ {0} /\ range[2] + 1 \in Nat \ {0} /\ at \in Nat
    BY <1>2, <2>1, FindBlockFacts, FindFacts
  <2> HIDE DEF range, at
  <2>3. block \in Seq(Line)
    BY <1>2, <2>2, SliceType
  <2> HIDE DEF block
  <2>4. at + 1 \in Nat \ {0}
    BY <2>2
  <2>5. Splice(lines, at + 1, at + 1, block) \in Seq(Line)
    BY <1>2, <2>3, <2>4, SpliceType
  <2> QED BY <1>1, <1>2, <2>1, <2>5, PutRenews
<1> QED BY <1>3, <1>4

LEMMA EditTextRuns ==
  ASSUME DocInv, EditText
  PROVE  \E op \in Edits : Runs(op) /\ Renews
<1> PICK op \in EditsOf("edit_text") : EditText!(op)
  BY DEF EditText
<1> DEFINE at == Find(lines, Scope(lines, sections, op.sec), op.find)
<1>1. op \in Edits /\ Runs(op) /\ UNCHANGED prov
  BY DEF EditsOf, Runs, Outcome
<1>2. /\ lines \in Seq(Line) /\ ProvOK /\ DOMAIN prov \subseteq Key
      /\ Ranged(Scope(lines, sections, op.sec)) /\ op.new \in Seq(Line)
  BY Fresh, EditAssumption DEF Begin, DocInv, TypeOK, EditsOf
<1>3. CASE KeepDoc
  BY <1>1, <1>3 DEF Renews
<1>4. CASE ~KeepDoc
  <2>1. at # 0 /\ Put(Splice(lines, at, at + 1, op.new))
    BY <1>4
  <2>2. at \in Nat \ {0} /\ at + 1 \in Nat \ {0}
    BY <1>2, <2>1, FindFacts
  <2>3. Splice(lines, at, at + 1, op.new) \in Seq(Line)
    BY <1>2, <2>2, SpliceType
  <2> QED BY <1>1, <1>2, <2>1, <2>3, PutRenews
<1> QED BY <1>3, <1>4

LEMMA RenameSectionRuns ==
  ASSUME DocInv, RenameSection
  PROVE  \E op \in Edits : Runs(op) /\ Renews
<1> PICK op \in EditsOf("rename_section") : RenameSection!(op)
  BY DEF RenameSection
<1> DEFINE s == Resolve(op.sec)
           heading == [kind |-> "head", level |-> s.level, name |-> op.new,
                       tag |-> s.tag]
<1>1. op \in Edits /\ Runs(op) /\ UNCHANGED prov
  BY DEF EditsOf, Runs, Outcome
<1>2. /\ lines \in Seq(Line) /\ ProvOK /\ DOMAIN prov \subseteq Key
      /\ s \in Extent \cup {NoSection} /\ op.new \in Name
  BY Fresh, EditAssumption DEF Begin, DocInv, TypeOK, EditsOf
<1>3. CASE KeepDoc
  BY <1>1, <1>3 DEF Renews
<1>4. CASE ~KeepDoc
  <2>1. /\ s # NoSection /\ s.start <= Len(lines)
        /\ Put([lines EXCEPT ![s.start] = heading])
    BY <1>4
  <2>2. s.start \in 1 .. Len(lines) /\ heading \in Line
    BY <1>2, <2>1, ExtentFacts, LenProperties DEF Line
  <2>3. [lines EXCEPT ![s.start] = heading] \in Seq(Line)
    BY <1>2, <2>2, ExceptSeq
  <2> QED BY <1>1, <1>2, <2>1, <2>3, PutRenews
<1> QED BY <1>3, <1>4

LEMMA RewriteSectionRuns ==
  ASSUME DocInv, RewriteSection
  PROVE  \E op \in Edits : Runs(op) /\ Renews
<1> PICK op \in EditsOf("rewrite_section") : RewriteSection!(op)
  BY DEF RewriteSection
<1> DEFINE s == Resolve(op.sec)
           e == IntroEnd(sections, s)
<1>1. op \in Edits /\ Runs(op) /\ UNCHANGED prov
  BY DEF EditsOf, Runs, Outcome
<1>2. /\ lines \in Seq(Line) /\ ProvOK /\ DOMAIN prov \subseteq Key
      /\ sections = Parse(lines)
      /\ s \in Extent \cup {NoSection} /\ op.new \in Seq(Line)
  BY Fresh, EditAssumption DEF Begin, DocInv, TypeOK, EditsOf
<1>3. CASE KeepDoc
  BY <1>1, <1>3 DEF Renews
<1>4. CASE ~KeepDoc
  <2>1. s # NoSection /\ Put(Splice(lines, s.start + 1, e, op.new))
    BY <1>4
  <2>2. s \in Extent /\ s.start + 1 \in Nat \ {0}
    BY <1>2, <2>1, ExtentFacts
  <2>3. e \in Nat \ {0}
    BY <1>2, <2>2, IntroFacts
  <2>4. Splice(lines, s.start + 1, e, op.new) \in Seq(Line)
    BY <1>2, <2>2, <2>3, SpliceType
  <2> QED BY <1>1, <1>2, <2>1, <2>4, PutRenews
<1> QED BY <1>3, <1>4

LEMMA UpdateFrontmatterRuns ==
  ASSUME DocInv, UpdateFrontmatter
  PROVE  \E op \in Edits : Runs(op) /\ Renews
<1> PICK op \in EditsOf("update_frontmatter") : UpdateFrontmatter!(op)
  BY DEF UpdateFrontmatter
<1> DEFINE fences == {i \in DOMAIN lines : lines[i] = Fence}
           close  == First(fences \ {1})
           fields == {i \in 2 .. close - 1 : lines[i].kind = "field"}
           first  == First(fields)
<1>1. op \in Edits /\ Runs(op) /\ UNCHANGED prov
  BY DEF EditsOf, Runs, Outcome
<1>2. /\ lines \in Seq(Line) /\ ProvOK /\ DOMAIN prov \subseteq Key
      /\ op.new \in Line
  BY Fresh, EditAssumption DEF Begin, DocInv, TypeOK, EditsOf
<1>3. Fence \in Line
  BY DocAssumption DEF Fence, Line
<1>4. Len(lines) \in Nat /\ DOMAIN lines = 1 .. Len(lines)
  BY <1>2, LenProperties
<1>5. CASE Put(<<Fence, op.new, Fence>> \o lines)
  <2>1. <<Fence, op.new, Fence>> \o lines \in Seq(Line)
    BY <1>2, <1>3
  <2> QED BY <1>1, <1>2, <1>5, <2>1, PutRenews
<1>6. CASE 1 \in fences /\ fences # {1}
  <2>1. fences \ {1} \in SUBSET Nat /\ fences \ {1} # {}
    BY <1>4, <1>6
  <2>2. close \in fences \ {1}
    BY <2>1, FirstFacts
  <2>3. close \in Nat \ {0} /\ close <= Len(lines)
    BY <1>4, <2>2
  <2>4. CASE fields # {} /\ Put([lines EXCEPT ![first] = op.new])
    <3> HIDE DEF close
    <3>1. fields \in SUBSET Nat
      BY <2>3
    <3>2. first \in fields
      BY <2>4, <3>1, FirstFacts
    <3>3. first \in 1 .. Len(lines)
      BY <1>4, <2>3, <3>2
    <3>4. [lines EXCEPT ![first] = op.new] \in Seq(Line)
      BY <1>2, <3>3, ExceptSeq
    <3> QED BY <1>1, <1>2, <2>4, <3>4, PutRenews
  <2>5. CASE Put(Splice(lines, close, close, <<op.new>>))
    <3>1. <<op.new>> \in Seq(Line)
      BY <1>2
    <3>2. Splice(lines, close, close, <<op.new>>) \in Seq(Line)
      BY <1>2, <2>3, <3>1, SpliceType
    <3> QED BY <1>1, <1>2, <2>5, <3>2, PutRenews
  <2> QED BY <1>6, <2>4, <2>5
<1> QED BY <1>5, <1>6

-----------------------------------------------------------------------------
\* The invariant holds throughout.

LEMMA LedgerGrows ==
  ASSUME TypeOK, NEW op \in Edits, Begin(op)
  PROVE  /\ edits' \in Seq(Edits) /\ Len(edits') = Len(edits) + 1
         /\ Len(edits') <= MaxEdits /\ edits' # <<>>
         /\ Len(edits') = Len(edits) + 1 /\ Len(edits) \in Nat
         /\ edits'[Len(edits')] = op
         /\ applied \subseteq DOMAIN edits' /\ skipped \subseteq DOMAIN edits'
         /\ Len(edits') \in DOMAIN edits'
         /\ Len(edits') \notin applied /\ Len(edits') \notin skipped
<1>1. /\ edits \in Seq(Edits) /\ edits' = Append(edits, op) /\ Len(edits) < MaxEdits
      /\ applied \subseteq DOMAIN edits /\ skipped \subseteq DOMAIN edits
  BY DEF TypeOK, Begin
<1>2. Len(edits) \in Nat /\ DOMAIN edits = 1 .. Len(edits)
  BY <1>1, LenProperties
<1>3. /\ edits' \in Seq(Edits) /\ edits' # <<>> /\ Len(edits') = Len(edits) + 1
      /\ edits'[Len(edits) + 1] = op
  BY <1>1, AppendProperties
<1>4. DOMAIN edits' = 1 .. Len(edits')
  BY <1>3, LenProperties
<1> QED BY <1>1, <1>2, <1>3, <1>4, DocAssumption

LEMMA EditKeeps ==
  ASSUME DocInv, NEW op \in Edits, Runs(op), Renews
  PROVE  DocInv'
<1>1. TypeOK /\ ProvOK /\ Begin(op) /\ Rest /\ Outcome
  BY DEF DocInv, Runs
<1>2. /\ status = "applying" /\ marking = Idle /\ ~halted
      /\ UNCHANGED <<mode, original, marking, copy>>
  BY <1>1 DEF Begin, Running, Rest
<1>3. /\ lines' \in Seq(Line) /\ DOMAIN prov' \subseteq Key /\ ProvOK'
      /\ sections' = Parse(lines')
  <2>1. CASE KeepDoc
    BY <2>1, <1>1, <1>2 DEF KeepDoc, docs, TypeOK, ProvOK, DocInv, IndexFresh
  <2>2. CASE \E ls \in Seq(Line) : Put(ls) /\ ProvOK' /\ DOMAIN prov' \subseteq Key
    BY <2>2 DEF Put
  <2> QED BY <2>1, <2>2 DEF Renews
<1>4. /\ edits' \in Seq(Edits) /\ Len(edits') <= MaxEdits
      /\ applied' \subseteq DOMAIN edits' /\ skipped' \subseteq DOMAIN edits'
      /\ applied' \cap skipped' = {}
      /\ halted' \in BOOLEAN
      /\ status' \in Statuses
  <2>1. /\ edits' \in Seq(Edits) /\ Len(edits') <= MaxEdits
        /\ applied \subseteq DOMAIN edits' /\ skipped \subseteq DOMAIN edits'
        /\ Len(edits') \in DOMAIN edits'
        /\ Len(edits') \notin applied /\ Len(edits') \notin skipped
    BY <1>1, LedgerGrows
  <2>2. /\ applied \cap skipped = {} /\ halted \in BOOLEAN /\ status \in Statuses
    BY <1>1 DEF TypeOK
  <2>3. /\ applied' \in {applied, applied \cup {Len(edits')}}
        /\ skipped' \in {skipped, skipped \cup {Len(edits')}}
        /\ applied' = applied \/ skipped' = skipped
        /\ halted' \in BOOLEAN
        /\ status' \in Statuses
    BY <1>1, <2>2 DEF Outcome, Applied, Failed, Crashed, Statuses
  <2> QED BY <2>1, <2>2, <2>3
<1>5. TypeOK'
  BY <1>1, <1>2, <1>3, <1>4 DEF TypeOK
<1>6. IndexFresh' /\ MarkingOK'
  BY <1>2, <1>3 DEF IndexFresh, MarkingOK
<1> QED BY <1>3, <1>5, <1>6 DEF DocInv

LEMMA EditRuns ==
  ASSUME DocInv, Edit, ~InjectMarkers
  PROVE  \E op \in Edits : Runs(op) /\ Renews
BY AssertRuns, MoveSectionRuns, SwapSectionsRuns, CombineRuns,
   SplitSectionRuns, DeleteSectionRuns, ReplaceBlockRuns, InsertBlockRuns,
   MoveBlockRuns, CopyBlockRuns, EditTextRuns, RenameSectionRuns,
   RewriteSectionRuns, UpdateFrontmatterRuns DEF Edit

LEMMA InjectKeeps ==
  ASSUME DocInv, InjectMarkers
  PROVE  DocInv'
<1> PICK op \in EditsOf("inject_markers") : InjectMarkers!(op)
  BY DEF InjectMarkers
<1> DEFINE s == Resolve(op.sec)
           scope == IF op.sec = NoName
                    THEN [start |-> 1, end |-> Len(lines) + 1]
                    ELSE [start |-> s.start, end |-> s.end]
           begun == [marks |-> op.marks, sec |-> s, scope |-> scope, off |-> 0]
<1>1. /\ op \in Edits /\ Begin(op) /\ KeepDoc /\ TypeOK /\ ProvOK
      /\ UNCHANGED <<mode, original, copy>>
  BY DEF EditsOf, DocInv
<1>2. CASE op.sec # NoName /\ s = NoSection
  <2>1. Runs(op) /\ Renews
    BY <1>1, <1>2 DEF Runs, Rest, Outcome, Renews
  <2> QED BY <1>1, <2>1, EditKeeps
<1>3. CASE op.sec = NoName \/ s # NoSection
  <2>1. marking' = begun /\ UNCHANGED <<applied, skipped, halted, status>>
    BY <1>2, <1>3
  <2>2. /\ lines \in Seq(Line) /\ s \in Extent \cup {NoSection}
        /\ op.marks \in Seq(Marks)
    BY <1>1, Fresh, EditAssumption DEF Begin, EditsOf
  <2>3. scope \in [start : Nat \ {0}, end : Nat]
    <3>1. Len(lines) + 1 \in Nat
      BY <2>2, LenProperties
    <3>2. CASE op.sec = NoName
      BY <3>1, <3>2
    <3>3. CASE op.sec # NoName
      BY <1>3, <2>2, <3>3 DEF Extent
    <3> QED BY <3>2, <3>3
  <2> HIDE DEF s, scope
  <2>4. begun \in InProgress
    BY <2>2, <2>3 DEF InProgress
  <2> HIDE DEF begun
  <2>5. /\ edits' \in Seq(Edits) /\ Len(edits') <= MaxEdits /\ edits' # <<>>
        /\ applied \subseteq DOMAIN edits' /\ skipped \subseteq DOMAIN edits'
        /\ Len(edits') \notin skipped
    BY <1>1, LedgerGrows
  <2>6. TypeOK'
    BY <1>1, <2>1, <2>5 DEF TypeOK, KeepDoc, docs
  <2>7. marking' # Idle
    BY <2>1, <2>4, NotIdle
  <2>8. MarkingOK'
    BY <1>1, <2>1, <2>4, <2>5 DEF MarkingOK, Begin, Running
  <2>9. ProvOK' /\ IndexFresh'
    BY <1>1, <2>7 DEF ProvOK, IndexFresh, KeepDoc, docs
  <2> QED BY <2>6, <2>8, <2>9 DEF DocInv
<1> QED BY <1>2, <1>3

\* What a marker in progress has to work with.
LEMMA Marking ==
  ASSUME DocInv, marking # Idle, marking.marks # <<>>
  PROVE  /\ marking \in InProgress /\ lines \in Seq(Line)
         /\ Head(marking.marks) \in Marks /\ Tail(marking.marks) \in Seq(Marks)
         /\ marking.off \in Nat
         /\ marking.scope.start \in Nat \ {0} /\ marking.scope.end \in Nat
         /\ marking.sec \in Extent \cup {NoSection}
         /\ Ranged(Within)
         /\ Within.start = marking.scope.start + marking.off
         /\ Within.end = marking.scope.end + marking.off
<1>1. marking \in InProgress /\ lines \in Seq(Line)
  BY DEF DocInv, MarkingOK, TypeOK
<1>2. marking.marks \in Seq(Marks)
  BY <1>1 DEF InProgress
<1>3. Head(marking.marks) \in Marks /\ Tail(marking.marks) \in Seq(Marks)
  BY <1>2, HeadTailProperties
<1>4. /\ marking.off \in Nat /\ marking.scope.start \in Nat \ {0}
      /\ marking.scope.end \in Nat /\ marking.sec \in Extent \cup {NoSection}
  BY <1>1 DEF InProgress
<1>5. /\ Within.start = marking.scope.start + marking.off
      /\ Within.end = marking.scope.end + marking.off
  BY DEF Within
<1> QED BY <1>1, <1>3, <1>4, <1>5 DEF Ranged

LEMMA ShiftKeeps ==
  ASSUME DocInv, marking # Idle, marking.marks # <<>>,
         NEW ls \in Seq(Line), NEW n \in Nat, Shift(ls, n)
  PROVE  DocInv' /\ marking' # Idle
<1>1. /\ marking \in InProgress /\ Tail(marking.marks) \in Seq(Marks)
      /\ marking.off \in Nat
  BY Marking
<1>2. /\ lines' = ls
      /\ marking' = [marking EXCEPT !.marks = Tail(@), !.off = @ + n]
      /\ UNCHANGED <<mode, original, sections, prov, edits, applied, skipped,
                     halted, status, copy>>
  BY DEF Shift, ledger
<1>3. marking' \in InProgress
  <2>1. marking.off + n \in Nat
    BY <1>1
  <2> QED BY <1>1, <1>2, <2>1 DEF InProgress
<1>4. marking' # Idle
  BY <1>3, NotIdle
<1>5. TypeOK'
  BY <1>2 DEF DocInv, TypeOK
<1>6. MarkingOK' /\ IndexFresh' /\ ProvOK'
  BY <1>2, <1>3, <1>4 DEF DocInv, MarkingOK, IndexFresh, ProvOK
<1> QED BY <1>4, <1>5, <1>6 DEF DocInv

LEMMA MarkerLine ==
  ASSUME NEW m \in Marks
  PROVE  /\ Marker("block", m.name) \in Line /\ Marker("end", m.name) \in Line
         /\ Marker("anchor", m.name) \in Line
BY DEF Marks, Marker, Line

\* A block marker changes nothing, opens a block only, or opens and closes one.
LEMMA MarkBlockShifts ==
  ASSUME DocInv, MarkBlock
  PROVE  \/ Shift(lines, 0)
         \/ \E w \in Nat \ {0}, b \in Line :
              /\ Within.start <= w /\ w < Within.end /\ w <= Len(lines)
              /\ LET opened == Splice(lines, w, w, <<b>>)
                 IN  \/ Shift(opened, 1)
                     \/ \E u \in Nat \ {0}, e \in Line :
                          /\ w < u /\ u <= Within.end /\ u <= Len(opened)
                          /\ Shift(Splice(opened, u + 1, u + 1, <<e>>), 2)
<1> DEFINE m == Head(marking.marks)
           w == Find(lines, Within, m.at)
           b == Marker("block", m.name)
           opened == Splice(lines, w, w, <<b>>)
           second == [start |-> w + 1, end |-> Within.end + 1]
           u == Find(opened, second, m.until)
           e == Marker("end", m.name)
<1>1. /\ \/ w = 0 /\ Shift(lines, 0)
         \/ w # 0 /\ u = 0 /\ Shift(opened, 1)
         \/ /\ w # 0 /\ u # 0
            /\ Shift(Splice(opened, u + 1, u + 1, <<e>>), 2)
      /\ marking # Idle /\ marking.marks # <<>>
  BY DEF MarkBlock
<1>2. /\ lines \in Seq(Line) /\ m \in Marks /\ Ranged(Within)
  BY <1>1, Marking
<1>3. b \in Line /\ e \in Line
  BY <1>2, MarkerLine
<1> HIDE DEF b, e, m
<1>4. /\ w \in Nat
      /\ w # 0 => w \in 1 .. Len(lines) /\ Within.start <= w /\ w < Within.end
  BY <1>2, FindFacts
<1> HIDE DEF w
<1>5. CASE w = 0
  BY <1>1, <1>5
<1>6. CASE w # 0
  <2>1. <<b>> \in Seq(Line) /\ w \in Nat \ {0} /\ w <= Len(lines)
    BY <1>3, <1>4, <1>6
  <2>2. opened \in Seq(Line)
    BY <1>2, <2>1, SpliceType
  <2>3. Ranged(second) /\ second.start = w + 1 /\ second.end = Within.end + 1
    BY <1>2, <1>4 DEF Ranged
  <2> HIDE DEF opened, second
  <2>4. /\ u \in Nat
        /\ u # 0 => u \in 1 .. Len(opened) /\ w + 1 <= u /\ u < Within.end + 1
    BY <2>2, <2>3, FindFacts
  <2> HIDE DEF u
  <2>5. CASE u = 0
    BY <1>1, <1>3, <1>4, <1>6, <2>1, <2>5 DEF opened
  <2>6. CASE u # 0
    <3>1. Shift(Splice(opened, u + 1, u + 1, <<e>>), 2)
      BY <1>1, <1>6, <2>6
    <3>2. /\ u \in Nat \ {0} /\ w < u /\ u <= Within.end /\ u <= Len(opened)
      BY <1>2, <1>4, <2>4, <2>6 DEF Ranged
    <3>3. \E x \in Nat \ {0}, y \in Line :
            /\ w < x /\ x <= Within.end /\ x <= Len(opened)
            /\ Shift(Splice(opened, x + 1, x + 1, <<y>>), 2)
      BY <1>3, <3>1, <3>2
    <3> QED BY <1>3, <1>4, <1>6, <2>1, <3>3 DEF opened
  <2> QED BY <2>5, <2>6
<1> QED BY <1>5, <1>6

LEMMA MarkBlockKeeps ==
  ASSUME DocInv, MarkBlock
  PROVE  DocInv'
<1>1. lines \in Seq(Line) /\ marking # Idle /\ marking.marks # <<>>
  BY DEF DocInv, TypeOK, MarkBlock
<1>2. CASE Shift(lines, 0)
  BY <1>1, <1>2, ShiftKeeps
<1>3. ASSUME NEW w \in Nat \ {0}, NEW b \in Line, w <= Len(lines)
      PROVE  Splice(lines, w, w, <<b>>) \in Seq(Line)
  <2>1. <<b>> \in Seq(Line)
    OBVIOUS
  <2> QED BY <1>1, <2>1, SpliceType
<1>4. ASSUME NEW w \in Nat \ {0}, NEW b \in Line, w <= Len(lines),
             LET opened == Splice(lines, w, w, <<b>>)
             IN  \/ Shift(opened, 1)
                 \/ \E u \in Nat \ {0}, e \in Line :
                      Shift(Splice(opened, u + 1, u + 1, <<e>>), 2)
      PROVE  DocInv'
  <2> DEFINE opened == Splice(lines, w, w, <<b>>)
  <2>1. opened \in Seq(Line)
    BY <1>3, <1>4
  <2>2. CASE Shift(opened, 1)
    BY <1>1, <2>1, <2>2, ShiftKeeps
  <2>3. ASSUME NEW u \in Nat \ {0}, NEW e \in Line,
               Shift(Splice(opened, u + 1, u + 1, <<e>>), 2)
        PROVE  DocInv'
    <3> HIDE DEF opened
    <3>1. <<e>> \in Seq(Line) /\ u + 1 \in Nat \ {0}
      OBVIOUS
    <3>2. Splice(opened, u + 1, u + 1, <<e>>) \in Seq(Line)
      BY <2>1, <3>1, SpliceType
    <3> QED BY <1>1, <2>3, <3>2, ShiftKeeps
  <2> QED BY <1>4, <2>2, <2>3
<1> QED BY <1>2, <1>4, MarkBlockShifts

LEMMA MarkAnchorShifts ==
  ASSUME DocInv, MarkAnchor
  PROVE  \/ Shift(lines, 0)
         \/ \E a \in Nat \ {0}, b \in Line :
              /\ Within.start <= a /\ a < Within.end /\ a <= Len(lines)
              /\ Shift(Splice(lines, a + 1, a + 1, <<b>>), 1)
<1> DEFINE m == Head(marking.marks)
           a == Find(lines, Within, m.at)
           b == Marker("anchor", m.name)
<1>1. /\ \/ a = 0 /\ Shift(lines, 0)
         \/ a # 0 /\ Shift(Splice(lines, a + 1, a + 1, <<b>>), 1)
      /\ marking # Idle /\ marking.marks # <<>>
  BY DEF MarkAnchor
<1>2. /\ lines \in Seq(Line) /\ m \in Marks /\ Ranged(Within)
  BY <1>1, Marking
<1>3. b \in Line
  BY <1>2, MarkerLine
<1> HIDE DEF b, m
<1>4. /\ a \in Nat
      /\ a # 0 => a \in 1 .. Len(lines) /\ Within.start <= a /\ a < Within.end
  BY <1>2, FindFacts
<1> HIDE DEF a
<1> QED BY <1>1, <1>3, <1>4

LEMMA MarkAnchorKeeps ==
  ASSUME DocInv, MarkAnchor
  PROVE  DocInv'
<1>1. lines \in Seq(Line) /\ marking # Idle /\ marking.marks # <<>>
  BY DEF DocInv, TypeOK, MarkAnchor
<1>2. CASE Shift(lines, 0)
  BY <1>1, <1>2, ShiftKeeps
<1>3. ASSUME NEW a \in Nat \ {0}, NEW b \in Line,
             Shift(Splice(lines, a + 1, a + 1, <<b>>), 1)
      PROVE  DocInv'
  <2>1. <<b>> \in Seq(Line) /\ a + 1 \in Nat \ {0}
    OBVIOUS
  <2>2. Splice(lines, a + 1, a + 1, <<b>>) \in Seq(Line)
    BY <1>1, <2>1, SpliceType
  <2> QED BY <1>1, <1>3, <2>2, ShiftKeeps
<1> QED BY <1>2, <1>3, MarkAnchorShifts

\* A tag goes on one line and leaves everything else of it.
LEMMA MarkTagShifts ==
  ASSUME DocInv, MarkTag
  PROVE  LET s == marking.sec
             near == {i \in Heads(lines) :
                        /\ s.start <= i /\ i <= s.start + marking.off + 1
                        /\ lines[i].level = s.level /\ lines[i].name = s.name}
             h == IF near = {} THEN s.start + marking.off ELSE First(near)
         IN  \/ Shift(lines, 0)
             \/ /\ s # NoSection /\ h \in 1 .. Len(lines)
                /\ near # {} => h \in near /\ \A i \in near : h <= i
                /\ \E tag \in Name : Shift([lines EXCEPT ![h].tag = tag], 0)
<1> DEFINE m == Head(marking.marks)
           s == marking.sec
           near == {i \in Heads(lines) :
                      /\ s.start <= i /\ i <= s.start + marking.off + 1
                      /\ lines[i].level = s.level /\ lines[i].name = s.name}
           h == IF near = {} THEN s.start + marking.off ELSE First(near)
<1>1. /\ marking # Idle /\ marking.marks # <<>>
      /\ IF s = NoSection \/ h > Len(lines) THEN Shift(lines, 0)
         ELSE Shift([lines EXCEPT ![h].tag = m.name], 0)
  BY DEF MarkTag
<1>2. /\ lines \in Seq(Line) /\ m \in Marks /\ s \in Extent \cup {NoSection}
      /\ marking.off \in Nat
  BY <1>1, Marking
<1>3. m.name \in Name
  BY <1>2 DEF Marks
<1>4. Len(lines) \in Nat /\ DOMAIN lines = 1 .. Len(lines)
  BY <1>2, LenProperties
<1>5. near \in SUBSET Nat
  BY <1>4 DEF Heads
<1>6. near # {} => h \in near /\ \A i \in near : h <= i
  <2> HIDE DEF near
  <2> QED BY <1>5, FirstFacts
<1>7. ASSUME s # NoSection, ~(h > Len(lines))
      PROVE  h \in 1 .. Len(lines)
  <2>1. s.start \in Nat \ {0}
    BY <1>2, <1>7, ExtentFacts
  <2>2. h \in Nat \ {0}
    <3>1. CASE near = {}
      <4>1. s.start + marking.off \in Nat \ {0}
        BY <1>2, <2>1
      <4> QED BY <3>1, <4>1
    <3>2. CASE near # {}
      <4>1. \A i \in near : i \in 1 .. Len(lines)
        BY <1>4 DEF Heads
      <4> HIDE DEF near, h
      <4> QED BY <1>4, <1>6, <3>2, <4>1
    <3> QED BY <3>1, <3>2
  <2> HIDE DEF h
  <2> QED BY <1>4, <1>7, <2>2
<1> HIDE DEF m, near, h
<1>8. CASE s = NoSection \/ h > Len(lines)
  BY <1>1, <1>8
<1>9. CASE ~(s = NoSection \/ h > Len(lines))
  BY <1>1, <1>3, <1>6, <1>7, <1>9 DEF h, near
<1> QED BY <1>8, <1>9

LEMMA TagLine ==
  ASSUME NEW ls \in Seq(Line), NEW h \in 1 .. Len(ls), NEW tag \in Name
  PROVE  LET new == [ls EXCEPT ![h].tag = tag]
         IN  /\ new \in Seq(Line) /\ Len(new) = Len(ls)
             /\ \A i \in 1 .. Len(ls) :
                  /\ i # h => new[i] = ls[i]
                  /\ new[i].kind = ls[i].kind /\ new[i].level = ls[i].level
                  /\ new[i].name = ls[i].name
<1> DEFINE e == [ls[h] EXCEPT !.tag = tag]
           new == [ls EXCEPT ![h].tag = tag]
<1>1. ls[h] \in Line
  BY ElementOfSeq
<1>2. e \in Line /\ e.kind = ls[h].kind /\ e.level = ls[h].level /\ e.name = ls[h].name
  BY <1>1 DEF Line
<1>3. new = [ls EXCEPT ![h] = e]
  OBVIOUS
<1> HIDE DEF e, new
<1>4. /\ new \in Seq(Line) /\ Len(new) = Len(ls)
      /\ \A i \in 1 .. Len(ls) : new[i] = IF i = h THEN e ELSE ls[i]
  BY <1>2, <1>3, ExceptSeq
<1> QED BY <1>2, <1>4 DEF new

LEMMA MarkTagKeeps ==
  ASSUME DocInv, MarkTag
  PROVE  DocInv'
<1>1. lines \in Seq(Line) /\ marking # Idle /\ marking.marks # <<>>
  BY DEF DocInv, TypeOK, MarkTag
<1>2. CASE Shift(lines, 0)
  BY <1>1, <1>2, ShiftKeeps
<1>3. ASSUME NEW h \in 1 .. Len(lines), NEW tag \in Name,
             Shift([lines EXCEPT ![h].tag = tag], 0)
      PROVE  DocInv'
  <2>1. [lines EXCEPT ![h].tag = tag] \in Seq(Line)
    BY <1>1, TagLine
  <2> QED BY <1>1, <1>3, <2>1, ShiftKeeps
<1> QED BY <1>2, <1>3, MarkTagShifts

LEMMA MarksDoneKeeps ==
  ASSUME DocInv, MarksDone
  PROVE  DocInv'
<1>1. /\ marking # Idle /\ marking' = Idle /\ sections' = Parse(lines)
      /\ applied' = applied \cup {Len(edits)}
      /\ UNCHANGED <<mode, original, lines, prov, edits, skipped, halted,
                     status, copy>>
  BY DEF MarksDone
<1>2. edits # <<>> /\ Len(edits) \notin skipped /\ edits \in Seq(Edits)
  BY <1>1 DEF DocInv, MarkingOK, TypeOK
<1>3. Len(edits) \in DOMAIN edits
  BY <1>2, LenProperties, EmptySeq
<1>4. TypeOK'
  BY <1>1, <1>2, <1>3 DEF DocInv, TypeOK
<1> QED BY <1>1, <1>4 DEF DocInv, ProvOK, IndexFresh, MarkingOK

LEMMA FrameKeeps ==
  ASSUME DocInv, Reject \/ Open \/ SkipRest \/ Finish
  PROVE  DocInv'
<1>1. TypeOK /\ ProvOK /\ IndexFresh /\ MarkingOK /\ <<>> \in Seq(Line)
  BY DEF DocInv
<1>2. CASE Reject
  <2>1. TypeOK'
    BY <1>1, <1>2 DEF Reject, TypeOK, docs, Statuses
  <2> QED BY <1>1, <1>2, <2>1
          DEF DocInv, Reject, docs, ProvOK, IndexFresh, MarkingOK
<1>3. CASE Open
  <2>1. TypeOK'
    BY <1>1, <1>3 DEF Open, TypeOK, Statuses
  <2> QED BY <1>1, <1>3, <2>1 DEF DocInv, Open, ProvOK, IndexFresh, MarkingOK
<1>4. CASE SkipRest
  <2>1. PICK op \in Edits : edits' = Append(edits, op)
    BY <1>4 DEF SkipRest
  <2>2. /\ status = "applying" /\ halted /\ Len(edits) < MaxEdits
        /\ skipped' = skipped \cup {Len(edits')}
        /\ UNCHANGED <<mode, original, lines, sections, prov, applied, halted,
                       marking, status, copy>>
    BY <1>4 DEF SkipRest, docs
  <2>3. marking = Idle
    BY <1>1, <2>2 DEF MarkingOK
  <2>4. /\ edits \in Seq(Edits) /\ applied \subseteq DOMAIN edits
        /\ skipped \subseteq DOMAIN edits
    BY <1>1 DEF TypeOK
  <2>5. /\ edits' \in Seq(Edits) /\ Len(edits') = Len(edits) + 1
        /\ Len(edits) \in Nat /\ DOMAIN edits = 1 .. Len(edits)
    BY <2>1, <2>4, AppendProperties, LenProperties
  <2>6. DOMAIN edits' = 1 .. Len(edits')
    BY <2>5, LenProperties
  <2>7. TypeOK'
    BY <1>1, <2>2, <2>4, <2>5, <2>6, DocAssumption DEF TypeOK
  <2> QED BY <1>1, <2>2, <2>3, <2>7 DEF DocInv, ProvOK, IndexFresh, MarkingOK
<1>5. CASE Finish
  <2>1. /\ status' \in {"full_success", "no_change", "partial_success"}
        /\ copy' \in Seq(Line) /\ marking = Idle
        /\ UNCHANGED <<mode, original, lines, sections, prov, edits, applied,
                       skipped, halted, marking>>
    BY <1>1, <1>5 DEF Finish, docs, TypeOK
  <2>2. TypeOK'
    BY <1>1, <2>1 DEF TypeOK, Statuses
  <2> QED BY <1>1, <2>1, <2>2 DEF DocInv, ProvOK, IndexFresh, MarkingOK
<1> QED BY <1>2, <1>3, <1>4, <1>5

LEMMA DocStart == Init => DocInv
<1> SUFFICES ASSUME Init PROVE DocInv
  OBVIOUS
<1>1. original \in Documents /\ lines = original /\ lines \in Seq(Line)
  BY DocAssumption DEF Init
<1>2. edits = <<>> /\ edits \in Seq(Edits) /\ Len(edits) = 0 /\ copy \in Seq(Line)
  BY DEF Init
<1>3. DOMAIN prov \subseteq Key /\ DOMAIN prov = {}
  BY DEF Init
<1>4. /\ mode \in {"atomic", "best_effort"} /\ applied = {} /\ skipped = {}
      /\ halted \in BOOLEAN /\ status = "start" /\ marking = Idle
  BY DEF Init
<1>5. MaxEdits \in Nat
  BY DocAssumption
<1>6. TypeOK
  BY <1>1, <1>2, <1>3, <1>4, <1>5 DEF TypeOK, Statuses
<1> QED BY <1>3, <1>4, <1>6 DEF DocInv, ProvOK, IndexFresh, MarkingOK

LEMMA DocStep == DocInv /\ [Next]_vars => DocInv'
<1> SUFFICES ASSUME DocInv, [Next]_vars PROVE DocInv'
  OBVIOUS
<1>1. CASE UNCHANGED vars
  BY <1>1 DEF vars, DocInv, TypeOK, ProvOK, IndexFresh, MarkingOK
<1>2. CASE Edit /\ ~InjectMarkers
  BY <1>2, EditRuns, EditKeeps
<1>3. CASE InjectMarkers
  BY <1>3, InjectKeeps
<1>4. CASE Mark
  BY <1>4, MarkBlockKeeps, MarkAnchorKeeps, MarkTagKeeps, MarksDoneKeeps
     DEF Mark
<1>5. CASE Reject \/ Open \/ SkipRest \/ Finish
  BY <1>5, FrameKeeps
<1> QED BY <1>1, <1>2, <1>3, <1>4, <1>5 DEF Next

(***************************************************************************)
(* Every handler leaves the state well formed, whatever the document and   *)
(* the patch: the ledger names each operation begun at most once, and the  *)
(* working copy stays a text.                                              *)
(***************************************************************************)
THEOREM DocTypes == Spec => []TypeOK
<1>1. DocInv => TypeOK
  BY DEF DocInv
<1> QED BY <1>1, DocStart, DocStep, PTL DEF Spec

(***************************************************************************)
(* The section table is that of the working copy whenever an operation     *)
(* begins: each of the fifteen handlers renews it on every path that       *)
(* changes a line, the failing ones included.                              *)
(***************************************************************************)
THEOREM DocIndexFresh == Spec => []IndexFresh
<1>1. DocInv => IndexFresh
  BY DEF DocInv
<1> QED BY <1>1, DocStart, DocStep, PTL DEF Spec

-----------------------------------------------------------------------------
\* What an operation settles, by its kind.

LEMMA BehindSplice ==
  ASSUME NEW ls \in Seq(Line), NEW new \in Seq(Line),
         NEW from \in Nat \ {0}, NEW to \in Nat \ {0}, from <= to,
         NEW i \in 1 .. Len(ls), to <= i
  PROVE  \E j \in 1 .. Len(Splice(ls, from, to, new)) :
           /\ j = i - (to - from) + Len(new)
           /\ Splice(ls, from, to, new)[j] = ls[i]
<1> DEFINE r == Splice(ls, from, to, new)
           j == i - (to - from) + Len(new)
<1>1. \A h \in 1 .. Len(ls) :
        /\ h < from => h \in 1 .. Len(r) /\ r[h] = ls[h]
        /\ to <= h => LET k == h - (to - from) + Len(new)
                     IN  k \in 1 .. Len(r) /\ r[k] = ls[h]
  BY SpliceFacts
<1> HIDE DEF r
<1>2. j \in 1 .. Len(r) /\ r[j] = ls[i]
  BY <1>1
<1> QED BY <1>2 DEF r

\* A section whose heading is outside the lines taken out is still found.
LEMMA StillFound ==
  ASSUME ProvOK, NEW ls \in Seq(Line), NEW s \in Extent, NEW id,
         NEW t, t = ResolveIn(Parse(ls), id), t # NoSection, ~Inside(t, s)
  PROVE  ResolveIn(Parse(Remove(ls, s)), id) # NoSection
<1> DEFINE rest == Remove(ls, s)
<1>1. rest \in Seq(Line)
  BY RemoveType
<1>2. CASE id \in Key
  BY <1>2 DEF ResolveIn
<1>3. CASE id \notin Key
  <2>1. t = Lookup(Parse(ls), id)
    BY <1>3 DEF ResolveIn
  <2>2. t \in Called(Parse(ls), id)
    BY <2>1, LookupFacts
  <2>3. t \in Parse(ls) /\ id \in {t.name, t.tag} \ {NoName}
    BY <2>2 DEF Called
  <2>4. /\ t.start \in 1 .. Len(ls) /\ Len(ls) \in Nat
        /\ ls[t.start].kind = "head" /\ ls[t.start].name = t.name
        /\ ls[t.start].tag = t.tag
    BY <2>3, ParseFacts, LenProperties
  <2>5. /\ s.start \in Nat \ {0} /\ s.end \in Nat \ {0} /\ s.start <= s.end
        /\ <<>> \in Seq(Line) /\ Len(<<>>) = 0
    BY DEF Extent
  <2>6. t.start < s.start \/ s.end <= t.start
    BY <2>4, <2>5 DEF Inside
  <2> HIDE DEF rest
  <2>7. rest = Splice(ls, s.start, s.end, <<>>)
    BY DEF Remove, rest
  <2>8. \E j \in 1 .. Len(rest) : rest[j] = ls[t.start]
    <3> DEFINE none == <<>>
    <3>1. none \in Seq(Line) /\ rest = Splice(ls, s.start, s.end, none)
      BY <2>5, <2>7
    <3> HIDE DEF none
    <3>2. CASE t.start < s.start
      BY <2>4, <2>5, <3>1, <3>2, SpliceFacts
    <3>3. CASE s.end <= t.start
      <4> DEFINE i    == t.start
                 from == s.start
                 to   == s.end
      <4>1. /\ i \in 1 .. Len(ls) /\ from \in Nat \ {0} /\ to \in Nat \ {0}
            /\ from <= to /\ to <= i
        BY <2>4, <2>5, <3>3
      <4>2. rest = Splice(ls, from, to, none)
        BY <3>1
      <4> HIDE DEF i, from, to
      <4>3. \E j \in 1 .. Len(Splice(ls, from, to, none)) :
              Splice(ls, from, to, none)[j] = ls[i]
        BY <3>1, <4>1, BehindSplice
      <4> QED BY <4>2, <4>3 DEF i
    <3> QED BY <2>6, <3>2, <3>3
  <2>9. PICK j \in 1 .. Len(rest) : rest[j] = ls[t.start]
    BY <2>8
  <2>10. j \in Heads(rest)
    BY <1>1, <2>4, <2>9, LenProperties DEF Heads
  <2>11. /\ Section(rest, j) \in Parse(rest)
         /\ Section(rest, j).name = t.name /\ Section(rest, j).tag = t.tag
    BY <2>4, <2>9, <2>10 DEF Parse, Section
  <2>12. Called(Parse(rest), id) # {}
    BY <2>3, <2>11 DEF Called
  <2>13. Lookup(Parse(rest), id) # NoSection
    BY <1>1, <2>12, LookupFacts
  <2> QED BY <1>3, <2>13 DEF ResolveIn, rest
<1> QED BY <1>2, <1>3

\* The operation a step begins is the last of the edits.
LEMMA OpBegun ==
  ASSUME DocInv, NEW op \in Edits, Begin(op)
  PROVE  Op = op
BY LedgerGrows DEF DocInv, Op

\* Only an operation that fails after it has put the document is skipped with
\* the lines changed.
Harmless ==
  skipped' # skipped /\ lines' # lines =>
    \/ /\ Op.op \in {"move_section", "merge_sections", "absorb_section"}
       /\ Inside(Resolve(Op.to), Resolve(Op.sec))
    \/ /\ Op.op = "move_block"
       /\ Find(lines', Scope(lines', sections', Op.to), Op.after) = 0

LEMMA MoveSectionHarmless ==
  ASSUME DocInv, MoveSection
  PROVE  Harmless
<1> PICK op \in EditsOf("move_section") : MoveSection!(op)
  BY DEF MoveSection
<1> DEFINE s == Resolve(op.sec)
           rest == Remove(lines, s)
           t == ResolveIn(Parse(rest), op.to)
<1>1. op \in Edits /\ op.op = "move_section" /\ Begin(op) /\ ProvOK
  BY DEF EditsOf, DocInv
<1>2. /\ sections = Parse(lines) /\ lines \in Seq(Line)
      /\ s \in Extent \cup {NoSection}
  BY <1>1, Fresh DEF Begin
<1>3. Op = op
  BY <1>1, OpBegun
<1>4. CASE KeepDoc \/ Applied
  BY <1>4 DEF KeepDoc, docs, Applied, Harmless
<1>5. CASE ~KeepDoc /\ ~Applied
  <2>1. s # NoSection /\ Resolve(op.to) # NoSection /\ t = NoSection
    BY <1>5
  <2>2. Resolve(op.to) = ResolveIn(Parse(lines), op.to)
    BY <1>2 DEF Resolve
  <2>3. s \in Extent
    BY <1>2, <2>1
  <2>4. Inside(Resolve(op.to), s)
    BY <1>1, <1>2, <2>1, <2>2, <2>3, StillFound
  <2> QED BY <1>1, <1>3, <2>4 DEF Harmless
<1> QED BY <1>4, <1>5

LEMMA CombineHarmless ==
  ASSUME DocInv, Combine
  PROVE  Harmless
<1> PICK op \in EditsOf("merge_sections") \cup EditsOf("absorb_section") :
      Combine!(op)
  BY DEF Combine
<1> DEFINE s == Resolve(op.sec)
           rest == Remove(lines, s)
           t == ResolveIn(Parse(rest), op.to)
<1>1. /\ op \in Edits /\ op.op \in {"merge_sections", "absorb_section"}
      /\ Begin(op) /\ ProvOK
  BY DEF EditsOf, DocInv
<1>2. /\ sections = Parse(lines) /\ lines \in Seq(Line)
      /\ s \in Extent \cup {NoSection}
  BY <1>1, Fresh DEF Begin
<1>3. Op = op
  BY <1>1, OpBegun
<1>4. CASE KeepDoc \/ Applied
  BY <1>4 DEF KeepDoc, docs, Applied, Harmless
<1>5. CASE ~KeepDoc /\ ~Applied
  <2>1. s # NoSection /\ Resolve(op.to) # NoSection /\ t = NoSection
    BY <1>5
  <2>2. Resolve(op.to) = ResolveIn(Parse(lines), op.to)
    BY <1>2 DEF Resolve
  <2>3. s \in Extent
    BY <1>2, <2>1
  <2>4. Inside(Resolve(op.to), s)
    BY <1>1, <1>2, <2>1, <2>2, <2>3, StillFound
  <2> QED BY <1>1, <1>3, <2>4 DEF Harmless
<1> QED BY <1>4, <1>5

LEMMA MoveBlockHarmless ==
  ASSUME DocInv, MoveBlock
  PROVE  Harmless
<1> PICK op \in EditsOf("move_block") : MoveBlock!(op)
  BY DEF MoveBlock
<1> DEFINE range == FindBlock(lines, Scope(lines, sections, op.sec), op.find)
           rest  == Splice(lines, range[1], range[2] + 1, <<>>)
           at    == Find(rest, Scope(rest, Parse(rest), op.to), op.after)
<1>1. op \in Edits /\ op.op = "move_block" /\ Begin(op)
  BY DEF EditsOf
<1>2. Op = op
  BY <1>1, OpBegun
<1>3. CASE KeepDoc \/ Applied \/ Crashed
  BY <1>3 DEF KeepDoc, docs, Applied, Crashed, Harmless
<1>4. CASE ~KeepDoc /\ ~Applied /\ ~Crashed
  <2>1. at = 0 /\ lines' = rest /\ sections' = Parse(rest)
    BY <1>4 DEF Put
  <2> QED BY <1>1, <1>2, <2>1 DEF Harmless
<1> QED BY <1>3, <1>4

\* No other operation both changes lines and is skipped.
LEMMA OthersHarmless ==
  ASSUME SwapSections \/ SplitSection \/ DeleteSection \/ ReplaceBlock
           \/ InsertBlock \/ CopyBlock \/ EditText \/ RenameSection
           \/ RewriteSection \/ UpdateFrontmatter \/ Assert \/ InjectMarkers
           \/ Mark \/ Reject \/ Open \/ SkipRest \/ Finish \/ UNCHANGED vars
  PROVE  Harmless
<1> SUFFICES ASSUME skipped' # skipped, lines' # lines PROVE FALSE
  BY DEF Harmless
<1>1. ~Applied /\ ~KeepDoc /\ ~UNCHANGED vars
  BY DEF Applied, KeepDoc, docs, vars
<1>2. ~SwapSections /\ ~SplitSection /\ ~DeleteSection /\ ~ReplaceBlock
  BY <1>1 DEF SwapSections, SplitSection, DeleteSection, ReplaceBlock
<1>3. ~InsertBlock /\ ~CopyBlock /\ ~EditText /\ ~RewriteSection
  BY <1>1 DEF InsertBlock, CopyBlock, EditText, RewriteSection
<1>4. ~RenameSection /\ ~UpdateFrontmatter /\ ~Assert
  BY <1>1 DEF RenameSection, UpdateFrontmatter, Assert
<1>5. ~InjectMarkers
  BY <1>1 DEF InjectMarkers
<1>6. ~MarkBlock /\ ~MarkAnchor /\ ~MarkTag /\ ~MarksDone
  <2>1. \A ls, n : ~Shift(ls, n)
    BY DEF Shift, ledger
  <2> QED BY <2>1 DEF MarkBlock, MarkAnchor, MarkTag, MarksDone
<1>7. ~Reject /\ ~Open /\ ~SkipRest /\ ~Finish
  BY <1>1 DEF Reject, Open, SkipRest, Finish, docs
<1> QED BY <1>1, <1>2, <1>3, <1>4, <1>5, <1>6, <1>7 DEF Mark

(***************************************************************************)
(* A skipped operation leaves the working copy as it was, but for a        *)
(* section moved, merged or absorbed into a part of itself and a block     *)
(* whose new place is not found once it is taken out: in every document, a *)
(* target outside the range taken out is found again in what is left.      *)
(***************************************************************************)
THEOREM DocSkipsHarmless == Spec => SkipsHarmless
<1>1. DocInv /\ [Next]_vars => Harmless
  BY MoveSectionHarmless, CombineHarmless, MoveBlockHarmless, OthersHarmless
     DEF Next, Edit
<1>2. DocInv /\ [Next]_vars =>
        [ skipped' # skipped /\ lines' # lines =>
            \/ /\ Op.op \in {"move_section", "merge_sections", "absorb_section"}
               /\ Inside(Resolve(Op.to), Resolve(Op.sec))
            \/ /\ Op.op = "move_block"
               /\ Find(lines', Scope(lines', sections', Op.to), Op.after) = 0
        ]_vars
  BY <1>1 DEF Harmless
<1> QED BY <1>2, DocStart, DocStep, PTL DEF Spec, SkipsHarmless

-----------------------------------------------------------------------------
\* Cutting a text and counting its lines.

LEMMA CutInTwo ==
  ASSUME NEW ls \in Seq(Line), NEW n \in Nat
  PROVE  ls = Take(ls, n) \o Drop(ls, n)
<1> DEFINE a == Take(ls, n)
           c == Drop(ls, n)
<1>1. Len(ls) \in Nat
  BY LenProperties
<1>2. /\ a \in Seq(Line) /\ Len(a) = IF n <= Len(ls) THEN n ELSE Len(ls)
      /\ \A i \in 1 .. Len(a) : a[i] = ls[i]
  BY TakeFacts DEF Smaller
<1>3. /\ c \in Seq(Line) /\ Len(c) = IF n <= Len(ls) THEN Len(ls) - n ELSE 0
      /\ \A i \in 1 .. (Len(ls) - n) : c[i] = ls[n + i]
  BY DropFacts
<1> HIDE DEF a, c
<1>4. /\ a \o c \in Seq(Line) /\ Len(a \o c) = Len(a) + Len(c)
      /\ \A i \in 1 .. Len(a) + Len(c) :
           (a \o c)[i] = IF i <= Len(a) THEN a[i] ELSE c[i - Len(a)]
  BY <1>2, <1>3, ConcatProperties
<1>5. Len(a) \in Nat /\ Len(c) \in Nat /\ Len(a \o c) = Len(ls)
  BY <1>1, <1>2, <1>3, <1>4
<1>6. ASSUME NEW i \in 1 .. Len(a \o c) PROVE (a \o c)[i] = ls[i]
  <2>1. (a \o c)[i] = IF i <= Len(a) THEN a[i] ELSE c[i - Len(a)]
    BY <1>4
  <2>2. CASE i <= Len(a)
    BY <2>1, <2>2, <1>2, <1>5
  <2>3. CASE ~(i <= Len(a))
    <3>1. /\ Len(a) = n /\ i - n \in 1 .. (Len(ls) - n) /\ n + (i - n) = i
      BY <2>3, <1>1, <1>2, <1>3, <1>5
    <3>2. c[i - n] = ls[n + (i - n)]
      BY <3>1, <1>3
    <3> QED BY <2>1, <2>3, <3>1, <3>2
  <2> QED BY <2>2, <2>3
<1>7. a \o c = ls
  BY <1>4, <1>5, <1>6, SeqEqual
<1> QED BY <1>7 DEF a, c

LEMMA CutSlice ==
  ASSUME NEW ls \in Seq(Line), NEW from \in Nat \ {0}, NEW to \in Nat \ {0},
         from <= to
  PROVE  Drop(ls, from - 1) = Slice(ls, from, to) \o Drop(ls, to - 1)
<1> DEFINE f == from - 1
           n == to - 1
           a == Take(ls, n)
           b == Drop(a, f)
           c == Drop(ls, n)
           d == Drop(ls, f)
<1>1. Len(ls) \in Nat /\ f \in Nat /\ n \in Nat /\ f <= n
  BY LenProperties
<1> HIDE DEF f, n
<1>2. /\ a \in Seq(Line) /\ Len(a) = IF n <= Len(ls) THEN n ELSE Len(ls)
      /\ \A i \in 1 .. Len(a) : a[i] = ls[i]
  BY <1>1, TakeFacts DEF Smaller
<1>3. /\ c \in Seq(Line) /\ Len(c) = IF n <= Len(ls) THEN Len(ls) - n ELSE 0
      /\ \A i \in 1 .. (Len(ls) - n) : c[i] = ls[n + i]
  BY <1>1, DropFacts
<1>4. /\ d \in Seq(Line) /\ Len(d) = IF f <= Len(ls) THEN Len(ls) - f ELSE 0
      /\ \A i \in 1 .. (Len(ls) - f) : d[i] = ls[f + i]
  BY <1>1, DropFacts
<1> HIDE DEF a, c, d
<1>5. /\ b \in Seq(Line) /\ Len(b) = IF f <= Len(a) THEN Len(a) - f ELSE 0
      /\ \A i \in 1 .. (Len(a) - f) : b[i] = a[f + i]
  BY <1>1, <1>2, DropFacts
<1> HIDE DEF b
<1>6. /\ b \o c \in Seq(Line) /\ Len(b \o c) = Len(b) + Len(c)
      /\ \A i \in 1 .. Len(b) + Len(c) :
           (b \o c)[i] = IF i <= Len(b) THEN b[i] ELSE c[i - Len(b)]
  BY <1>3, <1>5, ConcatProperties
<1>7. Len(b) \in Nat /\ Len(c) \in Nat /\ Len(b \o c) = Len(d)
  <2>1. CASE n <= Len(ls)
    <3>1. /\ Len(a) = n /\ Len(b) = n - f /\ Len(c) = Len(ls) - n
          /\ Len(d) = Len(ls) - f
      BY <2>1, <1>1, <1>2, <1>3, <1>4, <1>5
    <3>2. Len(b \o c) = Len(b) + Len(c)
      BY <1>6
    <3> QED BY <2>1, <3>1, <3>2, <1>1
  <2>2. CASE ~(n <= Len(ls))
    <3>1. Len(a) = Len(ls) /\ Len(c) = 0 /\ Len(b) = Len(d) /\ Len(b) \in Nat
      BY <2>2, <1>1, <1>2, <1>3, <1>4, <1>5
    <3>2. Len(b \o c) = Len(b) + Len(c)
      BY <1>6
    <3> QED BY <3>1, <3>2
  <2> QED BY <2>1, <2>2
<1>8. ASSUME NEW i \in 1 .. Len(b \o c) PROVE (b \o c)[i] = d[i]
  <2>1. (b \o c)[i] = IF i <= Len(b) THEN b[i] ELSE c[i - Len(b)]
    BY <1>6
  <2>2. i \in 1 .. Len(ls) - f /\ f <= Len(ls)
    BY <1>1, <1>4, <1>7
  <2>3. d[i] = ls[f + i]
    BY <2>2, <1>4
  <2>4. CASE i <= Len(b)
    <3>1. i \in 1 .. (Len(a) - f) /\ f + i \in 1 .. Len(a)
      BY <2>4, <1>1, <1>2, <1>5, <1>7
    <3>2. b[i] = a[f + i] /\ a[f + i] = ls[f + i]
      BY <3>1, <1>2, <1>5
    <3> QED BY <2>1, <2>3, <2>4, <3>2
  <2>5. CASE ~(i <= Len(b))
    <3>1. /\ Len(b) = n - f /\ i - Len(b) \in 1 .. (Len(ls) - n)
          /\ n + (i - Len(b)) = f + i
      <4>1. n <= Len(ls)
        <5>1. CASE ~(n <= Len(ls))
          <6>1. Len(a) = Len(ls) /\ Len(b) = Len(ls) - f
            BY <5>1, <2>2, <1>1, <1>2, <1>5
          <6> QED BY <6>1, <2>2, <2>5
        <5> QED BY <5>1
      <4>2. Len(b) = n - f
        BY <4>1, <1>1, <1>2, <1>5
      <4> QED BY <4>1, <4>2, <2>2, <2>5, <1>1
    <3>2. c[i - Len(b)] = ls[n + (i - Len(b))]
      BY <3>1, <1>3
    <3> QED BY <2>1, <2>3, <2>5, <3>1, <3>2
  <2> QED BY <2>4, <2>5
<1>9. b \o c = d
  BY <1>4, <1>6, <1>7, <1>8, SeqEqual
<1> QED BY <1>9 DEF a, b, c, d, f, n, Slice

LEMMA TimesConcat ==
  ASSUME NEW s \in Seq(Line), NEW u \in Seq(Line), NEW l
  PROVE  /\ Times(s, l) \in Nat /\ Times(u, l) \in Nat
         /\ Times(s \o u, l) = Times(s, l) + Times(u, l)
<1> DEFINE A == {i \in DOMAIN s : s[i] = l}
           B == {i \in DOMAIN u : u[i] = l}
           C == {i \in DOMAIN (s \o u) : (s \o u)[i] = l}
           D == {i \in C : ~(i <= Len(s))}
           f == [i \in B |-> i + Len(s)]
<1>1. /\ Len(s) \in Nat /\ DOMAIN s = 1 .. Len(s)
      /\ Len(u) \in Nat /\ DOMAIN u = 1 .. Len(u)
      /\ DOMAIN (s \o u) = 1 .. Len(s) + Len(u)
      /\ \A i \in 1 .. Len(s) + Len(u) :
           (s \o u)[i] = IF i <= Len(s) THEN s[i] ELSE u[i - Len(s)]
  BY LenProperties, ConcatProperties
<1>2. /\ A = {i \in 1 .. Len(s) : s[i] = l}
      /\ B = {i \in 1 .. Len(u) : u[i] = l}
      /\ C = {i \in 1 .. Len(s) + Len(u) :
                (IF i <= Len(s) THEN s[i] ELSE u[i - Len(s)]) = l}
  BY <1>1
<1>3. /\ IsFiniteSet(A) /\ IsFiniteSet(B)
  <2>1. IsFiniteSet(1 .. Len(s)) /\ IsFiniteSet(1 .. Len(u))
    BY <1>1, FS_Interval
  <2>2. A \in SUBSET (1 .. Len(s)) /\ B \in SUBSET (1 .. Len(u))
    BY <1>2
  <2> HIDE DEF A, B
  <2> QED BY <2>1, <2>2, FS_Subset
<1>4. C = A \cup D /\ A \cap D = {}
  <2>1. \A i \in A : i \in C /\ i <= Len(s)
    BY <1>1, <1>2
  <2>2. \A i \in C : i <= Len(s) => i \in A
    BY <1>1, <1>2
  <2> HIDE DEF A, C
  <2> QED BY <2>1, <2>2
<1>5. f \in Bijection(B, D)
  <2>1. \A i \in B : i + Len(s) \in D /\ i \in Int
    BY <1>1, <1>2
  <2>2. \A j \in D : j - Len(s) \in B /\ (j - Len(s)) + Len(s) = j
    BY <1>1, <1>2
  <2> HIDE DEF B, D
  <2>3. f \in [B -> D]
    BY <2>1
  <2>4. \A i, j \in B : f[i] = f[j] => i = j
    BY <2>1, <1>1
  <2>5. \A j \in D : \E i \in B : f[i] = j
    <3> SUFFICES ASSUME NEW j \in D PROVE \E i \in B : f[i] = j
      OBVIOUS
    <3>1. j - Len(s) \in B /\ f[j - Len(s)] = j
      BY <2>2
    <3> QED BY <3>1
  <2> QED BY <2>3, <2>4, <2>5 DEF Bijection, Injection, Surjection, IsInjective
<1> HIDE DEF A, B, C, D, f
<1>6. IsFiniteSet(D) /\ Cardinality(D) = Cardinality(B)
  BY <1>3, <1>5, FS_Bijection DEF ExistsBijection
<1>7. Cardinality(A \cup D) = Cardinality(A) + Cardinality(D) - Cardinality(A \cap D)
  BY <1>3, <1>6, FS_Union
<1>8. Cardinality(A \cap D) = 0
  BY <1>4, FS_EmptySet
<1>9. Cardinality(A) \in Nat /\ Cardinality(B) \in Nat
  BY <1>3, FS_CardinalityType
<1>10. Cardinality(C) = Cardinality(A) + Cardinality(B)
  BY <1>4, <1>6, <1>7, <1>8, <1>9
<1> QED BY <1>9, <1>10 DEF Times, A, B, C

\* Taking a range out and putting it back in conserves the lines.
LEMMA CutAndPaste ==
  ASSUME NEW ls \in Seq(Line), NEW from \in Nat \ {0}, NEW to \in Nat \ {0},
         from <= to, NEW n \in Nat \ {0}, NEW l
  PROVE  LET rest == Splice(ls, from, to, <<>>)
         IN  Times(Splice(rest, n, n, Slice(ls, from, to)), l) = Times(ls, l)
<1> DEFINE none == <<>>
           a == Take(ls, from - 1)
           b == Slice(ls, from, to)
           c == Drop(ls, to - 1)
           rest == Splice(ls, from, to, none)
           d == Take(rest, n - 1)
           e == Drop(rest, n - 1)
<1>1. from - 1 \in Nat /\ to - 1 \in Nat /\ n - 1 \in Nat
  OBVIOUS
<1>2. none \in Seq(Line)
  OBVIOUS
<1>3. /\ a \in Seq(Line) /\ b \in Seq(Line) /\ c \in Seq(Line)
      /\ rest \in Seq(Line)
  <2> HIDE DEF none
  <2> QED BY <1>1, <1>2, TakeFacts, DropFacts, SliceType, SpliceType
<1>4. Drop(ls, from - 1) = b \o c /\ ls = a \o (b \o c)
  <2>1. Drop(ls, from - 1) = b \o c
    BY CutSlice
  <2>2. ls = a \o Drop(ls, from - 1)
    BY <1>1, CutInTwo
  <2> QED BY <2>1, <2>2
<1>5. rest = a \o c
  <2>1. rest = (a \o none) \o c
    BY DEF Splice
  <2>2. a \o none = a
    BY <1>3, ConcatEmptySeq
  <2> QED BY <2>1, <2>2
<1> HIDE DEF rest
<1>6. d \in Seq(Line) /\ e \in Seq(Line) /\ rest = d \o e
  BY <1>1, <1>3, TakeFacts, DropFacts, CutInTwo
<1>7. Splice(rest, n, n, b) = (d \o b) \o e
  BY DEF Splice
<1> HIDE DEF a, b, c, d, e
<1>8. b \o c \in Seq(Line) /\ d \o b \in Seq(Line)
  BY <1>3, <1>6, ConcatProperties
<1>9. Times(ls, l) = Times(a, l) + (Times(b, l) + Times(c, l))
  <2> DEFINE bc == b \o c
  <2>1. Times(a \o bc, l) = Times(a, l) + Times(bc, l)
    <3>1. bc \in Seq(Line)
      BY <1>8
    <3> HIDE DEF bc
    <3> QED BY <1>3, <3>1, TimesConcat
  <2>2. Times(b \o c, l) = Times(b, l) + Times(c, l)
    BY <1>3, TimesConcat
  <2> QED BY <2>1, <2>2, <1>4
<1>10. Times(rest, l) = Times(a, l) + Times(c, l)
  BY <1>3, <1>5, TimesConcat
<1>11. Times(rest, l) = Times(d, l) + Times(e, l)
  BY <1>6, TimesConcat
<1>12. Times(Splice(rest, n, n, b), l) = (Times(d, l) + Times(b, l)) + Times(e, l)
  <2>1. Times((d \o b) \o e, l) = Times(d \o b, l) + Times(e, l)
    BY <1>6, <1>8, TimesConcat
  <2>2. Times(d \o b, l) = Times(d, l) + Times(b, l)
    BY <1>3, <1>6, TimesConcat
  <2> QED BY <2>1, <2>2, <1>7
<1>13. /\ Times(a, l) \in Nat /\ Times(b, l) \in Nat /\ Times(c, l) \in Nat
       /\ Times(d, l) \in Nat /\ Times(e, l) \in Nat
  BY <1>3, <1>6, TimesConcat
<1>14. Times(Splice(rest, n, n, b), l) = Times(ls, l)
  BY <1>9, <1>10, <1>11, <1>12, <1>13
<1> QED BY <1>14 DEF rest, b

Conserves ==
  /\ applied' # applied
  /\ \/ Op.op \in {"move_section", "move_block"}
     \/ /\ Op.op = "swap_sections"
        /\ ~Overlap(Resolve(Op.sec), Resolve(Op.to))
  => \A l \in LinesOf(lines) \cup LinesOf(lines') :
       Times(lines', l) = Times(lines, l)

LEMMA MoveSectionConserves ==
  ASSUME DocInv, MoveSection
  PROVE  Conserves
<1> PICK op \in EditsOf("move_section") : MoveSection!(op)
  BY DEF MoveSection
<1> DEFINE s == Resolve(op.sec)
           rest == Remove(lines, s)
           t == ResolveIn(Parse(rest), op.to)
<1>1. CASE KeepDoc \/ Failed
  BY <1>1 DEF KeepDoc, docs, Failed, Conserves
<1>2. CASE ~(KeepDoc \/ Failed)
  <2>1. /\ s # NoSection /\ t # NoSection
        /\ lines' = Splice(rest, t.end, t.end, Extract(lines, s))
    BY <1>2 DEF Put
  <2>2. /\ lines \in Seq(Line) /\ ProvOK /\ s \in Extent \cup {NoSection}
    BY Fresh DEF Begin, DocInv
  <2>3. /\ s \in Extent /\ s.start \in Nat \ {0} /\ s.end \in Nat \ {0}
        /\ s.start <= s.end
    BY <2>1, <2>2 DEF Extent
  <2>4. rest \in Seq(Line)
    BY <2>2, <2>3, RemoveType
  <2>5. t.end \in Nat \ {0}
    BY <2>1, <2>2, <2>4, ResolveFacts, ExtentFacts
  <2>6. \A l : Times(lines', l) = Times(lines, l)
    BY <2>1, <2>2, <2>3, <2>5, CutAndPaste DEF Remove, Extract
  <2> QED BY <2>6 DEF Conserves
<1> QED BY <1>1, <1>2

LEMMA MoveBlockConserves ==
  ASSUME DocInv, MoveBlock
  PROVE  Conserves
<1> PICK op \in EditsOf("move_block") : MoveBlock!(op)
  BY DEF MoveBlock
<1> DEFINE range == FindBlock(lines, Scope(lines, sections, op.sec), op.find)
           rest  == Splice(lines, range[1], range[2] + 1, <<>>)
           at    == Find(rest, Scope(rest, Parse(rest), op.to), op.after)
           block == Slice(lines, range[1], range[2] + 1)
<1>1. CASE KeepDoc \/ Failed \/ Crashed
  BY <1>1 DEF KeepDoc, docs, Failed, Crashed, Conserves
<1>2. CASE ~(KeepDoc \/ Failed \/ Crashed)
  <2>1. range[1] # 0 /\ lines' = Splice(rest, at + 1, at + 1, block)
    BY <1>2 DEF Put
  <2>2. /\ lines \in Seq(Line) /\ ProvOK
        /\ Ranged(Scope(lines, sections, op.sec)) /\ <<>> \in Seq(Line)
    BY Fresh DEF Begin, DocInv
  <2>3. /\ range[1] \in Nat \ {0} /\ range[2] + 1 \in Nat \ {0}
        /\ range[1] <= range[2] + 1
    BY <2>1, <2>2, FindBlockFacts
  <2> HIDE DEF range
  <2>4. rest \in Seq(Line)
    BY <2>2, <2>3, SpliceType
  <2>5. at + 1 \in Nat \ {0}
    <3> HIDE DEF rest
    <3>1. Ranged(Scope(rest, Parse(rest), op.to))
      BY <2>2, <2>4, ScopeFacts
    <3>2. at \in Nat
      BY <2>4, <3>1, FindFacts
    <3> QED BY <3>2
  <2> HIDE DEF at
  <2>6. ASSUME NEW l PROVE Times(lines', l) = Times(lines, l)
    <3> DEFINE n == at + 1
               from == range[1]
               to == range[2] + 1
    <3>1. /\ n \in Nat \ {0} /\ from \in Nat \ {0} /\ to \in Nat \ {0}
          /\ from <= to
      BY <2>3, <2>5
    <3>2. lines' = Splice(Splice(lines, from, to, <<>>), n, n, Slice(lines, from, to))
      BY <2>1
    <3> HIDE DEF n, from, to
    <3> QED BY <2>2, <3>1, <3>2, CutAndPaste
  <2> QED BY <2>6 DEF Conserves
<1> QED BY <1>1, <1>2

LEMMA SwapSectionsConserves ==
  ASSUME DocInv, SwapSections
  PROVE  Conserves
<1> PICK op \in EditsOf("swap_sections") : SwapSections!(op)
  BY DEF SwapSections
<1> DEFINE p == Resolve(op.sec)
           q == Resolve(op.to)
           a == IF p.start > q.start THEN q ELSE p
           b == IF p.start > q.start THEN p ELSE q
           w == Take(lines, a.start - 1)
           x == Extract(lines, a)
           m == Slice(lines, a.end, b.start)
           y == Extract(lines, b)
           z == Drop(lines, b.end - 1)
<1>1. op \in Edits /\ Begin(op)
  BY DEF EditsOf
<1>2. Op = op
  BY <1>1, OpBegun
<1>3. /\ lines \in Seq(Line)
      /\ p \in Extent \cup {NoSection} /\ q \in Extent \cup {NoSection}
  BY <1>1, Fresh DEF Begin
<1>4. CASE KeepDoc \/ Overlap(p, q)
  <2>1. CASE KeepDoc
    BY <2>1 DEF KeepDoc, docs, Conserves
  <2>2. CASE Overlap(p, q)
    <3>1. op.op = "swap_sections"
      BY DEF EditsOf
    <3> QED BY <1>2, <2>2, <3>1 DEF Conserves
  <2> QED BY <1>4, <2>1, <2>2
<1>5. CASE ~KeepDoc /\ ~Overlap(p, q)
  <2>1. p \in Extent /\ q \in Extent /\ lines' = w \o y \o m \o x \o z
    BY <1>3, <1>5 DEF Put
  <2>2. /\ p.start \in Nat \ {0} /\ p.end \in Nat \ {0} /\ p.start < p.end
        /\ q.start \in Nat \ {0} /\ q.end \in Nat \ {0} /\ q.start < q.end
    BY <2>1 DEF Extent
  <2>3. p.end <= q.start \/ q.end <= p.start
    BY <1>5, <2>2 DEF Overlap
  <2>4. /\ a \in Extent /\ b \in Extent
        /\ a.start \in Nat \ {0} /\ a.end \in Nat \ {0} /\ a.start <= a.end
        /\ b.start \in Nat \ {0} /\ b.end \in Nat \ {0} /\ b.start <= b.end
        /\ a.end <= b.start
    <3>1. CASE p.start > q.start
      BY <2>1, <2>2, <2>3, <3>1
    <3>2. CASE ~(p.start > q.start)
      BY <2>1, <2>2, <2>3, <3>2
    <3> QED BY <3>1, <3>2
  <2> HIDE DEF p, q, a, b
  <2>5. a.start - 1 \in Nat /\ b.end - 1 \in Nat
    BY <2>4
  <2>6. /\ w \in Seq(Line) /\ x \in Seq(Line) /\ m \in Seq(Line)
        /\ y \in Seq(Line) /\ z \in Seq(Line)
    BY <1>3, <2>4, <2>5, TakeFacts, DropFacts, SliceType, RemoveType
  <2>7. lines = w \o (x \o (m \o (y \o z)))
    <3>1. lines = w \o Drop(lines, a.start - 1)
      BY <1>3, <2>5, CutInTwo
    <3>2. Drop(lines, a.start - 1) = x \o Drop(lines, a.end - 1)
      BY <1>3, <2>4, CutSlice DEF Extract
    <3>3. Drop(lines, a.end - 1) = m \o Drop(lines, b.start - 1)
      BY <1>3, <2>4, CutSlice
    <3>4. Drop(lines, b.start - 1) = y \o z
      BY <1>3, <2>4, CutSlice DEF Extract
    <3> QED BY <3>1, <3>2, <3>3, <3>4
  <2> HIDE DEF w, x, m, y, z
  <2>8. ASSUME NEW l PROVE Times(lines', l) = Times(lines, l)
    <3> DEFINE yz == y \o z
               myz == m \o yz
               xmyz == x \o myz
               wy == w \o y
               wym == wy \o m
               wymx == wym \o x
    <3>1. yz \in Seq(Line) /\ Times(yz, l) = Times(y, l) + Times(z, l)
      BY <2>6, TimesConcat, ConcatProperties
    <3>2. wy \in Seq(Line) /\ Times(wy, l) = Times(w, l) + Times(y, l)
      BY <2>6, TimesConcat, ConcatProperties
    <3> HIDE DEF yz, wy
    <3>3. myz \in Seq(Line) /\ Times(myz, l) = Times(m, l) + Times(yz, l)
      BY <2>6, <3>1, TimesConcat, ConcatProperties
    <3>4. wym \in Seq(Line) /\ Times(wym, l) = Times(wy, l) + Times(m, l)
      BY <2>6, <3>2, TimesConcat, ConcatProperties
    <3> HIDE DEF myz, wym
    <3>5. xmyz \in Seq(Line) /\ Times(xmyz, l) = Times(x, l) + Times(myz, l)
      BY <2>6, <3>3, TimesConcat, ConcatProperties
    <3>6. wymx \in Seq(Line) /\ Times(wymx, l) = Times(wym, l) + Times(x, l)
      BY <2>6, <3>4, TimesConcat, ConcatProperties
    <3> HIDE DEF xmyz, wymx
    <3>7. Times(w \o xmyz, l) = Times(w, l) + Times(xmyz, l)
      BY <2>6, <3>5, TimesConcat
    <3>8. Times(wymx \o z, l) = Times(wymx, l) + Times(z, l)
      BY <2>6, <3>6, TimesConcat
    <3>9. lines = w \o xmyz /\ lines' = wymx \o z
      BY <2>1, <2>7 DEF xmyz, myz, yz, wymx, wym, wy
    <3>10. /\ Times(w, l) \in Nat /\ Times(x, l) \in Nat /\ Times(m, l) \in Nat
           /\ Times(y, l) \in Nat /\ Times(z, l) \in Nat
      BY <2>6, TimesConcat
    <3> QED BY <3>1, <3>2, <3>3, <3>4, <3>5, <3>6, <3>7, <3>8, <3>9, <3>10
  <2> QED BY <2>8 DEF Conserves
<1> QED BY <1>4, <1>5

\* The other operations move nothing, and a step that applies none is no move.
LEMMA OthersConserve ==
  ASSUME DocInv,
         Combine \/ SplitSection \/ DeleteSection \/ ReplaceBlock \/ InsertBlock
           \/ CopyBlock \/ EditText \/ RenameSection \/ RewriteSection
           \/ UpdateFrontmatter \/ Assert \/ InjectMarkers \/ Mark \/ Reject
           \/ Open \/ SkipRest \/ Finish \/ UNCHANGED vars
  PROVE  Conserves
<1> DEFINE moves == {"move_section", "move_block", "swap_sections"}
<1>1. ASSUME \E op \in Edits : Begin(op) /\ op.op \notin moves
      PROVE  Conserves
  <2>1. Op.op \notin moves
    BY <1>1, OpBegun
  <2> QED BY <2>1 DEF Conserves
<1>2. Combine \/ SplitSection \/ DeleteSection \/ ReplaceBlock \/ InsertBlock
        => \E op \in Edits : Begin(op) /\ op.op \notin moves
  BY DEF Combine, SplitSection, DeleteSection, ReplaceBlock, InsertBlock, EditsOf
<1>3. CopyBlock \/ EditText \/ RenameSection \/ RewriteSection
        \/ UpdateFrontmatter \/ Assert \/ InjectMarkers
        => \E op \in Edits : Begin(op) /\ op.op \notin moves
  BY DEF CopyBlock, EditText, RenameSection, RewriteSection,
         UpdateFrontmatter, Assert, InjectMarkers, EditsOf
<1>4. MarksDone => Conserves
  BY DEF MarksDone, Conserves
<1>5. MarkBlock \/ MarkAnchor \/ MarkTag \/ Reject \/ Open \/ SkipRest \/ Finish
        \/ UNCHANGED vars => applied' = applied
  <2>1. \A ls, n : Shift(ls, n) => applied' = applied
    BY DEF Shift, ledger
  <2>2. MarkBlock \/ MarkAnchor \/ MarkTag => applied' = applied
    BY <2>1 DEF MarkBlock, MarkAnchor, MarkTag
  <2> QED BY <2>2 DEF Reject, Open, SkipRest, Finish, vars
<1> HIDE DEF moves
<1> QED BY <1>1, <1>2, <1>3, <1>4, <1>5 DEF Mark, Conserves

(***************************************************************************)
(* A move, and a swap of sections that do not overlap, lose no line and    *)
(* double none, wherever the target stands and whatever extent a           *)
(* provisional id has kept.                                                *)
(***************************************************************************)
THEOREM DocMovesConserve == Spec => MovesConserve
<1>1. DocInv /\ [Next]_vars => Conserves
  BY MoveSectionConserves, SwapSectionsConserves, MoveBlockConserves,
     OthersConserve DEF Next, Edit
<1>2. DocInv /\ [Next]_vars =>
        [ /\ applied' # applied
          /\ \/ Op.op \in {"move_section", "move_block"}
             \/ /\ Op.op = "swap_sections"
                /\ ~Overlap(Resolve(Op.sec), Resolve(Op.to))
          => \A l \in LinesOf(lines) \cup LinesOf(lines') :
               Times(lines', l) = Times(lines, l) ]_vars
  BY <1>1 DEF Conserves
<1> QED BY <1>2, DocStart, DocStep, PTL DEF Spec, MovesConserve

-----------------------------------------------------------------------------
\* What is kept around a range.

KeptIn(ls, new, from, to) ==
  /\ Take(new, from - 1) = Take(ls, from - 1)
  /\ Drop(new, Len(new) - (Len(ls) + 1 - to)) = Drop(ls, to - 1)

\* A line for line account of it.
LEMMA KeptLines ==
  ASSUME NEW ls \in Seq(Line), NEW new \in Seq(Line),
         NEW from \in Nat \ {0}, NEW to \in Nat \ {0},
         from <= to, to <= Len(ls) + 1,
         NEW n \in Int, Len(new) = Len(ls) + n, from <= to + n,
         \A i \in 1 .. Len(ls) :
           /\ i < from => new[i] = ls[i]
           /\ to <= i => new[i + n] = ls[i]
  PROVE  KeptIn(ls, new, from, to)
<1> DEFINE f == from - 1
           a == Take(ls, f)
           b == Take(new, f)
           c == Drop(ls, to - 1)
           k == to - 1 + n
           d == Drop(new, k)
<1>1. /\ Len(ls) \in Nat /\ Len(new) \in Nat /\ f \in Nat /\ to - 1 \in Nat
      /\ f <= Len(ls) /\ f <= Len(new) /\ k \in Nat /\ k <= Len(new)
      /\ to - 1 <= Len(ls)
      /\ Len(new) - (Len(ls) + 1 - to) = k
  BY LenProperties
<1>2. /\ a \in Seq(Line) /\ Len(a) = f /\ \A i \in 1 .. f : a[i] = ls[i]
  <2> HIDE DEF f
  <2> QED BY <1>1, TakeFacts DEF Smaller
<1>3. /\ b \in Seq(Line) /\ Len(b) = f /\ \A i \in 1 .. f : b[i] = new[i]
  <2> HIDE DEF f
  <2> QED BY <1>1, TakeFacts DEF Smaller
<1>4. \A i \in 1 .. f : i \in 1 .. Len(ls) /\ i < from
  BY <1>1
<1>5. a = b
  <2>1. \A i \in 1 .. f : a[i] = b[i]
    BY <1>2, <1>3, <1>4
  <2> HIDE DEF a, b, f
  <2> QED BY <1>2, <1>3, <2>1, SeqEqual
<1>6. /\ c \in Seq(Line) /\ Len(c) = Len(ls) - (to - 1)
      /\ \A i \in 1 .. Len(ls) - (to - 1) : c[i] = ls[(to - 1) + i]
  <2> DEFINE h == to - 1
  <2>1. h \in Nat /\ h <= Len(ls)
    BY <1>1
  <2> HIDE DEF h
  <2>2. /\ Drop(ls, h) \in Seq(Line) /\ Len(Drop(ls, h)) = Len(ls) - h
        /\ \A i \in 1 .. Len(ls) - h : Drop(ls, h)[i] = ls[h + i]
    BY <2>1, DropFacts
  <2> QED BY <2>2 DEF h
<1>7. /\ d \in Seq(Line) /\ Len(d) = Len(new) - k
      /\ \A i \in 1 .. Len(new) - k : d[i] = new[k + i]
  <2> HIDE DEF k
  <2> QED BY <1>1, DropFacts
<1>8. Len(c) = Len(d)
  BY <1>1, <1>6, <1>7
<1>9. ASSUME NEW i \in 1 .. Len(c) PROVE c[i] = d[i]
  <2> DEFINE j == (to - 1) + i
  <2>1. /\ j \in 1 .. Len(ls) /\ to <= j /\ j + n = k + i
        /\ i \in 1 .. Len(ls) - (to - 1) /\ i \in 1 .. Len(new) - k
    BY <1>1, <1>6, <1>8, <1>7
  <2> HIDE DEF j
  <2>2. new[j + n] = ls[j]
    BY <2>1
  <2>3. c[i] = ls[j]
    BY <2>1, <1>6 DEF j
  <2>4. d[i] = new[k + i]
    BY <2>1, <1>7
  <2> HIDE DEF c, d, k
  <2> QED BY <2>1, <2>2, <2>3, <2>4
<1>10. c = d
  <2> HIDE DEF c, d
  <2> QED BY <1>6, <1>7, <1>8, <1>9, SeqEqual
<1> HIDE DEF k
<1>11. Drop(new, Len(new) - (Len(ls) + 1 - to)) = c
  BY <1>1, <1>10
<1> QED BY <1>5, <1>11 DEF KeptIn

\* A splice within a range keeps what is around the range.
LEMMA KeptSplice ==
  ASSUME NEW ls \in Seq(Line), NEW new \in Seq(Line),
         NEW start \in Nat \ {0}, NEW end \in Nat \ {0},
         NEW from \in Nat \ {0}, NEW to \in Nat \ {0},
         start <= from, from <= to, to <= end, end <= Len(ls) + 1
  PROVE  KeptIn(ls, Splice(ls, from, to, new), start, end)
<1> DEFINE r == Splice(ls, from, to, new)
           n == Len(new) - (to - from)
<1>1. Len(ls) \in Nat /\ Len(new) \in Nat
  BY LenProperties
<1>2. r \in Seq(Line) /\ Len(r) = Len(ls) - (to - from) + Len(new)
  BY <1>1, SpliceFacts
<1>3. \A i \in 1 .. Len(ls) :
        /\ i < from => i \in 1 .. Len(r) /\ r[i] = ls[i]
        /\ to <= i => LET j == i - (to - from) + Len(new)
                     IN  j \in 1 .. Len(r) /\ r[j] = ls[i]
  BY SpliceFacts
<1> HIDE DEF r
<1>4. ASSUME NEW i \in 1 .. Len(ls), to <= i PROVE r[i + n] = ls[i]
  <2>1. i + n = i - (to - from) + Len(new)
    BY <1>1
  <2> QED BY <1>3, <1>4, <2>1
<1>5. n \in Int /\ Len(r) = Len(ls) + n /\ start <= end /\ start <= end + n
  BY <1>1, <1>2
<1> HIDE DEF n
<1>6. \A i \in 1 .. Len(ls) : /\ i < start => r[i] = ls[i]
                              /\ end <= i => r[i + n] = ls[i]
  BY <1>1, <1>3, <1>4
<1>7. KeptIn(ls, r, start, end)
  BY <1>2, <1>5, <1>6, KeptLines
<1> QED BY <1>7 DEF r

\* So does a line replaced within it.
LEMMA KeptLine ==
  ASSUME NEW ls \in Seq(Line), NEW new \in Seq(Line), Len(new) = Len(ls),
         NEW start \in Nat \ {0}, NEW end \in Nat \ {0},
         NEW h \in Nat, start <= h, h < end, end <= Len(ls) + 1,
         \A i \in 1 .. Len(ls) : i # h => new[i] = ls[i]
  PROVE  KeptIn(ls, new, start, end)
<1>1. Len(ls) \in Nat
  BY LenProperties
<1>2. \A i \in 1 .. Len(ls) : /\ i < start => new[i] = ls[i]
                              /\ end <= i => new[i + 0] = ls[i]
  BY <1>1
<1>3. 0 \in Int /\ Len(new) = Len(ls) + 0 /\ start <= end /\ start <= end + 0
  BY <1>1
<1> QED BY <1>2, <1>3, KeptLines

\* A text keeps all of itself, and two steps keep what each of them keeps.
LEMMA KeptSame ==
  ASSUME NEW ls \in Seq(Line), NEW start \in Nat, NEW end \in Nat
  PROVE  KeptIn(ls, ls, start, end)
<1>1. Len(ls) - (Len(ls) + 1 - end) = end - 1
  BY LenProperties
<1> QED BY <1>1 DEF KeptIn

LEMMA KeptTwice ==
  ASSUME NEW ls \in Seq(Line), NEW mid \in Seq(Line), NEW new \in Seq(Line),
         NEW start \in Nat, NEW end \in Nat, NEW n \in Nat,
         Len(mid) = Len(ls) + n, KeptIn(ls, mid, start, end),
         KeptIn(mid, new, start, end + n)
  PROVE  KeptIn(ls, new, start, end)
<1>1. Len(ls) \in Nat /\ Len(mid) \in Nat /\ Len(new) \in Nat
  BY LenProperties
<1>2. /\ Len(mid) - (Len(ls) + 1 - end) = end + n - 1
      /\ Len(mid) + 1 - (end + n) = Len(ls) + 1 - end
  BY <1>1
<1> QED BY <1>2 DEF KeptIn

LEMMA KeptMeans ==
  ASSUME NEW from, NEW to
  PROVE  KeptIn(lines, lines', from, to) => Kept(from, to)
BY DEF KeptIn, Kept

-----------------------------------------------------------------------------
\* Operations scoped to a section.

ScopeKept(op) ==
  op.sec \notin Key /\ Resolve(op.sec) # NoSection =>
    Kept(Resolve(op.sec).start, Resolve(op.sec).end)

LEMMA ScopedFacts ==
  ASSUME DocInv, NEW op \in Edits, Begin(op), op.sec \notin Key,
         Resolve(op.sec) # NoSection
  PROVE  LET s == Resolve(op.sec)
             r == Scope(lines, sections, op.sec)
         IN  /\ lines \in Seq(Line) /\ s \in Extent
             /\ s.start \in Nat \ {0} /\ s.end \in Nat \ {0} /\ s.start < s.end
             /\ s.end <= Len(lines) + 1 /\ s.start <= Len(lines)
             /\ sections = Parse(lines)
             /\ Ranged(r) /\ r.start = s.start /\ r.end = s.end
<1> DEFINE s == Resolve(op.sec)
<1>1. sections = Parse(lines) /\ lines \in Seq(Line) /\ ProvOK
  BY Fresh DEF Begin, DocInv
<1>2. s \in Parse(lines)
  BY <1>1, ResolveFacts DEF Resolve
<1>3. /\ s \in Extent /\ s.start \in 1 .. Len(lines) /\ s.end <= Len(lines) + 1
  BY <1>1, <1>2, ParseFacts
<1>4. s.start \in Nat \ {0} /\ s.end \in Nat \ {0} /\ s.start < s.end
  BY <1>3 DEF Extent
<1>5. Scope(lines, sections, op.sec) = [start |-> s.start, end |-> s.end]
  BY DEF Scope, Resolve
<1>6. Len(lines) \in Nat
  BY <1>1, LenProperties
<1> QED BY <1>1, <1>3, <1>4, <1>5, <1>6 DEF Ranged

LEMMA KeptDoc ==
  ASSUME DocInv, NEW op \in Edits, Begin(op), KeepDoc
  PROVE  ScopeKept(op)
<1> SUFFICES ASSUME op.sec \notin Key, Resolve(op.sec) # NoSection
             PROVE  KeptIn(lines, lines', Resolve(op.sec).start, Resolve(op.sec).end)
  BY KeptMeans DEF ScopeKept
<1>1. /\ lines \in Seq(Line) /\ Resolve(op.sec).start \in Nat
      /\ Resolve(op.sec).end \in Nat
  BY ScopedFacts
<1> QED BY <1>1, KeptSame DEF KeepDoc, docs

LEMMA SplitSectionKept ==
  ASSUME DocInv, SplitSection
  PROVE  \E op \in Edits : Begin(op) /\ ScopeKept(op)
<1> PICK op \in EditsOf("split_section") : SplitSection!(op)
  BY DEF SplitSection
<1>1. op \in Edits /\ Begin(op)
  BY DEF EditsOf
<1>2. SUFFICES ASSUME op.sec \notin Key, Resolve(op.sec) # NoSection, ~KeepDoc
               PROVE  KeptIn(lines, lines', Resolve(op.sec).start, Resolve(op.sec).end)
  BY <1>1, KeptDoc, KeptMeans DEF ScopeKept
<1> DEFINE s == Resolve(op.sec)
           found == Find(lines, s, op.find)
           heading == [kind |-> "head", level |-> s.level, name |-> op.new,
                       tag |-> NoName]
<1>3. /\ lines \in Seq(Line) /\ s \in Extent
      /\ s.start \in Nat \ {0} /\ s.end \in Nat \ {0} /\ s.start < s.end
      /\ s.end <= Len(lines) + 1 /\ s.start <= Len(lines)
      /\ sections = Parse(lines)
      /\ LET r == Scope(lines, sections, op.sec)
         IN  Ranged(r) /\ r.start = s.start /\ r.end = s.end
  BY <1>1, <1>2, ScopedFacts
<1>4. /\ found # 0
      /\ lines' = Splice(lines, found + 1, found + 1, <<heading>>)
  BY <1>2 DEF Put
<1>5. <<heading>> \in Seq(Line)
  <2>1. heading \in Line
    BY <1>3, EditAssumption DEF EditsOf, Line, Extent
  <2> QED BY <2>1
<1>6. found \in Nat /\ s.start <= found /\ found < s.end
  <2>1. Ranged(s)
    BY <1>3 DEF Ranged
  <2> QED BY <1>3, <1>4, <2>1, FindFacts
<1> DEFINE n == found + 1
           new == <<heading>>
<1>7. n \in Nat \ {0} /\ s.start <= n /\ n <= n /\ n <= s.end
  BY <1>3, <1>6
<1>8. lines' = Splice(lines, n, n, new) /\ new \in Seq(Line)
  BY <1>4, <1>5
<1> HIDE DEF s, n, new
<1> QED BY <1>3, <1>7, <1>8, KeptSplice DEF s

LEMMA ReplaceBlockKept ==
  ASSUME DocInv, ReplaceBlock
  PROVE  \E op \in Edits : Begin(op) /\ ScopeKept(op)
<1> PICK op \in EditsOf("replace_block") : ReplaceBlock!(op)
  BY DEF ReplaceBlock
<1>1. op \in Edits /\ Begin(op)
  BY DEF EditsOf
<1>2. SUFFICES ASSUME op.sec \notin Key, Resolve(op.sec) # NoSection, ~KeepDoc
               PROVE  KeptIn(lines, lines', Resolve(op.sec).start, Resolve(op.sec).end)
  BY <1>1, KeptDoc, KeptMeans DEF ScopeKept
<1> DEFINE s == Resolve(op.sec)
           scope == Scope(lines, sections, op.sec)
           block == FindBlock(lines, scope, op.find)
           one   == Find(lines, scope, op.find)
           range == IF block[1] # 0 THEN block ELSE <<one, one>>
           from  == range[1]
           to    == range[2] + 1
<1>3. /\ lines \in Seq(Line) /\ s \in Extent
      /\ s.start \in Nat \ {0} /\ s.end \in Nat \ {0} /\ s.start < s.end
      /\ s.end <= Len(lines) + 1 /\ s.start <= Len(lines)
      /\ sections = Parse(lines)
      /\ LET r == Scope(lines, sections, op.sec)
         IN  Ranged(r) /\ r.start = s.start /\ r.end = s.end
  BY <1>1, <1>2, ScopedFacts
<1>4. /\ range[1] # 0 /\ lines' = Splice(lines, range[1], range[2] + 1, op.new)
      /\ op.new \in Seq(Line)
  BY <1>2, EditAssumption DEF Put, EditsOf
<1> HIDE DEF scope
<1>5. Ranged(scope) /\ scope.start = s.start /\ scope.end = s.end
  BY <1>3 DEF scope
<1>6. /\ from \in Nat \ {0} /\ to \in Nat \ {0} /\ s.start <= from
      /\ from <= to /\ to <= s.end
  <2>1. CASE block[1] # 0
    BY <1>3, <1>5, <2>1, FindBlockFacts
  <2>2. CASE block[1] = 0
    <3>1. /\ one \in Nat /\ range = <<one, one>>
          /\ one # 0 => s.start <= one /\ one < s.end
      BY <1>3, <1>5, <2>2, FindFacts
    <3> HIDE DEF one, range
    <3> QED BY <1>3, <1>4, <3>1
  <2> QED BY <2>1, <2>2
<1>7. lines' = Splice(lines, from, to, op.new)
  BY <1>4
<1> HIDE DEF s, from, to
<1> QED BY <1>3, <1>4, <1>6, <1>7, KeptSplice DEF s

LEMMA InsertBlockKept ==
  ASSUME DocInv, InsertBlock
  PROVE  \E op \in Edits : Begin(op) /\ ScopeKept(op)
<1> PICK op \in EditsOf("insert_block") : InsertBlock!(op)
  BY DEF InsertBlock
<1>1. op \in Edits /\ Begin(op)
  BY DEF EditsOf
<1>2. SUFFICES ASSUME op.sec \notin Key, Resolve(op.sec) # NoSection, ~KeepDoc
               PROVE  KeptIn(lines, lines', Resolve(op.sec).start, Resolve(op.sec).end)
  BY <1>1, KeptDoc, KeptMeans DEF ScopeKept
<1> DEFINE s == Resolve(op.sec)
           at == Find(lines, Scope(lines, sections, op.sec), op.find)
           from == at + 1
           to   == at + 1
<1>3. /\ lines \in Seq(Line) /\ s \in Extent
      /\ s.start \in Nat \ {0} /\ s.end \in Nat \ {0} /\ s.start < s.end
      /\ s.end <= Len(lines) + 1 /\ s.start <= Len(lines)
      /\ sections = Parse(lines)
      /\ LET r == Scope(lines, sections, op.sec)
         IN  Ranged(r) /\ r.start = s.start /\ r.end = s.end
  BY <1>1, <1>2, ScopedFacts
<1>4. /\ at # 0 /\ lines' = Splice(lines, at + 1, at + 1, op.new)
      /\ op.new \in Seq(Line)
  BY <1>2, EditAssumption DEF Put, EditsOf
<1>5. at \in Nat /\ s.start <= at /\ at < s.end
  BY <1>3, <1>4, FindFacts
<1> HIDE DEF at
<1>6. /\ from \in Nat \ {0} /\ to \in Nat \ {0} /\ s.start <= from
      /\ from <= to /\ to <= s.end
  BY <1>3, <1>4, <1>5
<1>7. lines' = Splice(lines, from, to, op.new)
  BY <1>4
<1> HIDE DEF s, from, to
<1> QED BY <1>3, <1>4, <1>6, <1>7, KeptSplice DEF s

LEMMA EditTextKept ==
  ASSUME DocInv, EditText
  PROVE  \E op \in Edits : Begin(op) /\ ScopeKept(op)
<1> PICK op \in EditsOf("edit_text") : EditText!(op)
  BY DEF EditText
<1>1. op \in Edits /\ Begin(op)
  BY DEF EditsOf
<1>2. SUFFICES ASSUME op.sec \notin Key, Resolve(op.sec) # NoSection, ~KeepDoc
               PROVE  KeptIn(lines, lines', Resolve(op.sec).start, Resolve(op.sec).end)
  BY <1>1, KeptDoc, KeptMeans DEF ScopeKept
<1> DEFINE s == Resolve(op.sec)
           at == Find(lines, Scope(lines, sections, op.sec), op.find)
           from == at
           to   == at + 1
<1>3. /\ lines \in Seq(Line) /\ s \in Extent
      /\ s.start \in Nat \ {0} /\ s.end \in Nat \ {0} /\ s.start < s.end
      /\ s.end <= Len(lines) + 1 /\ s.start <= Len(lines)
      /\ sections = Parse(lines)
      /\ LET r == Scope(lines, sections, op.sec)
         IN  Ranged(r) /\ r.start = s.start /\ r.end = s.end
  BY <1>1, <1>2, ScopedFacts
<1>4. /\ at # 0 /\ lines' = Splice(lines, at, at + 1, op.new)
      /\ op.new \in Seq(Line)
  BY <1>2, EditAssumption DEF Put, EditsOf
<1>5. at \in Nat /\ s.start <= at /\ at < s.end
  BY <1>3, <1>4, FindFacts
<1> HIDE DEF at
<1>6. /\ from \in Nat \ {0} /\ to \in Nat \ {0} /\ s.start <= from
      /\ from <= to /\ to <= s.end
  BY <1>3, <1>4, <1>5
<1>7. lines' = Splice(lines, from, to, op.new)
  BY <1>4
<1> HIDE DEF s, from, to
<1> QED BY <1>3, <1>4, <1>6, <1>7, KeptSplice DEF s

LEMMA RenameSectionKept ==
  ASSUME DocInv, RenameSection
  PROVE  \E op \in Edits : Begin(op) /\ ScopeKept(op)
<1> PICK op \in EditsOf("rename_section") : RenameSection!(op)
  BY DEF RenameSection
<1>1. op \in Edits /\ Begin(op)
  BY DEF EditsOf
<1>2. SUFFICES ASSUME op.sec \notin Key, Resolve(op.sec) # NoSection, ~KeepDoc
               PROVE  KeptIn(lines, lines', Resolve(op.sec).start, Resolve(op.sec).end)
  BY <1>1, KeptDoc, KeptMeans DEF ScopeKept
<1> DEFINE s == Resolve(op.sec)
           heading == [kind |-> "head", level |-> s.level, name |-> op.new,
                       tag |-> s.tag]
           new == [lines EXCEPT ![s.start] = heading]
<1>3. /\ lines \in Seq(Line) /\ s \in Extent
      /\ s.start \in Nat \ {0} /\ s.end \in Nat \ {0} /\ s.start < s.end
      /\ s.end <= Len(lines) + 1 /\ s.start <= Len(lines)
      /\ sections = Parse(lines)
      /\ LET r == Scope(lines, sections, op.sec)
         IN  Ranged(r) /\ r.start = s.start /\ r.end = s.end
  BY <1>1, <1>2, ScopedFacts
<1>4. lines' = new
  BY <1>2 DEF Put
<1>5. heading \in Line /\ s.start \in 1 .. Len(lines)
  BY <1>3, EditAssumption, LenProperties DEF EditsOf, Line, Extent
<1> HIDE DEF heading
<1>6. /\ new \in Seq(Line) /\ Len(new) = Len(lines)
      /\ \A i \in 1 .. Len(lines) : i # s.start => new[i] = lines[i]
  BY <1>3, <1>5, ExceptSeq
<1>7. s.start \in Nat /\ s.start <= s.start
  BY <1>3
<1> HIDE DEF s, new
<1> QED BY <1>3, <1>4, <1>6, <1>7, KeptLine DEF s

LEMMA RewriteSectionKept ==
  ASSUME DocInv, RewriteSection
  PROVE  \E op \in Edits : Begin(op) /\ ScopeKept(op)
<1> PICK op \in EditsOf("rewrite_section") : RewriteSection!(op)
  BY DEF RewriteSection
<1>1. op \in Edits /\ Begin(op)
  BY DEF EditsOf
<1>2. SUFFICES ASSUME op.sec \notin Key, Resolve(op.sec) # NoSection, ~KeepDoc
               PROVE  KeptIn(lines, lines', Resolve(op.sec).start, Resolve(op.sec).end)
  BY <1>1, KeptDoc, KeptMeans DEF ScopeKept
<1> DEFINE s == Resolve(op.sec)
           from == s.start + 1
           to   == IntroEnd(sections, s)
<1>3. /\ lines \in Seq(Line) /\ s \in Extent
      /\ s.start \in Nat \ {0} /\ s.end \in Nat \ {0} /\ s.start < s.end
      /\ s.end <= Len(lines) + 1 /\ s.start <= Len(lines)
      /\ sections = Parse(lines)
      /\ LET r == Scope(lines, sections, op.sec)
         IN  Ranged(r) /\ r.start = s.start /\ r.end = s.end
  BY <1>1, <1>2, ScopedFacts
<1>4. lines' = Splice(lines, from, to, op.new) /\ op.new \in Seq(Line)
  BY <1>2, EditAssumption DEF Put, EditsOf
<1>5. to \in Nat \ {0} /\ s.start < to /\ to <= s.end
  BY <1>3, IntroFacts
<1> HIDE DEF to
<1>6. from \in Nat \ {0} /\ s.start <= from /\ from <= to
  BY <1>3, <1>5
<1> HIDE DEF s, from
<1> QED BY <1>3, <1>4, <1>5, <1>6, KeptSplice DEF s

-----------------------------------------------------------------------------
\* Markers stay within the section they were asked for.  While they go in, the
\* range of the section is still within the text, and its own heading is not
\* further down than the lines inserted can have moved it.

HeadingNear(ls, s, n) ==
  \E h \in 1 .. Len(ls) :
    /\ s.start <= h /\ h <= s.start + n
    /\ ls[h].kind = "head" /\ ls[h].level = s.level /\ ls[h].name = s.name

OfSection == marking # Idle
             /\ marking.sec \notin {NoSection} \cup {prov[k] : k \in DOMAIN prov}

MarkScope ==
  OfSection =>
    /\ marking.scope = [start |-> marking.sec.start, end |-> marking.sec.end]
    /\ marking.sec.end + marking.off <= Len(lines) + 1
    /\ HeadingNear(lines, marking.sec, marking.off)

LEMMA HeadingShifts ==
  ASSUME NEW ls \in Seq(Line), NEW s \in Extent, NEW n \in Nat,
         HeadingNear(ls, s, n),
         NEW w \in Nat \ {0}, s.start + n <= w, w <= Len(ls) + 1, NEW b \in Line
  PROVE  HeadingNear(Splice(ls, w, w, <<b>>), s, n + 1)
<1> DEFINE new == Splice(ls, w, w, <<b>>)
<1>1. PICK h \in 1 .. Len(ls) :
        /\ s.start <= h /\ h <= s.start + n
        /\ ls[h].kind = "head" /\ ls[h].level = s.level /\ ls[h].name = s.name
  BY DEF HeadingNear
<1>2. /\ new \in Seq(Line) /\ Len(new) = Len(ls) + 1 /\ Len(ls) \in Nat
      /\ \A i \in 1 .. Len(ls) : /\ i < w  => new[i] = ls[i]
                                 /\ w <= i => new[i + 1] = ls[i]
  BY InsertFacts, LenProperties
<1>3. s.start \in Nat
  BY DEF Extent
<1> HIDE DEF new
<1>4. \E k \in 1 .. Len(new) : /\ new[k] = ls[h] /\ s.start <= k
                               /\ k <= s.start + (n + 1)
  <2>1. CASE h < w
    BY <1>1, <1>2, <1>3, <2>1
  <2>2. CASE w <= h
    <3>1. h + 1 \in 1 .. Len(new) /\ new[h + 1] = ls[h]
      BY <1>2, <2>2
    <3> QED BY <1>1, <1>3, <3>1
  <2> QED BY <2>1, <2>2
<1>5. HeadingNear(new, s, n + 1)
  BY <1>1, <1>4 DEF HeadingNear
<1> QED BY <1>5 DEF new

\* What a shift does to the bounds.
LEMMA ShiftScope ==
  ASSUME DocInv, marking # Idle, marking.marks # <<>>, MarkScope,
         NEW ls \in Seq(Line), NEW n \in Nat, Shift(ls, n),
         Len(ls) = Len(lines) + n,
         OfSection => HeadingNear(ls, marking.sec, marking.off + n)
  PROVE  MarkScope'
<1>1. /\ marking \in InProgress /\ marking.off \in Nat /\ lines \in Seq(Line)
  BY Marking
<1>2. /\ lines' = ls /\ prov' = prov
      /\ marking' = [marking EXCEPT !.marks = Tail(@), !.off = @ + n]
  BY DEF Shift
<1>3. /\ marking'.sec = marking.sec /\ marking'.scope = marking.scope
      /\ marking'.off = marking.off + n
  BY <1>1, <1>2 DEF InProgress
<1>4. SUFFICES ASSUME OfSection'
               PROVE  /\ marking.scope = [start |-> marking.sec.start,
                                          end |-> marking.sec.end]
                      /\ marking.sec.end + (marking.off + n) <= Len(ls) + 1
                      /\ HeadingNear(ls, marking.sec, marking.off + n)
  BY <1>2, <1>3 DEF MarkScope
<1>5. OfSection
  BY <1>2, <1>3, <1>4 DEF OfSection
<1>6. marking.sec.end \in Nat /\ Len(lines) \in Nat
  BY <1>1, <1>5, LenProperties DEF InProgress, Extent, OfSection
<1> QED BY <1>1, <1>5, <1>6 DEF MarkScope

\* The range of the markers of a section, in numbers.
LEMMA SectionRange ==
  ASSUME DocInv, MarkScope, OfSection, marking.marks # <<>>
  PROVE  /\ lines \in Seq(Line) /\ marking.sec \in Extent /\ marking.off \in Nat
         /\ marking.sec.start \in Nat \ {0} /\ marking.sec.end \in Nat \ {0}
         /\ marking.sec.start < marking.sec.end
         /\ marking.scope.start = marking.sec.start
         /\ Within.start = marking.sec.start + marking.off
         /\ Within.end = marking.sec.end + marking.off
         /\ Within.end \in Nat \ {0} /\ Within.end <= Len(lines) + 1
         /\ HeadingNear(lines, marking.sec, marking.off)
<1>1. marking # Idle /\ marking.sec # NoSection
  BY DEF OfSection
<1>2. /\ lines \in Seq(Line) /\ marking.off \in Nat
      /\ marking.sec \in Extent \cup {NoSection}
      /\ Within.start = marking.scope.start + marking.off
      /\ Within.end = marking.scope.end + marking.off
  BY <1>1, Marking
<1>3. /\ marking.sec \in Extent
      /\ marking.sec.start \in Nat \ {0} /\ marking.sec.end \in Nat \ {0}
      /\ marking.sec.start < marking.sec.end
  BY <1>1, <1>2, ExtentFacts
<1>4. /\ marking.scope.start = marking.sec.start
      /\ marking.scope.end = marking.sec.end
      /\ marking.sec.end + marking.off <= Len(lines) + 1
      /\ HeadingNear(lines, marking.sec, marking.off)
  BY DEF MarkScope
<1> QED BY <1>2, <1>3, <1>4

\* What a marker may do, and what it must leave.
MarkKept ==
  lines' # lines /\ OfSection => Kept(marking.scope.start, Within.end)

LEMMA StayKept ==
  ASSUME DocInv, MarkScope, marking # Idle, marking.marks # <<>>, Shift(lines, 0)
  PROVE  MarkScope' /\ MarkKept
<1>1. lines \in Seq(Line) /\ Len(lines) = Len(lines) + 0 /\ 0 \in Nat
  BY LenProperties DEF DocInv, TypeOK
<1>2. OfSection => marking.off + 0 = marking.off
  BY Marking
<1>3. MarkScope'
  BY <1>1, <1>2, ShiftScope DEF MarkScope
<1> QED BY <1>3 DEF MarkKept, Shift

LEMMA MarkBlockKept ==
  ASSUME DocInv, MarkScope, MarkBlock
  PROVE  MarkScope' /\ MarkKept
<1>1. lines \in Seq(Line) /\ marking # Idle /\ marking.marks # <<>>
  BY DEF DocInv, TypeOK, MarkBlock
<1>2. CASE Shift(lines, 0)
  BY <1>1, <1>2, StayKept
<1>3. ASSUME NEW w \in Nat \ {0}, NEW b \in Line,
             Within.start <= w, w < Within.end, w <= Len(lines),
             LET opened == Splice(lines, w, w, <<b>>)
             IN  \/ Shift(opened, 1)
                 \/ \E u \in Nat \ {0}, e \in Line :
                      /\ w < u /\ u <= Within.end /\ u <= Len(opened)
                      /\ Shift(Splice(opened, u + 1, u + 1, <<e>>), 2)
      PROVE  MarkScope' /\ MarkKept
  <2> DEFINE opened == Splice(lines, w, w, <<b>>)
             start  == marking.sec.start
             end    == Within.end
  <2>1. opened \in Seq(Line) /\ Len(opened) = Len(lines) + 1 /\ Len(lines) \in Nat
    BY <1>1, <1>3, InsertFacts, LenProperties
  <2>2. OfSection => HeadingNear(opened, marking.sec, marking.off + 1)
    <3> SUFFICES ASSUME OfSection
                 PROVE  HeadingNear(opened, marking.sec, marking.off + 1)
      OBVIOUS
    <3>1. /\ marking.sec \in Extent /\ marking.off \in Nat
          /\ HeadingNear(lines, marking.sec, marking.off)
          /\ marking.sec.start + marking.off <= w /\ w <= Len(lines) + 1
      BY <1>1, <1>3, <2>1, SectionRange
    <3> QED BY <1>1, <1>3, <3>1, HeadingShifts
  <2>3. OfSection => KeptIn(lines, opened, start, end)
    <3> SUFFICES ASSUME OfSection PROVE KeptIn(lines, opened, start, end)
      OBVIOUS
    <3>1. /\ start \in Nat \ {0} /\ end \in Nat \ {0} /\ end <= Len(lines) + 1
          /\ start <= w /\ w <= w /\ w <= end
      BY <1>1, <1>3, SectionRange
    <3>2. <<b>> \in Seq(Line)
      BY <1>3
    <3> HIDE DEF start, end
    <3> QED BY <1>1, <3>1, <3>2, KeptSplice
  <2>4. CASE Shift(opened, 1)
    <3>1. MarkScope'
      BY <1>1, <2>1, <2>2, <2>4, ShiftScope
    <3>2. MarkKept
      <4>1. OfSection => marking.scope.start = start
        BY <1>1, SectionRange
      <4>2. lines' = opened
        BY <2>4 DEF Shift
      <4> QED BY <2>3, <4>1, <4>2, KeptMeans DEF MarkKept
    <3> QED BY <3>1, <3>2
  <2>5. ASSUME NEW u \in Nat \ {0}, NEW e \in Line,
               w < u, u <= Within.end, u <= Len(opened),
               Shift(Splice(opened, u + 1, u + 1, <<e>>), 2)
        PROVE  MarkScope' /\ MarkKept
    <3> HIDE DEF opened
    <3> DEFINE v == u + 1
               closed == Splice(opened, v, v, <<e>>)
    <3>1. v \in Nat \ {0} /\ v <= Len(opened) + 1 /\ w + 1 < v
      BY <2>1, <2>5
    <3>2. Shift(closed, 2)
      BY <2>5
    <3> HIDE DEF v
    <3>3. closed \in Seq(Line) /\ Len(closed) = Len(lines) + 2
      <4>1. closed \in Seq(Line) /\ Len(closed) = Len(opened) + 1
        BY <2>1, <2>5, <3>1, InsertFacts
      <4> HIDE DEF closed
      <4> QED BY <2>1, <4>1
    <3>4. OfSection => HeadingNear(closed, marking.sec, marking.off + 2)
      <4> SUFFICES ASSUME OfSection
                   PROVE  HeadingNear(closed, marking.sec, marking.off + 2)
        OBVIOUS
      <4>1. /\ marking.sec \in Extent /\ marking.off \in Nat
            /\ marking.sec.start \in Nat
            /\ marking.sec.start + marking.off <= w
        BY <1>1, <1>3, SectionRange
      <4>2. /\ marking.off + 1 \in Nat /\ marking.off + 1 + 1 = marking.off + 2
            /\ marking.sec.start + (marking.off + 1) <= v
        BY <1>3, <3>1, <4>1
      <4>3. HeadingNear(closed, marking.sec, marking.off + 1 + 1)
        BY <2>1, <2>2, <2>5, <3>1, <4>1, <4>2, HeadingShifts
      <4> QED BY <4>2, <4>3
    <3>5. OfSection => KeptIn(lines, closed, start, end)
      <4> SUFFICES ASSUME OfSection PROVE KeptIn(lines, closed, start, end)
        OBVIOUS
      <4>1. /\ start \in Nat \ {0} /\ end \in Nat \ {0} /\ end <= Len(lines) + 1
            /\ start <= w /\ v <= end + 1
        <5>1. /\ start \in Nat \ {0} /\ end \in Nat \ {0} /\ end <= Len(lines) + 1
              /\ start + marking.off = Within.start /\ marking.off \in Nat
          BY <1>1, SectionRange
        <5>2. start <= w
          BY <1>3, <5>1
        <5>3. v <= end + 1
          BY <2>5, <5>1 DEF v
        <5> QED BY <5>1, <5>2, <5>3
      <4>2. <<e>> \in Seq(Line)
        BY <2>5
      <4> HIDE DEF start, end
      <4>3. /\ start <= v /\ v <= v /\ end + 1 \in Nat \ {0}
            /\ end + 1 <= Len(opened) + 1
        BY <1>3, <2>1, <3>1, <4>1
      <4>4. KeptIn(opened, closed, start, end + 1)
        BY <2>1, <3>1, <4>1, <4>2, <4>3, KeptSplice
      <4> HIDE DEF closed
      <4>5. KeptIn(lines, opened, start, end) /\ start \in Nat /\ end \in Nat
        BY <2>3, <4>1
      <4> QED BY <1>1, <2>1, <3>3, <4>4, <4>5, KeptTwice
    <3> HIDE DEF closed
    <3>6. MarkScope'
      BY <1>1, <3>2, <3>3, <3>4, ShiftScope
    <3>7. MarkKept
      <4>1. OfSection => marking.scope.start = start
        BY <1>1, SectionRange
      <4>2. lines' = closed
        BY <3>2 DEF Shift
      <4> QED BY <3>5, <4>1, <4>2, KeptMeans DEF MarkKept
    <3> QED BY <3>6, <3>7
  <2> QED BY <1>3, <2>4, <2>5
<1> QED BY <1>2, <1>3, MarkBlockShifts

LEMMA MarkAnchorKept ==
  ASSUME DocInv, MarkScope, MarkAnchor
  PROVE  MarkScope' /\ MarkKept
<1>1. lines \in Seq(Line) /\ marking # Idle /\ marking.marks # <<>>
  BY DEF DocInv, TypeOK, MarkAnchor
<1>2. CASE Shift(lines, 0)
  BY <1>1, <1>2, StayKept
<1>3. ASSUME NEW a \in Nat \ {0}, NEW b \in Line,
             Within.start <= a, a < Within.end, a <= Len(lines),
             Shift(Splice(lines, a + 1, a + 1, <<b>>), 1)
      PROVE  MarkScope' /\ MarkKept
  <2> DEFINE w == a + 1
             new == Splice(lines, w, w, <<b>>)
             start == marking.sec.start
             end   == Within.end
  <2>1. Len(lines) \in Nat /\ w \in Nat \ {0} /\ w <= Len(lines) + 1 /\ a < w
    BY <1>1, <1>3, LenProperties
  <2>2. Shift(new, 1)
    BY <1>3
  <2>3. OfSection => w <= end
    BY <1>1, <1>3, SectionRange
  <2> HIDE DEF w
  <2>4. new \in Seq(Line) /\ Len(new) = Len(lines) + 1
    BY <1>1, <1>3, <2>1, InsertFacts
  <2>5. OfSection => HeadingNear(new, marking.sec, marking.off + 1)
    <3> SUFFICES ASSUME OfSection
                 PROVE  HeadingNear(new, marking.sec, marking.off + 1)
      OBVIOUS
    <3>1. /\ marking.sec \in Extent /\ marking.off \in Nat
          /\ HeadingNear(lines, marking.sec, marking.off)
          /\ marking.sec.start \in Nat
          /\ marking.sec.start + marking.off <= a
      BY <1>1, <1>3, SectionRange
    <3>2. marking.sec.start + marking.off <= w
      BY <1>3, <2>1, <3>1
    <3> QED BY <1>1, <1>3, <2>1, <3>1, <3>2, HeadingShifts
  <2>6. OfSection => KeptIn(lines, new, start, end)
    <3> SUFFICES ASSUME OfSection PROVE KeptIn(lines, new, start, end)
      OBVIOUS
    <3>1. /\ start \in Nat \ {0} /\ end \in Nat \ {0} /\ end <= Len(lines) + 1
          /\ start <= a
      BY <1>1, <1>3, SectionRange
    <3>2. <<b>> \in Seq(Line) /\ w <= end /\ w <= w
      BY <1>3, <2>1, <2>3
    <3> HIDE DEF start, end
    <3>3. start <= w
      BY <1>3, <2>1, <3>1
    <3> QED BY <1>1, <2>1, <3>1, <3>2, <3>3, KeptSplice
  <2> HIDE DEF new
  <2>7. MarkScope'
    BY <1>1, <2>2, <2>4, <2>5, ShiftScope
  <2>8. MarkKept
    <3>1. OfSection => marking.scope.start = start
      BY <1>1, SectionRange
    <3>2. lines' = new
      BY <2>2 DEF Shift
    <3> QED BY <2>6, <3>1, <3>2, KeptMeans DEF MarkKept
  <2> QED BY <2>7, <2>8
<1> QED BY <1>2, <1>3, MarkAnchorShifts

\* The heading the tag goes to is the section's own or one above it.
LEMMA MarkTagKept ==
  ASSUME DocInv, MarkScope, MarkTag
  PROVE  MarkScope' /\ MarkKept
<1> DEFINE s == marking.sec
           near == {i \in Heads(lines) :
                      /\ s.start <= i /\ i <= s.start + marking.off + 1
                      /\ lines[i].level = s.level /\ lines[i].name = s.name}
           h == IF near = {} THEN s.start + marking.off ELSE First(near)
<1>1. lines \in Seq(Line) /\ marking # Idle /\ marking.marks # <<>>
  BY DEF DocInv, TypeOK, MarkTag
<1>2. \/ Shift(lines, 0)
      \/ /\ s # NoSection /\ h \in 1 .. Len(lines)
         /\ near # {} => h \in near /\ \A i \in near : h <= i
         /\ \E tag \in Name : Shift([lines EXCEPT ![h].tag = tag], 0)
  BY MarkTagShifts
<1>3. CASE Shift(lines, 0)
  BY <1>1, <1>3, StayKept
<1>4. ASSUME h \in 1 .. Len(lines),
             near # {} => h \in near /\ \A i \in near : h <= i,
             NEW tag \in Name, Shift([lines EXCEPT ![h].tag = tag], 0)
      PROVE  MarkScope' /\ MarkKept
  <2> DEFINE new == [lines EXCEPT ![h].tag = tag]
  <2>1. OfSection => s.start <= h /\ h <= s.start + marking.off
    <3> SUFFICES ASSUME OfSection
                 PROVE  s.start <= h /\ h <= s.start + marking.off
      OBVIOUS
    <3>1. /\ HeadingNear(lines, s, marking.off) /\ s.start \in Nat
          /\ marking.off \in Nat /\ Len(lines) \in Nat
          /\ DOMAIN lines = 1 .. Len(lines)
      BY <1>1, SectionRange, LenProperties
    <3>2. PICK i \in 1 .. Len(lines) :
            /\ s.start <= i /\ i <= s.start + marking.off
            /\ lines[i].kind = "head" /\ lines[i].level = s.level
            /\ lines[i].name = s.name
      BY <3>1 DEF HeadingNear
    <3>3. i \in near
      BY <3>1, <3>2 DEF Heads
    <3>4. h \in near /\ h <= i
      BY <1>4, <3>3
    <3>5. s.start <= h
      BY <3>4
    <3> HIDE DEF h, near
    <3> QED BY <1>4, <3>1, <3>2, <3>4, <3>5
  <2> HIDE DEF h, near
  <2>2. /\ new \in Seq(Line) /\ Len(new) = Len(lines)
        /\ \A i \in 1 .. Len(lines) :
             /\ i # h => new[i] = lines[i]
             /\ new[i].kind = lines[i].kind /\ new[i].level = lines[i].level
             /\ new[i].name = lines[i].name
    BY <1>1, <1>4, TagLine
  <2>3. Shift(new, 0)
    BY <1>4
  <2> HIDE DEF new
  <2>4. OfSection => HeadingNear(new, s, marking.off + 0)
    <3> SUFFICES ASSUME OfSection PROVE HeadingNear(new, s, marking.off + 0)
      OBVIOUS
    <3>1. HeadingNear(lines, s, marking.off) /\ marking.off + 0 = marking.off
      BY <1>1, SectionRange
    <3> QED BY <2>2, <3>1 DEF HeadingNear
  <2>5. MarkScope'
    <3>1. 0 \in Nat /\ Len(new) = Len(lines) + 0
      BY <1>1, <2>2, LenProperties
    <3> QED BY <1>1, <2>2, <2>3, <2>4, <3>1, ShiftScope
  <2>6. MarkKept
    <3> SUFFICES ASSUME OfSection PROVE KeptIn(lines, lines', marking.scope.start, Within.end)
      BY KeptMeans DEF MarkKept
    <3> DEFINE start == marking.scope.start
               end   == Within.end
    <3>1. /\ start = s.start /\ start \in Nat \ {0} /\ end \in Nat \ {0}
          /\ end <= Len(lines) + 1 /\ s.start + marking.off < end
          /\ marking.off \in Nat
      BY <1>1, SectionRange
    <3>2. h \in Nat /\ start <= h /\ h < end
      BY <1>4, <2>1, <3>1
    <3>3. lines' = new
      BY <2>3 DEF Shift
    <3> HIDE DEF start, end
    <3>4. KeptIn(lines, new, start, end)
      BY <1>1, <2>2, <3>1, <3>2, KeptLine
    <3> QED BY <3>3, <3>4 DEF start, end
  <2> QED BY <2>5, <2>6
<1> QED BY <1>2, <1>3, <1>4

LEMMA InjectScoped ==
  ASSUME DocInv, InjectMarkers
  PROVE  MarkScope'
<1> PICK op \in EditsOf("inject_markers") : InjectMarkers!(op)
  BY DEF InjectMarkers
<1> DEFINE s == Resolve(op.sec)
           scope == IF op.sec = NoName
                    THEN [start |-> 1, end |-> Len(lines) + 1]
                    ELSE [start |-> s.start, end |-> s.end]
           begun == [marks |-> op.marks, sec |-> s, scope |-> scope, off |-> 0]
<1>1. op \in Edits /\ Begin(op) /\ lines' = lines /\ prov' = prov /\ marking = Idle
  BY DEF EditsOf, KeepDoc, docs, Begin, Running
<1>2. CASE marking' = marking
  BY <1>1, <1>2 DEF MarkScope, OfSection
<1>3. CASE marking' = begun
  <2> SUFFICES ASSUME OfSection' PROVE MarkScope'
    BY DEF MarkScope
  <2>1. /\ marking'.sec = s /\ marking'.off = 0 /\ marking'.scope = scope
    BY <1>3
  <2>2. s # NoSection /\ s \notin {prov[k] : k \in DOMAIN prov}
    BY <1>1, <2>1 DEF OfSection
  <2>3. op.sec \notin Key
    BY <2>2 DEF Resolve, ResolveIn
  <2>4. op.sec # NoName
    <3>1. CASE op.sec = NoName
      <4>1. Lookup(sections, op.sec) = NoSection
        BY <3>1 DEF Lookup
      <4> QED BY <2>2, <2>3, <4>1 DEF Resolve, ResolveIn
    <3> QED BY <3>1
  <2>5. /\ lines \in Seq(Line) /\ s \in Extent
        /\ s.start \in Nat \ {0} /\ s.end \in Nat \ {0}
        /\ s.end <= Len(lines) + 1 /\ s.start <= Len(lines)
    BY <1>1, <2>2, <2>3, ScopedFacts
  <2>6. /\ lines[s.start].kind = "head" /\ lines[s.start].level = s.level
        /\ lines[s.start].name = s.name
    <3>1. sections = Parse(lines) /\ ProvOK
      BY <1>1, Fresh DEF Begin, DocInv
    <3>2. s \in Parse(lines)
      BY <2>2, <2>3, <2>5, <3>1, ResolveFacts DEF Resolve
    <3> QED BY <2>5, <3>2, ParseFacts
  <2>7. scope = [start |-> s.start, end |-> s.end]
    BY <2>4
  <2> HIDE DEF s, scope
  <2>8. HeadingNear(lines, s, 0)
    <3>1. s.start \in 1 .. Len(lines) /\ s.start <= s.start + 0
      BY <2>5, LenProperties
    <3>2. s.start <= s.start
      BY <2>5
    <3> QED BY <2>6, <3>1, <3>2 DEF HeadingNear
  <2>9. s.end + 0 <= Len(lines) + 1
    BY <2>5, LenProperties
  <2> QED BY <1>1, <2>1, <2>7, <2>8, <2>9 DEF MarkScope
<1> QED BY <1>2, <1>3

Confined ==
  /\ edits' # edits /\ Op.op \in Scoped
     /\ Op.sec \notin Key /\ Resolve(Op.sec) # NoSection
       => Kept(Resolve(Op.sec).start, Resolve(Op.sec).end)
  /\ marking # Idle /\ lines' # lines /\ marking.sec \notin {NoSection}
       \cup {prov[k] : k \in DOMAIN prov}
       => Kept(marking.scope.start, Within.end)

LEMMA EditConfined ==
  ASSUME DocInv, Edit
  PROVE  Confined
<1>1. ASSUME NEW op \in Edits, Begin(op), op.op \notin Scoped \/ ScopeKept(op)
      PROVE  Confined
  <2>1. Op = op /\ marking = Idle
    BY <1>1, OpBegun DEF Begin, Running
  <2> QED BY <1>1, <2>1 DEF Confined, ScopeKept
<1>2. SplitSection \/ ReplaceBlock \/ InsertBlock \/ EditText \/ RenameSection
        \/ RewriteSection => Confined
  BY <1>1, SplitSectionKept, ReplaceBlockKept, InsertBlockKept, EditTextKept,
     RenameSectionKept, RewriteSectionKept
<1>3. Assert \/ MoveSection \/ SwapSections \/ Combine \/ DeleteSection
        => \E op \in Edits : Begin(op) /\ op.op \notin Scoped
  BY DEF Assert, MoveSection, SwapSections, Combine, DeleteSection, EditsOf,
         Scoped
<1>4. MoveBlock \/ CopyBlock \/ UpdateFrontmatter \/ InjectMarkers
        => \E op \in Edits : Begin(op) /\ op.op \notin Scoped
  BY DEF MoveBlock, CopyBlock, UpdateFrontmatter, InjectMarkers, EditsOf,
         Scoped
<1> QED BY <1>1, <1>2, <1>3, <1>4 DEF Edit

LEMMA SkipRestConfined ==
  ASSUME DocInv, SkipRest
  PROVE  Confined
<1>1. lines' = lines /\ marking = Idle /\ lines \in Seq(Line) /\ ProvOK
      /\ status = "applying" /\ sections = Parse(lines)
  BY DEF SkipRest, docs, DocInv, MarkingOK, TypeOK, IndexFresh
<1>2. SUFFICES ASSUME Resolve(Op.sec) # NoSection
               PROVE  KeptIn(lines, lines', Resolve(Op.sec).start, Resolve(Op.sec).end)
  BY <1>1, KeptMeans DEF Confined
<1>3. Resolve(Op.sec) \in Extent
  BY <1>1, <1>2, ResolveFacts DEF Resolve
<1>4. Resolve(Op.sec).start \in Nat /\ Resolve(Op.sec).end \in Nat
  BY <1>3 DEF Extent
<1> QED BY <1>1, <1>4, KeptSame

LEMMA MarkScopeStart == Init => MarkScope
BY DEF Init, MarkScope, OfSection

LEMMA MarkScopeStep == DocInv /\ MarkScope /\ [Next]_vars => MarkScope' /\ Confined
<1> SUFFICES ASSUME DocInv, MarkScope, [Next]_vars PROVE MarkScope' /\ Confined
  OBVIOUS
<1>1. CASE UNCHANGED vars \/ Reject \/ Open \/ Finish
  <2>1. /\ UNCHANGED <<lines, prov, marking, edits>>
    BY <1>1 DEF vars, Reject, Open, Finish, docs
  <2> QED BY <2>1 DEF MarkScope, OfSection, HeadingNear, Confined
<1>2. CASE Edit /\ ~InjectMarkers
  <2>1. Confined
    BY <1>2, EditConfined
  <2>2. marking' = Idle
    BY <1>2, EditRuns DEF Runs, Rest, Begin, Running
  <2> QED BY <2>1, <2>2 DEF MarkScope, OfSection
<1>3. CASE InjectMarkers
  BY <1>3, InjectScoped, EditConfined DEF Edit
<1>4. CASE MarkBlock \/ MarkAnchor \/ MarkTag
  <2>1. MarkScope' /\ MarkKept
    BY <1>4, MarkBlockKept, MarkAnchorKept, MarkTagKept
  <2>2. edits' = edits
    <3>1. \A ls, n : Shift(ls, n) => edits' = edits
      BY DEF Shift, ledger
    <3> QED BY <1>4, <3>1 DEF MarkBlock, MarkAnchor, MarkTag
  <2> QED BY <2>1, <2>2 DEF Confined, MarkKept, OfSection
<1>5. CASE MarksDone
  BY <1>5 DEF MarksDone, MarkScope, OfSection, Confined
<1>6. CASE SkipRest
  <2>1. UNCHANGED <<lines, prov, marking>>
    BY <1>6 DEF SkipRest, docs
  <2> QED BY <1>6, <2>1, SkipRestConfined DEF MarkScope, OfSection, HeadingNear
<1> QED BY <1>1, <1>2, <1>3, <1>4, <1>5, <1>6 DEF Next, Mark

(***************************************************************************)
(* An operation scoped to a section that is found keeps every line before  *)
(* the section and behind it, and so does each single marker: its range    *)
(* moves with the lines inserted before it, and a tag goes to no heading   *)
(* further down, though it is searched for one line beyond the shift.      *)
(***************************************************************************)
THEOREM DocScopeConfined == Spec => ScopeConfined
<1>1. DocInv /\ MarkScope /\ [Next]_vars =>
        [ /\ edits' # edits /\ Op.op \in Scoped
             /\ Op.sec \notin Key /\ Resolve(Op.sec) # NoSection
               => Kept(Resolve(Op.sec).start, Resolve(Op.sec).end)
          /\ marking # Idle /\ lines' # lines /\ marking.sec \notin {NoSection}
               \cup {prov[k] : k \in DOMAIN prov}
               => Kept(marking.scope.start, Within.end)
        ]_vars
  BY MarkScopeStep DEF Confined
<1> QED BY <1>1, DocStart, DocStep, MarkScopeStart, MarkScopeStep, PTL
        DEF Spec, ScopeConfined

=============================================================================
