------------------------------ MODULE PoRepProofs ------------------------------
(***************************************************************************)
(* Proofs about PoRep: about its views, PoRepViews, for all deals, rails,  *)
(* windows and tests, and about its indexer, PoRepIndexer, for every       *)
(* number of invocations, batch size, threshold, chain length, number of   *)
(* versions and of faults.  The views need sums over finite sets, which    *)
(* come first.                                                             *)
(***************************************************************************)
EXTENDS PoRepIndexer, PoRepViews, FiniteSetTheorems, SequenceTheorems, WellFoundedInduction, TLAPS

-----------------------------------------------------------------------------
(* Sums over finite sets. *)

\* A set of natural numbers has a smallest member.
LEMMA Smallest ==
  ASSUME NEW T \in SUBSET Nat, T # {}
  PROVE  \E x \in T : \A y \in T : x <= y
<1> DEFINE R == {ss \in Nat \X Nat : ss[1] < ss[2]}
<1>1. IsWellFoundedOn(R, Nat)
  BY NatLessThanWellFounded DEF OpToRel
<1>2. \A x, y \in Nat : y < x => <<y, x>> \in R
  OBVIOUS
<1> HIDE DEF R
<1>3. PICK x \in T : \A y \in T : ~(<<y, x>> \in R)
  BY <1>1, WFMin
<1>4. \A y \in T : ~(y < x)
  BY <1>2, <1>3
<1> QED
  BY <1>4

\* Among finite sets there is one of which no other is a smaller one by an element.
LEMMA SmallestSet ==
  ASSUME NEW F, F # {}, \A s \in F : IsFiniteSet(s)
  PROVE  \E s \in F : \A x \in s : s \ {x} \notin F
<1> DEFINE T == {Cardinality(s) : s \in F}
<1>1. T \in SUBSET Nat /\ T # {}
  BY FS_CardinalityType
<1> HIDE DEF T
<1>2. PICK n \in T : \A m \in T : n <= m
  BY <1>1, Smallest
<1>3. PICK s \in F : n = Cardinality(s)
  BY DEF T
<1>4. ASSUME NEW x \in s, s \ {x} \in F
      PROVE  FALSE
  <2>1. Cardinality(s \ {x}) = n - 1
    BY <1>3, FS_RemoveElement
  <2>2. Cardinality(s \ {x}) \in T
    BY <1>4 DEF T
  <2>3. n <= n - 1 /\ n \in Nat
    BY <2>1, <2>2, <1>2, <1>1
  <2> QED
    BY <2>3
<1> QED
  BY <1>3, <1>4

Chosen(s) == CHOOSE x \in s : TRUE

\* The function of the subsets that a sum is read off from.
IsSumming(g, S, f) ==
  g = [s \in SUBSET S |-> IF s = {} THEN 0 ELSE f[Chosen(s)] + g[s \ {Chosen(s)}]]
Summing(S, f) == CHOOSE g : IsSumming(g, S, f)
Adds(g, S, f) ==
  \A s \in SUBSET S : g[s] = IF s = {} THEN 0 ELSE f[Chosen(s)] + g[s \ {Chosen(s)}]

\* A sum is read off from it.
LEMMA SumIsSumming ==
  ASSUME NEW S, NEW f
  PROVE  SumOver(S, f) = Summing(S, f)[S]
  BY Zenon DEF SumOver, MapThenSumSet, MapThenFoldSet, Summing, IsSumming, Chosen

\* Below a finite set there is such a function.
LEMMA SummingExists ==
  ASSUME NEW S, IsFiniteSet(S), NEW f
  PROVE  \E g : IsSumming(g, S, f)
<1> DEFINE F(g, s) == IF s = {} THEN 0 ELSE f[Chosen(s)] + g[s \ {Chosen(s)}]
           Upto(k) == {s \in SUBSET S : Cardinality(s) <= k}
           Is(g, k) == g = [s \in Upto(k) |-> F(g, s)]
           n == Cardinality(S)
           T == {k \in 0..n : ~ \E g : Is(g, k)}
<1>1. n \in Nat
  BY FS_CardinalityType
<1>2. \A s \in SUBSET S : /\ IsFiniteSet(s) /\ Cardinality(s) \in 0..n
                          /\ Cardinality(s) = 0 <=> s = {}
                          /\ s # {} => /\ s \ {Chosen(s)} \in SUBSET S
                                       /\ Cardinality(s \ {Chosen(s)}) = Cardinality(s) - 1
  <2> SUFFICES ASSUME NEW s \in SUBSET S
               PROVE  /\ IsFiniteSet(s) /\ Cardinality(s) \in 0..n
                      /\ Cardinality(s) = 0 <=> s = {}
                      /\ s # {} => /\ s \ {Chosen(s)} \in SUBSET S
                                   /\ Cardinality(s \ {Chosen(s)}) = Cardinality(s) - 1
    OBVIOUS
  <2>1. IsFiniteSet(s) /\ Cardinality(s) <= n
    BY FS_Subset
  <2>2. Cardinality(s) \in Nat /\ (Cardinality(s) = 0 <=> s = {})
    BY <2>1, FS_CardinalityType, FS_EmptySet
  <2>3. s # {} => Chosen(s) \in s
    BY DEF Chosen
  <2>4. s # {} => Cardinality(s \ {Chosen(s)}) = Cardinality(s) - 1
    BY <2>1, <2>3, FS_RemoveElement
  <2> HIDE DEF n
  <2> QED
    BY <1>1, <2>1, <2>2, <2>4
<1> HIDE DEF n
<1>3. T = {}
  <2> SUFFICES ASSUME T # {} PROVE FALSE
    OBVIOUS
  <2>1. PICK k \in T : \A j \in T : k <= j
    <3>1. T \in SUBSET Nat
      BY <1>1
    <3> HIDE DEF T
    <3> QED
      BY <3>1, Smallest
  <2>2. k \in 0..n /\ ~ \E g : Is(g, k)
    OBVIOUS
  <2>3. CASE k = 0
    <3> DEFINE g == [s \in Upto(0) |-> 0]
    <3>1. \A s \in Upto(0) : F(g, s) = 0
      BY <1>2
    <3>2. Is(g, 0)
      BY <3>1
    <3> QED
      BY <3>2, <2>2, <2>3
  <2>4. CASE k # 0
    <3>1. k - 1 \in 0..n /\ k \in Nat /\ ~(k <= k - 1)
      BY <2>2, <2>4, <1>1
    <3>2. k - 1 \notin T
      BY <2>1, <3>1
    <3>3. PICK h : Is(h, k - 1)
      BY <3>1, <3>2
    <3> DEFINE g == [s \in Upto(k) |-> F(h, s)]
    <3>4. \A s \in Upto(k) : s # {} => s \ {Chosen(s)} \in Upto(k - 1)
      BY <1>2, <3>1
    <3>5. \A s \in Upto(k - 1) : s \in Upto(k) /\ h[s] = F(h, s)
      <4> HIDE DEF F
      <4>1. \A s \in Upto(k - 1) : h[s] = F(h, s)
        BY <3>3
      <4>2. \A s \in Upto(k - 1) : s \in Upto(k)
        <5> SUFFICES ASSUME NEW s \in Upto(k - 1) PROVE Cardinality(s) <= k
          OBVIOUS
        <5>1. Cardinality(s) \in 0..n /\ Cardinality(s) <= k - 1
          BY <1>2
        <5> QED
          BY <5>1, <3>1, <1>1
      <4> QED
        BY <4>1, <4>2
    <3>6. \A s \in Upto(k - 1) : g[s] = h[s]
      <4> HIDE DEF F, Upto
      <4> QED
        BY <3>5
    <3>7. \A s \in Upto(k) : F(g, s) = F(h, s)
      <4> HIDE DEF g, Upto
      <4> QED
        BY <3>4, <3>6
    <3>8. Is(g, k)
      <4> HIDE DEF F, Upto
      <4> QED
        BY <3>7
    <3> HIDE DEF g
    <3> QED
      BY <3>8, <2>2
  <2> QED
    BY <2>3, <2>4
<1>4. PICK g : Is(g, n)
  <2>1. n \in 0..n
    BY <1>1
  <2> QED
    BY <1>3, <2>1
<1>5. Upto(n) = SUBSET S
  <2>1. ASSUME NEW s \in SUBSET S PROVE Cardinality(s) <= n
    <3>1. Cardinality(s) \in 0..n
      BY <1>2
    <3> QED
      BY <3>1, <1>1
  <2> QED
    BY <2>1
<1> HIDE DEF Upto
<1>6. g = [s \in SUBSET S |-> F(g, s)]
  BY <1>4, <1>5
<1> QED
  BY <1>6 DEF IsSumming

\* The function chosen is one of these.
LEMMA SummingAdds ==
  ASSUME NEW S, IsFiniteSet(S), NEW f
  PROVE  Adds(Summing(S, f), S, f)
<1>1. IsSumming(Summing(S, f), S, f)
  BY SummingExists, Zenon DEF Summing
<1> DEFINE g == Summing(S, f)
<1> HIDE DEF g
<1>2. g = [s \in SUBSET S |-> IF s = {} THEN 0 ELSE f[Chosen(s)] + g[s \ {Chosen(s)}]]
  BY <1>1 DEF IsSumming, g
<1>3. Adds(g, S, f)
  BY <1>2 DEF Adds
<1> QED
  BY <1>3 DEF g

\* Such functions agree on a set that is below both.
LEMMA AddsAgree ==
  ASSUME NEW S, NEW R, NEW f, NEW g, NEW h, IsFiniteSet(R), Adds(g, S, f), Adds(h, R, f), R \subseteq S
  PROVE  g[R] = h[R]
<1> DEFINE F == {s \in SUBSET R : g[s] # h[s]}
<1>1. \A s \in F : IsFiniteSet(s)
  BY FS_Subset
<1>2. CASE F # {}
  <2> HIDE DEF F
  <2>1. PICK s \in F : \A x \in s : s \ {x} \notin F
    BY <1>1, <1>2, SmallestSet
  <2> USE DEF F
  <2>2. s \in SUBSET S /\ s \in SUBSET R
    OBVIOUS
  <2>3. s # {}
    BY <2>2 DEF Adds
  <2>4. Chosen(s) \in s
    BY <2>3 DEF Chosen
  <2>5. s \ {Chosen(s)} \notin F
    BY <2>1, <2>4
  <2>6. g[s \ {Chosen(s)}] = h[s \ {Chosen(s)}]
    BY <2>2, <2>5
  <2>7. g[s] = f[Chosen(s)] + g[s \ {Chosen(s)}] /\ h[s] = f[Chosen(s)] + h[s \ {Chosen(s)}]
    BY <2>2, <2>3 DEF Adds
  <2> QED
    BY <2>6, <2>7
<1> QED
  BY <1>2

\* A sum over a set of one element more.
LEMMA SumChosen ==
  ASSUME NEW S, IsFiniteSet(S), NEW f
  PROVE  /\ S = {} => SumOver(S, f) = 0
         /\ S # {} => SumOver(S, f) = f[Chosen(S)] + SumOver(S \ {Chosen(S)}, f)
<1>1. Adds(Summing(S, f), S, f)
  BY SummingAdds
<1>2. S \in SUBSET S
  OBVIOUS
<1>3. S = {} => Summing(S, f)[S] = 0
  BY <1>1, <1>2 DEF Adds
<1>4. S # {} => Summing(S, f)[S] = f[Chosen(S)] + Summing(S, f)[S \ {Chosen(S)}]
  BY <1>1, <1>2 DEF Adds
<1> DEFINE R == S \ {Chosen(S)}
<1>5. IsFiniteSet(R) /\ R \subseteq S
  BY FS_Subset
<1> HIDE DEF R
<1>6. Adds(Summing(R, f), R, f)
  BY <1>5, SummingAdds
<1>7. Summing(S, f)[R] = Summing(R, f)[R]
  BY <1>1, <1>5, <1>6, AddsAgree
<1>8. SumOver(S, f) = Summing(S, f)[S] /\ SumOver(R, f) = Summing(R, f)[R]
  BY SumIsSumming
<1> QED
  BY <1>3, <1>4, <1>7, <1>8 DEF R

\* A sum of integers is one.
LEMMA SumType ==
  ASSUME NEW S, IsFiniteSet(S), NEW f, \A x \in S : f[x] \in Int
  PROVE  SumOver(S, f) \in Int
<1> DEFINE F == {s \in SUBSET S : SumOver(s, f) \notin Int}
<1>1. \A s \in F : IsFiniteSet(s)
  BY FS_Subset
<1>2. CASE F # {}
  <2> HIDE DEF F
  <2>1. PICK s \in F : \A x \in s : s \ {x} \notin F
    BY <1>1, <1>2, SmallestSet
  <2>2. IsFiniteSet(s)
    BY <1>1
  <2> USE DEF F
  <2>3. s # {}
    <3>1. SumOver({}, f) = 0
      BY FS_EmptySet, SumChosen
    <3> QED
      BY <3>1
  <2>4. Chosen(s) \in s
    BY <2>3 DEF Chosen
  <2>5. SumOver(s \ {Chosen(s)}, f) \in Int /\ f[Chosen(s)] \in Int
    BY <2>1, <2>4
  <2>6. SumOver(s, f) = f[Chosen(s)] + SumOver(s \ {Chosen(s)}, f)
    BY <2>2, <2>3, SumChosen
  <2> QED
    BY <2>5, <2>6
<1> QED
  BY <1>2

\* Any element may be added last.
LEMMA SumRemove ==
  ASSUME NEW S, IsFiniteSet(S), NEW f, \A y \in S : f[y] \in Int, NEW x \in S
  PROVE  SumOver(S, f) = f[x] + SumOver(S \ {x}, f)
<1> DEFINE Same(s, y) == SumOver(s, f) = f[y] + SumOver(s \ {y}, f)
           F == {s \in SUBSET S : \E y \in s : ~Same(s, y)}
<1>1. \A s \in F : IsFiniteSet(s)
  BY FS_Subset
<1>2. CASE F # {}
  <2> HIDE DEF F
  <2>1. PICK s \in F : \A y \in s : s \ {y} \notin F
    BY <1>1, <1>2, SmallestSet
  <2>2. s \in SUBSET S /\ IsFiniteSet(s)
    BY <1>1 DEF F
  <2>3. PICK y \in s : ~Same(s, y)
    BY DEF F
  <2>4. \A z \in s : \A w \in s \ {z} : Same(s \ {z}, w)
    BY <2>1, <2>2 DEF F
  <2>5. \A z \in s : \A w \in s : SumOver((s \ {z}) \ {w}, f) \in Int
    <3> SUFFICES ASSUME NEW z \in s, NEW w \in s PROVE SumOver((s \ {z}) \ {w}, f) \in Int
      OBVIOUS
    <3>1. IsFiniteSet((s \ {z}) \ {w})
      BY <2>2, FS_Subset
    <3>2. \A v \in (s \ {z}) \ {w} : f[v] \in Int
      BY <2>2
    <3> QED
      BY <3>1, <3>2, SumType
  <2> DEFINE c == Chosen(s)
  <2>6. c \in s
    BY <2>3 DEF Chosen
  <2>7. Same(s, c)
    BY <2>2, <2>3, SumChosen
  <2> HIDE DEF c
  <2>8. y # c
    BY <2>3, <2>7
  <2>9. SumOver(s \ {c}, f) = f[y] + SumOver((s \ {c}) \ {y}, f)
    BY <2>4, <2>6, <2>8
  <2>10. SumOver(s \ {y}, f) = f[c] + SumOver((s \ {y}) \ {c}, f)
    BY <2>4, <2>6, <2>8
  <2>11. (s \ {y}) \ {c} = (s \ {c}) \ {y}
    OBVIOUS
  <2>12. SumOver(s, f) = f[c] + SumOver(s \ {c}, f)
    BY <2>7
  <2>13. SumOver((s \ {c}) \ {y}, f) \in Int /\ f[c] \in Int /\ f[y] \in Int
    BY <2>5, <2>6, <2>2
  <2> DEFINE rest == SumOver((s \ {c}) \ {y}, f)
  <2>14. SumOver(s, f) = f[c] + (f[y] + rest) /\ SumOver(s \ {y}, f) = f[c] + rest
    BY <2>9, <2>10, <2>11, <2>12
  <2> HIDE DEF rest
  <2>15. SumOver(s, f) = f[y] + SumOver(s \ {y}, f)
    <3>1. rest \in Int /\ f[c] \in Int /\ f[y] \in Int
      BY <2>13 DEF rest
    <3> QED
      BY ONLY <2>14, <3>1
  <2> QED
    BY <2>3, <2>15
<1> QED
  BY <1>2

\* The sum over nothing.
LEMMA SumEmpty ==
  ASSUME NEW f
  PROVE  SumOver({}, f) = 0
  BY SumChosen, FS_EmptySet

\* The sum of one more.
LEMMA SumAdd ==
  ASSUME NEW S, IsFiniteSet(S), NEW f, NEW x, x \notin S, \A y \in S \cup {x} : f[y] \in Int
  PROVE  SumOver(S \cup {x}, f) = f[x] + SumOver(S, f)
<1>1. IsFiniteSet(S \cup {x}) /\ x \in S \cup {x} /\ (S \cup {x}) \ {x} = S
  BY FS_AddElement
<1> QED
  BY <1>1, SumRemove

\* Equal terms have equal sums, and smaller ones smaller sums.
LEMMA SumCompare ==
  ASSUME NEW S, IsFiniteSet(S), NEW f, NEW g,
         \A x \in S : f[x] \in Int /\ g[x] \in Int /\ f[x] <= g[x]
  PROVE  SumOver(S, f) <= SumOver(S, g)
<1> DEFINE F == {s \in SUBSET S : ~(SumOver(s, f) <= SumOver(s, g))}
<1>1. \A s \in F : IsFiniteSet(s)
  BY FS_Subset
<1>2. CASE F # {}
  <2> HIDE DEF F
  <2>1. PICK s \in F : \A x \in s : s \ {x} \notin F
    BY <1>1, <1>2, SmallestSet
  <2>2. IsFiniteSet(s)
    BY <1>1
  <2> USE DEF F
  <2>3. s # {}
    BY SumEmpty
  <2>4. PICK c : c \in s
    BY <2>3
  <2>5. SumOver(s \ {c}, f) <= SumOver(s \ {c}, g)
    BY <2>1, <2>4
  <2>6. SumOver(s, f) = f[c] + SumOver(s \ {c}, f)
    BY <2>2, <2>4, SumRemove
  <2>7. SumOver(s, g) = g[c] + SumOver(s \ {c}, g)
    BY <2>2, <2>4, SumRemove
  <2>8. IsFiniteSet(s \ {c})
    BY <2>2, FS_Subset
  <2>9. SumOver(s \ {c}, f) \in Int /\ SumOver(s \ {c}, g) \in Int
    BY <2>8, SumType
  <2>10. f[c] \in Int /\ g[c] \in Int /\ f[c] <= g[c] /\ ~(SumOver(s, f) <= SumOver(s, g))
    BY <2>4
  <2> QED
    BY <2>5, <2>6, <2>7, <2>9, <2>10
<1> QED
  BY <1>2
\* Equal terms have equal sums.
LEMMA SumEqual ==
  ASSUME NEW S, IsFiniteSet(S), NEW f, NEW g, \A x \in S : f[x] \in Int /\ f[x] = g[x]
  PROVE  SumOver(S, f) = SumOver(S, g)
<1>1. SumOver(S, f) <= SumOver(S, g) /\ SumOver(S, g) <= SumOver(S, f)
  BY SumCompare
<1>2. SumOver(S, f) \in Int /\ SumOver(S, g) \in Int
  BY SumType
<1> QED
  BY <1>1, <1>2

\* The sum over two sets apart.
LEMMA SumUnion ==
  ASSUME NEW S, NEW R, IsFiniteSet(S), IsFiniteSet(R), S \cap R = {},
         NEW f, \A x \in S \cup R : f[x] \in Int
  PROVE  SumOver(S \cup R, f) = SumOver(S, f) + SumOver(R, f)
<1> DEFINE F == {s \in SUBSET R : SumOver(S \cup s, f) # SumOver(S, f) + SumOver(s, f)}
<1>1. \A s \in F : IsFiniteSet(s)
  BY FS_Subset
<1>2. CASE F # {}
  <2> HIDE DEF F
  <2>1. PICK s \in F : \A x \in s : s \ {x} \notin F
    BY <1>1, <1>2, SmallestSet
  <2>2. IsFiniteSet(s)
    BY <1>1
  <2>3. s \in SUBSET R /\ SumOver(S \cup s, f) # SumOver(S, f) + SumOver(s, f)
    BY DEF F
  <2>4. SumOver(S, f) \in Int
    BY SumType
  <2>5. s # {}
    <3> SUFFICES ASSUME s = {} PROVE FALSE
      OBVIOUS
    <3>1. S \cup s = S /\ SumOver(s, f) = 0
      BY SumEmpty
    <3> QED
      BY <3>1, <2>3, <2>4
  <2>6. PICK c : c \in s
    BY <2>5
  <2>7. SumOver(S \cup (s \ {c}), f) = SumOver(S, f) + SumOver(s \ {c}, f)
    BY <2>1, <2>3, <2>6 DEF F
  <2>8. SumOver(s, f) = f[c] + SumOver(s \ {c}, f)
    BY <2>2, <2>3, <2>6, SumRemove
  <2>9. SumOver(S \cup s, f) = f[c] + SumOver(S \cup (s \ {c}), f)
    <3>1. IsFiniteSet(S \cup s) /\ c \in S \cup s /\ \A x \in S \cup s : f[x] \in Int
      BY <2>2, <2>3, <2>6, FS_Union
    <3>2. (S \cup s) \ {c} = S \cup (s \ {c})
      BY <2>3, <2>6
    <3> QED
      BY <3>1, <3>2, SumRemove
  <2>10. IsFiniteSet(s \ {c})
    BY <2>2, FS_Subset
  <2>11. SumOver(s \ {c}, f) \in Int /\ f[c] \in Int
    BY <2>3, <2>6, <2>10, SumType
  <2> QED
    BY <2>3, <2>4, <2>7, <2>8, <2>9, <2>11
<1>3. R \notin F
  BY <1>2
<1> QED
  BY <1>3

\* The sum over a part of the terms, none of which is below zero.
LEMMA SumPart ==
  ASSUME NEW S, NEW R, IsFiniteSet(S), R \subseteq S, NEW f, \A x \in S : f[x] \in Nat
  PROVE  0 <= SumOver(R, f) /\ SumOver(R, f) <= SumOver(S, f)
<1>1. IsFiniteSet(R) /\ IsFiniteSet(S \ R) /\ R \cap (S \ R) = {} /\ R \cup (S \ R) = S
  BY FS_Subset
<1>2. SumOver(S, f) = SumOver(R, f) + SumOver(S \ R, f)
  BY <1>1, SumUnion
<1>3. ASSUME NEW s, s \subseteq S, IsFiniteSet(s)
      PROVE  0 <= SumOver(s, f) /\ SumOver(s, f) \in Int
  <2> DEFINE z == [x \in S |-> 0]
             F == {q \in SUBSET s : SumOver(q, z) # 0}
  <2>1. \A q \in F : IsFiniteSet(q)
    BY <1>3, FS_Subset
  <2>2. ASSUME F # {} PROVE FALSE
    <3> HIDE DEF F
    <3>1. PICK q \in F : \A x \in q : q \ {x} \notin F
      BY <2>1, <2>2, SmallestSet
    <3>2. IsFiniteSet(q) /\ q \subseteq S /\ SumOver(q, z) # 0
      BY <2>1, <1>3 DEF F
    <3>3. PICK c : c \in q
      BY <3>2, SumEmpty
    <3>4. SumOver(q \ {c}, z) = 0
      BY <3>1, <3>2, <3>3 DEF F
    <3>5. \A y \in q : z[y] = 0
      BY <3>2
    <3> HIDE DEF z
    <3>6. SumOver(q, z) = z[c] + SumOver(q \ {c}, z)
      BY <3>2, <3>3, <3>5, SumRemove
    <3> QED
      BY <3>2, <3>3, <3>4, <3>5, <3>6
  <2>3. SumOver(s, z) = 0
    <3>1. s \notin F
      BY <2>2
    <3> QED
      BY <3>1
  <2>4. \A x \in s : z[x] \in Int /\ f[x] \in Int /\ z[x] <= f[x]
    BY <1>3
  <2> HIDE DEF z
  <2>5. SumOver(s, z) <= SumOver(s, f)
    BY <1>3, <2>4, SumCompare
  <2>6. SumOver(s, f) \in Int
    BY <1>3, <2>4, SumType
  <2> QED
    BY <2>3, <2>5, <2>6
<1>4. 0 <= SumOver(R, f) /\ SumOver(R, f) \in Int /\ 0 <= SumOver(S \ R, f) /\ SumOver(S \ R, f) \in Int
  BY <1>1, <1>3
<1> QED
  BY <1>2, <1>4

\* A finite set in three parts.
LEMMA ThreeParts ==
  ASSUME NEW S, IsFiniteSet(S), NEW A, NEW B, NEW C, S = A \cup B \cup C,
         A \cap B = {}, A \cap C = {}, B \cap C = {}
  PROVE  Cardinality(A) + Cardinality(B) + Cardinality(C) = Cardinality(S)
<1>1. IsFiniteSet(A) /\ IsFiniteSet(B) /\ IsFiniteSet(C) /\ IsFiniteSet(A \cup B)
  BY FS_Subset
<1>2. Cardinality(A) \in Nat /\ Cardinality(B) \in Nat /\ Cardinality(C) \in Nat /\ Cardinality(A \cup B) \in Nat
  BY <1>1, FS_CardinalityType
<1>3. Cardinality(A \cup B) = Cardinality(A) + Cardinality(B)
  <2>1. Cardinality(A \cap B) = 0
    BY FS_EmptySet
  <2>2. Cardinality(A \cup B) = Cardinality(A) + Cardinality(B) - Cardinality(A \cap B)
    BY <1>1, FS_Union
  <2>3. QED
    BY <1>2, <2>1, <2>2
<1>4. Cardinality(S) = Cardinality(A \cup B) + Cardinality(C)
  <2>1. (A \cup B) \cap C = {} /\ S = (A \cup B) \cup C
    OBVIOUS
  <2>2. Cardinality((A \cup B) \cap C) = 0
    BY <2>1, FS_EmptySet
  <2>3. Cardinality((A \cup B) \cup C) = Cardinality(A \cup B) + Cardinality(C) - Cardinality((A \cup B) \cap C)
    BY <1>1, FS_Union
  <2>4. QED
    BY <1>2, <2>1, <2>2, <2>3
<1>5. QED
  BY <1>2, <1>3, <1>4

FollowedIn(w) == {d \in Deals : Followed(d, w)}
MetIn(w) == {d \in FollowedIn(w) : \A level \in Levels(w) \cap RequiredLevels(d) :
                                     Meets(Average({w}, level), level, Requirements[d][level])}
Of(w, state) == {d \in Deals : Followed(d, w) /\ ComplianceIn(d, w) = state}

\* The verdicts on a deal in a window are one of three.
LEMMA ComplianceIsOne ==
  ASSUME NEW d, NEW w
  PROVE  ComplianceIn(d, w) \in {"compliant", "noncompliant", "unknown"}
  BY DEF ComplianceIn

\* What is called compliant meets all that was measured.
LEMMA CompliantMeets ==
  ASSUME NEW d \in Deals, NEW w, ComplianceIn(d, w) = "compliant",
         NEW level \in Levels(w) \cap RequiredLevels(d)
  PROVE  Meets(Average({w}, level), level, Requirements[d][level])
<1>1. /\ Verdict(d, w, level) # "unknown" /\ Verdict(d, w, level) # "noncompliant"
  BY DEF ComplianceIn
<1>2. Requirements[d][level] # 0
  BY DEF RequiredLevels
<1>3. QED
  BY <1>1, <1>2 DEF Verdict

\* And of what is called noncompliant something that was measured does not.
LEMMA NoncompliantFails ==
  ASSUME NEW d \in Deals, NEW w, ComplianceIn(d, w) = "noncompliant"
  PROVE  \E level \in Levels(w) \cap RequiredLevels(d) :
           ~Meets(Average({w}, level), level, Requirements[d][level])
<1>1. PICK level \in Levels(w) : Verdict(d, w, level) = "noncompliant"
  BY DEF ComplianceIn
<1>2. Requirements[d][level] # 0 /\ ~Meets(Average({w}, level), level, Requirements[d][level])
  BY <1>1 DEF Verdict
<1>3. level \in RequiredLevels(d)
  BY <1>1, <1>2 DEF RequiredLevels, Levels
<1>4. QED
  BY <1>2, <1>3

\* An entry of the history counts the deals of each state.
LEMMA HistoryCounts ==
  ASSUME NEW w \in DOMAIN SLIComplianceHistory, NEW state \in {"compliant", "noncompliant", "unknown"}
  PROVE  SLIComplianceHistory[w][state] = Cardinality(Of(w, state))
<1> DEFINE activated == {rails[d].activated : d \in Listed} \ {Absent}
           history == [v \in Min(activated)..(now - 1) |->
                         [s \in {"compliant", "noncompliant", "unknown"} |-> Cardinality(Of(v, s))]]
<1>1. SLIComplianceHistory = IF activated = {} THEN <<>> ELSE history
  BY Zenon DEF SLIComplianceHistory, Of
<1>2. activated # {}
  BY <1>1
<1>3. SLIComplianceHistory = history
  BY <1>1, <1>2
<1>4. QED
  BY <1>3

\* Every entry of the history shares the deals followed out.
LEMMA ComplianceInvariance == ComplianceOfEveryDeal
<1>1. SUFFICES ASSUME NEW w \in DOMAIN SLIComplianceHistory
               PROVE  /\ SLIComplianceHistory[w]["compliant"] + SLIComplianceHistory[w]["noncompliant"]
                           + SLIComplianceHistory[w]["unknown"] = Cardinality(FollowedIn(w))
                      /\ SLIComplianceHistory[w]["compliant"] <= Cardinality(MetIn(w))
                      /\ SLIComplianceHistory[w]["noncompliant"] <= Cardinality(FollowedIn(w) \ MetIn(w))
  BY Zenon DEF ComplianceOfEveryDeal, FollowedIn, MetIn
<1>2. IsFiniteSet(FollowedIn(w))
  BY ViewsAssumption, FS_Subset DEF FollowedIn
<1>3. IsFiniteSet(MetIn(w)) /\ IsFiniteSet(FollowedIn(w) \ MetIn(w))
  BY <1>2, FS_Subset DEF MetIn
<1>4. /\ FollowedIn(w) = Of(w, "compliant") \cup Of(w, "noncompliant") \cup Of(w, "unknown")
      /\ Of(w, "compliant") \cap Of(w, "noncompliant") = {}
      /\ Of(w, "compliant") \cap Of(w, "unknown") = {}
      /\ Of(w, "noncompliant") \cap Of(w, "unknown") = {}
  BY ComplianceIsOne DEF Of, FollowedIn
<1>5. Of(w, "compliant") \subseteq MetIn(w)
  BY CompliantMeets DEF Of, MetIn, FollowedIn
<1>6. Of(w, "noncompliant") \subseteq FollowedIn(w) \ MetIn(w)
  BY NoncompliantFails DEF Of, MetIn, FollowedIn
<1>7. QED
  BY <1>2, <1>3, <1>4, <1>5, <1>6, HistoryCounts, ThreeParts, FS_Subset

\* Every deal followed in a window before this one is in exactly one state of it, called
\* compliant only if all that was measured in the window meets the requirements, and
\* noncompliant only if something does not: of every market, in every state of it.
THEOREM ComplianceOfEveryDealHolds == ViewsSpec => []ComplianceOfEveryDeal
  BY ComplianceInvariance, PTL

\* The clients, or the values, of a finite set are no more than its members.
LEMMA ImageSize ==
  ASSUME NEW S, IsFiniteSet(S), NEW f
  PROVE  IsFiniteSet({f[x] : x \in S}) /\ Cardinality({f[x] : x \in S}) <= Cardinality(S)
<1> DEFINE T == {f[x] : x \in S}
           g == [x \in S |-> f[x]]
<1>1. g \in Surjection(S, T)
  BY DEF Surjection
<1>2. QED
  BY <1>1, FS_Surjection

WindowsTested(level) == {w \in Windows : Tested(w) /\ level # "indexing" /\ ValueOf(w, level) # Absent}
Later(w, level) == {v \in WindowsTested(level) : v > w}
RecentValued(level) == {w \in RecentTests : ValueOf(w, level) # Absent}

\* What is shown of a level, by the windows tested and those later.
LEMMA MeasuredIs ==
  ASSUME NEW level
  PROVE  Measured(level) = {w \in WindowsTested(level) : /\ Cardinality(Later(w, level)) < MaxMeasured
                                                        /\ ValueOf(w, level) # Null}
  BY Zenon DEF Measured, WindowsTested, Later

\* Windows are finitely many numbers.
LEMMA WindowsFinite == IsFiniteSet(Windows) /\ Windows \subseteq Nat
  BY FS_Interval, ViewsAssumption DEF Windows

\* Where no more tests are recent than are shown, every recent value is shown.
LEMMA RecentMeasured ==
  ASSUME now \in Windows, NEW level \in ServiceLevels \ {"indexing"},
         Cardinality(RecentTests) <= MaxMeasured
  PROVE  Averaged(RecentTests, level) \subseteq Measured(level)
<1>1. SUFFICES ASSUME NEW w \in RecentTests, ValueOf(w, level) \notin {Absent, Null}
               PROVE  w \in Measured(level)
  BY DEF Averaged
<1>2. w \in WindowsTested(level)
  BY <1>1 DEF RecentTests, WindowsTested
<1>3. Later(w, level) \subseteq RecentTests \ {w}
  <2>1. SUFFICES ASSUME NEW v \in Later(w, level)
                 PROVE  v \in RecentTests \ {w}
    OBVIOUS
  <2>2. v \in Windows /\ Tested(v) /\ v > w
    BY DEF Later, WindowsTested
  <2>3. now \in Int /\ Recent \in Int /\ v \in Int /\ w \in Int /\ w > now - Recent
    <3>1. w \in Windows /\ w > now - Recent
      BY DEF RecentTests
    <3>2. now \in Nat /\ v \in Nat /\ w \in Nat
      BY <2>2, <3>1, WindowsFinite
    <3>3. Recent \in Nat
      BY ViewsAssumption
    <3>4. QED
      BY <3>1, <3>2, <3>3
  <2>4. v > now - Recent /\ v # w
    BY <2>2, <2>3
  <2>5. QED
    BY <2>2, <2>4 DEF RecentTests
<1>4. IsFiniteSet(RecentTests)
  BY WindowsFinite, FS_Subset DEF RecentTests
<1>5. IsFiniteSet(RecentTests \ {w}) /\ Cardinality(RecentTests \ {w}) = Cardinality(RecentTests) - 1
  BY <1>1, <1>4, FS_RemoveElement
<1>6. Cardinality(Later(w, level)) <= Cardinality(RecentTests \ {w})
  BY <1>3, <1>5, FS_Subset
<1>7. Cardinality(Later(w, level)) < MaxMeasured
  <2>1. IsFiniteSet(Later(w, level))
    BY <1>3, <1>5, FS_Subset
  <2>2. Cardinality(Later(w, level)) \in Int /\ Cardinality(RecentTests) \in Int /\ MaxMeasured \in Int
    BY <1>4, <2>1, FS_CardinalityType, ViewsAssumption
  <2>3. QED
    BY <1>5, <1>6, <2>2
<1>8. QED
  BY <1>1, <1>2, <1>7, MeasuredIs

\* Where as many recent tests have a value as are shown, no value shown is of an older one.
LEMMA MeasuredRecently ==
  ASSUME now \in Windows, NEW level \in ServiceLevels \ {"indexing"},
         Cardinality(RecentValued(level)) >= MaxMeasured
  PROVE  Measured(level) \subseteq Averaged(RecentTests, level)
<1>1. SUFFICES ASSUME NEW w \in Measured(level), w \notin RecentTests
               PROVE  FALSE
  BY MeasuredIs DEF Averaged, WindowsTested
<1>2. /\ w \in WindowsTested(level) /\ Cardinality(Later(w, level)) < MaxMeasured
  BY <1>1, MeasuredIs
<1>3. now \in Int /\ Recent \in Int /\ w \in Int /\ ~(w > now - Recent)
  BY <1>1, <1>2, WindowsFinite, ViewsAssumption DEF WindowsTested, RecentTests
<1>4. RecentValued(level) \subseteq Later(w, level)
  <2>1. SUFFICES ASSUME NEW v \in RecentValued(level)
                 PROVE  v \in Later(w, level)
    OBVIOUS
  <2>2. v \in WindowsTested(level) /\ v > now - Recent
    BY DEF RecentValued, RecentTests, WindowsTested
  <2>3. v \in Int
    BY <2>2, WindowsFinite DEF WindowsTested
  <2>4. v > w
    BY <1>3, <2>2, <2>3
  <2>5. QED
    BY <2>2, <2>4 DEF Later
<1>5. IsFiniteSet(Later(w, level))
  BY WindowsFinite, FS_Subset DEF Later, WindowsTested
<1>6. Cardinality(RecentValued(level)) <= Cardinality(Later(w, level))
  BY <1>4, <1>5, FS_Subset
<1>7. /\ Cardinality(RecentValued(level)) \in Int /\ Cardinality(Later(w, level)) \in Int
      /\ MaxMeasured \in Int
  BY <1>4, <1>5, FS_Subset, FS_CardinalityType, ViewsAssumption
<1>8. QED
  BY <1>2, <1>6, <1>7

\* The values shown of a level are then no more than what its average is of.
LEMMA ShownOfAveraged ==
  ASSUME now \in Windows, NEW level \in ServiceLevels \ {"indexing"},
         Cardinality(RecentValued(level)) >= MaxMeasured
  PROVE  Cardinality(GetParticipant.slis[level]) <= Predicted(level)[2]
<1> DEFINE value == [w \in Windows |-> ValueOf(w, level)]
<1>1. GetParticipant.slis[level] = {ValueOf(w, level) : w \in Measured(level)}
  BY DEF GetParticipant
<1>2. Predicted(level)[2] = Cardinality(Averaged(RecentTests, level))
  BY DEF Predicted, Average
<1>3. IsFiniteSet(Averaged(RecentTests, level))
  BY WindowsFinite, FS_Subset DEF Averaged, RecentTests
<1>4. /\ IsFiniteSet(Measured(level))
      /\ Cardinality(Measured(level)) <= Cardinality(Averaged(RecentTests, level))
  BY <1>3, MeasuredRecently, FS_Subset
<1>5. {ValueOf(w, level) : w \in Measured(level)} = {value[w] : w \in Measured(level)}
  <2>1. \A w \in Measured(level) : value[w] = ValueOf(w, level)
    BY MeasuredIs DEF WindowsTested
  <2>2. QED
    BY <2>1
<1>6. /\ IsFiniteSet({value[w] : w \in Measured(level)})
      /\ Cardinality({value[w] : w \in Measured(level)}) <= Cardinality(Measured(level))
  BY <1>4, ImageSize
<1>7. QED
  <2> DEFINE shown == {value[w] : w \in Measured(level)}
  <2>1. /\ IsFiniteSet(shown) /\ Cardinality(shown) <= Cardinality(Measured(level))
        /\ GetParticipant.slis[level] = shown
    BY <1>1, <1>5, <1>6
  <2> HIDE DEF shown
  <2>2. /\ Cardinality(shown) \in Int /\ Cardinality(Measured(level)) \in Int
        /\ Cardinality(Averaged(RecentTests, level)) \in Int
    BY <1>3, <1>4, <2>1, FS_CardinalityType
  <2>3. Cardinality(shown) <= Cardinality(Averaged(RecentTests, level))
    BY <1>4, <2>1, <2>2
  <2>4. QED
    BY <1>2, <2>1, <2>3

\* Nothing meets a requirement of what was not measured.
LEMMA CompliantIsKnown ==
  ASSUME NEW d, Compliant(d)
  PROVE  ~StateUnknown(d)
  BY DEF Compliant, StateUnknown, Meets

ActiveSet == {d \in Listed : ActiveDeal(d)}
UnknownSet == {d \in ActiveSet : StateUnknown(d)}

\* All deals are those listed, and the two ideas of an active deal are one.
LEMMA CountedAreActive ==
  /\ GetDeals(FALSE) = Listed
  /\ GetDeals(TRUE) = ActiveSet
  /\ {d \in GetDeals(FALSE) : CountedActive(d)} = ActiveSet
  BY DEF GetDeals, ActiveSet, CountedActive, ActiveDeal

\* There are finitely many deals.
LEMMA ListedFinite == IsFiniteSet(Listed) /\ IsFiniteSet(ActiveSet)
<1>1. IsFiniteSet(Listed)
  BY ViewsAssumption, FS_Subset DEF Listed
<1>2. QED
  BY <1>1, FS_Subset DEF ActiveSet

\* The views of the active deals agree.
LEMMA ActiveViews ==
  ASSUME now \in Windows
  PROVE  ActiveDealsAgree
<1> DEFINE compliant == {d \in ActiveSet : Compliant(d)}
           nonCompliant == {d \in ActiveSet : ~Compliant(d) /\ ~StateUnknown(d)}
           statistics == ComplianceStatistics
<1>1. /\ statistics.activeDeals = Cardinality(ActiveSet)
      /\ statistics.compliant = Cardinality(compliant)
      /\ statistics.nonCompliant = Cardinality(nonCompliant)
      /\ statistics.unknown = Cardinality(UnknownSet)
  BY CountedAreActive DEF ComplianceStatistics, UnknownSet
<1>2. statistics.compliant + statistics.nonCompliant + statistics.unknown = statistics.activeDeals
  <2>1. ActiveSet = compliant \cup nonCompliant \cup UnknownSet
    BY DEF UnknownSet
  <2>2. compliant \cap nonCompliant = {} /\ nonCompliant \cap UnknownSet = {}
    BY DEF UnknownSet
  <2>3. compliant \cap UnknownSet = {}
    BY CompliantIsKnown DEF UnknownSet
  <2>4. QED
    BY <1>1, <2>1, <2>2, <2>3, ListedFinite, ThreeParts
<1>3. StorageStatistics.onboardedDeals = Cardinality({d \in ActiveSet : IsDataOnboarded(d)})
  <2>1. {d \in Listed : /\ deals[d].state = "COMPLETED"
                        /\ HasRail(d) /\ ~rails[d].finalized /\ rails[d].activated # Absent}
          = {d \in ActiveSet : IsDataOnboarded(d)}
    BY DEF ActiveSet, ActiveDeal, IsDataOnboarded, RailState
  <2>2. QED
    BY <2>1 DEF StorageStatistics
<1>4. GetParticipant.activeDealsCount >= statistics.activeDeals
  <2> DEFINE ongoing == {d \in Listed : deals[d].state \in {"ACCEPTED", "COMPLETED"}}
  <2>1. GetParticipant.activeDealsCount = Cardinality(ongoing)
    BY DEF GetParticipant
  <2>2. ActiveSet \subseteq ongoing
    BY DEF ActiveSet, ActiveDeal
  <2>3. IsFiniteSet(ongoing)
    BY ListedFinite, FS_Subset
  <2>4. Cardinality(ActiveSet) <= Cardinality(ongoing)
    BY <2>2, <2>3, FS_Subset
  <2>5. Cardinality(ActiveSet) \in Int /\ Cardinality(ongoing) \in Int
    BY <2>3, ListedFinite, FS_CardinalityType
  <2>6. QED
    BY <1>1, <2>1, <2>4, <2>5
<1>5. ASSUME NEW level \in ServiceLevels \ {"indexing"}
      PROVE  /\ Measured(level) \cap RecentTests \subseteq Averaged(RecentTests, level)
             /\ Cardinality(RecentTests) <= MaxMeasured =>
                  Averaged(RecentTests, level) \subseteq Measured(level)
             /\ Cardinality(RecentValued(level)) >= MaxMeasured =>
                  Cardinality(GetParticipant.slis[level]) <= Predicted(level)[2]
  <2>1. Measured(level) \cap RecentTests \subseteq Averaged(RecentTests, level)
    BY MeasuredIs DEF Averaged, WindowsTested
  <2>2. QED
    BY <2>1, RecentMeasured, ShownOfAveraged
<1>6. QED
  <2> HIDE DEF statistics
  <2>1. statistics.activeDeals = Cardinality(GetDeals(TRUE))
    BY <1>1, CountedAreActive
  <2>2. StorageStatistics.onboardedDeals = Cardinality({d \in GetDeals(TRUE) : IsDataOnboarded(d)})
    BY <1>3, CountedAreActive
  <2>3. statistics = ComplianceStatistics
    BY DEF statistics
  <2>4. QED
    BY <1>2, <1>4, <1>5, <2>1, <2>2, <2>3, Zenon DEF ActiveDealsAgree, RecentValued

ViewsTypeOK ==
  /\ now \in Windows
  /\ deals \in [Deals -> Deal]
  /\ rails \in [Deals -> Rail]
  /\ payments \in Seq(Payment)
  /\ tests \in [Windows -> Test \cup {NoTest}]

\* What the dates of a deal and of its rail say of its state.
DealDated(d) ==
  /\ deals[d].state = "none" <=> deals[d].proposed = Absent
  /\ deals[d].completed # Absent <=> deals[d].state \in {"COMPLETED", "TERMINATED"}
  /\ deals[d].ended # Absent <=> deals[d].state \in {"REJECTED", "TERMINATED"}
  /\ deals[d].proposed <= now /\ deals[d].completed <= now /\ deals[d].ended <= now
RailDated(d) ==
  /\ HasRail(d) => d \in Listed /\ deals[d].state # "PROPOSED" /\ deals[d].proposed <= rails[d].created
  /\ rails[d].activated # Absent => HasRail(d) /\ rails[d].created <= rails[d].activated
  /\ rails[d].created <= now /\ rails[d].activated <= now
PaymentDated(p) == HasRail(p.deal) /\ rails[p.deal].created <= p.window /\ p.window <= now

Dated ==
  /\ \A d \in Deals : DealDated(d) /\ RailDated(d)
  /\ \A i \in DOMAIN payments : PaymentDated(payments[i])

ViewsInv == ViewsTypeOK /\ Dated

\* Windows are numbers, and no window is absent.
LEMMA ViewsTypes ==
  /\ Windows \subseteq Int /\ Absent \in Int /\ MaxWindow \in Nat /\ 0 \in Windows
  /\ \A w \in Windows : w \in Nat /\ w # Absent /\ w >= 0 /\ w <= MaxWindow
  BY ViewsAssumption DEF Windows, Absent

\* Nothing has happened at the start.
LEMMA ViewsInitially == ViewsInit => ViewsInv
<1>1. SUFFICES ASSUME ViewsInit
               PROVE  ViewsInv
  OBVIOUS
<1>2. now \in Windows
  BY <1>1, ViewsTypes DEF ViewsInit
<1>3. deals \in [Deals -> Deal]
  BY <1>1 DEF ViewsInit, Deal
<1>4. rails \in [Deals -> Rail]
  BY <1>1 DEF ViewsInit, Rail
<1>5. payments \in Seq(Payment)
  BY <1>1 DEF ViewsInit
<1>6. tests \in [Windows -> Test \cup {NoTest}]
  BY <1>1 DEF ViewsInit
<1>7. Dated
  BY <1>1 DEF ViewsInit, Dated, DealDated, RailDated, HasRail, Absent
<1>8. QED
  BY <1>2, <1>3, <1>4, <1>5, <1>6, <1>7 DEF ViewsInv, ViewsTypeOK

\* The fields of a deal and of its rail.
LEMMA Fields ==
  ASSUME ViewsTypeOK, NEW d \in Deals
  PROVE  /\ deals[d] \in Deal /\ rails[d] \in Rail /\ now \in Int /\ now \in Windows
         /\ deals[d].proposed \in Int /\ deals[d].completed \in Int /\ deals[d].ended \in Int
         /\ rails[d].created \in Int /\ rails[d].activated \in Int
         /\ deals[d].proposed \in Windows \cup {Absent} /\ deals[d].completed \in Windows \cup {Absent}
         /\ deals[d].ended \in Windows \cup {Absent}
         /\ rails[d].created \in Windows \cup {Absent} /\ rails[d].activated \in Windows \cup {Absent}
<1>1. deals[d] \in Deal /\ rails[d] \in Rail /\ now \in Windows
  BY DEF ViewsTypeOK
<1>2. /\ deals[d].proposed \in Windows \cup {Absent} /\ deals[d].completed \in Windows \cup {Absent}
      /\ deals[d].ended \in Windows \cup {Absent}
  BY <1>1 DEF Deal
<1>3. rails[d].created \in Windows \cup {Absent} /\ rails[d].activated \in Windows \cup {Absent}
  BY <1>1 DEF Rail
<1>4. QED
  BY <1>1, <1>2, <1>3, ViewsTypes

\* A step that only changes a deal.
LEMMA DealsStep ==
  ASSUME ViewsInv, deals' \in [Deals -> Deal], UNCHANGED <<now, rails, payments, tests>>,
         \A d \in Deals : DealDated(d)',
         \A d \in Deals : HasRail(d) => /\ deals[d]'.state \notin {"none", "PROPOSED"}
                                        /\ deals[d]'.proposed = deals[d].proposed
  PROVE  ViewsInv'
<1>1. ViewsTypeOK'
  BY DEF ViewsInv, ViewsTypeOK
<1>2. ASSUME NEW d \in Deals
      PROVE  RailDated(d)'
  <2>1. RailDated(d)
    BY DEF ViewsInv, Dated
  <2>2. rails'[d] = rails[d] /\ now' = now /\ HasRail(d)' = HasRail(d)
    BY DEF HasRail
  <2>3. HasRail(d) => /\ d \in Listed' /\ deals'[d].state # "PROPOSED"
                      /\ deals'[d].proposed = deals[d].proposed
    BY DEF Listed
  <2>4. QED
    BY <2>1, <2>2, <2>3 DEF RailDated
<1>3. \A i \in DOMAIN payments' : PaymentDated(payments[i])'
  BY DEF ViewsInv, Dated, PaymentDated, HasRail
<1>4. QED
  BY <1>1, <1>2, <1>3 DEF ViewsInv, Dated

\* A step that only changes a rail.
LEMMA RailsStep ==
  ASSUME ViewsInv, rails' \in [Deals -> Rail], UNCHANGED <<now, deals, payments, tests>>,
         \A d \in Deals : RailDated(d)',
         \A d \in Deals : HasRail(d) => rails[d]'.created = rails[d].created
  PROVE  ViewsInv'
<1>1. ViewsTypeOK'
  BY DEF ViewsInv, ViewsTypeOK
<1>2. \A d \in Deals : DealDated(d)'
  BY DEF ViewsInv, Dated, DealDated
<1>3. ASSUME NEW i \in DOMAIN payments'
      PROVE  PaymentDated(payments[i])'
  <2>1. payments' = payments /\ now' = now
    OBVIOUS
  <2>2. PaymentDated(payments[i])
    BY <1>3, <2>1 DEF ViewsInv, Dated
  <2>3. payments[i].deal \in Deals
    <3>1. payments \in Seq(Payment) /\ i \in DOMAIN payments
      BY <1>3, <2>1 DEF ViewsInv, ViewsTypeOK
    <3>2. payments[i] \in Payment
      BY <3>1
    <3>3. QED
      BY <3>2 DEF Payment
  <2>4. /\ HasRail(payments[i].deal)
        /\ rails'[payments[i].deal].created = rails[payments[i].deal].created
    BY <2>2, <2>3 DEF PaymentDated
  <2>5. QED
    BY <2>1, <2>2, <2>4 DEF PaymentDated, HasRail
<1>4. QED
  BY <1>1, <1>2, <1>3 DEF ViewsInv, Dated

\* A proposal: the deal had no rail.
LEMMA ProposeStep ==
  ASSUME ViewsInv, NEW d \in Deals, Propose(d)
  PROVE  ViewsInv'
<1>1. /\ deals[d].state = "none"
      /\ deals' = [deals EXCEPT ![d].state = "PROPOSED", ![d].proposed = now]
      /\ UNCHANGED <<now, rails, payments, tests>>
  BY DEF Propose, InState
<1>2. deals \in [Deals -> Deal] /\ now \in Windows
  BY DEF ViewsInv, ViewsTypeOK
<1>3. deals' \in [Deals -> Deal]
  BY <1>1, <1>2 DEF Deal
<1>4. deals[d] \in Deal /\ DealDated(d) /\ RailDated(d)
  BY <1>2 DEF ViewsInv, Dated
<1>5. /\ deals'[d].state = "PROPOSED" /\ deals'[d].proposed = now
      /\ deals'[d].completed = deals[d].completed /\ deals'[d].ended = deals[d].ended
  BY <1>1, <1>2 DEF Deal
<1>6. \A e \in Deals \ {d} : deals'[e] = deals[e]
  BY <1>1, <1>2
<1>7. DealDated(d)'
  BY <1>1, <1>2, <1>4, <1>5, ViewsTypes DEF DealDated
<1>8. ~HasRail(d)
  BY <1>1, <1>4 DEF RailDated, Listed
<1>9. \A e \in Deals : DealDated(e)'
  BY <1>1, <1>6, <1>7 DEF DealDated, ViewsInv, Dated
<1>10. ASSUME NEW e \in Deals, HasRail(e)
       PROVE  deals'[e].state \notin {"none", "PROPOSED"} /\ deals'[e].proposed = deals[e].proposed
  <2>1. e # d /\ RailDated(e)
    BY <1>8, <1>10 DEF ViewsInv, Dated
  <2>2. QED
    BY <1>6, <1>10, <2>1 DEF RailDated, Listed
<1>11. QED
  BY <1>1, <1>3, <1>9, <1>10, DealsStep

\* A deal that is accepted, or completed.
LEMMA AdvanceStep ==
  ASSUME ViewsInv, NEW d \in Deals, Advance(d)
  PROVE  ViewsInv'
<1>1. /\ deals[d].state \in {"PROPOSED", "ACCEPTED"}
      /\ \/ deals[d].state = "PROPOSED" /\ deals' = [deals EXCEPT ![d].state = "ACCEPTED"]
         \/ /\ deals[d].state = "ACCEPTED"
            /\ deals' = [deals EXCEPT ![d].state = "COMPLETED", ![d].completed = now]
      /\ UNCHANGED <<now, rails, payments, tests>>
  BY DEF Advance, InState, ToState
<1>2. deals \in [Deals -> Deal] /\ now \in Windows
  BY DEF ViewsInv, ViewsTypeOK
<1>3. deals' \in [Deals -> Deal]
  BY <1>1, <1>2 DEF Deal
<1>4. deals[d] \in Deal /\ DealDated(d)
  BY <1>2 DEF ViewsInv, Dated
<1>5. /\ \/ deals'[d].state = "ACCEPTED" /\ deals'[d].completed = deals[d].completed
         \/ deals'[d].state = "COMPLETED" /\ deals'[d].completed = now
      /\ deals'[d].proposed = deals[d].proposed /\ deals'[d].ended = deals[d].ended
  BY <1>1, <1>2 DEF Deal
<1>6. \A e \in Deals \ {d} : deals'[e] = deals[e]
  BY <1>1, <1>2
<1>7. DealDated(d)'
  BY <1>1, <1>2, <1>4, <1>5, ViewsTypes DEF DealDated
<1>8. \A e \in Deals : DealDated(e)'
  BY <1>1, <1>6, <1>7 DEF DealDated, ViewsInv, Dated
<1>9. ASSUME NEW e \in Deals, HasRail(e)
      PROVE  deals'[e].state \notin {"none", "PROPOSED"} /\ deals'[e].proposed = deals[e].proposed
  <2>1. RailDated(e)
    BY DEF ViewsInv, Dated
  <2>2. QED
    BY <1>5, <1>6, <1>9, <2>1 DEF RailDated, Listed
<1>10. QED
  BY <1>1, <1>3, <1>8, <1>9, DealsStep

\* A deal that is rejected, or terminated.
LEMMA EndDealStep ==
  ASSUME ViewsInv, NEW d \in Deals, EndDeal(d)
  PROVE  ViewsInv'
<1>1. /\ \/ /\ deals[d].state \in {"PROPOSED", "ACCEPTED"}
            /\ deals' = [deals EXCEPT ![d].state = "REJECTED", ![d].ended = now, ![d].rejected = TRUE]
         \/ /\ deals[d].state = "COMPLETED"
            /\ deals' = [deals EXCEPT ![d].state = "TERMINATED", ![d].ended = now]
      /\ UNCHANGED <<now, rails, payments, tests>>
  BY DEF EndDeal, InState
<1>2. deals \in [Deals -> Deal] /\ now \in Windows
  BY DEF ViewsInv, ViewsTypeOK
<1>3. deals' \in [Deals -> Deal]
  BY <1>1, <1>2 DEF Deal
<1>4. deals[d] \in Deal /\ DealDated(d)
  BY <1>2 DEF ViewsInv, Dated
<1>5. /\ \/ deals[d].state \in {"PROPOSED", "ACCEPTED"} /\ deals'[d].state = "REJECTED"
         \/ deals[d].state = "COMPLETED" /\ deals'[d].state = "TERMINATED"
      /\ deals'[d].ended = now
      /\ deals'[d].proposed = deals[d].proposed /\ deals'[d].completed = deals[d].completed
  BY <1>1, <1>2 DEF Deal
<1>6. \A e \in Deals \ {d} : deals'[e] = deals[e]
  BY <1>1, <1>2
<1>7. DealDated(d)'
  BY <1>1, <1>2, <1>4, <1>5, ViewsTypes DEF DealDated
<1>8. \A e \in Deals : DealDated(e)'
  BY <1>1, <1>6, <1>7 DEF DealDated, ViewsInv, Dated
<1>9. ASSUME NEW e \in Deals, HasRail(e)
      PROVE  deals'[e].state \notin {"none", "PROPOSED"} /\ deals'[e].proposed = deals[e].proposed
  <2>1. RailDated(e)
    BY DEF ViewsInv, Dated
  <2>2. QED
    BY <1>5, <1>6, <1>9, <2>1 DEF RailDated, Listed
<1>10. QED
  BY <1>1, <1>3, <1>8, <1>9, DealsStep

\* A new rail is of an accepted deal.
LEMMA CreateRailStep ==
  ASSUME ViewsInv, NEW d \in Deals, CreateRail(d)
  PROVE  ViewsInv'
<1>1. /\ deals[d].state = "ACCEPTED" /\ ~HasRail(d)
      /\ rails' = [rails EXCEPT ![d].created = now]
      /\ UNCHANGED <<now, deals, payments, tests>>
  BY DEF CreateRail, InState
<1>2. rails \in [Deals -> Rail] /\ now \in Windows
  BY DEF ViewsInv, ViewsTypeOK
<1>3. rails' \in [Deals -> Rail]
  BY <1>1, <1>2 DEF Rail
<1>4. rails[d] \in Rail /\ DealDated(d) /\ RailDated(d)
  BY <1>2 DEF ViewsInv, Dated
<1>5. rails'[d].created = now /\ rails'[d].activated = rails[d].activated
  BY <1>1, <1>2 DEF Rail
<1>6. \A e \in Deals \ {d} : rails'[e] = rails[e]
  BY <1>1, <1>2
<1>7. RailDated(d)'
  BY <1>1, <1>2, <1>4, <1>5, ViewsTypes DEF RailDated, DealDated, HasRail, Listed
<1>8. \A e \in Deals : RailDated(e)'
  BY <1>1, <1>6, <1>7 DEF RailDated, ViewsInv, Dated, HasRail, Listed
<1>9. \A e \in Deals : HasRail(e) => rails'[e].created = rails[e].created
  BY <1>1, <1>6
<1>10. QED
  BY <1>1, <1>3, <1>8, <1>9, RailsStep

\* A rail keeps when it was created.
LEMMA ChangeRailStep ==
  ASSUME ViewsInv, NEW d \in Deals, ChangeRail(d)
  PROVE  ViewsInv'
<1>1. /\ HasRail(d)
      /\ \/ rails[d].activated = Absent /\ rails' = [rails EXCEPT ![d].activated = now]
         \/ rails' = [rails EXCEPT ![d].terminated = TRUE]
         \/ rails' = [rails EXCEPT ![d].finalized = TRUE]
      /\ UNCHANGED <<now, deals, payments, tests>>
  BY DEF ChangeRail
<1>2. rails \in [Deals -> Rail] /\ now \in Windows
  BY DEF ViewsInv, ViewsTypeOK
<1>3. rails' \in [Deals -> Rail]
  BY <1>1, <1>2 DEF Rail
<1>4. rails[d] \in Rail /\ RailDated(d)
  BY <1>2 DEF ViewsInv, Dated
<1>5. /\ rails'[d].created = rails[d].created
      /\ rails'[d].activated \in {rails[d].activated, now}
  BY <1>1, <1>2 DEF Rail
<1>6. \A e \in Deals \ {d} : rails'[e] = rails[e]
  BY <1>1, <1>2
<1>7. RailDated(d)'
  BY <1>1, <1>2, <1>4, <1>5, ViewsTypes DEF RailDated, HasRail, Listed
<1>8. \A e \in Deals : RailDated(e)'
  BY <1>1, <1>6, <1>7 DEF RailDated, ViewsInv, Dated, HasRail, Listed
<1>9. \A e \in Deals : HasRail(e) => rails'[e].created = rails[e].created
  BY <1>5, <1>6
<1>10. QED
  BY <1>1, <1>3, <1>8, <1>9, RailsStep

\* A payment is of a rail, now.
LEMMA PayStep ==
  ASSUME ViewsInv, NEW d \in Deals, Pay(d)
  PROVE  ViewsInv'
<1>1. PICK oneTime \in BOOLEAN :
        payments' = Append(payments, [deal |-> d, window |-> now, oneTime |-> oneTime])
  BY DEF Pay
<1>2. HasRail(d) /\ UNCHANGED <<now, deals, rails, tests>>
  BY DEF Pay
<1> DEFINE p == [deal |-> d, window |-> now, oneTime |-> oneTime]
<1>3. /\ p \in Payment /\ payments \in Seq(Payment) /\ now \in Windows
      /\ p.deal = d /\ p.window = now
  BY DEF ViewsInv, ViewsTypeOK, Payment
<1>4. rails[d].created <= now
  BY DEF ViewsInv, Dated, RailDated
<1> HIDE DEF p
<1>5. ViewsTypeOK'
  BY <1>1, <1>2, <1>3 DEF ViewsInv, ViewsTypeOK, p
<1>6. \A e \in Deals : DealDated(e)' /\ RailDated(e)'
  BY <1>2 DEF ViewsInv, Dated, DealDated, RailDated, HasRail, Listed
<1>7. ASSUME NEW i \in DOMAIN payments'
      PROVE  PaymentDated(payments[i])'
  <2>1. \/ i \in DOMAIN payments /\ payments'[i] = payments[i]
        \/ payments'[i] = p
    BY <1>1, <1>3, <1>7 DEF p
  <2>2. CASE i \in DOMAIN payments /\ payments'[i] = payments[i]
    BY <1>2, <2>2 DEF ViewsInv, Dated, PaymentDated, HasRail
  <2>3. CASE payments'[i] = p
    BY <1>2, <1>3, <1>4, <2>3, ViewsTypes DEF PaymentDated, HasRail
  <2>4. QED
    BY <2>1, <2>2, <2>3
<1>8. QED
  BY <1>5, <1>6, <1>7 DEF ViewsInv, Dated

\* A test changes none of the dates.
LEMMA TestProviderStep ==
  ASSUME ViewsInv, TestProvider
  PROVE  ViewsInv'
<1>1. UNCHANGED <<now, deals, rails, payments>>
  BY DEF TestProvider
<1>2. tests' \in [Windows -> Test \cup {NoTest}]
  BY TestsAssumption DEF TestProvider, ViewsInv, ViewsTypeOK
<1>3. ViewsTypeOK'
  BY <1>1, <1>2 DEF ViewsInv, ViewsTypeOK
<1>4. Dated'
  BY <1>1 DEF ViewsInv, Dated, DealDated, RailDated, PaymentDated, HasRail, Listed
<1>5. QED
  BY <1>3, <1>4 DEF ViewsInv

\* What was by now is by the next window.
LEMMA NextWindowStep ==
  ASSUME ViewsInv, NextWindow
  PROVE  ViewsInv'
<1>1. now' = now + 1 /\ now < MaxWindow /\ UNCHANGED <<deals, rails, payments, tests>>
  BY DEF NextWindow
<1>2. now \in Windows /\ now \in Int /\ now' \in Windows /\ now' \in Int /\ now <= now'
  BY <1>1, ViewsAssumption DEF ViewsInv, ViewsTypeOK, Windows
<1>3. ViewsTypeOK'
  BY <1>1, <1>2 DEF ViewsInv, ViewsTypeOK
<1>4. ASSUME NEW d \in Deals
      PROVE  DealDated(d)' /\ RailDated(d)'
  <2>1. DealDated(d) /\ RailDated(d) /\ ViewsTypeOK
    BY DEF ViewsInv, Dated
  <2>2. /\ deals[d].proposed \in Int /\ deals[d].completed \in Int /\ deals[d].ended \in Int
        /\ rails[d].created \in Int /\ rails[d].activated \in Int
    BY <2>1, Fields
  <2>3. /\ deals[d].proposed <= now' /\ deals[d].completed <= now' /\ deals[d].ended <= now'
        /\ rails[d].created <= now' /\ rails[d].activated <= now'
    BY <1>2, <2>1, <2>2 DEF DealDated, RailDated
  <2>4. QED
    BY <1>1, <2>1, <2>3 DEF DealDated, RailDated, HasRail, Listed
<1>5. ASSUME NEW i \in DOMAIN payments'
      PROVE  PaymentDated(payments[i])'
  <2>1. PaymentDated(payments[i]) /\ payments[i] \in Payment
    BY <1>1 DEF ViewsInv, Dated, ViewsTypeOK
  <2>2. payments[i].window \in Int
    BY <2>1, ViewsTypes DEF Payment
  <2>3. payments[i].window <= now'
    BY <1>2, <2>1, <2>2 DEF PaymentDated
  <2>4. QED
    BY <1>1, <2>1, <2>3 DEF PaymentDated, HasRail
<1>6. QED
  BY <1>3, <1>4, <1>5 DEF ViewsInv, Dated

\* The dates of the tables are kept in order by every step.
LEMMA ViewsInvariance == ViewsSpec => []ViewsInv
<1>1. ASSUME ViewsInv, [ViewsNext]_viewVars
      PROVE  ViewsInv'
  <2>1. CASE UNCHANGED viewVars
    BY <1>1, <2>1 DEF ViewsInv, ViewsTypeOK, Dated, DealDated, RailDated, PaymentDated, HasRail, Listed, viewVars
  <2>2. CASE ViewsNext
    BY <1>1, <2>2, ProposeStep, AdvanceStep, EndDealStep, CreateRailStep, ChangeRailStep, PayStep,
       TestProviderStep, NextWindowStep DEF ViewsNext
  <2>3. QED
    BY <1>1, <2>1, <2>2
<1>2. QED
  BY <1>1, ViewsInitially, PTL DEF ViewsSpec

\* The views that decide for themselves which deals are active agree, of every market.
THEOREM ActiveDealsAlwaysAgree == ViewsSpec => []ActiveDealsAgree
<1>1. ViewsInv => ActiveDealsAgree
  BY ActiveViews DEF ViewsInv, ViewsTypeOK
<1>2. QED
  BY <1>1, ViewsInvariance, PTL

-----------------------------------------------------------------------------
(* Sums by a key, and totals that are rounded in every window *)

OfKeys(S, key, K) == {x \in S : key[x] \in K}
Fibre(S, key, k) == {x \in S : key[x] = k}
FibreSums(S, key, f, K) == [k \in K |-> SumOver(Fibre(S, key, k), f)]

\* A sum is the sum over the keys of the sums over the elements of each.
LEMMA SumByKey ==
  ASSUME NEW S, IsFiniteSet(S), NEW K, IsFiniteSet(K), NEW key, NEW f, \A x \in S : f[x] \in Int
  PROVE  SumOver(OfKeys(S, key, K), f) = SumOver(K, FibreSums(S, key, f, K))
<1> DEFINE g == FibreSums(S, key, f, K)
           Bad(L) == SumOver(OfKeys(S, key, L), f) # SumOver(L, g)
           F == {L \in SUBSET K : Bad(L)}
<1>1. \A L \in F : IsFiniteSet(L)
  BY FS_Subset
<1>2. \A L \in SUBSET K : /\ IsFiniteSet(OfKeys(S, key, L))
                          /\ \A x \in OfKeys(S, key, L) : f[x] \in Int
  BY FS_Subset DEF OfKeys
<1>3. ASSUME NEW k \in K
      PROVE  /\ g[k] = SumOver(Fibre(S, key, k), f) /\ g[k] \in Int
             /\ IsFiniteSet(Fibre(S, key, k)) /\ \A x \in Fibre(S, key, k) : f[x] \in Int
  <2>1. IsFiniteSet(Fibre(S, key, k)) /\ \A x \in Fibre(S, key, k) : f[x] \in Int
    BY FS_Subset DEF Fibre
  <2>2. g[k] = SumOver(Fibre(S, key, k), f)
    BY DEF FibreSums
  <2>3. QED
    BY <2>1, <2>2, SumType
<1> HIDE DEF g
<1>4. ASSUME F # {}
      PROVE  FALSE
  <2>1. PICK L \in F : \A k \in L : L \ {k} \notin F
    BY <1>1, <1>4, SmallestSet
  <2>2. L \in SUBSET K /\ Bad(L) /\ IsFiniteSet(L)
    BY <2>1, <1>1
  <2>3. L # {}
    <3>1. ASSUME L = {}
          PROVE  FALSE
      <4>1. OfKeys(S, key, L) = {}
        BY <3>1 DEF OfKeys
      <4>2. SumOver(OfKeys(S, key, L), f) = 0 /\ SumOver(L, g) = 0
        BY <4>1, <3>1, SumEmpty
      <4>3. QED
        BY <2>2, <4>2
    <3>2. QED
      BY <3>1
  <2>4. PICK k \in L : TRUE
    BY <2>3
  <2> DEFINE R == L \ {k}
             A == OfKeys(S, key, R)
             B == Fibre(S, key, k)
  <2>5. ~Bad(R) /\ k \in K
    BY <2>1, <2>2, <2>4
  <2>6. OfKeys(S, key, L) = A \cup B /\ A \cap B = {}
    BY <2>4 DEF OfKeys, Fibre
  <2>7. SumOver(A \cup B, f) = SumOver(A, f) + SumOver(B, f)
    <3>1. /\ IsFiniteSet(A) /\ IsFiniteSet(B)
          /\ \A x \in A \cup B : f[x] \in Int
      BY <1>2, <1>3, <2>2, <2>5
    <3> HIDE DEF A, B
    <3>2. QED
      BY <2>6, <3>1, SumUnion
  <2>8. SumOver(L, g) = g[k] + SumOver(R, g)
    <3>1. \A y \in L : g[y] \in Int
      BY <1>3, <2>2
    <3>2. QED
      BY <2>2, <2>4, <3>1, SumRemove
  <2>9. SumOver(A, f) \in Int
    BY <1>2, <2>2, SumType
  <2>10. SumOver(A, f) = SumOver(R, g) /\ g[k] = SumOver(B, f) /\ g[k] \in Int
    BY <1>3, <2>5
  <2>11. SumOver(OfKeys(S, key, L), f) = SumOver(A, f) + SumOver(B, f)
    BY <2>6, <2>7
  <2> HIDE DEF A, B, R
  <2>12. SumOver(OfKeys(S, key, L), f) = SumOver(L, g)
    BY <2>8, <2>9, <2>10, <2>11
  <2>13. QED
    BY <2>2, <2>12
<1>5. K \notin F
  BY <1>4
<1>6. QED
  BY <1>5 DEF g

\* The sum of as many equal terms.
LEMMA SumConstant ==
  ASSUME NEW S, IsFiniteSet(S), NEW f, NEW c \in Int, \A x \in S : f[x] = c
  PROVE  SumOver(S, f) = c * Cardinality(S)
<1> DEFINE F == {s \in SUBSET S : SumOver(s, f) # c * Cardinality(s)}
<1>1. \A s \in F : IsFiniteSet(s)
  BY FS_Subset
<1>2. ASSUME F # {}
      PROVE  FALSE
  <2>1. PICK s \in F : \A x \in s : s \ {x} \notin F
    BY <1>1, <1>2, SmallestSet
  <2>2. IsFiniteSet(s) /\ s \in SUBSET S /\ SumOver(s, f) # c * Cardinality(s)
    BY <2>1, <1>1
  <2>3. s # {}
    BY <2>2, SumEmpty, FS_EmptySet
  <2>4. PICK x \in s : TRUE
    BY <2>3
  <2>5. SumOver(s \ {x}, f) = c * Cardinality(s \ {x})
    BY <2>1, <2>2, <2>4
  <2>6. SumOver(s, f) = c + SumOver(s \ {x}, f)
    BY <2>2, <2>4, SumRemove
  <2>7. Cardinality(s \ {x}) = Cardinality(s) - 1 /\ Cardinality(s) \in Int
    BY <2>2, <2>4, FS_RemoveElement, FS_CardinalityType
  <2>8. c + c * (Cardinality(s) - 1) = c * Cardinality(s)
    BY <2>7
  <2>9. QED
    BY <2>2, <2>5, <2>6, <2>7, <2>8
<1>3. QED
  BY <1>2

\* A number of mills in cents.
LEMMA Cents ==
  ASSUME NEW m \in Nat
  PROVE  \E q \in Nat : ToCents(m) = 10 * q /\ 10 * q <= m + 5 /\ m + 5 < 10 * q + 10
<1>1. (m + 5) \div 10 \in Nat /\ 10 * ((m + 5) \div 10) <= m + 5 /\ m + 5 < 10 * ((m + 5) \div 10) + 10
  OBVIOUS
<1>2. ToCents(m) = 10 * ((m + 5) \div 10)
  BY DEF ToCents
<1>3. QED
  BY <1>1, <1>2

RoundedAt(g, volume, first, w) == IF w < first THEN 0 ELSE ToCents(g[w - 1] + volume[w])
IsRounded(g, volume, first, n) == g = [w \in (first - 1)..n |-> RoundedAt(g, volume, first, w)]

\* There is such a total.
LEMMA RoundedExists ==
  ASSUME NEW volume, NEW first \in Windows
  PROVE  \E g : IsRounded(g, volume, first, MaxWindow)
<1> DEFINE T == {k \in Nat : ~ \E g : IsRounded(g, volume, first, first - 1 + k)}
<1>1. first \in Int /\ MaxWindow \in Int /\ first <= MaxWindow
  BY ViewsTypes
<1>2. ASSUME T # {}
      PROVE  FALSE
  <2>1. PICK k \in T : \A j \in T : k <= j
    BY <1>2, Smallest
  <2>2. k # 0
    <3> DEFINE g == [w \in (first - 1)..(first - 1) |-> 0]
    <3>1. \A w \in (first - 1)..(first - 1) : w < first
      BY <1>1
    <3>2. IsRounded(g, volume, first, first - 1)
      BY <3>1 DEF IsRounded, RoundedAt
    <3>3. first - 1 = first - 1 + 0
      BY <1>1
    <3>4. QED
      BY <3>2, <3>3
  <2> DEFINE n == first - 1 + k
             m == n - 1
  <2>3. k - 1 \in Nat /\ k - 1 \notin T /\ m = first - 1 + (k - 1) /\ n \in Int /\ n >= first
    BY <1>1, <2>1, <2>2
  <2>4. PICK h : IsRounded(h, volume, first, m)
    BY <2>3
  <2> HIDE DEF n
  <2> DEFINE g == [w \in (first - 1)..n |-> RoundedAt(h, volume, first, w)]
  <2>5. ASSUME NEW w \in (first - 1)..n
        PROVE  RoundedAt(g, volume, first, w) = RoundedAt(h, volume, first, w)
    <3>1. CASE w < first
      BY <3>1 DEF RoundedAt
    <3>2. CASE w >= first
      <4>1. w - 1 \in (first - 1)..m /\ w - 1 \in (first - 1)..n
        BY <1>1, <2>3, <3>2
      <4>2. h[w - 1] = RoundedAt(h, volume, first, w - 1)
        BY <2>4, <4>1 DEF IsRounded
      <4>3. g[w - 1] = h[w - 1]
        BY <4>1, <4>2
      <4>4. QED
        BY <4>3 DEF RoundedAt
    <3>3. QED
      BY <1>1, <2>3, <3>1, <3>2
  <2>6. IsRounded(g, volume, first, n)
    BY <2>5 DEF IsRounded
  <2>7. QED
    BY <2>1, <2>6 DEF n
<1>3. MaxWindow - first + 1 \in Nat /\ first - 1 + (MaxWindow - first + 1) = MaxWindow
  BY <1>1
<1>4. QED
  BY <1>2, <1>3

\* The total in a window is what was rounded before it and its volume, rounded.
LEMMA RoundedIs ==
  ASSUME NEW volume, NEW first \in Windows, NEW w \in (first - 1)..MaxWindow
  PROVE  /\ w < first => RoundedTotal(volume, first)[w] = 0
         /\ w >= first => RoundedTotal(volume, first)[w]
                            = ToCents(RoundedTotal(volume, first)[w - 1] + volume[w])
<1> DEFINE g == RoundedTotal(volume, first)
<1>1. g = CHOOSE h : IsRounded(h, volume, first, MaxWindow)
  BY Zenon DEF RoundedTotal, IsRounded, RoundedAt
<1>2. IsRounded(g, volume, first, MaxWindow)
  BY <1>1, RoundedExists
<1> HIDE DEF g
<1>3. g[w] = RoundedAt(g, volume, first, w)
  BY <1>2 DEF IsRounded
<1>4. w \in Int /\ first \in Int
  BY ViewsTypes
<1>5. /\ w < first => g[w] = 0
      /\ w >= first => g[w] = ToCents(g[w - 1] + volume[w])
  BY <1>3, <1>4 DEF RoundedAt
<1>6. QED
  BY <1>5 DEF g

\* A total is in cents, and half a cent per window away from the sum of the volumes at most.
InCents(t) == \E q \in Nat : t = 10 * q
RoundedWell(volume, first, w) ==
  /\ InCents(RoundedTotal(volume, first)[w])
  /\ RoundedTotal(volume, first)[w] <= SumOver(first..w, volume) + 5 * (w - first + 1)
  /\ SumOver(first..w, volume) <= RoundedTotal(volume, first)[w] + 5 * (w - first + 1)

\* The sum over some windows, and over those before the last.
LEMMA WindowsSum ==
  ASSUME NEW volume, \A w \in Windows : volume[w] \in Nat, NEW first \in Windows, NEW w \in Windows, first <= w
  PROVE  /\ SumOver(first..w, volume) = volume[w] + SumOver(first..(w - 1), volume)
         /\ SumOver(first..(w - 1), volume) \in Int
         /\ w = first => SumOver(first..(w - 1), volume) = 0
<1>1. first \in Int /\ w \in Int
  BY ViewsTypes
<1>2. IsFiniteSet(first..w) /\ IsFiniteSet(first..(w - 1)) /\ w \in first..w
  BY <1>1, FS_Interval
<1>3. (first..w) \ {w} = first..(w - 1)
  BY <1>1
<1>4. \A v \in first..w : volume[v] \in Int
  BY <1>1, ViewsAssumption DEF Windows
<1>5. \A v \in first..(w - 1) : volume[v] \in Int
  BY <1>3, <1>4
<1>6. SumOver(first..w, volume) = volume[w] + SumOver(first..(w - 1), volume)
  <2> DEFINE S == first..w
  <2>1. IsFiniteSet(S) /\ w \in S /\ \A v \in S : volume[v] \in Int
    BY <1>2, <1>4
  <2> HIDE DEF S
  <2>2. SumOver(S, volume) = volume[w] + SumOver(S \ {w}, volume)
    BY ONLY <2>1, SumRemove
  <2>3. QED
    BY <1>3, <2>2 DEF S
<1>7. SumOver(first..(w - 1), volume) \in Int
  BY <1>2, <1>5, SumType
<1>8. ASSUME w = first
      PROVE  SumOver(first..(w - 1), volume) = 0
  <2>1. first..(w - 1) = {}
    BY <1>1, <1>8
  <2>2. QED
    BY <2>1, SumEmpty
<1>9. QED
  BY <1>6, <1>7, <1>8

\* A window of a volume: what was before it is no more.
LEMMA RoundedStep ==
  ASSUME NEW volume, \A v \in Windows : volume[v] \in Nat, NEW first \in Windows, NEW w \in Windows,
         first <= w, w > first => RoundedWell(volume, first, w - 1)
  PROVE  /\ RoundedWell(volume, first, w)
         /\ RoundedTotal(volume, first)[w - 1] <= RoundedTotal(volume, first)[w]
         /\ InCents(RoundedTotal(volume, first)[w - 1])
<1> DEFINE t == RoundedTotal(volume, first)[w]
           s == RoundedTotal(volume, first)[w - 1]
           u == SumOver(first..w, volume)
           v == SumOver(first..(w - 1), volume)
           n == w - first
<1>1. /\ first \in Int /\ w \in Int /\ volume[w] \in Nat
      /\ w \in (first - 1)..MaxWindow /\ w - 1 \in (first - 1)..MaxWindow /\ w >= first /\ n \in Nat
  BY ViewsTypes
<1>2. u = volume[w] + v /\ v \in Int /\ (w = first => v = 0)
  BY WindowsSum
<1>3. t = ToCents(s + volume[w])
  BY <1>1, RoundedIs
<1>4. w = first => s = 0
  BY <1>1, RoundedIs
<1>5. w > first => InCents(s) /\ s <= v + 5 * (w - 1 - first + 1) /\ v <= s + 5 * (w - 1 - first + 1)
  BY DEF RoundedWell
<1>6. w - 1 - first + 1 = n /\ w - first + 1 = n + 1 /\ (w = first <=> n = 0)
  BY <1>1
<1>7. RoundedWell(volume, first, w) <=> InCents(t) /\ t <= u + 5 * (n + 1) /\ u <= t + 5 * (n + 1)
  BY <1>6 DEF RoundedWell
<1> HIDE DEF t, s, u, v, n
<1>8. InCents(s) /\ s <= v + 5 * n /\ v <= s + 5 * n
  <2>1. CASE w = first
    BY <1>2, <1>4, <1>6, <2>1 DEF InCents
  <2>2. CASE w # first
    <3>1. w > first
      BY <1>1, <2>2
    <3>2. QED
      BY <1>5, <1>6, <3>1
  <2>3. QED
    BY <2>1, <2>2
<1>9. PICK q \in Nat : s = 10 * q
  BY <1>8 DEF InCents
<1>10. s + volume[w] \in Nat
  BY <1>1, <1>9
<1>11. PICK p \in Nat : t = 10 * p /\ 10 * p <= s + volume[w] + 5 /\ s + volume[w] + 5 < 10 * p + 10
  BY <1>3, <1>10, Cents
<1>12. t <= u + 5 * (n + 1) /\ u <= t + 5 * (n + 1)
  BY <1>1, <1>2, <1>8, <1>9, <1>11
<1>13. s <= t
  BY <1>1, <1>9, <1>11
<1>14. InCents(t)
  BY <1>11 DEF InCents
<1>15. QED
  BY <1>7, <1>8, <1>12, <1>13, <1>14 DEF t, s

\* So it is in every window.
LEMMA RoundedFrom ==
  ASSUME NEW volume, \A v \in Windows : volume[v] \in Nat, NEW first \in Windows, NEW w \in Windows, first <= w
  PROVE  RoundedWell(volume, first, w)
<1> DEFINE T == {k \in Nat : k \in Windows /\ first <= k /\ ~RoundedWell(volume, first, k)}
<1>1. ASSUME T # {}
      PROVE  FALSE
  <2>1. PICK k \in T : \A j \in T : k <= j
    BY <1>1, Smallest
  <2>2. k \in Windows /\ first <= k /\ ~RoundedWell(volume, first, k) /\ k \in Nat /\ first \in Nat
    BY <2>1, ViewsTypes
  <2>3. k > first => RoundedWell(volume, first, k - 1)
    <3>1. ASSUME k > first
          PROVE  k - 1 \in Nat /\ k - 1 \in Windows /\ first <= k - 1
      BY <2>2, <3>1, ViewsAssumption DEF Windows
    <3>2. QED
      BY <2>1, <2>2, <3>1
  <2>4. QED
    BY <2>2, <2>3, RoundedStep
<1>2. w \notin T /\ w \in Nat
  BY <1>1, ViewsTypes
<1>3. QED
  BY <1>2

\* A total is never less than a window ago, nor less than nothing.
LEMMA RoundedGrows ==
  ASSUME NEW volume, \A v \in Windows : volume[v] \in Nat, NEW first \in Windows, NEW w \in Windows, first <= w
  PROVE  /\ RoundedTotal(volume, first)[w] \in Nat
         /\ w > first => /\ RoundedTotal(volume, first)[w - 1] \in Nat
                         /\ RoundedTotal(volume, first)[w - 1] <= RoundedTotal(volume, first)[w]
<1>1. RoundedWell(volume, first, w)
  BY RoundedFrom
<1>2. RoundedTotal(volume, first)[w] \in Nat
  BY <1>1 DEF RoundedWell, InCents
<1>3. ASSUME w > first
      PROVE  /\ RoundedTotal(volume, first)[w - 1] \in Nat
             /\ RoundedTotal(volume, first)[w - 1] <= RoundedTotal(volume, first)[w]
  <2>1. w - 1 \in Windows /\ first <= w - 1
    BY <1>3, ViewsAssumption DEF Windows
  <2>2. RoundedWell(volume, first, w - 1)
    BY <2>1, RoundedFrom
  <2>3. QED
    BY <2>2, RoundedStep DEF InCents
<1>4. QED
  BY <1>2, <1>3

\* And a volume that is less in every window has a total that is less.
LEMMA RoundedCompare ==
  ASSUME NEW volume, NEW more, \A v \in Windows : volume[v] \in Nat /\ more[v] \in Nat /\ volume[v] <= more[v],
         NEW first \in Windows, NEW w \in Windows, first <= w
  PROVE  RoundedTotal(volume, first)[w] <= RoundedTotal(more, first)[w]
<1> DEFINE T == {k \in Nat : /\ k \in Windows /\ first <= k
                             /\ ~(RoundedTotal(volume, first)[k] <= RoundedTotal(more, first)[k])}
<1>1. ASSUME T # {}
      PROVE  FALSE
  <2>1. PICK k \in T : \A j \in T : k <= j
    BY <1>1, Smallest
  <2> DEFINE a == RoundedTotal(volume, first)[k - 1]
             b == RoundedTotal(more, first)[k - 1]
             s == RoundedTotal(volume, first)[k]
             t == RoundedTotal(more, first)[k]
  <2>2. k \in Windows /\ first <= k /\ ~(s <= t) /\ k \in Nat /\ first \in Nat
    BY <2>1, ViewsTypes
  <2>3. k \in (first - 1)..MaxWindow /\ k - 1 \in (first - 1)..MaxWindow
    BY <2>2, ViewsTypes
  <2>4. s = ToCents(a + volume[k]) /\ t = ToCents(b + more[k])
    BY <2>2, <2>3, RoundedIs
  <2>5. a \in Nat /\ b \in Nat /\ a <= b
    <3>1. CASE k = first
      BY <2>2, <2>3, <3>1, RoundedIs
    <3>2. CASE k # first
      <4>1. k > first /\ k - 1 \in Nat /\ k - 1 \in Windows /\ first <= k - 1 /\ ~(k <= k - 1)
        BY <2>2, <3>2, ViewsAssumption DEF Windows
      <4>2. k - 1 \notin T
        BY <2>1, <4>1
      <4>3. a \in Nat /\ b \in Nat
        BY <2>2, <4>1, RoundedGrows
      <4>4. QED
        BY <4>1, <4>2, <4>3
    <3>3. QED
      BY <3>1, <3>2
  <2> HIDE DEF a, b, s, t
  <2>6. volume[k] \in Nat /\ more[k] \in Nat /\ volume[k] <= more[k]
    BY <2>2
  <2>7. PICK p \in Nat : s = 10 * p /\ 10 * p <= a + volume[k] + 5 /\ a + volume[k] + 5 < 10 * p + 10
    BY <2>4, <2>5, <2>6, Cents
  <2>8. PICK q \in Nat : t = 10 * q /\ 10 * q <= b + more[k] + 5 /\ b + more[k] + 5 < 10 * q + 10
    BY <2>4, <2>5, <2>6, Cents
  <2>9. s <= t
    BY <2>5, <2>6, <2>7, <2>8
  <2>10. QED
    BY <2>2, <2>9
<1>2. w \notin T /\ w \in Nat
  BY <1>1, ViewsTypes
<1>3. QED
  BY <1>2

-----------------------------------------------------------------------------
(* Where the histories end *)

\* The least of some numbers.
LEMMA MinIs ==
  ASSUME NEW T \in SUBSET Nat, T # {}
  PROVE  Min(T) \in T /\ \A y \in T : Min(T) <= y
<1>1. \E x \in T : \A y \in T : x <= y
  BY Smallest
<1>2. QED
  BY <1>1, Zenon DEF Min

\* The histories start at a window, at which or after which everything happened.
LEMMA FirstProposalIs ==
  ASSUME ViewsInv, Listed # {}
  PROVE  /\ FirstProposal \in Windows /\ now \in Windows /\ FirstProposal <= now
         /\ FirstProposal \in Nat /\ now \in Nat /\ now \in FirstProposal..now
         /\ \A d \in Listed : FirstProposal <= deals[d].proposed /\ deals[d].proposed <= now
         /\ FirstProposal..now \subseteq Windows /\ IsFiniteSet(FirstProposal..now)
<1> DEFINE T == {deals[d].proposed : d \in Listed}
<1>1. \A d \in Listed : deals[d].proposed \in Windows /\ deals[d].proposed <= now /\ deals[d].proposed \in Nat
  <2>1. ASSUME NEW d \in Listed
        PROVE  deals[d].proposed \in Windows /\ deals[d].proposed <= now
    <3>1. d \in Deals /\ deals[d].state # "none"
      BY DEF Listed
    <3>2. deals[d].proposed \in Windows \cup {Absent} /\ DealDated(d)
      BY <3>1, Fields DEF ViewsInv, Dated
    <3>3. QED
      BY <3>1, <3>2 DEF DealDated
  <2>2. QED
    BY <2>1, ViewsTypes
<1>2. T \in SUBSET Nat /\ T # {}
  BY <1>1
<1>3. Min(T) \in T /\ \A y \in T : Min(T) <= y
  BY <1>2, MinIs
<1>4. FirstProposal = Min(T)
  BY DEF FirstProposal
<1> HIDE DEF T
<1>5. PICK d \in Listed : FirstProposal = deals[d].proposed
  BY <1>3, <1>4 DEF T
<1>6. FirstProposal \in Windows /\ FirstProposal <= now /\ now \in Windows
  BY <1>1, <1>5 DEF ViewsInv, ViewsTypeOK
<1>7. \A e \in Listed : FirstProposal <= deals[e].proposed
  BY <1>3, <1>4 DEF T
<1>8. FirstProposal..now \subseteq Windows /\ IsFiniteSet(FirstProposal..now)
  <2>1. FirstProposal \in Int /\ now \in Int /\ FirstProposal >= 0 /\ now <= MaxWindow /\ MaxWindow \in Int
    BY <1>6, ViewsTypes
  <2>2. FirstProposal..now \subseteq Windows
    BY <2>1 DEF Windows
  <2>3. QED
    BY <2>1, <2>2, FS_Interval
<1>9. FirstProposal \in Nat /\ now \in Nat /\ now \in FirstProposal..now
  <2>1. FirstProposal \in Nat /\ now \in Nat
    BY <1>6, ViewsTypes
  <2>2. QED
    BY <1>6, <2>1
<1>10. QED
  BY <1>1, <1>6, <1>7, <1>8, <1>9

\* What a deal that is paid for is dated.
LEMMA RailFacts ==
  ASSUME ViewsInv, NEW d \in Deals, HasRail(d)
  PROVE  /\ d \in Listed /\ FirstProposal <= rails[d].created /\ rails[d].created <= now
         /\ rails[d].created \in Windows
         /\ rails[d].activated # Absent => rails[d].activated \in FirstProposal..now
<1>1. /\ d \in Listed /\ deals[d].proposed <= rails[d].created /\ rails[d].created <= now
      /\ rails[d].activated # Absent => rails[d].created <= rails[d].activated
      /\ rails[d].activated <= now
  BY DEF ViewsInv, Dated, RailDated
<1>2. /\ deals[d].proposed \in Int /\ rails[d].created \in Int /\ rails[d].activated \in Int
      /\ rails[d].created \in Windows \cup {Absent} /\ now \in Int
  BY Fields DEF ViewsInv
<1>3. FirstProposal \in Int /\ FirstProposal <= deals[d].proposed
  BY <1>1, FirstProposalIs, ViewsTypes
<1>4. rails[d].created \in Windows
  BY <1>2 DEF HasRail
<1>5. FirstProposal <= rails[d].created
  BY <1>1, <1>2, <1>3
<1>6. QED
  BY <1>1, <1>2, <1>3, <1>4, <1>5

Onboarded == {d \in Listed : deals[d].state = "COMPLETED" /\ IsDataOnboarded(d)}
OnboardedUpTo(w) == UNION {OnboardedIn(v) : v \in FirstProposal..w}

\* Every deal with its data onboarded was onboarded in some window of the history.
LEMMA OnboardedUpToNow ==
  ASSUME ViewsInv
  PROVE  OnboardedUpTo(now) = Onboarded
<1>1. ASSUME NEW d \in Onboarded
      PROVE  d \in OnboardedUpTo(now)
  <2>1. d \in Deals /\ HasRail(d) /\ rails[d].activated # Absent
    BY DEF Onboarded, Listed, IsDataOnboarded
  <2>2. rails[d].activated \in FirstProposal..now
    BY <2>1, RailFacts
  <2>3. d \in OnboardedIn(rails[d].activated)
    BY DEF Onboarded, OnboardedIn
  <2>4. QED
    BY <2>2, <2>3 DEF OnboardedUpTo
<1>2. ASSUME NEW d \in OnboardedUpTo(now)
      PROVE  d \in Onboarded
  <2>1. PICK v \in FirstProposal..now : d \in OnboardedIn(v)
    BY DEF OnboardedUpTo
  <2>2. d \in Listed /\ deals[d].state = "COMPLETED" /\ rails[d].activated = v
    BY <2>1 DEF OnboardedIn
  <2>3. d \in Deals /\ RailDated(d) /\ FirstProposal \in Int /\ now \in Int /\ FirstProposal >= 0
    BY <2>2, FirstProposalIs, ViewsTypes DEF Listed, ViewsInv, Dated
  <2>4. v # Absent
    BY <2>1, <2>3 DEF Absent
  <2>5. HasRail(d)
    BY <2>2, <2>3, <2>4 DEF RailDated
  <2>6. QED
    BY <2>2, <2>4, <2>5 DEF Onboarded, IsDataOnboarded
<1>3. QED
  BY <1>1, <1>2

\* What an entry of the history of the data holds.
LEMMA OnboardedEntry ==
  ASSUME Listed # {}, NEW w \in FirstProposal..now
  PROVE  /\ DOMAIN OnboardedDataHistory = FirstProposal..now
         /\ OnboardedDataHistory[w].total = SumOver(OnboardedUpTo(w), Bytes)
  BY DEF OnboardedDataHistory, OnboardedUpTo

Finalized == {d \in Listed : InState(d, {"COMPLETED"}) /\ IsDataOnboarded(d) /\ RailState(d) = "finalized"}

\* The data onboarded is that of the active deals and of those whose rail is finalized.
LEMMA DataAddsUp ==
  ASSUME ViewsInv, Listed # {}
  PROVE  LastTotal(OnboardedDataHistory) - StorageStatistics.onboardedBytes = SumOver(Finalized, Bytes)
<1> DEFINE A == {d \in Listed : /\ deals[d].state = "COMPLETED"
                                /\ HasRail(d) /\ ~rails[d].finalized /\ rails[d].activated # Absent}
<1>1. StorageStatistics.onboardedBytes = SumOver(A, Bytes)
  BY DEF StorageStatistics
<1>2. LastTotal(OnboardedDataHistory) = SumOver(Onboarded, Bytes)
  <2>1. now \in FirstProposal..now
    BY FirstProposalIs
  <2>2. QED
    BY <2>1, OnboardedEntry, OnboardedUpToNow DEF LastTotal
<1>3. Onboarded = A \cup Finalized /\ A \cap Finalized = {}
  BY DEF Onboarded, Finalized, IsDataOnboarded, RailState, InState
<1>4. /\ IsFiniteSet(A) /\ IsFiniteSet(Finalized)
      /\ \A d \in A : Bytes[d] \in Int
      /\ \A d \in Finalized : Bytes[d] \in Int
  BY ListedFinite, FS_Subset, ViewsAssumption DEF Finalized, Listed
<1> HIDE DEF A
<1>5. SumOver(A \cup Finalized, Bytes) = SumOver(A, Bytes) + SumOver(Finalized, Bytes)
  BY <1>3, <1>4, SumUnion
<1>6. SumOver(A, Bytes) \in Int /\ SumOver(Finalized, Bytes) \in Int
  BY <1>4, SumType
<1>7. QED
  BY <1>1, <1>2, <1>3, <1>5, <1>6

-----------------------------------------------------------------------------
(* The payments by their windows and by their deals *)

Settled == {i \in DOMAIN payments : ~payments[i].oneTime}
WindowOf == [i \in DOMAIN payments |-> payments[i].window]
DealOf == [i \in DOMAIN payments |-> payments[i].deal]
Paid(amount) == [i \in DOMAIN payments |-> amount]

\* Payments are of deals with a rail, in windows of the history.
LEMMA PaymentFacts ==
  ASSUME ViewsInv
  PROVE  /\ IsFiniteSet(Settled)
         /\ \A i \in Settled : /\ HasRail(payments[i].deal) /\ payments[i].deal \in Deals
                               /\ payments[i].window \in FirstProposal..now
<1>1. IsFiniteSet(DOMAIN payments)
  <2>1. payments \in Seq(Payment)
    BY DEF ViewsInv, ViewsTypeOK
  <2>2. DOMAIN payments = 1..Len(payments) /\ Len(payments) \in Nat
    BY <2>1
  <2>3. QED
    BY <2>2, FS_Interval
<1>2. IsFiniteSet(Settled)
  BY <1>1, FS_Subset DEF Settled
<1>3. ASSUME NEW i \in Settled
      PROVE  /\ HasRail(payments[i].deal) /\ payments[i].deal \in Deals
             /\ payments[i].window \in FirstProposal..now
  <2>1. payments \in Seq(Payment) /\ i \in DOMAIN payments
    BY DEF ViewsInv, ViewsTypeOK, Settled
  <2>2. payments[i] \in Payment
    BY <2>1
  <2>3. PaymentDated(payments[i])
    BY <2>1 DEF ViewsInv, Dated
  <2> DEFINE p == payments[i]
  <2> HIDE DEF p
  <2>4. /\ HasRail(p.deal) /\ rails[p.deal].created <= p.window /\ p.window <= now
        /\ p.deal \in Deals /\ p.window \in Windows
    BY <2>2, <2>3 DEF PaymentDated, Payment, p
  <2>5. FirstProposal <= rails[p.deal].created /\ rails[p.deal].created \in Windows /\ p.deal \in Listed
    BY <2>4, RailFacts
  <2>6. /\ FirstProposal \in Int /\ rails[p.deal].created \in Int /\ p.window \in Int /\ now \in Int
    BY <2>4, <2>5, FirstProposalIs, ViewsTypes
  <2>7. p.window \in FirstProposal..now
    BY <2>4, <2>5, <2>6
  <2>8. QED
    BY <2>4, <2>7 DEF p
<1>4. QED
  BY <1>2, <1>3

\* What is settled of the payments of a key is the amount of each.
LEMMA SettledOfKey ==
  ASSUME ViewsInv, NEW key, NEW k, NEW amount \in Nat
  PROVE  /\ SumOver(Fibre(Settled, key, k), Paid(amount)) = amount * Cardinality(Fibre(Settled, key, k))
         /\ Cardinality(Fibre(Settled, key, k)) \in Nat
<1>1. IsFiniteSet(Fibre(Settled, key, k))
  BY PaymentFacts, FS_Subset DEF Fibre
<1>2. \A i \in Fibre(Settled, key, k) : Paid(amount)[i] = amount
  BY DEF Fibre, Settled, Paid
<1>3. QED
  BY <1>1, <1>2, SumConstant, FS_CardinalityType

AmountPaid(netAmounts) == IF netAmounts THEN Net ELSE Gross

\* The volume of a window is the sum of its payments.
LEMMA VolumeIs ==
  ASSUME ViewsInv, NEW netAmounts \in BOOLEAN, NEW w \in Windows
  PROVE  /\ PaymentsVolume(netAmounts)[w] = SumOver(Fibre(Settled, WindowOf, w), Paid(AmountPaid(netAmounts)))
         /\ PaymentsVolume(netAmounts)[w] = AmountPaid(netAmounts) * Cardinality(Fibre(Settled, WindowOf, w))
         /\ PaymentsVolume(netAmounts)[w] \in Nat /\ PaymentsVolume(netAmounts)[w] \in Int
<1>1. {i \in DOMAIN payments : payments[i].window = w /\ ~payments[i].oneTime} = Fibre(Settled, WindowOf, w)
  BY DEF Fibre, Settled, WindowOf
<1>2. PaymentsVolume(netAmounts)[w]
        = AmountPaid(netAmounts) * Cardinality({i \in DOMAIN payments : payments[i].window = w /\ ~payments[i].oneTime})
  BY DEF PaymentsVolume, AmountPaid
<1>3. AmountPaid(netAmounts) \in Nat
  BY ViewsAssumption DEF AmountPaid
<1>4. /\ SumOver(Fibre(Settled, WindowOf, w), Paid(AmountPaid(netAmounts)))
           = AmountPaid(netAmounts) * Cardinality(Fibre(Settled, WindowOf, w))
      /\ Cardinality(Fibre(Settled, WindowOf, w)) \in Nat
  BY <1>3, SettledOfKey
<1>5. AmountPaid(netAmounts) * Cardinality(Fibre(Settled, WindowOf, w)) \in Nat
  BY <1>3, <1>4
<1>6. PaymentsVolume(netAmounts)[w] = AmountPaid(netAmounts) * Cardinality(Fibre(Settled, WindowOf, w))
  BY <1>1, <1>2
<1>7. QED
  BY <1>4, <1>5, <1>6

\* The payments of all windows are the payments of all rails.
LEMMA WindowsAddUp ==
  ASSUME ViewsInv, Listed # {}
  PROVE  SumOver(FirstProposal..now, PaymentsVolume(FALSE)) = SumOver(Settled, Paid(Gross))
<1> DEFINE K == FirstProposal..now
           sums == FibreSums(Settled, WindowOf, Paid(Gross), K)
<1>1. IsFiniteSet(Settled) /\ \A i \in Settled : Paid(Gross)[i] \in Int
  BY PaymentFacts, ViewsAssumption DEF Settled, Paid
<1>2. IsFiniteSet(K) /\ K \subseteq Windows
  BY FirstProposalIs
<1> HIDE DEF K
<1>3. SumOver(OfKeys(Settled, WindowOf, K), Paid(Gross)) = SumOver(K, sums)
  BY <1>1, <1>2, SumByKey
<1>4. OfKeys(Settled, WindowOf, K) = Settled
  BY PaymentFacts DEF OfKeys, WindowOf, Settled, K
<1>5. \A w \in K : PaymentsVolume(FALSE)[w] \in Int /\ PaymentsVolume(FALSE)[w] = sums[w]
  <2>1. SUFFICES ASSUME NEW w \in K
                 PROVE  PaymentsVolume(FALSE)[w] \in Int /\ PaymentsVolume(FALSE)[w] = sums[w]
    OBVIOUS
  <2>2. /\ PaymentsVolume(FALSE)[w] = SumOver(Fibre(Settled, WindowOf, w), Paid(AmountPaid(FALSE)))
        /\ PaymentsVolume(FALSE)[w] \in Int
    BY <1>2, VolumeIs
  <2>3. AmountPaid(FALSE) = Gross /\ sums[w] = SumOver(Fibre(Settled, WindowOf, w), Paid(Gross))
    BY DEF AmountPaid, FibreSums
  <2>4. PaymentsVolume(FALSE)[w] = sums[w]
    BY <2>2, <2>3, Zenon
  <2>5. QED
    BY <2>2, <2>4, Zenon
<1> HIDE DEF sums
<1>6. SumOver(K, PaymentsVolume(FALSE)) = SumOver(K, sums)
  BY <1>2, <1>5, SumEqual
<1>7. QED
  BY <1>3, <1>4, <1>6 DEF K

PaidDeals == {d \in Listed : HasRail(d)}
SettledByDeal == [d \in Deals |-> TotalAmountSettled(d)]

\* And the payments of all rails are all the payments.
LEMMA RailsAddUp ==
  ASSUME ViewsInv
  PROVE  EconomicsStatistics.totalSettled = SumOver(Settled, Paid(Gross))
<1> DEFINE sums == FibreSums(Settled, DealOf, Paid(Gross), PaidDeals)
<1>1. IsFiniteSet(Settled) /\ \A i \in Settled : Paid(Gross)[i] \in Int
  BY PaymentFacts, ViewsAssumption DEF Settled, Paid
<1>2. IsFiniteSet(PaidDeals) /\ PaidDeals \subseteq Deals
  BY ListedFinite, FS_Subset DEF PaidDeals, Listed
<1>3. SumOver(OfKeys(Settled, DealOf, PaidDeals), Paid(Gross)) = SumOver(PaidDeals, sums)
  BY <1>1, <1>2, SumByKey
<1>4. OfKeys(Settled, DealOf, PaidDeals) = Settled
  <2>1. \A i \in Settled : payments[i].deal \in PaidDeals
    BY PaymentFacts, RailFacts DEF PaidDeals
  <2>2. QED
    BY <2>1 DEF OfKeys, DealOf, Settled
<1>5. ASSUME NEW d \in PaidDeals
      PROVE  SettledByDeal[d] \in Int /\ SettledByDeal[d] = sums[d]
  <2>1. Settlements(d) = Fibre(Settled, DealOf, d)
    BY DEF Settlements, Fibre, Settled, DealOf
  <2>2. SettledByDeal[d] = Gross * Cardinality(Fibre(Settled, DealOf, d))
    BY <1>2, <2>1 DEF SettledByDeal, TotalAmountSettled
  <2>3. Gross \in Nat
    BY ViewsAssumption
  <2>4. /\ SumOver(Fibre(Settled, DealOf, d), Paid(Gross)) = Gross * Cardinality(Fibre(Settled, DealOf, d))
        /\ Cardinality(Fibre(Settled, DealOf, d)) \in Nat
    BY <2>3, SettledOfKey
  <2>5. QED
    BY <2>2, <2>3, <2>4 DEF FibreSums
<1> HIDE DEF sums
<1>6. SumOver(PaidDeals, SettledByDeal) = SumOver(PaidDeals, sums)
  BY <1>2, <1>5, SumEqual
<1>7. EconomicsStatistics.totalSettled = SumOver(PaidDeals, SettledByDeal)
  BY DEF EconomicsStatistics, PaidDeals, SettledByDeal
<1>8. QED
  BY <1>3, <1>4, <1>6, <1>7

\* What an entry of the history of the payments holds.
LEMMA PaymentsEntry ==
  ASSUME Listed # {}, NEW netAmounts \in BOOLEAN, NEW w \in FirstProposal..now
  PROVE  /\ DOMAIN DealsPaymentsSummaryHistory(netAmounts) = FirstProposal..now
         /\ DealsPaymentsSummaryHistory(netAmounts)[w].total
              = RoundedTotal(PaymentsVolume(netAmounts), FirstProposal)[w]
  BY DEF DealsPaymentsSummaryHistory

\* The history of the payments ends at what is settled on all rails, but for the rounding.
LEMMA PaymentsAddUp ==
  ASSUME ViewsInv, Listed # {}
  PROVE  LastTotal(DealsPaymentsSummaryHistory(FALSE)) - EconomicsStatistics.totalSettled
           \in -5 * (now + 1)..5 * (now + 1)
<1> DEFINE t == RoundedTotal(PaymentsVolume(FALSE), FirstProposal)[now]
           u == SumOver(Settled, Paid(Gross))
<1>1. /\ FirstProposal \in Windows /\ now \in Windows /\ FirstProposal <= now
      /\ FirstProposal \in Nat /\ now \in Nat /\ now \in FirstProposal..now
  BY FirstProposalIs
<1>2. LastTotal(DealsPaymentsSummaryHistory(FALSE)) = t
  BY <1>1, PaymentsEntry DEF LastTotal
<1>3. \A w \in Windows : PaymentsVolume(FALSE)[w] \in Nat
  BY VolumeIs
<1>4. RoundedWell(PaymentsVolume(FALSE), FirstProposal, now)
  BY <1>1, <1>3, RoundedFrom
<1>5. t <= u + 5 * (now - FirstProposal + 1) /\ u <= t + 5 * (now - FirstProposal + 1) /\ t \in Nat
  <2>1. SumOver(FirstProposal..now, PaymentsVolume(FALSE)) = u
    BY WindowsAddUp
  <2>2. /\ t <= SumOver(FirstProposal..now, PaymentsVolume(FALSE)) + 5 * (now - FirstProposal + 1)
        /\ SumOver(FirstProposal..now, PaymentsVolume(FALSE)) <= t + 5 * (now - FirstProposal + 1)
        /\ InCents(t)
    BY <1>4 DEF RoundedWell
  <2> HIDE DEF t, u
  <2>3. t \in Nat
    BY <2>2 DEF InCents
  <2>4. QED
    BY <2>1, <2>2, <2>3
<1>6. EconomicsStatistics.totalSettled = u
  BY RailsAddUp
<1>7. u \in Int
  <2>1. IsFiniteSet(Settled) /\ \A i \in Settled : Paid(Gross)[i] \in Int
    BY PaymentFacts, ViewsAssumption DEF Settled, Paid
  <2>2. QED
    BY <2>1, SumType
<1> HIDE DEF t, u
<1>8. t - u \in -5 * (now + 1)..5 * (now + 1)
  BY <1>1, <1>5, <1>7
<1>9. QED
  BY <1>2, <1>6, <1>8

FirstRail == Min({rails[d].created : d \in ValuedDeals})
ValueVolume == [w \in Windows |-> SumOver({d \in ValuedDeals : rails[d].created = w}, Revenue)]
RailWindow == [d \in Deals |-> rails[d].created]

\* The history of the values starts at a window, at which or after which every rail was created.
LEMMA FirstRailIs ==
  ASSUME ViewsInv, ValuedDeals # {}
  PROVE  /\ FirstRail \in Windows /\ now \in Windows /\ FirstRail <= now
         /\ FirstRail \in Nat /\ now \in Nat /\ now \in FirstRail..now
         /\ \A d \in ValuedDeals : rails[d].created \in FirstRail..now
         /\ FirstRail..now \subseteq Windows /\ IsFiniteSet(FirstRail..now)
<1> DEFINE T == {rails[d].created : d \in ValuedDeals}
<1>1. \A d \in ValuedDeals : rails[d].created \in Windows /\ rails[d].created <= now /\ rails[d].created \in Nat
  BY RailFacts, ViewsTypes DEF ValuedDeals, Listed
<1>2. T \in SUBSET Nat /\ T # {}
  BY <1>1
<1>3. Min(T) \in T /\ \A y \in T : Min(T) <= y
  BY <1>2, MinIs
<1>4. FirstRail = Min(T)
  BY DEF FirstRail
<1> HIDE DEF T
<1>5. PICK d \in ValuedDeals : FirstRail = rails[d].created
  BY <1>3, <1>4 DEF T
<1>6. FirstRail \in Windows /\ FirstRail <= now /\ now \in Windows
  BY <1>1, <1>5 DEF ViewsInv, ViewsTypeOK
<1>7. FirstRail \in Nat /\ now \in Nat /\ FirstRail >= 0 /\ now <= MaxWindow /\ MaxWindow \in Int
  BY <1>6, ViewsTypes
<1>8. now \in FirstRail..now
  BY <1>6, <1>7
<1>9. \A e \in ValuedDeals : rails[e].created \in FirstRail..now
  <2>1. SUFFICES ASSUME NEW e \in ValuedDeals
                 PROVE  rails[e].created \in FirstRail..now
    OBVIOUS
  <2>2. FirstRail <= rails[e].created
    BY <1>3, <1>4 DEF T
  <2>3. rails[e].created <= now /\ rails[e].created \in Int
    BY <1>1
  <2>4. QED
    BY <1>7, <2>2, <2>3
<1>10. FirstRail..now \subseteq Windows
  BY <1>7 DEF Windows
<1>11. QED
  BY <1>6, <1>7, <1>8, <1>9, <1>10, FS_Interval

\* The volume of a window is the sum of the values of its deals.
LEMMA ValuedFinite ==
  /\ IsFiniteSet(ValuedDeals) /\ \A d \in ValuedDeals : Revenue[d] \in Int /\ Revenue[d] \in Nat
  /\ \A w \in Windows : /\ ValueVolume[w] = SumOver(Fibre(ValuedDeals, RailWindow, w), Revenue)
                        /\ ValueVolume[w] \in Nat
<1>1. IsFiniteSet(ValuedDeals) /\ \A d \in ValuedDeals : Revenue[d] \in Int /\ Revenue[d] \in Nat
  BY ListedFinite, FS_Subset, ViewsAssumption DEF ValuedDeals, Listed
<1>2. ASSUME NEW w \in Windows
      PROVE  /\ ValueVolume[w] = SumOver(Fibre(ValuedDeals, RailWindow, w), Revenue)
             /\ ValueVolume[w] \in Nat
  <2> DEFINE S == Fibre(ValuedDeals, RailWindow, w)
  <2>1. {d \in ValuedDeals : rails[d].created = w} = S
    BY DEF Fibre, RailWindow, ValuedDeals, Listed
  <2>2. ValueVolume[w] = SumOver(S, Revenue)
    BY <2>1 DEF ValueVolume
  <2>3. S \subseteq ValuedDeals
    BY DEF Fibre
  <2> HIDE DEF S
  <2>4. 0 <= SumOver(S, Revenue)
    BY <1>1, <2>3, SumPart
  <2>5. IsFiniteSet(S) /\ \A d \in S : Revenue[d] \in Int
    BY <1>1, <2>3, FS_Subset
  <2>6. SumOver(S, Revenue) \in Int
    BY <2>5, SumType
  <2>7. SumOver(S, Revenue) \in Nat
    BY <2>4, <2>6
  <2>8. QED
    BY <2>2, <2>7 DEF S
<1>3. QED
  BY <1>1, <1>2

\* What an entry of the history of the values holds.
LEMMA ValuesEntry ==
  ASSUME ValuedDeals # {}, NEW w \in FirstRail..now
  PROVE  /\ DOMAIN DealsValueHistory = FirstRail..now
         /\ DealsValueHistory[w].total = RoundedTotal(ValueVolume, FirstRail)[w]
  BY DEF DealsValueHistory, ValueVolume, FirstRail

\* The history of the values ends at those of the deals not rejected, but for the rounding.
LEMMA ValuesAddUp ==
  ASSUME ViewsInv, ValuedDeals # {}
  PROVE  LastTotal(DealsValueHistory) - SumOver(ValuedDeals, Revenue) \in -5 * (now + 1)..5 * (now + 1)
<1> DEFINE t == RoundedTotal(ValueVolume, FirstRail)[now]
           u == SumOver(ValuedDeals, Revenue)
           K == FirstRail..now
           sums == FibreSums(ValuedDeals, RailWindow, Revenue, K)
<1>1. /\ FirstRail \in Windows /\ now \in Windows /\ FirstRail <= now
      /\ FirstRail \in Nat /\ now \in Nat /\ now \in FirstRail..now
  BY FirstRailIs
<1>2. LastTotal(DealsValueHistory) = t
  BY <1>1, ValuesEntry DEF LastTotal
<1>3. \A w \in Windows : ValueVolume[w] \in Nat
  BY ValuedFinite
<1>4. RoundedWell(ValueVolume, FirstRail, now)
  BY <1>1, <1>3, RoundedFrom
<1>5. SumOver(K, ValueVolume) = u
  <2>1. IsFiniteSet(ValuedDeals) /\ \A d \in ValuedDeals : Revenue[d] \in Int
    BY ValuedFinite
  <2>2. IsFiniteSet(K) /\ K \subseteq Windows
    BY FirstRailIs
  <2>3. OfKeys(ValuedDeals, RailWindow, K) = ValuedDeals
    BY FirstRailIs DEF OfKeys, RailWindow, ValuedDeals, Listed
  <2> HIDE DEF K
  <2>4. SumOver(OfKeys(ValuedDeals, RailWindow, K), Revenue) = SumOver(K, sums)
    BY <2>1, <2>2, SumByKey
  <2>5. \A w \in K : sums[w] = SumOver(Fibre(ValuedDeals, RailWindow, w), Revenue)
    BY DEF FibreSums
  <2> HIDE DEF sums
  <2>6. \A w \in K : ValueVolume[w] \in Int /\ ValueVolume[w] = sums[w]
    BY <2>2, <2>5, ValuedFinite
  <2>7. SumOver(K, ValueVolume) = SumOver(K, sums)
    BY <2>2, <2>6, SumEqual
  <2>8. QED
    BY <2>3, <2>4, <2>7
<1>6. /\ t <= SumOver(K, ValueVolume) + 5 * (now - FirstRail + 1)
      /\ SumOver(K, ValueVolume) <= t + 5 * (now - FirstRail + 1) /\ InCents(t)
  BY <1>4 DEF RoundedWell
<1>7. u \in Int
  BY ValuedFinite, SumType
<1> HIDE DEF t, u, K, sums
<1>8. t \in Nat
  BY <1>6 DEF InCents
<1>9. t - u \in -5 * (now + 1)..5 * (now + 1)
  BY <1>1, <1>5, <1>6, <1>7, <1>8
<1>10. QED
  BY <1>2, <1>9 DEF u

-----------------------------------------------------------------------------
(* The numbers of the market *)

TotalAt(history, w) == IF w \in DOMAIN history THEN history[w].total ELSE 0
PaidOutHistory == DealsPaymentsSummaryHistory(TRUE)
PaidHistory == DealsPaymentsSummaryHistory(FALSE)
ClientsAt(w) == IF w \in DOMAIN ActiveClientsHistory THEN ActiveClientsHistory[w] ELSE 0

\* The numbers of the market, one by one.
LEMMA StatisticsAre ==
  /\ DOMAIN GetStatistics = {"TOTAL_DEALS_DONE", "TOTAL_DATA_ONBOARDED", "TOTAL_DEALS_VALUE",
                             "TOTAL_USD_PAID", "ACTIVE_CLIENTS_COUNT"}
  /\ GetStatistics.TOTAL_DEALS_DONE = <<GetDealsDoneCountUpToDate(now), GetDealsDoneCountUpToDate(now - 1)>>
  /\ GetStatistics.TOTAL_DATA_ONBOARDED = <<TotalAt(OnboardedDataHistory, now), TotalAt(OnboardedDataHistory, now - 1)>>
  /\ GetStatistics.TOTAL_DEALS_VALUE = <<TotalAt(DealsValueHistory, now), TotalAt(DealsValueHistory, now - 1)>>
  /\ GetStatistics.TOTAL_USD_PAID = <<TotalAt(PaidOutHistory, now),
                                      TotalAt(PaidOutHistory, now - 1)>>
  /\ GetStatistics.ACTIVE_CLIENTS_COUNT = <<ClientsAt(now), ClientsAt(now - 1)>>
  BY DEF GetStatistics, Entries, TotalAt, ClientsAt, PaidOutHistory

\* Every deal was done by now.
LEMMA DealsDone ==
  ASSUME ViewsInv, Listed # {}
  PROVE  /\ GetDealsDoneCountUpToDate(now) = Cardinality(Listed)
         /\ GetDealsDoneCountUpToDate(now) >= GetDealsDoneCountUpToDate(now - 1)
<1> DEFINE before == {d \in Listed : deals[d].proposed <= now - 1}
<1>1. {d \in Listed : deals[d].proposed <= now} = Listed
  BY FirstProposalIs
<1>2. GetDealsDoneCountUpToDate(now) = Cardinality(Listed)
  BY <1>1 DEF GetDealsDoneCountUpToDate
<1>3. GetDealsDoneCountUpToDate(now - 1) = Cardinality(before)
  BY DEF GetDealsDoneCountUpToDate
<1>4. IsFiniteSet(before) /\ Cardinality(before) <= Cardinality(Listed)
  BY ListedFinite, FS_Subset
<1> HIDE DEF before
<1>5. Cardinality(before) \in Nat /\ Cardinality(Listed) \in Nat
  BY <1>4, ListedFinite, FS_CardinalityType
<1>6. QED
  BY <1>2, <1>3, <1>4, <1>5

\* The data onboarded is never less than a window ago.
LEMMA DataGrows ==
  ASSUME ViewsInv, Listed # {}
  PROVE  TotalAt(OnboardedDataHistory, now) >= TotalAt(OnboardedDataHistory, now - 1)
<1>1. /\ FirstProposal \in Nat /\ now \in Nat /\ now \in FirstProposal..now
  BY FirstProposalIs
<1> DEFINE A == OnboardedUpTo(now)
           B == OnboardedUpTo(now - 1)
<1>2. B \subseteq A /\ A \subseteq Listed
  <2>1. \A v \in FirstProposal..(now - 1) : v \in FirstProposal..now
    BY <1>1
  <2>2. QED
    BY <2>1 DEF OnboardedUpTo, OnboardedIn
<1>3. IsFiniteSet(A) /\ \A d \in A : Bytes[d] \in Nat
  BY <1>2, ListedFinite, FS_Subset, ViewsAssumption DEF Listed
<1>4. TotalAt(OnboardedDataHistory, now) = SumOver(A, Bytes)
  BY <1>1, OnboardedEntry DEF TotalAt
<1>5. TotalAt(OnboardedDataHistory, now - 1) \in {SumOver(B, Bytes), 0}
  <2>1. CASE now - 1 \in FirstProposal..now
    BY <2>1, OnboardedEntry DEF TotalAt
  <2>2. CASE now - 1 \notin FirstProposal..now
    BY <1>1, <2>2, OnboardedEntry DEF TotalAt
  <2>3. QED
    BY <2>1, <2>2
<1> HIDE DEF A, B
<1>6. 0 <= SumOver(B, Bytes) /\ SumOver(B, Bytes) <= SumOver(A, Bytes)
  BY <1>2, <1>3, SumPart
<1>7. SumOver(A, Bytes) \in Int /\ SumOver(B, Bytes) \in Int
  BY <1>2, <1>3, SumType, FS_Subset
<1>8. QED
  BY <1>4, <1>5, <1>6, <1>7

\* A rounded total is never less than a window ago.
LEMMA TotalGrows ==
  ASSUME NEW history, NEW volume, \A v \in Windows : volume[v] \in Nat,
         NEW first \in Windows, now \in Windows, first <= now, DOMAIN history = first..now,
         \A w \in first..now : history[w].total = RoundedTotal(volume, first)[w]
  PROVE  /\ TotalAt(history, now) >= TotalAt(history, now - 1)
         /\ TotalAt(history, now) = RoundedTotal(volume, first)[now]
<1>1. first \in Nat /\ now \in Nat /\ now \in first..now
  BY ViewsTypes
<1>2. TotalAt(history, now) = RoundedTotal(volume, first)[now]
  BY <1>1 DEF TotalAt
<1>3. RoundedTotal(volume, first)[now] \in Nat
  BY RoundedGrows
<1>4. CASE now > first
  <2>1. now - 1 \in first..now
    BY <1>1, <1>4
  <2>2. TotalAt(history, now - 1) = RoundedTotal(volume, first)[now - 1]
    BY <2>1 DEF TotalAt
  <2>3. /\ RoundedTotal(volume, first)[now - 1] \in Nat
        /\ RoundedTotal(volume, first)[now - 1] <= RoundedTotal(volume, first)[now]
    BY <1>4, RoundedGrows
  <2>4. QED
    BY <1>2, <1>3, <2>2, <2>3
<1>5. CASE ~(now > first)
  <2>1. now - 1 \notin first..now
    BY <1>1, <1>5
  <2>2. TotalAt(history, now - 1) = 0
    BY <2>1 DEF TotalAt
  <2>3. QED
    BY <1>2, <1>3, <2>2
<1>6. QED
  BY <1>4, <1>5

\* Nor are the values, which are nothing without a deal.
LEMMA ValuesGrow ==
  ASSUME ViewsInv
  PROVE  TotalAt(DealsValueHistory, now) >= TotalAt(DealsValueHistory, now - 1)
<1>1. CASE ValuedDeals = {}
  <2>1. DOMAIN DealsValueHistory = {}
    BY <1>1 DEF DealsValueHistory
  <2>2. TotalAt(DealsValueHistory, now) = 0 /\ TotalAt(DealsValueHistory, now - 1) = 0
    BY <2>1 DEF TotalAt
  <2>3. QED
    BY <2>2
<1>2. CASE ValuedDeals # {}
  <2>1. /\ FirstRail \in Windows /\ now \in Windows /\ FirstRail <= now /\ now \in FirstRail..now
    BY <1>2, FirstRailIs
  <2>2. \A w \in Windows : ValueVolume[w] \in Nat
    BY ValuedFinite
  <2>3. /\ DOMAIN DealsValueHistory = FirstRail..now
        /\ \A w \in FirstRail..now : DealsValueHistory[w].total = RoundedTotal(ValueVolume, FirstRail)[w]
    BY <1>2, <2>1, ValuesEntry
  <2>4. QED
    BY <2>1, <2>2, <2>3, TotalGrows
<1>3. QED
  BY <1>1, <1>2

\* What was paid out is never less than a window ago, nor more than what was paid.
LEMMA PaidOut ==
  ASSUME ViewsInv, Listed # {}
  PROVE  /\ TotalAt(PaidOutHistory, now) >= TotalAt(PaidOutHistory, now - 1)
         /\ TotalAt(PaidOutHistory, now) <= LastTotal(PaidHistory)
<1> DEFINE net == PaymentsVolume(TRUE)
           gross == PaymentsVolume(FALSE)
           history == PaidOutHistory
<1>1. /\ FirstProposal \in Windows /\ now \in Windows /\ FirstProposal <= now /\ now \in FirstProposal..now
  BY FirstProposalIs
<1>2. ASSUME NEW w \in Windows
      PROVE  net[w] \in Nat /\ gross[w] \in Nat /\ net[w] <= gross[w]
  <2> DEFINE c == Cardinality(Fibre(Settled, WindowOf, w))
  <2>1. net[w] \in Nat /\ net[w] = AmountPaid(TRUE) * c
    BY VolumeIs
  <2>2. gross[w] \in Nat /\ gross[w] = AmountPaid(FALSE) * c
    BY VolumeIs
  <2>3. c \in Nat
    BY SettledOfKey, ViewsAssumption
  <2>4. AmountPaid(TRUE) = Net /\ AmountPaid(FALSE) = Gross /\ Net \in Nat /\ Gross \in Nat /\ Net <= Gross
    BY ViewsAssumption DEF AmountPaid
  <2> HIDE DEF net, gross, c
  <2>5. Net * c <= Gross * c
    BY <2>3, <2>4
  <2>6. QED
    BY <2>1, <2>2, <2>4, <2>5, Zenon
<1>3. /\ DOMAIN history = FirstProposal..now
      /\ \A w \in FirstProposal..now : history[w].total = RoundedTotal(net, FirstProposal)[w]
  BY <1>1, PaymentsEntry DEF PaidOutHistory
<1>4. LastTotal(PaidHistory) = RoundedTotal(gross, FirstProposal)[now]
  BY <1>1, PaymentsEntry DEF LastTotal, PaidHistory
<1> HIDE DEF net, gross, history
<1>5. /\ TotalAt(history, now) >= TotalAt(history, now - 1)
      /\ TotalAt(history, now) = RoundedTotal(net, FirstProposal)[now]
  BY <1>1, <1>2, <1>3, TotalGrows
<1>6. RoundedTotal(net, FirstProposal)[now] <= RoundedTotal(gross, FirstProposal)[now]
  BY <1>1, <1>2, RoundedCompare
<1>7. QED
  BY <1>4, <1>5, <1>6, Zenon DEF history

ClientsOfDeals(set) == {DealClient[d] : d \in set}
ActiveNow == {e \in Deals : ActiveIn(e, now)}
CompletedDeals == {d \in Listed : InState(d, {"COMPLETED"})}

\* A deal is completed, and not ended, or ended in this window, when its client is active now.
LEMMA ActiveNowIs ==
  ASSUME ViewsInv, NEW d \in Deals
  PROVE  /\ deals[d].state = "COMPLETED" => d \in ActiveNow /\ d \in Listed
         /\ d \in ActiveNow /\ deals[d].ended # now => d \in CompletedDeals
         /\ d \in CompletedDeals => d \in ActiveNow
         /\ deals[d].completed # Absent => deals[d].completed \in Windows /\ deals[d].completed <= now
<1>1. DealDated(d) /\ now \in Int
  BY Fields DEF ViewsInv, Dated
<1>2. /\ deals[d].completed \in Int /\ deals[d].ended \in Int
      /\ deals[d].completed \in Windows \cup {Absent}
  BY Fields DEF ViewsInv
<1>3. ASSUME deals[d].state = "COMPLETED"
      PROVE  d \in ActiveNow /\ d \in Listed
  BY <1>1, <1>3 DEF ActiveNow, ActiveIn, DealDated, Listed
<1>4. ASSUME d \in ActiveNow, deals[d].ended # now
      PROVE  d \in CompletedDeals
  <2>1. deals[d].completed # Absent /\ (deals[d].ended = Absent \/ now <= deals[d].ended)
    BY <1>4 DEF ActiveNow, ActiveIn
  <2>2. deals[d].ended = Absent
    BY <1>1, <1>2, <1>4, <2>1 DEF DealDated
  <2>3. deals[d].state = "COMPLETED"
    BY <1>1, <2>1, <2>2 DEF DealDated
  <2>4. QED
    BY <2>3 DEF CompletedDeals, Listed, InState
<1>5. d \in CompletedDeals => deals[d].state = "COMPLETED"
  BY DEF CompletedDeals, InState
<1>6. QED
  BY <1>1, <1>2, <1>3, <1>4, <1>5 DEF DealDated

\* The clients counted are those of these deals.
LEMMA ClientsCounted ==
  ASSUME ViewsInv
  PROVE  ClientsAt(now) = Cardinality(ClientsOfDeals(ActiveNow))
<1> DEFINE completed == {deals[d].completed : d \in Listed} \ {Absent}
           history == [w \in Min(completed)..now |-> Cardinality(ClientsOfDeals({e \in Deals : ActiveIn(e, w)}))]
<1>1. ActiveClientsHistory = IF completed = {} THEN <<>> ELSE history
  BY Zenon DEF ActiveClientsHistory, ClientsOfDeals
<1>2. CASE completed = {}
  <2>1. ASSUME NEW d \in ActiveNow
        PROVE  FALSE
    <3>1. d \in Deals /\ deals[d].completed # Absent
      BY DEF ActiveNow, ActiveIn
    <3>2. d \in Listed
      <4>1. DealDated(d)
        BY <3>1 DEF ViewsInv, Dated
      <4>2. QED
        BY <3>1, <4>1 DEF DealDated, Listed
    <3>3. QED
      BY <1>2, <3>1, <3>2
  <2>2. ClientsOfDeals(ActiveNow) = {}
    BY <2>1 DEF ClientsOfDeals
  <2>3. ClientsAt(now) = 0
    BY <1>1, <1>2 DEF ClientsAt
  <2>4. QED
    BY <2>2, <2>3, FS_EmptySet
<1>3. CASE completed # {}
  <2>1. \A w \in completed : w \in Windows /\ w <= now /\ w \in Nat
    <3>1. ASSUME NEW d \in Listed, deals[d].completed # Absent
          PROVE  deals[d].completed \in Windows /\ deals[d].completed <= now /\ deals[d].completed \in Nat
      BY <3>1, ActiveNowIs, ViewsTypes DEF Listed
    <3>2. QED
      BY <3>1
  <2> HIDE DEF completed
  <2>2. completed \in SUBSET Nat
    BY <2>1
  <2>3. Min(completed) \in completed
    BY <1>3, <2>2, MinIs
  <2>4. Min(completed) \in Nat /\ Min(completed) <= now /\ now \in Nat
    BY <2>1, <2>3, ViewsTypes DEF ViewsInv, ViewsTypeOK
  <2>5. now \in Min(completed)..now
    BY <2>4
  <2>6. ActiveClientsHistory = history
    BY <1>1, <1>3
  <2>7. now \in DOMAIN history /\ history[now] = Cardinality(ClientsOfDeals(ActiveNow))
    BY <2>5 DEF ActiveNow
  <2> HIDE DEF history
  <2>8. QED
    BY <2>6, <2>7 DEF ClientsAt
<1>4. QED
  BY <1>2, <1>3

\* Every client of an active deal is counted, and, when no deal ended in this window, no
\* other than of a completed deal is.
LEMMA ClientsAddUp ==
  ASSUME ViewsInv
  PROVE  /\ ClientsAt(now) >= Cardinality(ClientsOfDeals(ActiveSet))
         /\ (\A d \in Deals : deals[d].ended # now) => ClientsAt(now) = Cardinality(ClientsOfDeals(CompletedDeals))
<1>1. IsFiniteSet(ClientsOfDeals(ActiveNow))
  <2>1. IsFiniteSet(ActiveNow)
    BY ViewsAssumption, FS_Subset DEF ActiveNow
  <2>2. QED
    BY <2>1, ImageSize DEF ClientsOfDeals
<1>2. ActiveSet \subseteq ActiveNow
  BY ActiveNowIs DEF ActiveSet, ActiveDeal, Listed
<1>3. ClientsOfDeals(ActiveSet) \subseteq ClientsOfDeals(ActiveNow)
  BY <1>2 DEF ClientsOfDeals
<1>4. /\ IsFiniteSet(ClientsOfDeals(ActiveSet))
      /\ Cardinality(ClientsOfDeals(ActiveSet)) <= Cardinality(ClientsOfDeals(ActiveNow))
  BY <1>1, <1>3, FS_Subset
<1>5. Cardinality(ClientsOfDeals(ActiveSet)) \in Int /\ Cardinality(ClientsOfDeals(ActiveNow)) \in Int
  BY <1>1, <1>4, FS_CardinalityType
<1>6. ASSUME \A d \in Deals : deals[d].ended # now
      PROVE  ActiveNow = CompletedDeals
  BY <1>6, ActiveNowIs DEF ActiveNow, CompletedDeals, Listed
<1>7. QED
  BY <1>4, <1>5, <1>6, ClientsCounted

\* None of the numbers of the market but the active clients is less than a window ago.
LEMMA StatisticsGrow ==
  ASSUME ViewsInv, Listed # {}, NEW name \in DOMAIN GetStatistics \ {"ACTIVE_CLIENTS_COUNT"}
  PROVE  GetStatistics[name][1] >= GetStatistics[name][2]
<1>1. name \in {"TOTAL_DEALS_DONE", "TOTAL_DATA_ONBOARDED", "TOTAL_DEALS_VALUE", "TOTAL_USD_PAID"}
  BY StatisticsAre
<1>2. CASE name = "TOTAL_DEALS_DONE"
  BY <1>2, StatisticsAre, DealsDone
<1>3. CASE name = "TOTAL_DATA_ONBOARDED"
  BY <1>3, StatisticsAre, DataGrows
<1>4. CASE name = "TOTAL_DEALS_VALUE"
  BY <1>4, StatisticsAre, ValuesGrow
<1>5. CASE name = "TOTAL_USD_PAID"
  BY <1>5, StatisticsAre, PaidOut
<1>6. QED
  BY <1>1, <1>2, <1>3, <1>4, <1>5

\* The histories end at what the statistics say.
LEMMA HistoriesOf == ViewsInv => HistoriesAddUp
<1>1. SUFFICES ASSUME ViewsInv, Listed # {}
               PROVE  HistoriesAddUp
  BY DEF HistoriesAddUp
<1>2. LastTotal(OnboardedDataHistory) - StorageStatistics.onboardedBytes
        = SumOver({d \in Listed : InState(d, {"COMPLETED"}) /\ IsDataOnboarded(d) /\ RailState(d) = "finalized"},
                  Bytes)
  BY <1>1, DataAddsUp DEF Finalized
<1>3. LastTotal(DealsPaymentsSummaryHistory(FALSE)) - EconomicsStatistics.totalSettled
        \in -5 * (now + 1)..5 * (now + 1)
  BY <1>1, PaymentsAddUp
<1>4. ValuedDeals # {} => LastTotal(DealsValueHistory) - SumOver(ValuedDeals, Revenue)
                            \in -5 * (now + 1)..5 * (now + 1)
  BY <1>1, ValuesAddUp
<1>5. /\ GetStatistics.ACTIVE_CLIENTS_COUNT[1] >= Cardinality({DealClient[d] : d \in ActiveSet})
      /\ (\A d \in Deals : deals[d].ended # now) =>
           GetStatistics.ACTIVE_CLIENTS_COUNT[1]
             = Cardinality({DealClient[d] : d \in {e \in Listed : InState(e, {"COMPLETED"})}})
  <2>1. GetStatistics.ACTIVE_CLIENTS_COUNT[1] = ClientsAt(now)
    BY StatisticsAre
  <2>2. QED
    BY <1>1, <2>1, ClientsAddUp DEF ClientsOfDeals, CompletedDeals
<1>6. GetStatistics.TOTAL_DEALS_DONE[1] = Cardinality(Listed)
  BY <1>1, StatisticsAre, DealsDone
<1>7. GetStatistics.TOTAL_USD_PAID[1] <= LastTotal(PaidHistory)
  BY <1>1, StatisticsAre, PaidOut
<1>8. \A name \in DOMAIN GetStatistics \ {"ACTIVE_CLIENTS_COUNT"} :
        GetStatistics[name][1] >= GetStatistics[name][2]
  BY <1>1, StatisticsGrow
<1>9. QED
  BY <1>2, <1>3, <1>4, <1>5, <1>6, <1>7, <1>8, CountedAreActive, Zenon DEF HistoriesAddUp, PaidHistory

\* The histories always end at what the statistics of the provider and of the market say,
\* whatever the deals, the windows and the payments.
THEOREM HistoriesAlwaysAddUp == ViewsSpec => []HistoriesAddUp
  BY HistoriesOf, ViewsInvariance, PTL

-----------------------------------------------------------------------------
(* The indexer *)

USE DEF Blocks, Versions

\* What the first state satisfies.
LEMMA InitIInv == Init => IInv
<1> SUFFICES ASSUME Init PROVE IInv
  OBVIOUS
<1> USE ConstantsAssumption DEF Init
<1>1. TypeOK
  <2>1. runs \in [Versions -> Seq(Row)]
    BY EmptySeq
  <2>2. req \in [Calls -> Request]
    BY DEF NoRequest, Request
  <2>3. applied \in [Blocks -> Nat] /\ pc \in [Calls -> Stages]
    BY DEF Stages
  <2>4. head \in Blocks /\ version \in Versions /\ failures \in 0..MaxFailures
    OBVIOUS
  <2>5. isRunning \in BOOLEAN
    OBVIOUS
  <2> HIDE DEF Init
  <2> QED
    BY <2>1, <2>2, <2>3, <2>4, <2>5 DEF TypeOK
<1>2. SingleFlight
  BY DEF SingleFlight, Active
<1>3. RunsTile
  BY DEF RunsTile
<1>4. RequestFresh
  BY DEF RequestFresh
<1>5. FutureVersionsEmpty
  BY DEF FutureVersionsEmpty
<1>6. ExactlyOnce
  BY DEF ExactlyOnce, Built
<1> QED
  BY <1>1, <1>2, <1>3, <1>4, <1>5, <1>6 DEF IInv

\* The last row of a version that has one, and the block the next run starts at.
LEMMA LastRow ==
  ASSUME TypeOK, RunsTile, NEW v \in Versions
  PROVE  /\ Len(runs[v]) \in Nat
         /\ runs[v] = <<>> <=> Len(runs[v]) = 0
         /\ runs[v] # <<>> => /\ LastBlockEnd(v) \in 0..MaxBlock
                              /\ LastBlockEnd(v) <= head
                              /\ NextFromBlock(v) = LastBlockEnd(v) + 1
         /\ runs[v] = <<>> => NextFromBlock(v) = Origin
         /\ NextFromBlock(v) \in Nat
         /\ NextFromBlock(v) <= head + 1
<1> USE ConstantsAssumption
<1>1. runs[v] \in Seq(Row)
  BY DEF TypeOK
<1>2. Len(runs[v]) \in Nat /\ (runs[v] = <<>> <=> Len(runs[v]) = 0)
  BY <1>1, EmptySeq
<1>3. CASE runs[v] # <<>>
  <2>1. Len(runs[v]) \in 1..Len(runs[v])
    BY <1>2, <1>3
  <2>2. runs[v][Len(runs[v])] \in Row
    BY <1>1, <2>1
  <2>3. LastBlockEnd(v) \in 0..MaxBlock
    BY <2>2 DEF LastBlockEnd, Row
  <2>4. LastBlockEnd(v) <= head
    BY <2>1 DEF LastBlockEnd, RunsTile
  <2> QED
    BY <1>2, <1>3, <2>3, <2>4 DEF NextFromBlock, TypeOK
<1>4. CASE runs[v] = <<>>
  BY <1>2, <1>4 DEF NextFromBlock, TypeOK
<1> QED
  BY <1>3, <1>4

\* What inserting a run record does to a version's records.
LEMMA AppendRow ==
  ASSUME NEW s \in Seq(Row), NEW e \in Row, NEW t, t = Append(s, e)
  PROVE  /\ t # <<>>
         /\ Len(t) = Len(s) + 1
         /\ \A i \in 1..Len(s) : t[i] = s[i]
         /\ t[Len(s) + 1] = e
  BY AppendProperties

\* A committed transaction keeps the tables and the run records consistent:
\* the batch starts where the last run ended, or at the origin after a cleanup.
LEMMA TransactCorrect ==
  ASSUME IInv, NEW c \in Calls, pc[c] = "committing", Transact(req[c]),
         UNCHANGED <<head, version>>
  PROVE  /\ runs' \in [Versions -> Seq(Row)]
         /\ applied' \in [Blocks -> Nat]
         /\ RunsTile'
         /\ FutureVersionsEmpty'
         /\ ExactlyOnce'
<1> USE ConstantsAssumption
<1> DEFINE r == req[c]
           row == [blockStart |-> r.fromBlock, blockEnd |-> r.toBlock]
           old == runs[version]
           new == runs'[version]
<1>1. TypeOK /\ RunsTile /\ FutureVersionsEmpty /\ ExactlyOnce
  BY DEF IInv
<1>2. /\ r \in Request
      /\ version \in Versions
      /\ head \in Blocks
      /\ runs \in [Versions -> Seq(Row)]
      /\ applied \in [Blocks -> Nat]
      /\ old \in Seq(Row)
  BY <1>1 DEF TypeOK
<1>3. /\ r.fromBlock \in Nat /\ r.toBlock \in Nat /\ r.versionChanged \in BOOLEAN
      /\ r.versionChanged <=> old = <<>>
      /\ r.fromBlock = NextFromBlock(version)
      /\ r.toBlock <= head
      /\ r.toBlock >= r.fromBlock - 1
  BY <1>2 DEF IInv, RequestFresh, Request
<1>4. row \in Row
  <2>1. r.toBlock \in 0..MaxBlock
    BY <1>2, <1>3
  <2> HIDE DEF r
  <2> QED
    BY <1>3, <2>1 DEF Row
<1>5. /\ new = Append(old, row)
      /\ \A v \in Versions : v # version => runs'[v] = runs[v]
      /\ runs' \in [Versions -> Seq(Row)]
  BY <1>2, <1>4, AppendProperties DEF Transact
<1>6. /\ new # <<>>
      /\ Len(new) = Len(old) + 1
      /\ \A i \in 1..Len(old) : new[i] = old[i]
      /\ new[Len(old) + 1] = row
  <2> HIDE DEF row, old, new
  <2>1. old \in Seq(Row) /\ row \in Row /\ new = Append(old, row)
    BY <1>2, <1>4, <1>5
  <2> QED
    BY <2>1, AppendRow
<1>7. /\ Len(old) \in Nat
      /\ old = <<>> <=> Len(old) = 0
      /\ old # <<>> => /\ LastBlockEnd(version) \in Nat
                       /\ NextFromBlock(version) = LastBlockEnd(version) + 1
      /\ old = <<>> => NextFromBlock(version) = Origin
  BY <1>1, <1>2, LastRow
<1>8. applied' \in [Blocks -> Nat]
  <2>1. \A b \in Blocks : Kept(r, b) \in Nat
    BY <1>2, <1>3 DEF Kept
  <2> HIDE DEF r
  <2> QED
    BY <2>1 DEF Transact, r
<1>9. RunsTile'
  <2> SUFFICES ASSUME NEW v \in Versions, NEW i \in 1..Len(runs'[v])
               PROVE /\ runs'[v][i].blockStart
                          = IF i = 1 THEN Origin ELSE runs'[v][i - 1].blockEnd + 1
                     /\ runs'[v][i].blockEnd >= runs'[v][i].blockStart - 1
                     /\ runs'[v][i].blockEnd <= head
    BY DEF RunsTile
  <2>1. CASE v # version
    <3>1. runs'[v] = runs[v]
      BY <1>5, <2>1
    <3> QED
      BY <1>1, <3>1 DEF RunsTile
  <2>2. CASE v = version /\ i <= Len(old)
    <3>1. i \in 1..Len(old) /\ new[i] = old[i] /\ (i # 1 => new[i - 1] = old[i - 1])
      <4>1. i \in Nat /\ i >= 1 /\ i <= Len(old)
        BY <2>2
      <4> HIDE DEF old, new
      <4>2. i \in 1..Len(old) /\ (i # 1 => i - 1 \in 1..Len(old))
        BY <1>7, <4>1
      <4> QED
        BY <1>6, <4>2
    <3>2. /\ old[i].blockStart = IF i = 1 THEN Origin ELSE old[i - 1].blockEnd + 1
          /\ old[i].blockEnd >= old[i].blockStart - 1
          /\ old[i].blockEnd <= head
      BY <1>1, <1>2, <3>1 DEF RunsTile
    <3>3. runs'[v] = new
      BY <2>2
    <3> HIDE DEF old, new
    <3> QED
      BY <3>1, <3>2, <3>3
  <2>3. CASE v = version /\ i > Len(old)
    <3>1. i = Len(old) + 1 /\ new[i] = row
      <4>1. i \in 1..Len(new) /\ i > Len(old)
        BY <2>3
      <4> HIDE DEF old, new, row
      <4> QED
        BY <1>6, <1>7, <4>1
    <3>2. i # 1 => new[i - 1].blockEnd = LastBlockEnd(version) /\ old # <<>>
      <4>1. LastBlockEnd(version) = old[Len(old)].blockEnd
        BY DEF LastBlockEnd
      <4> HIDE DEF old, new
      <4>2. i # 1 => Len(old) # 0 /\ Len(old) \in 1..Len(old) /\ i - 1 = Len(old)
        BY <1>7, <3>1
      <4> QED
        BY ONLY <1>6, <1>7, <4>1, <4>2
    <3>3. runs'[v] = new /\ row.blockStart = r.fromBlock /\ row.blockEnd = r.toBlock
      BY <2>3
    <3> HIDE DEF old, new, row, r
    <3> QED
      BY <1>3, <1>7, <3>1, <3>2, <3>3
  <2> QED
    BY <1>7, <1>6, <1>5, <2>1, <2>2, <2>3
<1>10. FutureVersionsEmpty'
  <2>1. version' = version /\ version \in Nat /\ \A v \in Versions : v > version => v # version
    BY <1>1, <1>2
  <2>2. \A v \in Versions : v > version => runs[v] = <<>>
    BY <1>1, <1>2 DEF FutureVersionsEmpty
  <2> HIDE DEF new
  <2>3. \A v \in Versions : v # version => runs'[v] = runs[v]
    BY <1>5
  <2> QED
    BY <2>1, <2>2, <2>3 DEF FutureVersionsEmpty
<1>11. ExactlyOnce'
  <2>1. ASSUME NEW v \in Versions, Built(v)'
        PROVE  v = version
    <3>1. runs'[v] # <<>> /\ \A w \in Versions : w > v => runs'[w] = <<>>
      BY <2>1 DEF Built
    <3>2. ~(v > version)
      BY <1>10, <3>1 DEF FutureVersionsEmpty
    <3>3. ~(version > v)
      BY <1>2, <1>6, <3>1
    <3> QED
      BY <1>2, <3>2, <3>3
  <2>2. LastBlockEnd(version)' = r.toBlock
    BY <1>6 DEF LastBlockEnd
  <2>3. ASSUME NEW b \in Blocks
        PROVE  applied'[b] = IF b <= r.toBlock THEN 1 ELSE 0
    <3>1. applied'[b] = (IF r.versionChanged THEN 0 ELSE applied[b])
                        + (IF r.fromBlock <= b /\ b <= r.toBlock THEN 1 ELSE 0)
      BY DEF Transact, Kept
    <3>2. CASE old = <<>>
      BY <1>3, <1>7, <3>1, <3>2
    <3>3. CASE old # <<>>
      <4>1. Built(version)
        BY <1>1, <1>2, <3>3 DEF Built, FutureVersionsEmpty
      <4>2. applied[b] = IF b <= LastBlockEnd(version) THEN 1 ELSE 0
        BY <1>1, <1>2, <4>1 DEF ExactlyOnce
      <4> QED
        BY <1>3, <1>7, <3>1, <3>3, <4>2
    <3> QED
      BY <3>2, <3>3
  <2>4. (\E v \in Versions : runs'[v] # <<>>)
    BY <1>2, <1>6
  <2> QED
    BY <2>1, <2>2, <2>3, <2>4 DEF ExactlyOnce
<1> QED
  BY <1>5, <1>8, <1>9, <1>10, <1>11

\* Steps that leave the database alone.
LEMMA DatabaseUnchanged ==
  ASSUME IInv, UNCHANGED <<runs, applied>>, head' \in Blocks, head' >= head,
         version' \in Versions, version' >= version
  PROVE  RunsTile' /\ FutureVersionsEmpty' /\ ExactlyOnce'
<1> USE ConstantsAssumption
<1>1. TypeOK /\ RunsTile /\ FutureVersionsEmpty /\ ExactlyOnce
  BY DEF IInv
<1>2. RunsTile'
  <2> SUFFICES ASSUME NEW v \in Versions, NEW i \in 1..Len(runs[v])
               PROVE runs[v][i].blockEnd <= head'
    BY <1>1 DEF RunsTile
  <2>1. runs[v] \in Seq(Row)
    BY <1>1 DEF TypeOK
  <2>2. runs[v][i] \in Row
    BY <2>1, ElementOfSeq
  <2>3. runs[v][i].blockEnd \in Nat
    BY <2>2 DEF Row
  <2>4. runs[v][i].blockEnd <= head
    BY <1>1 DEF RunsTile
  <2>5. head \in Nat /\ head' \in Nat
    BY <1>1 DEF TypeOK
  <2> QED
    BY <2>3, <2>4, <2>5
<1>3. FutureVersionsEmpty'
  BY <1>1 DEF FutureVersionsEmpty, TypeOK
<1>4. ExactlyOnce'
  BY <1>1 DEF ExactlyOnce, Built, LastBlockEnd
<1> QED
  BY <1>2, <1>3, <1>4

\* The invocation at work gives up, and nobody else is at work.
LEMMA AbandonCorrect ==
  ASSUME IInv, NEW c \in Calls, Active(c), Abandon(c)
  PROVE  /\ isRunning' \in BOOLEAN /\ pc' \in [Calls -> Stages] /\ req' \in [Calls -> Request]
         /\ SingleFlight'
         /\ RequestFresh'
<1>1. TypeOK /\ SingleFlight
  BY DEF IInv
<1>2. \A d \in Calls : pc'[d] = "idle"
  BY <1>1 DEF Abandon, SingleFlight, Active, TypeOK
<1>3. isRunning' = FALSE
  BY DEF Abandon
<1>4. NoRequest \in Request
  BY DEF NoRequest, Request
<1>5. pc' \in [Calls -> Stages] /\ req' \in [Calls -> Request]
  BY <1>1, <1>4 DEF Abandon, TypeOK, Stages
<1>6. SingleFlight'
  BY <1>2, <1>3 DEF SingleFlight, Active
<1>7. RequestFresh'
  BY <1>2 DEF RequestFresh
<1> QED
  BY <1>3, <1>5, <1>6, <1>7

\* A fresh process has nothing pending.
LEMMA FreshProcessCorrect ==
  ASSUME FreshProcess
  PROVE  /\ isRunning' \in BOOLEAN /\ pc' \in [Calls -> Stages] /\ req' \in [Calls -> Request]
         /\ SingleFlight'
         /\ RequestFresh'
<1>1. NoRequest \in Request
  BY DEF NoRequest, Request
<1>2. isRunning' = FALSE /\ \A c \in Calls : pc'[c] = "idle"
  BY DEF FreshProcess
<1>3. pc' \in [Calls -> Stages] /\ req' \in [Calls -> Request]
  BY <1>1 DEF FreshProcess, Stages
<1>4. SingleFlight' /\ RequestFresh'
  BY <1>2 DEF SingleFlight, RequestFresh, Active
<1> QED
  BY <1>2, <1>3, <1>4

\* The range computed from a reported head is the next one the runs lack.
LEMMA RequestForCorrect ==
  ASSUME TypeOK, RunsTile, NEW current \in 0..head, current >= head - MaxLag
  PROVE  LET r == RequestFor(current)
         IN /\ r \in Request
            /\ r.versionChanged <=> runs[version] = <<>>
            /\ r.fromBlock = NextFromBlock(version)
            /\ r.toBlock <= head
            /\ LenientNode => r.toBlock >= r.fromBlock - 1
<1> USE ConstantsAssumption, LenientNodeAssumption
<1> DEFINE from == NextFromBlock(version)
           r == RequestFor(current)
<1>1. /\ version \in Versions /\ head \in Nat /\ current \in Nat
      /\ from \in Nat /\ from <= head + 1
  BY LastRow DEF TypeOK
<1>2. /\ ToBlock(from, current) \in Nat
      /\ ToBlock(from, current) <= head
      /\ LenientNode => ToBlock(from, current) >= from - 1
  <2> HIDE DEF from
  <2> QED
    BY <1>1 DEF ToBlock
<1>3. ShouldUseArchiveNode(from, current) \in BOOLEAN
  BY DEF ShouldUseArchiveNode
<1>4. /\ r.currentBlock = current /\ r.fromBlock = from
      /\ r.toBlock = ToBlock(from, current)
      /\ r.versionChanged = (runs[version] = <<>>)
      /\ r.archive = ShouldUseArchiveNode(from, current)
  BY DEF RequestFor
<1>5. r \in Request
  BY <1>1, <1>2, <1>3 DEF RequestFor, Request
<1> QED
  BY <1>2, <1>4, <1>5

\* Steps of one invocation that keep it at work.
LEMMA KeepsFlight ==
  ASSUME TypeOK, SingleFlight, NEW c \in Calls, Active(c), isRunning' = TRUE,
         NEW s \in Stages \ {"idle"}, pc' = [pc EXCEPT ![c] = s]
  PROVE  SingleFlight' /\ pc' \in [Calls -> Stages]
<1>1. \A d \in Calls : Active(d)' <=> Active(d)
  BY DEF Active, TypeOK
<1>2. isRunning
  BY DEF SingleFlight
<1>3. SingleFlight'
  BY <1>1, <1>2 DEF SingleFlight
<1>4. pc' \in [Calls -> Stages]
  BY DEF TypeOK
<1> QED
  BY <1>3, <1>4

\* Every step keeps the inductive invariant.
LEMMA NextIInv == IInv /\ [Next]_vars => IInv'
<1> SUFFICES ASSUME IInv, [Next]_vars PROVE IInv'
  OBVIOUS
<1> USE ConstantsAssumption
<1>0. TypeOK /\ SingleFlight /\ RunsTile /\ RequestFresh /\ FutureVersionsEmpty /\ ExactlyOnce
  BY DEF IInv
<1>a. head \in Nat /\ version \in Nat /\ failures \in Nat
  BY <1>0 DEF TypeOK
<1>1. CASE GrowChain
  <2>1. head' \in Blocks /\ head' >= head
    BY <1>0, <1>1, <1>a DEF GrowChain, TypeOK
  <2>2. TypeOK' /\ SingleFlight'
    BY <1>0, <1>1, <2>1 DEF GrowChain, TypeOK, SingleFlight, Active
  <2>3. RequestFresh'
    <3> SUFFICES ASSUME NEW c \in Calls, pc[c] \in {"fetching", "preparing", "committing"}
                 PROVE req[c].toBlock <= head'
      BY <1>0, <1>1 DEF GrowChain, RequestFresh, NextFromBlock, LastBlockEnd
    <3>1. req[c].toBlock \in Nat
      BY <1>0 DEF TypeOK, Request
    <3>2. req[c].toBlock <= head
      BY <1>0 DEF RequestFresh
    <3> QED
      BY <1>a, <2>1, <3>1, <3>2
  <2>4. RunsTile' /\ FutureVersionsEmpty' /\ ExactlyOnce'
    BY <1>0, <1>1, <1>a, <2>1, DatabaseUnchanged DEF GrowChain, TypeOK
  <2> QED
    BY <2>2, <2>3, <2>4 DEF IInv
<1>2. CASE Crash
  <2>1. failures' \in 0..MaxFailures /\ UNCHANGED <<head, version>>
    BY <1>0, <1>2, <1>a DEF Crash, TypeOK
  <2>2. /\ isRunning' \in BOOLEAN /\ pc' \in [Calls -> Stages] /\ req' \in [Calls -> Request]
        /\ SingleFlight' /\ RequestFresh'
    BY <1>2, FreshProcessCorrect DEF Crash
  <2>3. /\ runs' \in [Versions -> Seq(Row)] /\ applied' \in [Blocks -> Nat]
        /\ RunsTile' /\ FutureVersionsEmpty' /\ ExactlyOnce'
    <3>1. CASE UNCHANGED <<runs, applied>>
      BY <1>0, <1>a, <2>1, <3>1, DatabaseUnchanged DEF TypeOK
    <3>2. CASE \E c \in Calls : pc[c] = "committing" /\ Transact(req[c])
      BY <2>1, <3>2, TransactCorrect
    <3> QED
      BY <1>2, <3>1, <3>2 DEF Crash
  <2> QED
    BY <1>0, <2>1, <2>2, <2>3 DEF IInv, TypeOK
<1>3. CASE Deploy
  <2>1. /\ version' \in Versions /\ version' >= version
        /\ UNCHANGED <<head, runs, applied, failures>>
    BY <1>0, <1>3, <1>a DEF Deploy, TypeOK
  <2>2. /\ isRunning' \in BOOLEAN /\ pc' \in [Calls -> Stages] /\ req' \in [Calls -> Request]
        /\ SingleFlight' /\ RequestFresh'
    BY <1>3, FreshProcessCorrect DEF Deploy
  <2>3. RunsTile' /\ FutureVersionsEmpty' /\ ExactlyOnce'
    BY <1>0, <1>a, <2>1, DatabaseUnchanged DEF TypeOK
  <2> QED
    BY <1>0, <2>1, <2>2, <2>3 DEF IInv, TypeOK
<1>4. ASSUME NEW c \in Calls, Execute(c) PROVE IInv'
  <2>1. UNCHANGED <<head, version, runs, applied, req, failures>>
    BY <1>4 DEF Execute
  <2>2. \A d \in Calls : ~Active(d)
    BY <1>0, <1>4 DEF Execute, SingleFlight
  <2>3. TypeOK'
    BY <1>0, <1>4, <2>1 DEF Execute, TypeOK, Stages
  <2>4. SingleFlight'
    BY <1>0, <1>4, <2>2 DEF Execute, SingleFlight, Active, TypeOK
  <2>5. RequestFresh'
    BY <1>0, <1>4, <2>2 DEF Execute, RequestFresh, Active, TypeOK
  <2>6. RunsTile' /\ FutureVersionsEmpty' /\ ExactlyOnce'
    BY <1>0, <1>a, <2>1, DatabaseUnchanged DEF TypeOK
  <2> QED
    BY <2>3, <2>4, <2>5, <2>6 DEF IInv
<1>5. ASSUME NEW c \in Calls, Read(c) PROVE IInv'
  <2>1. PICK current \in 0..head : /\ current >= head - MaxLag
                                   /\ req' = [req EXCEPT ![c] = RequestFor(current)]
    BY <1>5 DEF Read
  <2>2. /\ RequestFor(current) \in Request
        /\ RequestFor(current).versionChanged <=> runs[version] = <<>>
        /\ RequestFor(current).fromBlock = NextFromBlock(version)
        /\ RequestFor(current).toBlock <= head
        /\ LenientNode => RequestFor(current).toBlock >= RequestFor(current).fromBlock - 1
    BY <1>0, <2>1, RequestForCorrect
  <2>3. /\ Active(c) /\ isRunning /\ UNCHANGED <<head, version, runs, applied, isRunning, failures>>
        /\ pc' = [pc EXCEPT ![c] = "fetching"]
    BY <1>0, <1>5 DEF Read, Active, SingleFlight
  <2>4. SingleFlight' /\ pc' \in [Calls -> Stages]
    BY <1>0, <2>3, KeepsFlight DEF Stages, TypeOK
  <2>5. TypeOK'
    BY <1>0, <2>1, <2>2, <2>3, <2>4 DEF TypeOK
  <2>6. RequestFresh'
    <3> SUFFICES ASSUME NEW d \in Calls, pc'[d] \in {"fetching", "preparing", "committing"}
                 PROVE /\ req'[d].versionChanged <=> runs[version] = <<>>
                       /\ req'[d].fromBlock = NextFromBlock(version)
                       /\ req'[d].toBlock <= head
                       /\ (LenientNode \/ pc'[d] # "fetching")
                            => req'[d].toBlock >= req'[d].fromBlock - 1
      BY <2>3 DEF RequestFresh, NextFromBlock, LastBlockEnd
    <3>1. d = c
      BY <2>3, <2>4 DEF SingleFlight, Active, TypeOK
    <3>2. req'[d] = RequestFor(current) /\ pc'[d] = "fetching"
      BY <1>0, <2>1, <2>3, <3>1 DEF TypeOK
    <3> QED
      BY <2>2, <3>2
  <2>7. RunsTile' /\ FutureVersionsEmpty' /\ ExactlyOnce'
    BY <1>0, <1>a, <2>3, DatabaseUnchanged DEF TypeOK
  <2> QED
    BY <2>4, <2>5, <2>6, <2>7 DEF IInv
<1>6. ASSUME NEW c \in Calls, Fetch(c) \/ Prepare(c) PROVE IInv'
  <2>1. /\ Active(c) /\ isRunning
        /\ UNCHANGED <<head, version, runs, applied, isRunning, req, failures>>
        /\ \E s \in {"preparing", "committing"} : pc' = [pc EXCEPT ![c] = s]
    BY <1>0, <1>6 DEF Fetch, Prepare, Active, SingleFlight
  <2>2. SingleFlight' /\ pc' \in [Calls -> Stages]
    BY <1>0, <2>1, KeepsFlight DEF Stages, TypeOK
  <2>3. TypeOK'
    BY <1>0, <2>1, <2>2 DEF TypeOK
  <2>4. req[c].fromBlock \in Nat /\ req[c].toBlock \in Nat
    BY <1>0 DEF TypeOK, Request
  <2>5. /\ req[c].versionChanged <=> runs[version] = <<>>
        /\ req[c].fromBlock = NextFromBlock(version)
        /\ req[c].toBlock <= head
    BY <1>0, <1>6 DEF Fetch, Prepare, RequestFresh
  <2>6. req[c].toBlock >= req[c].fromBlock - 1
    <3>1. CASE Fetch(c)
      BY <1>0, <2>4, <3>1 DEF Fetch, Answers, RequestFresh
    <3>2. CASE Prepare(c)
      BY <1>0, <3>2 DEF Prepare, RequestFresh
    <3> QED
      BY <1>6, <3>1, <3>2
  <2>7. RequestFresh'
    <3> SUFFICES ASSUME NEW d \in Calls, pc'[d] \in {"fetching", "preparing", "committing"}
                 PROVE d = c
      BY <2>1, <2>5, <2>6 DEF RequestFresh, NextFromBlock, LastBlockEnd
    <3> QED
      BY <1>0, <2>1, <2>2 DEF SingleFlight, Active, TypeOK
  <2>8. RunsTile' /\ FutureVersionsEmpty' /\ ExactlyOnce'
    BY <1>0, <1>a, <2>1, DatabaseUnchanged DEF TypeOK
  <2> QED
    BY <2>2, <2>3, <2>7, <2>8 DEF IInv
<1>7. ASSUME NEW c \in Calls, FetchRejected(c) \/ Fail(c) PROVE IInv'
  <2>1. /\ Active(c) /\ Abandon(c) /\ UNCHANGED <<head, version, runs, applied>>
        /\ failures' \in 0..MaxFailures
    BY <1>0, <1>7, <1>a DEF FetchRejected, Fail, Active, TypeOK
  <2>2. /\ isRunning' \in BOOLEAN /\ pc' \in [Calls -> Stages] /\ req' \in [Calls -> Request]
        /\ SingleFlight' /\ RequestFresh'
    BY <2>1, AbandonCorrect
  <2>3. RunsTile' /\ FutureVersionsEmpty' /\ ExactlyOnce'
    BY <1>0, <1>a, <2>1, DatabaseUnchanged DEF TypeOK
  <2> QED
    BY <1>0, <2>1, <2>2, <2>3 DEF IInv, TypeOK
<1>8. ASSUME NEW c \in Calls, Commit(c) PROVE IInv'
  <2>1. /\ pc[c] = "committing" /\ Transact(req[c]) /\ UNCHANGED <<head, version, failures>>
        /\ req' = [req EXCEPT ![c] = NoRequest]
    BY <1>8 DEF Commit
  <2>2. /\ runs' \in [Versions -> Seq(Row)] /\ applied' \in [Blocks -> Nat]
        /\ RunsTile' /\ FutureVersionsEmpty' /\ ExactlyOnce'
    BY <2>1, TransactCorrect
  <2>3. Active(c)
    BY <2>1 DEF Active
  <2>4. /\ isRunning' \in BOOLEAN /\ pc' \in [Calls -> Stages] /\ req' \in [Calls -> Request]
        /\ SingleFlight' /\ RequestFresh'
    <3>1. CASE req[c].currentBlock = req[c].toBlock
      <4>1. Abandon(c)
        BY <1>8, <2>1, <3>1 DEF Commit, Abandon
      <4> QED
        BY <2>3, <4>1, AbandonCorrect
    <3>2. CASE req[c].currentBlock # req[c].toBlock
      <4>1. isRunning' = TRUE /\ pc' = [pc EXCEPT ![c] = "reading"]
        BY <1>8, <3>2 DEF Commit
      <4>2. SingleFlight' /\ pc' \in [Calls -> Stages]
        BY <1>0, <2>3, <4>1, KeepsFlight DEF Stages
      <4>3. NoRequest \in Request
        BY DEF NoRequest, Request
      <4>4. req' \in [Calls -> Request]
        BY <1>0, <2>1, <4>3 DEF TypeOK
      <4>5. \A d \in Calls : pc'[d] \in {"reading", "idle"}
        BY <1>0, <2>3, <4>1 DEF SingleFlight, Active, TypeOK
      <4>6. RequestFresh'
        BY <4>5 DEF RequestFresh
      <4> QED
        BY <4>1, <4>2, <4>4, <4>6
    <3> QED
      BY <3>1, <3>2
  <2> QED
    BY <1>0, <2>1, <2>2, <2>4 DEF IInv, TypeOK
<1>9. ASSUME NEW c \in Calls, CommitUnacknowledged(c) PROVE IInv'
  <2>1. /\ pc[c] = "committing" /\ Active(c) /\ Abandon(c) /\ Transact(req[c])
        /\ UNCHANGED <<head, version>> /\ failures' \in 0..MaxFailures
    BY <1>0, <1>9, <1>a DEF CommitUnacknowledged, Active, TypeOK
  <2>2. /\ runs' \in [Versions -> Seq(Row)] /\ applied' \in [Blocks -> Nat]
        /\ RunsTile' /\ FutureVersionsEmpty' /\ ExactlyOnce'
    BY <2>1, TransactCorrect
  <2>3. /\ isRunning' \in BOOLEAN /\ pc' \in [Calls -> Stages] /\ req' \in [Calls -> Request]
        /\ SingleFlight' /\ RequestFresh'
    BY <2>1, AbandonCorrect
  <2> QED
    BY <1>0, <2>1, <2>2, <2>3 DEF IInv, TypeOK
<1>10. CASE UNCHANGED vars
  <2>1. TypeOK' /\ SingleFlight'
    BY <1>0, <1>10 DEF vars, TypeOK, SingleFlight, Active
  <2>2. RequestFresh'
    BY <1>0, <1>10 DEF vars, RequestFresh, NextFromBlock, LastBlockEnd
  <2>3. RunsTile' /\ FutureVersionsEmpty' /\ ExactlyOnce'
    BY <1>0, <1>10, <1>a, DatabaseUnchanged DEF vars, TypeOK
  <2> QED
    BY <2>1, <2>2, <2>3 DEF IInv
<1> QED
  BY <1>1, <1>2, <1>3, <1>4, <1>5, <1>6, <1>7, <1>8, <1>9, <1>10 DEF Next

\* The inductive invariant holds in every reachable state.
THEOREM Invariance == Spec => []IInv
  BY InitIInv, NextIInv, PTL DEF Spec

\* Every reachable state is well typed.
THEOREM TypeCorrect == Spec => []TypeOK
<1>1. IInv => TypeOK
  BY DEF IInv
<1> QED
  BY <1>1, Invariance, PTL

\* execute() never overlaps itself and never leaves isRunning stuck, whatever
\* the number of invocations and the order of cron ticks, errors and restarts.
THEOREM SingleFlightCorrect == Spec => []SingleFlight
<1>1. IInv => SingleFlight
  BY DEF IInv
<1> QED
  BY <1>1, Invariance, PTL

\* The tables hold the logs of every block up to the last run exactly once.
THEOREM ExactlyOnceCorrect == Spec => []ExactlyOnce
<1>1. IInv => ExactlyOnce
  BY DEF IInv
<1> QED
  BY <1>1, Invariance, PTL

\* The run records of a version leave no gap and do not overlap.
THEOREM RunsTileCorrect == Spec => []RunsTile
<1>1. IInv => RunsTile
  BY DEF IInv
<1> QED
  BY <1>1, Invariance, PTL

\* What was read before the awaits is still true at the commit.
THEOREM RequestFreshCorrect == Spec => []RequestFresh
<1>1. IInv => RequestFresh
  BY DEF IInv
<1> QED
  BY <1>1, Invariance, PTL

-----------------------------------------------------------------------------
\* A step that changes the database is a committed transaction.
LEMMA DatabaseStep ==
  ASSUME IInv, [Next]_vars
  PROVE  \/ UNCHANGED <<runs, applied>>
         \/ /\ UNCHANGED <<head, version>>
            /\ \E c \in Calls : pc[c] = "committing" /\ Transact(req[c])
  BY DEF Next, vars, GrowChain, Crash, Deploy, Execute, Read, Fetch, FetchRejected,
         Prepare, Fail, Commit, CommitUnacknowledged

\* Logs leave the tables only with the first commit of the deployed version.
THEOREM CleanupCorrect == Spec => CleanupOnlyByNewVersion
<1>1. ASSUME IInv, [Next]_vars, NEW b \in Blocks, applied'[b] < applied[b]
      PROVE  runs[version] = <<>> /\ Len(runs'[version]) = 1
  <2> USE ConstantsAssumption
  <2>1. /\ applied \in [Blocks -> Nat] /\ version \in Versions
        /\ runs \in [Versions -> Seq(Row)] /\ req \in [Calls -> Request] /\ RequestFresh
    BY <1>1 DEF IInv, TypeOK
  <2>2. PICK c \in Calls : pc[c] = "committing" /\ Transact(req[c])
    BY <1>1, <2>1, DatabaseStep
  <2>3. req[c].versionChanged
    BY <1>1, <2>1, <2>2 DEF Transact, Kept
  <2>4. runs[version] = <<>>
    BY <2>1, <2>2, <2>3 DEF RequestFresh
  <2>5. runs'[version] = Append(<<>>, [blockStart |-> req[c].fromBlock,
                                       blockEnd |-> req[c].toBlock])
    BY <2>1, <2>2, <2>4 DEF Transact
  <2> QED
    BY <2>4, <2>5
<1>2. IInv /\ [Next]_vars
        => [(\E b \in Blocks : applied'[b] < applied[b])
              => runs[version] = <<>> /\ Len(runs'[version]) = 1]_vars
  BY <1>1
<1> QED
  BY <1>2, Invariance, PTL DEF Spec, CleanupOnlyByNewVersion

-----------------------------------------------------------------------------
\* At most one version has built the tables, and it is the ledger's generation.
LEMMA GenerationIsBuilt ==
  /\ \A v \in Versions : Built(v) => Generation = v
  /\ (\A v \in Versions : ~Built(v)) => Generation = 0
<1>1. ASSUME NEW v \in Versions, NEW w \in Versions, Built(v), Built(w) PROVE v = w
  <2>1. ~(v > w) /\ ~(w > v)
    BY <1>1 DEF Built
  <2> QED
    BY <2>1, ConstantsAssumption
<1> QED
  BY <1>1 DEF Generation

\* With the invariant, the ledger's content is what the tables hold.
LEMMA LedgerContent ==
  ASSUME TypeOK, ExactlyOnce, NEW v \in Versions, Built(v)
  PROVE  /\ Generation = v /\ v # 0
         /\ UpTo = LastBlockEnd(v)
         /\ applied = Ledger!OnceUpTo(LastBlockEnd(v))
<1> USE ConstantsAssumption
<1>1. Generation = v /\ v # 0
  BY GenerationIsBuilt
<1>2. \A b \in Blocks : applied[b] = IF b <= LastBlockEnd(v) THEN 1 ELSE 0
  BY DEF ExactlyOnce
<1>3. applied = Ledger!OnceUpTo(LastBlockEnd(v))
  BY <1>2 DEF TypeOK, Ledger!OnceUpTo
<1> QED
  BY <1>1, <1>3 DEF UpTo

\* The first state is a first state of the ledger.
LEMMA InitLedger == Init => Ledger!LedgerInit
<1> SUFFICES ASSUME Init PROVE Ledger!LedgerInit
  OBVIOUS
<1> USE ConstantsAssumption
<1>1. \A v \in Versions : ~Built(v)
  BY DEF Init, Built
<1>2. Generation = 0
  BY <1>1, GenerationIsBuilt
<1>3. applied = Ledger!OnceUpTo(Origin - 1)
  BY DEF Init, Ledger!OnceUpTo
<1> QED
  BY <1>2, <1>3 DEF Ledger!LedgerInit, UpTo

\* A committed batch advances the ledger, or rebuilds it for a new version.
LEMMA TransactLedger ==
  ASSUME IInv, IInv', UNCHANGED <<head, version>>,
         NEW c \in Calls, pc[c] = "committing", Transact(req[c])
  PROVE  [Ledger!LedgerNext]_(Ledger!ledgerVars)
<1> USE ConstantsAssumption
<1> DEFINE r == req[c]
           u == r.toBlock
<1>1. /\ TypeOK /\ RunsTile /\ RequestFresh /\ FutureVersionsEmpty /\ ExactlyOnce
      /\ TypeOK' /\ FutureVersionsEmpty' /\ ExactlyOnce'
  BY DEF IInv
<1>2. /\ version \in Versions /\ head \in Blocks /\ runs[version] \in Seq(Row)
      /\ r.toBlock \in Nat /\ r.fromBlock \in Nat
  BY <1>1 DEF TypeOK, Request
<1>3. /\ r.versionChanged <=> runs[version] = <<>>
      /\ r.fromBlock = NextFromBlock(version)
      /\ r.toBlock <= head
      /\ r.toBlock >= r.fromBlock - 1
  BY <1>1 DEF RequestFresh
<1>4. [blockStart |-> r.fromBlock, blockEnd |-> r.toBlock] \in Row
  <2>1. r.toBlock \in 0..MaxBlock
    BY <1>2, <1>3
  <2> HIDE DEF r
  <2> QED
    BY <1>2, <2>1 DEF Row
<1>5. runs'[version] = Append(runs[version], [blockStart |-> r.fromBlock, blockEnd |-> r.toBlock])
  BY <1>1, <1>2 DEF Transact, TypeOK
<1>6. runs'[version] # <<>> /\ LastBlockEnd(version)' = u
  BY <1>2, <1>4, <1>5, AppendProperties DEF LastBlockEnd
<1>7. Built(version)'
  BY <1>1, <1>2, <1>6 DEF Built, FutureVersionsEmpty
<1>8. Generation' = version /\ UpTo' = u /\ applied' = Ledger!OnceUpTo(u)
  <2>1. (\A v \in Versions : Built(v) => Generation = v)'
    BY GenerationIsBuilt, PTL
  <2>2. Generation' = version
    BY <1>2, <1>7, <2>1
  <2>3. UpTo' = u
    BY <1>2, <1>6, <2>2 DEF UpTo
  <2>4. \A b \in Blocks : applied'[b] = IF b <= u THEN 1 ELSE 0
    BY <1>1, <1>2, <1>6, <1>7 DEF ExactlyOnce
  <2>5. applied' \in [Blocks -> Nat]
    BY <1>1 DEF TypeOK
  <2>6. applied' = Ledger!OnceUpTo(u)
    BY <2>4, <2>5 DEF Ledger!OnceUpTo
  <2> QED
    BY <2>2, <2>3, <2>6
<1>9. CASE runs[version] = <<>>
  <2>1. u \in (Origin - 1)..MaxBlock
    BY <1>1, <1>2, <1>3, <1>9, LastRow
  <2>2. version > Generation
    <3>1. CASE \E v \in Versions : Built(v)
      <4>1. PICK v \in Versions : Built(v)
        BY <3>1
      <4>2. Generation = v
        BY <4>1, GenerationIsBuilt
      <4>3. v # version /\ ~(v > version)
        BY <1>1, <1>9, <4>1 DEF Built, FutureVersionsEmpty
      <4> QED
        BY <1>2, <4>2, <4>3
    <3>2. CASE \A v \in Versions : ~Built(v)
      BY <1>2, <3>2, GenerationIsBuilt
    <3> QED
      BY <3>1, <3>2
  <2>3. Ledger!Rebuild
    BY <1>2, <1>8, <2>1, <2>2 DEF Ledger!Rebuild
  <2> QED
    BY <2>3 DEF Ledger!LedgerNext
<1>10. CASE runs[version] # <<>>
  <2>1. Built(version)
    BY <1>1, <1>2, <1>10 DEF Built, FutureVersionsEmpty
  <2>2. /\ Generation = version /\ UpTo = LastBlockEnd(version)
        /\ applied = Ledger!OnceUpTo(LastBlockEnd(version))
    BY <1>1, <1>2, <2>1, LedgerContent
  <2>3. /\ LastBlockEnd(version) \in Nat
        /\ r.fromBlock = LastBlockEnd(version) + 1
    BY <1>1, <1>2, <1>3, <1>10, LastRow
  <2>4. CASE u = LastBlockEnd(version)
    BY <1>8, <2>2, <2>4 DEF Ledger!ledgerVars
  <2>5. CASE u # LastBlockEnd(version)
    <3>1. u > UpTo
      BY <1>2, <1>3, <2>2, <2>3, <2>5
    <3>2. u \in (UpTo + 1)..MaxBlock
      BY <1>2, <1>3, <2>2, <2>3, <3>1
    <3>3. Ledger!Advance
      BY <1>2, <1>8, <2>2, <3>2 DEF Ledger!Advance
    <3> QED
      BY <3>3 DEF Ledger!LedgerNext
  <2> QED
    BY <2>4, <2>5
<1> QED
  BY <1>9, <1>10

\* The runner implements the ledger: every step is a ledger step or leaves the
\* ledger alone.
THEOREM LedgerImplemented == Spec => ImplementsLedger
<1>1. ASSUME IInv, IInv', [Next]_vars PROVE [Ledger!LedgerNext]_(Ledger!ledgerVars)
  <2>1. CASE UNCHANGED <<runs, applied>>
    <3>1. UNCHANGED <<Generation, UpTo, applied>>
      BY <2>1 DEF Generation, UpTo, Built, LastBlockEnd
    <3> QED
      BY <3>1 DEF Ledger!ledgerVars
  <2>2. CASE /\ UNCHANGED <<head, version>>
             /\ \E c \in Calls : pc[c] = "committing" /\ Transact(req[c])
    BY <1>1, <2>2, TransactLedger
  <2> QED
    BY <1>1, <2>1, <2>2, DatabaseStep
<1> QED
  BY <1>1, InitLedger, Invariance, PTL DEF Spec, ImplementsLedger, Ledger!LedgerSpec

HIDE DEF Blocks, Versions

================================================================================
