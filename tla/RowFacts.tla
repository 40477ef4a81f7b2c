------------------------------ MODULE RowFacts ------------------------------
(***************************************************************************)
(* Facts several proofs use: a table is a sequence of rows by primary key, *)
(* a sort by one or two numbers has a first row, and what the models sum   *)
(* adds up row by row.                                                     *)
(***************************************************************************)
EXTENDS Integers, Sequences, FiniteSets, Functions, SequenceTheorems, FiniteSetTheorems,
        NaturalsInduction, WellFoundedInduction, TLAPS

(* The rows of a table.                                                     *)
LEMMA RowOfTable ==
  ASSUME NEW S, NEW s \in Seq(S), NEW n \in DOMAIN s
  PROVE  n \in Nat /\ s[n] \in S
<1>1. DOMAIN s = 1..Len(s) /\ Len(s) \in Nat
  BY LenProperties
<1>2. n \in 1..Len(s)
  BY <1>1
<1> QED
  BY <1>1, <1>2, ElementOfSeq

(* A function on 1..n is a table of n rows.                                *)
LEMMA TableOfRows ==
  ASSUME NEW S, NEW n \in Nat, NEW f \in [1..n -> S]
  PROVE  f \in Seq(S) /\ Len(f) = n
<1>1. f \in Seq(S)
  OBVIOUS
<1>2. Len(f) = n
  BY <1>1
<1> QED
  BY <1>1, <1>2

(* Every nonempty set of natural numbers has a least element.              *)
LEMMA LeastNatural ==
  ASSUME NEW S, S \subseteq Nat, S # {}
  PROVE  \E m \in S : \A n \in S : m <= n
<1> DEFINE Less == {ss \in Nat \X Nat : ss[1] < ss[2]}
<1>1. IsWellFoundedOn(Less, Nat)
  BY NatLessThanWellFounded DEF OpToRel
<1>2. PICK m \in S : \A n \in S : <<n, m>> \notin Less
  <2> HIDE DEF Less
  <2> QED
    BY <1>1, WFMin
<1>3. ASSUME NEW n \in S PROVE m <= n
  <2>1. m \in Nat /\ n \in Nat /\ <<n, m>> \notin Less
    BY <1>2
  <2>2. ~(n < m)
    BY <2>1
  <2> QED
    BY <2>1, <2>2
<1> QED
  BY <1>3

(* The same for pairs compared by their first, then by their second part.   *)
LEMMA LeastPair ==
  ASSUME NEW T, T \subseteq Nat \X Nat, T # {}
  PROVE  \E k \in T : \A l \in T : k[1] < l[1] \/ (k[1] = l[1] /\ k[2] <= l[2])
<1> DEFINE Firsts == {k[1] : k \in T}
<1>1. Firsts \subseteq Nat /\ Firsts # {}
  OBVIOUS
<1>2. PICK p \in Firsts : \A n \in Firsts : p <= n
  <2> HIDE DEF Firsts
  <2> QED
    BY <1>1, LeastNatural
<1> DEFINE Seconds == {k[2] : k \in {l \in T : l[1] = p}}
<1>3. Seconds \subseteq Nat /\ Seconds # {}
  OBVIOUS
<1>4. PICK v \in Seconds : \A n \in Seconds : v <= n
  <2> HIDE DEF Seconds
  <2> QED
    BY <1>3, LeastNatural
<1>5. PICK k \in T : k[1] = p /\ k[2] = v
  BY <1>4
<1>6. ASSUME NEW l \in T PROVE k[1] < l[1] \/ (k[1] = l[1] /\ k[2] <= l[2])
  <2>1. l[1] \in Nat /\ l[2] \in Nat /\ p \in Nat /\ v \in Nat
    BY <1>1, <1>3
  <2>2. p <= l[1]
    BY <1>2
  <2>3. l[1] = p => v <= l[2]
    BY <1>4
  <2> QED
    BY <1>5, <2>1, <2>2, <2>3
<1> QED
  BY <1>6

-----------------------------------------------------------------------------
(* Induction over the subsets of a finite set: G holds them all if it holds *)
(* each one whose subsets with one member less it holds.                    *)
LEMMA SubsetInduction ==
  ASSUME NEW S, IsFiniteSet(S), NEW G,
         \A T \in SUBSET S : (\A x \in T : T \ {x} \in G) => T \in G
  PROVE  SUBSET S \subseteq G
<1> DEFINE Bad == {T \in SUBSET S : T \notin G}
           Sizes == {Cardinality(T) : T \in Bad}
<1>1. SUFFICES ASSUME Bad # {} PROVE FALSE
  OBVIOUS
<1>2. \A T \in SUBSET S : IsFiniteSet(T) /\ Cardinality(T) \in Nat
  BY FS_Subset, FS_CardinalityType
<1>3. Sizes \subseteq Nat /\ Sizes # {}
  BY <1>1, <1>2
<1>4. PICK m \in Sizes : \A n \in Sizes : m <= n
  <2> HIDE DEF Sizes
  <2> QED
    BY <1>3, LeastNatural
<1>5. PICK T \in Bad : m = Cardinality(T)
  OBVIOUS
<1>5a. \A n \in Sizes : Cardinality(T) <= n
  BY <1>4, <1>5
<1>6. ASSUME NEW x \in T PROVE T \ {x} \in G
  <2>1. IsFiniteSet(T) /\ Cardinality(T) \in Nat /\ Cardinality(T \ {x}) = Cardinality(T) - 1
    BY <1>2, FS_RemoveElement
  <2>2. T \ {x} \in SUBSET S
    OBVIOUS
  <2>3. Cardinality(T \ {x}) \notin Sizes
    <3> HIDE DEF Sizes
    <3> QED
      BY <1>5a, <2>1
  <2> QED
    BY <2>2, <2>3
<1> QED
  BY <1>5, <1>6

-----------------------------------------------------------------------------
(* Sums.  The fold adds a member that CHOOSE takes to the sum of the others. *)
Member(s) == CHOOSE x \in s : TRUE

AddsUp(total, f, S) ==
  total = [s \in SUBSET S |-> IF s = {} THEN 0 ELSE f[Member(s)] + total[s \ {Member(s)}]]

\* Over a finite set, totals exist.
LEMMA TotalExists ==
  ASSUME NEW S, IsFiniteSet(S), NEW f
  PROVE  \E total : AddsUp(total, f, S)
<1> DEFINE UpTo(n) == {s \in SUBSET S : Cardinality(s) <= n}
           Level(g, n) ==
             g = [s \in UpTo(n) |-> IF s = {} THEN 0 ELSE f[Member(s)] + g[s \ {Member(s)}]]
           Bad == {n \in Nat : ~\E g : Level(g, n)}
<1>1. \A T \in SUBSET S : IsFiniteSet(T) /\ Cardinality(T) \in Nat
  BY FS_Subset, FS_CardinalityType
<1>2. ASSUME NEW s \in SUBSET S, s # {}
      PROVE  /\ Member(s) \in s
             /\ s \ {Member(s)} \in SUBSET S
             /\ Cardinality(s \ {Member(s)}) = Cardinality(s) - 1
  <2>1. Member(s) \in s
    BY <1>2 DEF Member
  <2> QED
    BY <1>1, <2>1, FS_RemoveElement
<1>3. Bad = {}
  <2>1. SUFFICES ASSUME Bad # {} PROVE FALSE
    OBVIOUS
  <2>2. PICK m \in Bad : \A n \in Bad : m <= n
    <3>1. Bad \subseteq Nat
      OBVIOUS
    <3> HIDE DEF Bad
    <3> QED
      BY <2>1, <3>1, LeastNatural
  <2>3. \E g : \A u \in UpTo(m) : Cardinality(u) < m =>
           u \in DOMAIN g /\ g[u] = IF u = {} THEN 0 ELSE f[Member(u)] + g[u \ {Member(u)}]
    <3>1. CASE m = 0
      BY <1>1, <3>1
    <3>2. CASE m # 0
      <4>1. m - 1 \in Nat /\ m - 1 \notin Bad
        <5>1. m \in Nat
          OBVIOUS
        <5> HIDE DEF Bad
        <5> QED
          BY <2>2, <3>2, <5>1
      <4>2. PICK g : Level(g, m - 1)
        BY <4>1
      <4>3. \A u \in UpTo(m) : Cardinality(u) < m => u \in UpTo(m - 1)
        BY <1>1, <4>1
      <4> QED
        BY <4>2, <4>3
    <3> QED
      BY <3>1, <3>2
  <2>4. PICK g : \A u \in UpTo(m) : Cardinality(u) < m =>
           u \in DOMAIN g /\ g[u] = IF u = {} THEN 0 ELSE f[Member(u)] + g[u \ {Member(u)}]
    BY <2>3
  <2> DEFINE h == [s \in UpTo(m) |-> IF s = {} THEN 0 ELSE f[Member(s)] + g[s \ {Member(s)}]]
  <2>5. ASSUME NEW s \in UpTo(m), s # {} PROVE h[s \ {Member(s)}] = g[s \ {Member(s)}]
    <3> DEFINE u == s \ {Member(s)}
    <3>1. u \in UpTo(m) /\ Cardinality(u) < m
      BY <1>1, <1>2, <2>5
    <3> HIDE DEF u
    <3> QED
      BY <2>4, <3>1 DEF u
  <2>6. Level(h, m)
    BY <2>5
  <2> QED
    BY <2>6
<1>4. PICK g : Level(g, Cardinality(S))
  BY <1>1, <1>3
<1>5. UpTo(Cardinality(S)) = SUBSET S
  BY FS_Subset
<1> QED
  BY <1>4, <1>5 DEF AddsUp

\* A total is that of one member and of the rest.
LEMMA TotalOfMember ==
  ASSUME NEW S, NEW f, NEW total, AddsUp(total, f, S), NEW T \in SUBSET S
  PROVE  /\ T = {} => total[T] = 0
         /\ T # {} => /\ Member(T) \in T
                      /\ total[T] = f[Member(T)] + total[T \ {Member(T)}]
BY DEF AddsUp, Member

\* Totals of integers are integers.
LEMMA TotalInt ==
  ASSUME NEW S, IsFiniteSet(S), NEW f, \A x \in S : f[x] \in Int,
         NEW total, AddsUp(total, f, S)
  PROVE  \A T \in SUBSET S : total[T] \in Int
<1> DEFINE G == {T \in SUBSET S : total[T] \in Int}
<1>1. ASSUME NEW T \in SUBSET S, \A x \in T : T \ {x} \in G PROVE T \in G
  <2>1. CASE T = {}
    <3>1. total[T] = 0
      BY <2>1, TotalOfMember
    <3> QED
      BY <3>1
  <2>2. CASE T # {}
    <3> DEFINE y == Member(T)
    <3>1. y \in T /\ total[T] = f[y] + total[T \ {y}]
      BY <2>2, TotalOfMember
    <3> HIDE DEF y
    <3>2. total[T \ {y}] \in Int /\ f[y] \in Int
      BY <1>1, <3>1
    <3>3. total[T] \in Int
      BY <3>1, <3>2
    <3> QED
      BY <3>3
  <2> QED
    BY <2>1, <2>2
<1>2. SUBSET S \subseteq G
  <2> HIDE DEF G
  <2> QED
    BY <1>1, SubsetInduction
<1> QED
  BY <1>2

\* Totals of naturals are naturals.
LEMMA TotalNat ==
  ASSUME NEW S, IsFiniteSet(S), NEW f, \A x \in S : f[x] \in Nat,
         NEW total, AddsUp(total, f, S)
  PROVE  \A T \in SUBSET S : total[T] \in Nat
<1> DEFINE G == {T \in SUBSET S : total[T] \in Nat}
<1>1. ASSUME NEW T \in SUBSET S, \A x \in T : T \ {x} \in G PROVE T \in G
  <2>1. CASE T = {}
    <3>1. total[T] = 0
      BY <2>1, TotalOfMember
    <3> QED
      BY <3>1
  <2>2. CASE T # {}
    <3> DEFINE y == Member(T)
    <3>1. y \in T /\ total[T] = f[y] + total[T \ {y}]
      BY <2>2, TotalOfMember
    <3> HIDE DEF y
    <3>2. total[T \ {y}] \in Nat /\ f[y] \in Nat
      BY <1>1, <3>1
    <3>3. total[T] \in Nat
      BY <3>1, <3>2
    <3> QED
      BY <3>3
  <2> QED
    BY <2>1, <2>2
<1>2. SUBSET S \subseteq G
  <2> HIDE DEF G
  <2> QED
    BY <1>1, SubsetInduction
<1> QED
  BY <1>2

\* Totals of what is equal are equal.
LEMMA TotalsAgree ==
  ASSUME NEW S, IsFiniteSet(S), NEW f, NEW total, AddsUp(total, f, S),
         NEW R, NEW g, NEW sum, AddsUp(sum, g, R),
         R \subseteq S, \A x \in R : f[x] = g[x]
  PROVE  \A T \in SUBSET R : total[T] = sum[T]
<1> DEFINE G == {T \in SUBSET R : total[T] = sum[T]}
<1>0. IsFiniteSet(R)
  BY FS_Subset
<1>1. ASSUME NEW T \in SUBSET R, \A x \in T : T \ {x} \in G PROVE T \in G
  <2>0. T \in SUBSET S
    OBVIOUS
  <2>1. CASE T = {}
    <3>1. total[T] = 0
      BY <2>0, <2>1, TotalOfMember
    <3>2. sum[T] = 0
      BY <2>1, TotalOfMember
    <3> QED
      BY <3>1, <3>2
  <2>2. CASE T # {}
    <3> DEFINE y == Member(T)
    <3>1. y \in T /\ total[T] = f[y] + total[T \ {y}]
      BY <2>0, <2>2, TotalOfMember
    <3>2. sum[T] = g[y] + sum[T \ {y}]
      BY <2>2, TotalOfMember
    <3> HIDE DEF y
    <3>3. total[T \ {y}] = sum[T \ {y}] /\ f[y] = g[y]
      BY <1>1, <3>1
    <3>4. total[T] = sum[T]
      BY <3>1, <3>2, <3>3
    <3> QED
      BY <3>4
  <2> QED
    BY <2>1, <2>2
<1>2. SUBSET R \subseteq G
  <2> HIDE DEF G
  <2> QED
    BY <1>0, <1>1, SubsetInduction
<1> QED
  BY <1>2

\* Any member may be taken out of a total first.
LEMMA TotalOfAny ==
  ASSUME NEW S, IsFiniteSet(S), NEW f, \A x \in S : f[x] \in Int,
         NEW total, AddsUp(total, f, S)
  PROVE  \A T \in SUBSET S : \A x \in T : total[T] = f[x] + total[T \ {x}]
<1> DEFINE G == {T \in SUBSET S : \A x \in T : total[T] = f[x] + total[T \ {x}]}
<1>1. ASSUME NEW T \in SUBSET S, \A x \in T : T \ {x} \in G PROVE T \in G
  <2> SUFFICES ASSUME NEW x \in T PROVE total[T] = f[x] + total[T \ {x}]
    OBVIOUS
  <2> DEFINE y == Member(T)
  <2>1. y \in T /\ total[T] = f[y] + total[T \ {y}]
    BY TotalOfMember
  <2> HIDE DEF y
  <2>2. CASE x = y
    BY <2>1, <2>2
  <2>3. CASE x # y
    <3> DEFINE rest == (T \ {y}) \ {x}
    <3>1. total[T \ {y}] = f[x] + total[rest]
      BY <1>1, <2>1, <2>3
    <3>2. (T \ {x}) \ {y} = rest
      OBVIOUS
    <3>3. total[T \ {x}] = f[y] + total[rest]
      <4>1. total[T \ {x}] = f[y] + total[(T \ {x}) \ {y}]
        BY <1>1, <2>1, <2>3
      <4> QED
        BY <3>2, <4>1, Zenon
    <3>4. total[rest] \in Int /\ f[x] \in Int /\ f[y] \in Int
      BY <2>1, TotalInt
    <3> HIDE DEF rest
    <3> QED
      BY <2>1, <3>1, <3>3, <3>4
  <2> QED
    BY <2>2, <2>3
<1>2. SUBSET S \subseteq G
  <2> HIDE DEF G
  <2> QED
    BY <1>1, SubsetInduction
<1> QED
  BY <1>2

\* What the models sum with.
SumOf(f) == FoldFunction(+, 0, f)

\* The sum of a function is its total over the domain.
LEMMA SumIsTotal ==
  ASSUME NEW f, IsFiniteSet(DOMAIN f)
  PROVE  \E total : AddsUp(total, f, DOMAIN f) /\ SumOf(f) = total[DOMAIN f]
<1>1. SumOf(f) = (CHOOSE total : AddsUp(total, f, DOMAIN f))[DOMAIN f]
  BY DEF SumOf, FoldFunction, FoldFunctionOnSet, MapThenFoldSet, AddsUp, Member
<1> QED
  BY <1>1, TotalExists

(* A sum of integers is one, of naturals too.                               *)
LEMMA SumType ==
  ASSUME NEW f, IsFiniteSet(DOMAIN f), \A x \in DOMAIN f : f[x] \in Int
  PROVE  SumOf(f) \in Int /\ ((\A x \in DOMAIN f : f[x] \in Nat) => SumOf(f) \in Nat)
BY SumIsTotal, TotalInt, TotalNat

\* The sum over nothing.
LEMMA SumOfNothing ==
  ASSUME NEW f, DOMAIN f = {}
  PROVE  SumOf(f) = 0
<1>1. IsFiniteSet(DOMAIN f)
  BY FS_EmptySet
<1> QED
  BY <1>1, SumIsTotal, TotalOfMember

(* Any member can be taken out of the sum first.                            *)
LEMMA SumWithout ==
  ASSUME NEW f, IsFiniteSet(DOMAIN f), \A x \in DOMAIN f : f[x] \in Int, NEW x \in DOMAIN f
  PROVE  SumOf(f) = f[x] + SumOf([y \in DOMAIN f \ {x} |-> f[y]])
<1> DEFINE R == DOMAIN f \ {x}
           g == [y \in R |-> f[y]]
<1>1. IsFiniteSet(R) /\ DOMAIN g = R
  BY FS_Subset
<1>2. PICK total : AddsUp(total, f, DOMAIN f) /\ SumOf(f) = total[DOMAIN f]
  BY SumIsTotal
<1>3. PICK sum : AddsUp(sum, g, R) /\ SumOf(g) = sum[R]
  <2> HIDE DEF g
  <2> QED
    BY <1>1, SumIsTotal
<1>4. total[R] = sum[R]
  <2>1. R \subseteq DOMAIN f /\ \A y \in R : f[y] = g[y]
    OBVIOUS
  <2> HIDE DEF R, g
  <2> QED
    BY <1>2, <1>3, <2>1, TotalsAgree
<1>5. total[DOMAIN f] = f[x] + total[R]
  BY <1>2, TotalOfAny
<1> HIDE DEF R, g
<1> QED
  BY <1>2, <1>3, <1>4, <1>5 DEF R, g

(* The same for the sum over a part of the domain.                         *)
LEMMA SumTaking ==
  ASSUME NEW D, IsFiniteSet(D), NEW f \in [D -> Int], NEW T \in SUBSET D, NEW x \in T
  PROVE  SumOf([y \in T |-> f[y]]) = f[x] + SumOf([y \in T \ {x} |-> f[y]])
<1> DEFINE part == [y \in T |-> f[y]]
<1>1. DOMAIN part = T /\ IsFiniteSet(T) /\ part[x] = f[x] /\ \A y \in T : part[y] \in Int
  BY FS_Subset
<1>2. [y \in T \ {x} |-> part[y]] = [y \in T \ {x} |-> f[y]]
  OBVIOUS
<1> HIDE DEF part
<1>3. SumOf(part) = part[x] + SumOf([y \in DOMAIN part \ {x} |-> part[y]])
  BY <1>1, SumWithout
<1>4. SumOf(part) = f[x] + SumOf([y \in T \ {x} |-> f[y]])
  BY <1>1, <1>2, <1>3
<1> QED
  BY <1>4 DEF part

(* Fewer and smaller terms make a smaller sum.                             *)
LEMMA SumMonotone ==
  ASSUME NEW D, IsFiniteSet(D), NEW g \in [D -> Nat], NEW S \in SUBSET D, NEW f \in [S -> Nat],
         \A x \in S : f[x] <= g[x]
  PROVE  SumOf(f) <= SumOf(g)
<1> DEFINE all(T) == SumOf([y \in T |-> g[y]])
           some(T) == SumOf([y \in T |-> f[y]])
           G == {T \in SUBSET D : some(T \cap S) <= all(T)}
<1>1. IsFiniteSet(S) /\ f \in [S -> Int] /\ g \in [D -> Int]
  BY FS_Subset
<1>2. ASSUME NEW T \in SUBSET D
      PROVE  all(T) \in Int /\ some(T \cap S) \in Int
  <2>1. IsFiniteSet(T) /\ IsFiniteSet(T \cap S)
    BY FS_Subset
  <2>2. all(T) \in Int
    <3> DEFINE part == [y \in T |-> g[y]]
    <3>1. DOMAIN part = T /\ \A y \in T : part[y] \in Int
      OBVIOUS
    <3> HIDE DEF part
    <3>2. SumOf(part) \in Int
      BY <2>1, <3>1, SumType
    <3> QED
      BY <3>2 DEF part
  <2>3. some(T \cap S) \in Int
    <3> DEFINE part == [y \in T \cap S |-> f[y]]
    <3>1. DOMAIN part = T \cap S /\ \A y \in T \cap S : part[y] \in Int
      OBVIOUS
    <3> HIDE DEF part
    <3>2. SumOf(part) \in Int
      BY <2>1, <3>1, SumType
    <3> QED
      BY <3>2 DEF part
  <2> QED
    BY <2>2, <2>3
<1>3. all({}) = 0 /\ some({}) = 0
  <2> DEFINE none(h) == [y \in {} |-> h[y]]
  <2>1. DOMAIN none(f) = {} /\ DOMAIN none(g) = {}
    OBVIOUS
  <2> HIDE DEF none
  <2>2. SumOf(none(f)) = 0 /\ SumOf(none(g)) = 0
    BY <2>1, SumOfNothing
  <2> QED
    BY <2>2 DEF none
<1>4. \A T \in SUBSET D : \A x \in T : all(T) = g[x] + all(T \ {x})
  BY <1>1, SumTaking
<1>5. \A T \in SUBSET S : \A x \in T : some(T) = f[x] + some(T \ {x})
  BY <1>1, SumTaking
<1> HIDE DEF all, some
<1>6. ASSUME NEW T \in SUBSET D, \A x \in T : T \ {x} \in G PROVE T \in G
  <2>1. CASE T = {}
    <3>1. T \cap S = {}
      BY <2>1
    <3>2. some(T \cap S) = 0 /\ all(T) = 0
      BY <1>3, <2>1, <3>1, Zenon
    <3> QED
      BY <3>2
  <2>2. ASSUME NEW x \in T PROVE T \in G
    <3>1. all(T) = g[x] + all(T \ {x}) /\ g[x] \in Nat
      BY <1>4
    <3>2. some((T \ {x}) \cap S) <= all(T \ {x})
      BY <1>6
    <3>3. /\ all(T) \in Int /\ all(T \ {x}) \in Int
          /\ some(T \cap S) \in Int /\ some((T \ {x}) \cap S) \in Int
      BY <1>2
    <3>4. CASE x \in S
      <4>1. (T \cap S) \ {x} = (T \ {x}) \cap S /\ x \in T \cap S
        BY <3>4
      <4>2. some(T \cap S) = f[x] + some((T \cap S) \ {x})
        BY <1>5, <4>1
      <4>3. some(T \cap S) = f[x] + some((T \ {x}) \cap S)
        BY <4>1, <4>2, Zenon
      <4>4. f[x] <= g[x] /\ f[x] \in Nat
        BY <3>4
      <4>5. some(T \cap S) <= all(T)
        BY <3>1, <3>2, <3>3, <4>3, <4>4
      <4> QED
        BY <4>5
    <3>5. CASE x \notin S
      <4>1. T \cap S = (T \ {x}) \cap S
        BY <3>5
      <4>2. some(T \cap S) = some((T \ {x}) \cap S)
        BY <4>1, Zenon
      <4>3. some(T \cap S) <= all(T)
        BY <3>1, <3>2, <3>3, <4>2
      <4> QED
        BY <4>3
    <3> QED
      BY <3>4, <3>5
  <2> QED
    BY <2>1, <2>2
<1>7. SUBSET D \subseteq G
  <2> HIDE DEF G
  <2> QED
    BY <1>6, SubsetInduction
<1>8. some(D \cap S) <= all(D)
  BY <1>7
<1>9. D \cap S = S /\ [y \in S |-> f[y]] = f /\ [y \in D |-> g[y]] = g
  OBVIOUS
<1>10. some(D \cap S) = SumOf(f) /\ all(D) = SumOf(g)
  BY <1>9 DEF some, all
<1> QED
  BY <1>8, <1>10

\* A sum of zeros.
LEMMA SumOfZeros ==
  ASSUME NEW D, IsFiniteSet(D), NEW f \in [D -> Nat], \A x \in D : f[x] = 0
  PROVE  SumOf(f) = 0
<1> DEFINE all(T) == SumOf([y \in T |-> f[y]])
           G == {T \in SUBSET D : all(T) = 0}
<1>1. f \in [D -> Int]
  OBVIOUS
<1>2. \A T \in SUBSET D : \A x \in T : all(T) = f[x] + all(T \ {x})
  BY <1>1, SumTaking
<1>3. all({}) = 0
  <2> DEFINE g == [y \in {} |-> f[y]]
  <2>1. DOMAIN g = {}
    OBVIOUS
  <2> HIDE DEF g
  <2>2. SumOf(g) = 0
    BY <2>1, SumOfNothing
  <2> QED
    BY <2>2 DEF g
<1> HIDE DEF all
<1>4. ASSUME NEW T \in SUBSET D, \A x \in T : T \ {x} \in G PROVE T \in G
  <2>1. CASE T = {}
    BY <1>3, <2>1
  <2>2. ASSUME NEW x \in T PROVE T \in G
    <3>1. all(T) = f[x] + all(T \ {x}) /\ f[x] = 0 /\ all(T \ {x}) = 0
      BY <1>2, <1>4
    <3>2. all(T) = 0
      BY <3>1
    <3> QED
      BY <3>2
  <2> QED
    BY <2>1, <2>2
<1>5. SUBSET D \subseteq G
  <2> HIDE DEF G
  <2> QED
    BY <1>4, SubsetInduction
<1>6. all(D) = 0
  BY <1>5
<1>7. [y \in D |-> f[y]] = f
  OBVIOUS
<1> QED
  BY <1>6, <1>7 DEF all

(* The sum over the rows of a table.                                       *)
LEMMA SumOfRows ==
  ASSUME NEW n \in Nat, NEW f \in [1..n -> Int]
  PROVE  SumOf(f) \in Int /\ ((\A i \in 1..n : f[i] \in Nat) => SumOf(f) \in Nat)
<1>1. IsFiniteSet(1..n)
  BY FS_Interval
<1>2. DOMAIN f = 1..n /\ \A i \in DOMAIN f : f[i] \in Int
  OBVIOUS
<1> QED
  BY <1>1, <1>2, SumType

(* A sum over 1..n grows by its new last term.                              *)
LEMMA SumAppended ==
  ASSUME NEW n \in Nat, NEW f \in [1..n -> Int], NEW g \in [1..(n + 1) -> Int],
         \A i \in 1..n : g[i] = f[i]
  PROVE  SumOf(g) = SumOf(f) + g[n + 1]
<1>1. DOMAIN g = 1..(n + 1) /\ IsFiniteSet(DOMAIN g) /\ n + 1 \in DOMAIN g
  BY FS_Interval
<1>2. (1..(n + 1)) \ {n + 1} = 1..n
  OBVIOUS
<1>3. [i \in DOMAIN g \ {n + 1} |-> g[i]] = f
  BY <1>1, <1>2
<1>4. SumOf(g) = g[n + 1] + SumOf(f)
  <2>1. \A i \in DOMAIN g : g[i] \in Int
    OBVIOUS
  <2> QED
    BY <1>1, <1>3, <2>1, SumWithout
<1>5. SumOf(f) \in Int /\ g[n + 1] \in Int
  BY <1>1, FS_Interval, SumType
<1> QED
  BY <1>4, <1>5

(* One term of a sum changes: the sum changes by as much.                   *)
LEMMA SumChanged ==
  ASSUME NEW D, IsFiniteSet(D), NEW f \in [D -> Int], NEW g \in [D -> Int], NEW x \in D,
         \A y \in D \ {x} : g[y] = f[y]
  PROVE  SumOf(g) = SumOf(f) - f[x] + g[x]
<1> DEFINE rest == [y \in D \ {x} |-> f[y]]
<1>1. rest = [y \in DOMAIN f \ {x} |-> f[y]] /\ rest = [y \in DOMAIN g \ {x} |-> g[y]]
  OBVIOUS
<1>2. IsFiniteSet(D \ {x}) /\ DOMAIN rest = D \ {x} /\ \A y \in D \ {x} : rest[y] \in Int
  BY FS_Subset
<1> HIDE DEF rest
<1>3. SumOf(rest) \in Int
  BY <1>2, SumType
<1>4. SumOf(f) = f[x] + SumOf(rest)
  <2>1. DOMAIN f = D /\ \A y \in D : f[y] \in Int
    OBVIOUS
  <2> QED
    BY <1>1, <2>1, SumWithout
<1>5. SumOf(g) = g[x] + SumOf(rest)
  <2>1. DOMAIN g = D /\ \A y \in D : g[y] \in Int
    OBVIOUS
  <2> QED
    BY <1>1, <2>1, SumWithout
<1>6. f[x] \in Int /\ g[x] \in Int
  OBVIOUS
<1> QED
  BY <1>3, <1>4, <1>5, <1>6

(* The total over a table of what f finds in each row.                     *)
TableTotal(f, s) == SumOf([i \in DOMAIN s |-> f[s[i]]])

\* The total of a table is an integer.
LEMMA TableTotalInt ==
  ASSUME NEW S, NEW f \in [S -> Int], NEW s \in Seq(S)
  PROVE  TableTotal(f, s) \in Int
<1> DEFINE g == [i \in 1..Len(s) |-> f[s[i]]]
<1>1. Len(s) \in Nat /\ DOMAIN s = 1..Len(s) /\ \A i \in 1..Len(s) : s[i] \in S
  OBVIOUS
<1>2. g \in [1..Len(s) -> Int] /\ TableTotal(f, s) = SumOf(g)
  BY <1>1 DEF TableTotal
<1> HIDE DEF g
<1> QED
  BY <1>1, <1>2, SumOfRows

\* The total of an empty table.
LEMMA TableTotalEmpty ==
  ASSUME NEW f
  PROVE  TableTotal(f, <<>>) = 0
<1> DEFINE none == [i \in DOMAIN <<>> |-> f[<<>>[i]]]
<1>1. DOMAIN none = {} /\ TableTotal(f, <<>>) = SumOf(none)
  BY DEF TableTotal
<1> HIDE DEF none
<1> QED
  BY <1>1, SumOfNothing

(* One row more.                                                           *)
LEMMA TableTotalAppended ==
  ASSUME NEW S, NEW f \in [S -> Int], NEW s \in Seq(S), NEW o \in S
  PROVE  TableTotal(f, Append(s, o)) = TableTotal(f, s) + f[o]
<1> DEFINE n == Len(s)
           more == Append(s, o)
           old == [i \in 1..n |-> f[s[i]]]
           new == [i \in 1..(n + 1) |-> f[more[i]]]
<1>1. n \in Nat /\ DOMAIN s = 1..n /\ DOMAIN more = 1..(n + 1)
  OBVIOUS
<1>2. more[n + 1] = o /\ \A i \in 1..n : more[i] = s[i]
  OBVIOUS
<1>3. (\A i \in 1..n : s[i] \in S) /\ (\A i \in 1..(n + 1) : more[i] \in S)
  OBVIOUS
<1>4. TableTotal(f, s) = SumOf(old) /\ TableTotal(f, more) = SumOf(new)
  <2> HIDE DEF n, more
  <2> QED
    BY <1>1 DEF TableTotal
<1>5. old \in [1..n -> Int] /\ new \in [1..(n + 1) -> Int]
  <2> HIDE DEF n, more
  <2> QED
    BY <1>3
<1>6. (\A i \in 1..n : new[i] = old[i]) /\ new[n + 1] = f[o]
  <2> HIDE DEF more
  <2>1. \A i \in 1..n : i \in 1..(n + 1)
    BY <1>1
  <2> HIDE DEF n
  <2> QED
    BY <1>1, <1>2, <2>1
<1> HIDE DEF n, old, new
<1>7. SumOf(new) = SumOf(old) + new[n + 1]
  BY <1>1, <1>5, <1>6, SumAppended
<1> QED
  BY <1>4, <1>6, <1>7

(* One row rewritten.                                                      *)
LEMMA TableTotalChanged ==
  ASSUME NEW S, NEW f \in [S -> Int], NEW s \in Seq(S), NEW i \in DOMAIN s, NEW o \in S
  PROVE  TableTotal(f, [s EXCEPT ![i] = o]) = TableTotal(f, s) - f[s[i]] + f[o]
<1> DEFINE n == Len(s)
           other == [s EXCEPT ![i] = o]
           old == [m \in 1..n |-> f[s[m]]]
           new == [m \in 1..n |-> f[other[m]]]
<1>1. n \in Nat /\ DOMAIN s = 1..n /\ DOMAIN other = 1..n /\ i \in 1..n
  OBVIOUS
<1>2. other[i] = o /\ \A m \in 1..n \ {i} : other[m] = s[m]
  BY <1>1
<1>3. \A m \in 1..n : s[m] \in S /\ other[m] \in S
  <2>1. \A m \in 1..n : s[m] \in S
    OBVIOUS
  <2> HIDE DEF n, other
  <2> QED
    BY <1>2, <2>1
<1> HIDE DEF n, other
<1>4. TableTotal(f, s) = SumOf(old) /\ TableTotal(f, other) = SumOf(new)
  BY <1>1 DEF TableTotal
<1>5. old \in [1..n -> Int] /\ new \in [1..n -> Int]
  BY <1>3
<1>6. /\ \A m \in 1..n \ {i} : new[m] = old[m]
      /\ new[i] = f[o] /\ old[i] = f[s[i]]
  BY <1>1, <1>2
<1>7. IsFiniteSet(1..n)
  BY <1>1, FS_Interval
<1> HIDE DEF old, new
<1>8. SumOf(new) = SumOf(old) - old[i] + new[i]
  <2> DEFINE D == 1..n
  <2>1. /\ IsFiniteSet(D) /\ old \in [D -> Int] /\ new \in [D -> Int]
        /\ i \in D /\ \A m \in D \ {i} : new[m] = old[m]
    BY <1>1, <1>5, <1>6, <1>7
  <2> HIDE DEF D
  <2> QED
    BY <2>1, SumChanged
<1> QED
  BY <1>4, <1>6, <1>8 DEF other

(* The sum over a part of the domain, as the set folds write it.            *)
LEMMA TotalIsSum ==
  ASSUME NEW S, IsFiniteSet(S), NEW f, NEW total, AddsUp(total, f, S)
  PROVE  total[S] = SumOf([x \in S |-> f[x]])
<1> DEFINE part == [x \in S |-> f[x]]
<1>1. DOMAIN part = S /\ \A x \in S : part[x] = f[x]
  OBVIOUS
<1> HIDE DEF part
<1>2. PICK sum : AddsUp(sum, part, S) /\ SumOf(part) = sum[S]
  BY <1>1, SumIsTotal
<1>3. \A T \in SUBSET S : total[T] = sum[T]
  BY <1>1, <1>2, TotalsAgree
<1> QED
  BY <1>2, <1>3 DEF part

\* A sum over a part is a natural number.
LEMMA PartType ==
  ASSUME NEW D, IsFiniteSet(D), NEW f \in [D -> Nat], NEW S \in SUBSET D
  PROVE  SumOf([x \in S |-> f[x]]) \in Nat
<1> DEFINE part == [x \in S |-> f[x]]
<1>1. DOMAIN part = S /\ IsFiniteSet(S) /\ \A x \in S : part[x] \in Nat
  BY FS_Subset
<1> HIDE DEF part
<1>2. (\A x \in S : part[x] \in Int) /\ SumOf(part) \in Nat
  BY <1>1, SumType
<1> QED
  BY <1>2 DEF part

\* A larger part sums up to no less.
LEMMA PartMonotone ==
  ASSUME NEW D, IsFiniteSet(D), NEW f \in [D -> Nat], NEW T \in SUBSET D, NEW S \in SUBSET T
  PROVE  SumOf([x \in S |-> f[x]]) <= SumOf([x \in T |-> f[x]])
<1> DEFINE small == [x \in S |-> f[x]]
           large == [x \in T |-> f[x]]
<1>1. /\ IsFiniteSet(T) /\ large \in [T -> Nat] /\ S \in SUBSET T /\ small \in [S -> Nat]
      /\ \A x \in S : small[x] <= large[x]
  BY FS_Subset
<1> HIDE DEF small, large
<1>2. SumOf(small) <= SumOf(large)
  BY <1>1, SumMonotone
<1> QED
  BY <1>2 DEF small, large

(* The groups of a GROUP BY add up to the whole.                            *)
GroupedSum(D, f, K, key) ==
  SumOf([k \in K |-> SumOf([x \in {y \in D : key[y] = k} |-> f[x]])])

\* The groups of a GROUP BY add up to the whole.
LEMMA SumByKey ==
  ASSUME NEW D, IsFiniteSet(D), NEW f \in [D -> Nat],
         NEW K, IsFiniteSet(K), NEW key \in [D -> K]
  PROVE  GroupedSum(D, f, K, key) = SumOf([x \in D |-> f[x]])
<1> DEFINE Of(S, k) == {y \in S : key[y] = k}
           all(S) == SumOf([x \in S |-> f[x]])
           group(S) == [k \in K |-> all(Of(S, k))]
           G == {S \in SUBSET D : SumOf(group(S)) = all(S)}
<1>1. f \in [D -> Int]
  OBVIOUS
<1>2. \A S \in SUBSET D : all(S) \in Nat
  <2> SUFFICES ASSUME NEW S \in SUBSET D PROVE SumOf([x \in S |-> f[x]]) \in Nat
    OBVIOUS
  <2> QED
    BY PartType
<1>3. \A S \in SUBSET D : \A x \in S : all(S) = f[x] + all(S \ {x})
  BY <1>1, SumTaking
<1>4. all({}) = 0
  <2> DEFINE none == [x \in {} |-> f[x]]
  <2>1. DOMAIN none = {}
    OBVIOUS
  <2> HIDE DEF none
  <2>2. SumOf(none) = 0
    BY <2>1, SumOfNothing
  <2> QED
    BY <2>2 DEF none
<1> HIDE DEF all
<1>5. ASSUME NEW S \in SUBSET D
      PROVE  group(S) \in [K -> Nat]
  <2>1. \A k \in K : Of(S, k) \in SUBSET D
    OBVIOUS
  <2> HIDE DEF Of
  <2> QED
    BY <1>2, <2>1
<1>6. ASSUME NEW S \in SUBSET D, \A x \in S : S \ {x} \in G PROVE S \in G
  <2>1. CASE S = {}
    <3>1. \A k \in K : Of(S, k) = {}
      BY <2>1
    <3>2. \A k \in K : group(S)[k] = 0
      <4> HIDE DEF Of
      <4> QED
        BY <1>4, <3>1
    <3>3. group(S) \in [K -> Nat]
      BY <1>5
    <3> HIDE DEF group
    <3>4. SumOf(group(S)) = 0
      BY <3>2, <3>3, SumOfZeros
    <3>5. all(S) = 0
      BY <1>4, <2>1
    <3> QED
      BY <3>4, <3>5
  <2>2. ASSUME NEW x \in S PROVE S \in G
    <3> DEFINE R == S \ {x}
               k0 == key[x]
    <3>1. k0 \in K /\ R \in SUBSET D /\ x \in D
      OBVIOUS
    <3>2. all(S) = f[x] + all(R)
      BY <1>3
    <3>3. SumOf(group(R)) = all(R)
      BY <1>6
    <3>4. \A k \in K \ {k0} : Of(R, k) = Of(S, k)
      OBVIOUS
    <3>5. x \in Of(S, k0) /\ Of(S, k0) \in SUBSET D /\ Of(S, k0) \ {x} = Of(R, k0)
      OBVIOUS
    <3>6. all(Of(S, k0)) = f[x] + all(Of(R, k0))
      <4> HIDE DEF Of, k0, R
      <4>1. all(Of(S, k0)) = f[x] + all(Of(S, k0) \ {x})
        BY <1>3, <3>5
      <4> QED
        BY <3>5, <4>1
    <3>7. group(S)[k0] = f[x] + group(R)[k0] /\ \A k \in K \ {k0} : group(S)[k] = group(R)[k]
      <4> HIDE DEF Of, k0, R
      <4> QED
        BY <3>1, <3>4, <3>6
    <3>8. group(S) \in [K -> Int] /\ group(R) \in [K -> Int]
      <4>1. group(S) \in [K -> Nat] /\ group(R) \in [K -> Nat]
        BY <1>5
      <4> HIDE DEF group
      <4> QED
        BY <4>1
    <3> HIDE DEF group, R, k0
    <3>9. SumOf(group(S)) = SumOf(group(R)) - group(R)[k0] + group(S)[k0]
      BY <3>1, <3>7, <3>8, SumChanged
    <3>10. group(R)[k0] \in Int /\ f[x] \in Int /\ all(R) \in Int
      BY <1>2, <3>1, <3>8
    <3>11. SumOf(group(S)) = all(S)
      BY <3>2, <3>3, <3>7, <3>9, <3>10
    <3> QED
      BY <3>11
  <2> QED
    BY <2>1, <2>2
<1>7. SUBSET D \subseteq G
  <2> HIDE DEF G
  <2> QED
    BY <1>6, SubsetInduction
<1>8. SumOf(group(D)) = all(D)
  BY <1>7
<1> QED
  BY <1>8 DEF all, GroupedSum

(* Counting rows is adding ones.                                            *)
LEMMA CountIsSum ==
  ASSUME NEW D, IsFiniteSet(D)
  PROVE  Cardinality(D) = SumOf([x \in D |-> 1])
<1> DEFINE ones == [x \in D |-> 1]
           all(S) == SumOf([x \in S |-> ones[x]])
           G == {S \in SUBSET D : Cardinality(S) = all(S)}
<1>1. ones \in [D -> Int] /\ \A x \in D : ones[x] = 1
  OBVIOUS
<1>2. \A S \in SUBSET D : IsFiniteSet(S) /\ Cardinality(S) \in Nat
  BY FS_Subset, FS_CardinalityType
<1> HIDE DEF ones
<1>3. \A S \in SUBSET D : \A x \in S : all(S) = ones[x] + all(S \ {x})
  BY <1>1, SumTaking
<1>4. all({}) = 0
  <2> DEFINE none == [x \in {} |-> ones[x]]
  <2>1. DOMAIN none = {}
    OBVIOUS
  <2> HIDE DEF none
  <2>2. SumOf(none) = 0
    BY <2>1, SumOfNothing
  <2> QED
    BY <2>2 DEF none
<1> HIDE DEF all
<1>5. ASSUME NEW S \in SUBSET D, \A x \in S : S \ {x} \in G PROVE S \in G
  <2>1. CASE S = {}
    BY <1>4, <2>1, FS_EmptySet
  <2>2. ASSUME NEW x \in S PROVE S \in G
    <3>1. all(S) = 1 + all(S \ {x}) /\ Cardinality(S \ {x}) = all(S \ {x})
      BY <1>1, <1>3, <1>5
    <3>2. Cardinality(S \ {x}) = Cardinality(S) - 1
      BY <1>2, FS_RemoveElement
    <3>3. Cardinality(S) \in Nat
      BY <1>2
    <3>4. Cardinality(S) = all(S)
      BY <3>1, <3>2, <3>3
    <3> QED
      BY <3>4
  <2> QED
    BY <2>1, <2>2
<1>6. SUBSET D \subseteq G
  <2> HIDE DEF G
  <2> QED
    BY <1>5, SubsetInduction
<1>7. Cardinality(D) = all(D)
  BY <1>6
<1>8. [x \in D |-> ones[x]] = [x \in D |-> 1]
  BY <1>1
<1> QED
  BY <1>7, <1>8 DEF all
=============================================================================
