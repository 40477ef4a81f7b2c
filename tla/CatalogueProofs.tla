-------------------------- MODULE CatalogueProofs --------------------------
(***************************************************************************)
(* Proofs about module Catalogue, for every set of editors, every limit on *)
(* photos and any number of edits.                                         *)
(***************************************************************************)
EXTENDS Catalogue, RowFacts, FiniteSetTheorems, FunctionTheorems

UsedSkus == {variant[n].sku : n \in LiveVariants}

-----------------------------------------------------------------------------
(* The SKU sequence.  Below s, it has skipped the numbers in use.           *)

Unused(used, s) == {t \in 1..s : t \notin used}

\* The unused numbers up to any point can be counted.
LEMMA UnusedFinite ==
  ASSUME NEW used, NEW s \in Nat
  PROVE  IsFiniteSet(Unused(used, s)) /\ Cardinality(Unused(used, s)) \in Nat
<1>1. IsFiniteSet(1..s) /\ Unused(used, s) \in SUBSET (1..s)
  BY FS_Interval DEF Unused
<1> QED
  BY <1>1, FS_Subset, FS_CardinalityType

(* One step of the sequence finds at most one more.                         *)
LEMMA UnusedStep ==
  ASSUME NEW used, NEW s \in Nat, s > 0
  PROVE  Cardinality(Unused(used, s))
           = Cardinality(Unused(used, s - 1)) + (IF s \in used THEN 0 ELSE 1)
<1>0. s - 1 \in Nat
  OBVIOUS
<1>1. IsFiniteSet(Unused(used, s - 1)) /\ s \notin Unused(used, s - 1)
  <2>1. s \notin Unused(used, s - 1)
    BY DEF Unused
  <2> QED
    BY <1>0, <2>1, UnusedFinite
<1>2. CASE s \in used
  <2>1. Unused(used, s) = Unused(used, s - 1)
    BY <1>2 DEF Unused
  <2> QED
    BY <1>0, <1>2, <2>1, UnusedFinite
<1>3. CASE s \notin used
  <2>1. Unused(used, s) = Unused(used, s - 1) \cup {s}
    BY <1>3 DEF Unused
  <2>2. Cardinality(Unused(used, s - 1) \cup {s}) = Cardinality(Unused(used, s - 1)) + 1
    BY <1>1, FS_AddElement
  <2> QED
    BY <1>3, <2>1, <2>2
<1> QED
  BY <1>2, <1>3

(* Among as many numbers as are used, and i more, at least i are not used.  *)
LEMMA EnoughUnused ==
  ASSUME NEW used, IsFiniteSet(used), NEW i \in Nat
  PROVE  Cardinality(Unused(used, Cardinality(used) + i)) >= i
<1> DEFINE N == Cardinality(used) + i
<1>1. Cardinality(used) \in Nat /\ N \in Nat
  BY FS_CardinalityType
<1>2. IsFiniteSet(1..N) /\ Cardinality(1..N) = N
  BY <1>1, FS_Interval
<1>3. Unused(used, N) = (1..N) \ used
  BY DEF Unused
<1> HIDE DEF N
<1>4. Cardinality((1..N) \ used) = Cardinality(1..N) - Cardinality((1..N) \cap used)
  BY <1>2, FS_Difference
<1>5. (1..N) \cap used \in SUBSET used
  OBVIOUS
<1>6. Cardinality((1..N) \cap used) <= Cardinality(used)
  BY <1>5, FS_Subset
<1>7. Cardinality((1..N) \cap used) \in Nat
  BY <1>5, FS_Subset, FS_CardinalityType
<1>8. N - Cardinality((1..N) \cap used) >= i
  BY <1>1, <1>6, <1>7 DEF N
<1> QED
  BY <1>2, <1>3, <1>4, <1>8 DEF N

(* The i-th number exists: it is the least one below which i are unused.    *)
LEMMA NewSkuExists ==
  ASSUME NEW used, IsFiniteSet(used), NEW i \in Nat, i > 0
  PROVE  LET s == NewSku(used, i)
         IN  s \in Nat /\ s \notin used /\ Cardinality(Unused(used, s)) = i
<1> DEFINE N == Cardinality(used) + i
           S == {s \in 1..N : Cardinality(Unused(used, s)) >= i}
<1>1. N \in Nat /\ N > 0
  BY FS_CardinalityType
<1>2. Cardinality(Unused(used, N)) >= i
  BY EnoughUnused
<1> HIDE DEF N
<1>3. S \subseteq Nat /\ S # {}
  BY <1>1, <1>2
<1>4. PICK s \in S : \A t \in S : s <= t
  <2> HIDE DEF S
  <2> QED
    BY <1>3, LeastNatural
<1>5. s \in 1..N /\ s \in Nat /\ s > 0 /\ Cardinality(Unused(used, s)) >= i
  BY <1>1
<1>6. Cardinality(Unused(used, s - 1)) < i /\ Cardinality(Unused(used, s - 1)) \in Nat
  <2>1. s - 1 \in Nat /\ Cardinality(Unused(used, s - 1)) \in Nat
    BY <1>5, UnusedFinite
  <2>2. CASE s = 1
    <3>1. Unused(used, 0) = {}
      BY DEF Unused
    <3>2. Cardinality(Unused(used, s - 1)) = 0
      BY <2>2, <3>1, FS_EmptySet
    <3> QED
      BY <2>1, <3>2
  <2>3. CASE s # 1
    <3>1. s - 1 \in 1..N /\ s - 1 \notin S
      BY <1>1, <1>4, <1>5, <2>3
    <3> QED
      BY <2>1, <3>1
  <2> QED
    BY <2>2, <2>3
<1>7. s \notin used /\ Cardinality(Unused(used, s)) = i
  BY <1>5, <1>6, UnusedStep
<1>8. \E r \in 1..N : r \notin used /\ Cardinality({t \in 1..r : t \notin used}) = i
  BY <1>5, <1>7 DEF Unused
<1>9. /\ NewSku(used, i) \in 1..N
      /\ NewSku(used, i) \notin used
      /\ Cardinality({t \in 1..NewSku(used, i) : t \notin used}) = i
  BY <1>8 DEF NewSku, N
<1> QED
  BY <1>1, <1>9 DEF Unused

-----------------------------------------------------------------------------
(* The tables of rows.                                                      *)

(* Changing every row and adding k rows.                                    *)
LEMMA Extended ==
  ASSUME NEW S, NEW l \in Nat, NEW k \in Nat, NEW f \in [1..l -> S], NEW g \in [1..k -> S]
  PROVE  LET t == f \o g
         IN  /\ t \in Seq(S)
             /\ DOMAIN t = 1..(l + k)
             /\ \A n \in 1..l : t[n] = f[n]
             /\ \A n \in (l + 1)..(l + k) : t[n] = g[n - l]
<1>1. f \in Seq(S) /\ Len(f) = l /\ g \in Seq(S) /\ Len(g) = k
  OBVIOUS
<1> DEFINE t == f \o g
<1>2. /\ t \in Seq(S)
      /\ Len(t) = l + k
      /\ \A n \in 1..(l + k) : t[n] = IF n <= l THEN f[n] ELSE g[n - l]
  BY <1>1, ConcatProperties
<1> HIDE DEF t
<1>3. DOMAIN t = 1..(l + k)
  BY <1>2, LenProperties
<1>4. \A n \in 1..l : t[n] = f[n]
  BY <1>2
<1>5. \A n \in (l + 1)..(l + k) : t[n] = g[n - l]
  BY <1>2
<1> QED
  BY <1>2, <1>3, <1>4, <1>5 DEF t

\* The variants as a typed table of rows.
LEMMA VariantRows ==
  ASSUME TypeOK
  PROVE  /\ variant \in Seq(Variants) /\ Len(variant) \in Nat
         /\ DOMAIN variant = 1..Len(variant)
         /\ \A n \in DOMAIN variant : variant[n].sku \in Nat /\ variant[n].live \in BOOLEAN
         /\ LiveVariants \subseteq 1..Len(variant)
<1>1. variant \in Seq(Variants) /\ Len(variant) \in Nat /\ DOMAIN variant = 1..Len(variant)
  BY LenProperties DEF TypeOK
<1>2. \A n \in DOMAIN variant : variant[n].sku \in Nat /\ variant[n].live \in BOOLEAN
  <2> SUFFICES ASSUME NEW n \in DOMAIN variant
               PROVE  variant[n].sku \in Nat /\ variant[n].live \in BOOLEAN
    OBVIOUS
  <2>1. variant[n] \in Variants
    BY <1>1, RowOfTable
  <2> QED
    BY <2>1 DEF Variants
<1> QED
  BY <1>1, <1>2 DEF LiveVariants

\* The photos as a typed table of rows.
LEMMA PhotoRows ==
  ASSUME TypeOK
  PROVE  /\ photo \in Seq(Photos) /\ Len(photo) \in Nat
         /\ DOMAIN photo = 1..Len(photo)
         /\ \A n \in DOMAIN photo : photo[n].order \in Nat /\ photo[n].cover \in BOOLEAN
                                     /\ photo[n].live \in BOOLEAN
         /\ LivePhotos \subseteq 1..Len(photo)
<1>1. photo \in Seq(Photos) /\ Len(photo) \in Nat /\ DOMAIN photo = 1..Len(photo)
  BY LenProperties DEF TypeOK
<1>2. \A n \in DOMAIN photo : photo[n].order \in Nat /\ photo[n].cover \in BOOLEAN
                               /\ photo[n].live \in BOOLEAN
  <2> SUFFICES ASSUME NEW n \in DOMAIN photo
               PROVE  photo[n].order \in Nat /\ photo[n].cover \in BOOLEAN /\ photo[n].live \in BOOLEAN
    OBVIOUS
  <2>1. photo[n] \in Photos
    BY <1>1, RowOfTable
  <2> QED
    BY <2>1 DEF Photos
<1> QED
  BY <1>1, <1>2 DEF LivePhotos

\* The numbers in use are finitely many.
LEMMA SkusFinite ==
  ASSUME TypeOK
  PROVE  IsFiniteSet(UsedSkus) /\ UsedSkus \subseteq Nat
<1>0. Len(variant) \in Int /\ LiveVariants \in SUBSET (1..Len(variant))
  BY VariantRows
<1>1. IsFiniteSet(LiveVariants)
  <2>1. IsFiniteSet(1..Len(variant))
    BY <1>0, FS_Interval
  <2> QED
    BY <1>0, <2>1, FS_Subset
<1> DEFINE sku == [n \in LiveVariants |-> variant[n].sku]
<1>2. sku \in Surjection(LiveVariants, UsedSkus)
  <2>1. sku \in [LiveVariants -> UsedSkus] /\ \A t \in UsedSkus : \E n \in LiveVariants : sku[n] = t
    BY DEF UsedSkus
  <2> HIDE DEF sku
  <2> QED
    BY <2>1, Fun_IsSurj
<1>3. UsedSkus \subseteq Nat
  BY VariantRows DEF UsedSkus, LiveVariants
<1> HIDE DEF sku
<1> QED
  BY <1>1, <1>2, <1>3, FS_Surjection

\* A save adds a number of variants.
LEMMA AddedNat ==
  ASSUME TypeOK, NEW e \in Editors
  PROVE  Added(e) \in Nat
<1>1. job[e].new \in Nat /\ job[e].variants \subseteq DOMAIN variant
  BY DEF TypeOK, Jobs
<1>2. Len(variant) \in Int /\ job[e].variants \ LiveVariants \in SUBSET (1..Len(variant))
  BY <1>1, VariantRows
<1>3. Cardinality(job[e].variants \ LiveVariants) \in Nat
  <2>1. IsFiniteSet(1..Len(variant))
    BY <1>2, FS_Interval
  <2> QED
    BY <1>2, <2>1, FS_Subset, FS_CardinalityType
<1> QED
  BY <1>1, <1>3 DEF Added

(* What the save makes of the variants.                                     *)
LEMMA SavedVariants ==
  ASSUME TypeOK, NEW e \in Editors, variant' = Synchronised(e)
  PROVE  LET l == Len(variant)
         IN  /\ variant' \in Seq(Variants)
             /\ DOMAIN variant' = 1..(l + Added(e))
             /\ \A n \in 1..l : /\ variant'[n].sku = variant[n].sku
                                /\ variant'[n].live <=> variant[n].live /\ n \notin job[e].doomed
             /\ \A n \in (l + 1)..(l + Added(e)) :
                  variant'[n] = [sku |-> NewSku(UsedSkus, n - l), live |-> TRUE]
<1> DEFINE l == Len(variant)
           f == [n \in DOMAIN variant |->
                   [variant[n] EXCEPT !.live = @ /\ n \notin job[e].doomed]]
           g == [i \in 1..Added(e) |-> [sku |-> NewSku(UsedSkus, i), live |-> TRUE]]
<1>1. variant' = f \o g
  BY DEF Synchronised, UsedSkus
<1>2. l \in Nat /\ Added(e) \in Nat /\ DOMAIN variant = 1..l
  BY VariantRows, AddedNat
<1>3. ASSUME NEW n \in 1..l
      PROVE  /\ f[n] \in Variants
             /\ f[n].sku = variant[n].sku
             /\ f[n].live <=> variant[n].live /\ n \notin job[e].doomed
  <2>1. variant[n] \in Variants
    BY <1>2, VariantRows, RowOfTable
  <2> DEFINE b == variant[n].live /\ n \notin job[e].doomed
  <2>2. b \in BOOLEAN
    BY <2>1
  <2>3. f[n] = [variant[n] EXCEPT !.live = b]
    BY <1>2
  <2> HIDE DEF b, f
  <2>4. f[n] \in Variants /\ f[n].sku = variant[n].sku /\ f[n].live = b
    BY <2>1, <2>2, <2>3 DEF Variants
  <2> QED
    BY <2>4 DEF b
<1>4. f \in [1..l -> Variants]
  BY <1>2, <1>3
<1>5. g \in [1..Added(e) -> Variants]
  <2>1. ASSUME NEW i \in 1..Added(e) PROVE NewSku(UsedSkus, i) \in Nat
    BY <1>2, SkusFinite, NewSkuExists
  <2> QED
    BY <2>1 DEF Variants
<1>6. \A n \in (l + 1)..(l + Added(e)) :
        g[n - l] = [sku |-> NewSku(UsedSkus, n - l), live |-> TRUE]
  BY <1>2
<1> DEFINE k == Added(e)
           t == f \o g
<1> HIDE DEF l, f, g, k
<1>7. /\ t \in Seq(Variants)
      /\ DOMAIN t = 1..(l + k)
      /\ \A n \in 1..l : t[n] = f[n]
      /\ \A n \in (l + 1)..(l + k) : t[n] = g[n - l]
  <2>1. l \in Nat /\ k \in Nat /\ f \in [1..l -> Variants] /\ g \in [1..k -> Variants]
    BY <1>2, <1>4, <1>5 DEF k
  <2> QED
    BY <2>1, Extended
<1>8. variant' = t
  BY <1>1
<1> HIDE DEF t
<1> QED
  BY <1>3, <1>6, <1>7, <1>8 DEF l, k

(* What the save makes of the photos, before it looks for a cover.          *)
LEMMA KeptPhotos ==
  ASSUME TypeOK, NEW e \in Editors
  PROVE  LET l == Len(photo)
             p == Appended(e)
         IN  /\ p \in Seq(Photos)
             /\ DOMAIN p = 1..(l + job[e].uploads)
             /\ \A n \in 1..l : /\ p[n].cover = photo[n].cover
                                /\ p[n].live <=> n \in LivePhotos \ job[e].photos
             /\ \A n \in (l + 1)..(l + job[e].uploads) : p[n].cover = FALSE
<1> DEFINE l == Len(photo)
           k == job[e].uploads
           left == LivePhotos \ job[e].photos
           c == Cardinality(left)
           f == [n \in DOMAIN photo |-> [photo[n] EXCEPT !.live = n \in left]]
           g == [i \in 1..k |-> [order |-> c + i - 1, cover |-> FALSE, live |-> TRUE]]
           p == f \o g
<1>1. l \in Nat /\ k \in Nat /\ DOMAIN photo = 1..l
  BY PhotoRows DEF TypeOK, Jobs
<1>2. c \in Nat
  <2>1. left \in SUBSET (1..l)
    BY PhotoRows
  <2>2. IsFiniteSet(1..l)
    BY <1>1, FS_Interval
  <2> QED
    BY <2>1, <2>2, FS_Subset, FS_CardinalityType
<1>3. Appended(e) = p
  BY DEF Appended
<1>4. ASSUME NEW n \in 1..l
      PROVE  f[n] \in Photos /\ f[n].cover = photo[n].cover /\ (f[n].live <=> n \in left)
  <2>1. photo[n] \in Photos
    BY <1>1, PhotoRows, RowOfTable
  <2> DEFINE b == n \in left
  <2>2. b \in BOOLEAN /\ f[n] = [photo[n] EXCEPT !.live = b]
    BY <1>1
  <2> HIDE DEF b, f
  <2>3. f[n] \in Photos /\ f[n].cover = photo[n].cover /\ f[n].live = b
    BY <2>1, <2>2 DEF Photos
  <2> QED
    BY <2>3 DEF b
<1>5. f \in [1..l -> Photos]
  BY <1>1, <1>4
<1>6. g \in [1..k -> Photos] /\ \A i \in 1..k : g[i].cover = FALSE
  <2> HIDE DEF c, k
  <2>1. ASSUME NEW i \in 1..k PROVE c + i - 1 \in Nat
    BY <1>1, <1>2
  <2> QED
    BY <2>1 DEF Photos
<1>7. \A n \in (l + 1)..(l + k) : n - l \in 1..k
  BY <1>1
<1> HIDE DEF l, k, f, g, left
<1>8. /\ p \in Seq(Photos)
      /\ DOMAIN p = 1..(l + k)
      /\ \A n \in 1..l : p[n] = f[n]
      /\ \A n \in (l + 1)..(l + k) : p[n] = g[n - l]
  BY <1>1, <1>5, <1>6, Extended
<1> HIDE DEF p
<1>9. \A n \in (l + 1)..(l + k) : p[n].cover = FALSE
  BY <1>6, <1>7, <1>8
<1> QED
  BY <1>3, <1>4, <1>8, <1>9 DEF l, k, left

\* Choosing a cover keeps every photo, and promotes the first one or none.
LEMMA CoveredPhotos ==
  ASSUME NEW p \in Seq(Photos)
  PROVE  LET c == Covered(p)
         IN  /\ c \in Seq(Photos)
             /\ DOMAIN c = DOMAIN p
             /\ \A n \in DOMAIN p :
                  /\ c[n].live = p[n].live
                  /\ c[n].cover <=>
                       p[n].cover \/ (First(p, n) /\ \A m \in DOMAIN p : ~(p[m].live /\ p[m].cover))
<1>1. DOMAIN p = 1..Len(p) /\ Len(p) \in Nat
  BY LenProperties
<1>2. CASE \E n \in DOMAIN p : p[n].live /\ p[n].cover
  BY <1>2 DEF Covered
<1>3. CASE \A m \in DOMAIN p : ~(p[m].live /\ p[m].cover)
  <2> DEFINE c == [n \in DOMAIN p |-> [p[n] EXCEPT !.cover = @ \/ First(p, n)]]
  <2>1. Covered(p) = c
    BY <1>3 DEF Covered
  <2>2. ASSUME NEW n \in DOMAIN p
        PROVE  /\ c[n] \in Photos /\ c[n].live = p[n].live
               /\ c[n].cover <=> p[n].cover \/ First(p, n)
    <3>1. p[n] \in Photos
      BY RowOfTable
    <3> DEFINE b == p[n].cover \/ First(p, n)
    <3>2. b \in BOOLEAN
      OBVIOUS
    <3>3. c[n] = [p[n] EXCEPT !.cover = b]
      OBVIOUS
    <3> HIDE DEF b, c
    <3>4. c[n] \in Photos /\ c[n].live = p[n].live /\ c[n].cover = b
      BY <3>1, <3>2, <3>3 DEF Photos
    <3> QED
      BY <3>4 DEF b
  <2>3. DOMAIN c = DOMAIN p
    OBVIOUS
  <2>4. c \in Seq(Photos)
    <3>1. c \in [1..Len(p) -> Photos]
      BY <1>1, <2>2
    <3> HIDE DEF c
    <3> QED
      BY <1>1, <3>1
  <2> HIDE DEF c
  <2> QED
    BY <1>3, <2>1, <2>2, <2>3, <2>4
<1> QED
  BY <1>2, <1>3

-----------------------------------------------------------------------------
(* A step that changes one editor's job.                                    *)

JobTyped(j) == j \in Jobs /\ j.variants \subseteq DOMAIN variant /\ j.photos \subseteq DOMAIN photo

\* An editor's step that writes no row keeps the types.
LEMMA OneJob ==
  ASSUME TypeOK, NEW e \in Editors, NEW j,
         job' = [job EXCEPT ![e] = j], JobTyped(j),
         UNCHANGED <<variant, photo, bought>>, edits' \in Nat
  PROVE  TypeOK'
<1>1. job' \in [Editors -> Jobs]
  BY DEF TypeOK, JobTyped
<1>2. \A d \in Editors : job'[d].variants \subseteq DOMAIN variant /\ job'[d].photos \subseteq DOMAIN photo
  BY DEF TypeOK, JobTyped
<1> QED
  BY <1>1, <1>2 DEF TypeOK

\* An editor without a page is typed.
LEMMA NoJobTyped == JobTyped(NoJob)
BY DEF JobTyped, NoJob, Jobs, Phases

-----------------------------------------------------------------------------
(* Every variable keeps its type; pages and bought variants name rows that  *)
(* were inserted.                                                           *)
THEOREM TypeCorrect == Spec => []TypeOK
<1> USE CatalogueAssumption
<1>1. Init => TypeOK
  <2> SUFFICES ASSUME Init PROVE TypeOK
    OBVIOUS
  <2>1. variant \in Seq(Variants)
    <3>1. PICK v \in 0..MaxListed : variant = [n \in 1..v |-> [sku |-> n, live |-> TRUE]]
      BY DEF Init
    <3>2. v \in Nat /\ variant \in [1..v -> Variants]
      BY <3>1 DEF Variants
    <3> QED
      BY <3>2
  <2>2. photo \in Seq(Photos)
    <3>1. PICK k \in 0..MaxPhotos :
            photo = [n \in 1..k |-> [order |-> n - 1, cover |-> n = 1, live |-> TRUE]]
      BY DEF Init
    <3>2. ASSUME NEW n \in 1..k PROVE photo[n] \in Photos
      <4> DEFINE b == n = 1
      <4>1. n - 1 \in Nat /\ b \in BOOLEAN /\ photo[n] = [order |-> n - 1, cover |-> b, live |-> TRUE]
        BY <3>1
      <4> HIDE DEF b
      <4> QED
        BY <4>1 DEF Photos
    <3>3. k \in Nat /\ photo \in [1..k -> Photos]
      BY <3>1, <3>2
    <3> QED
      BY <3>3
  <2>3. job \in [Editors -> Jobs] /\ \A e \in Editors : job[e].variants = {} /\ job[e].photos = {}
    BY DEF Init, NoJob, Jobs, Phases
  <2> QED
    BY <2>1, <2>2, <2>3 DEF Init, TypeOK
<1>2. TypeOK /\ [Next]_vars => TypeOK'
  <2> SUFFICES ASSUME TypeOK, [Next]_vars PROVE TypeOK'
    OBVIOUS
  <2>0. \A e \in Editors : JobTyped(job[e])
    BY DEF TypeOK, JobTyped
  <2>1. ASSUME NEW n \in DOMAIN variant, Buy(n) PROVE TypeOK'
    BY <2>1 DEF Buy, TypeOK
  <2>2. ASSUME NEW e \in Editors, OpenPage(e) PROVE TypeOK'
    <3> DEFINE j == [job[e] EXCEPT !.phase = "shown", !.variants = LiveVariants, !.photos = LivePhotos]
    <3>0. edits' = edits + 1 /\ edits \in Nat
      BY <2>2 DEF OpenPage, TypeOK
    <3>1. job' = [job EXCEPT ![e] = j]
      BY <2>2 DEF OpenPage
    <3>2. LiveVariants \subseteq DOMAIN variant /\ LivePhotos \subseteq DOMAIN photo
          /\ LiveVariants \subseteq Nat /\ LivePhotos \subseteq Nat
      BY VariantRows, PhotoRows
    <3>3. JobTyped(j)
      BY <2>0, <3>2 DEF JobTyped, Jobs, Phases
    <3> HIDE DEF j
    <3>4. edits' \in Nat
      BY <3>0
    <3> QED
      BY <2>2, <3>1, <3>3, <3>4, OneJob DEF OpenPage
  <2>3. ASSUME NEW e \in Editors, ShowAgain(e) PROVE TypeOK'
    <3> DEFINE j == [job[e] EXCEPT !.photos = LivePhotos]
    <3>1. job' = [job EXCEPT ![e] = j] /\ edits' \in Nat
      BY <2>3 DEF ShowAgain, TypeOK
    <3>2. LivePhotos \subseteq DOMAIN photo /\ LivePhotos \subseteq Nat
      BY PhotoRows
    <3>3. JobTyped(j)
      BY <2>0, <3>2 DEF JobTyped, Jobs
    <3> HIDE DEF j
    <3> QED
      BY <2>3, <3>1, <3>3, OneJob DEF ShowAgain
  <2>4. ASSUME NEW e \in Editors, NEW form \in Forms(e), Submit(e, form) PROVE TypeOK'
    <3> DEFINE j == [phase |-> "checked", variants |-> form.variants, photos |-> form.photos,
                     sync |-> form.sync, new |-> form.new, uploads |-> form.uploads, doomed |-> {}]
    <3>1. job' = [job EXCEPT ![e] = j] /\ edits' \in Nat
      BY <2>4 DEF Submit, TypeOK
    <3>2. /\ form.variants \subseteq job[e].variants /\ form.photos \subseteq job[e].photos
          /\ form.new \in Nat /\ form.uploads \in Nat /\ form.sync \in BOOLEAN
      BY DEF Forms, PostedRows
    <3>3. JobTyped(j)
      BY <2>0, <3>2 DEF JobTyped, Jobs, Phases
    <3> HIDE DEF j
    <3> QED
      BY <2>4, <3>1, <3>3, OneJob DEF Submit
  <2>5. ASSUME NEW e \in Editors, BeginSave(e) PROVE TypeOK'
    <3> DEFINE j == [job[e] EXCEPT !.phase = "saving", !.doomed = Doomed(e)]
    <3>1. job' = [job EXCEPT ![e] = j] /\ edits' \in Nat
      BY <2>5 DEF BeginSave, TypeOK
    <3>2. Doomed(e) \subseteq Nat
      BY VariantRows DEF Doomed
    <3>3. JobTyped(j)
      BY <2>0, <3>2 DEF JobTyped, Jobs, Phases
    <3> HIDE DEF j
    <3> QED
      BY <2>5, <3>1, <3>3, OneJob DEF BeginSave
  <2>6. ASSUME NEW e \in Editors, DeleteVariants(e) PROVE TypeOK'
    <3> DEFINE j == [job[e] EXCEPT !.phase = "unlinked"]
    <3>1. job' = [job EXCEPT ![e] = j] /\ edits' \in Nat
      BY <2>6 DEF DeleteVariants, TypeOK
    <3>2. JobTyped(j)
      BY <2>0 DEF JobTyped, Jobs, Phases
    <3> HIDE DEF j
    <3> QED
      BY <2>6, <3>1, <3>2, OneJob DEF DeleteVariants
  <2>7. ASSUME NEW e \in Editors, Discard(e) PROVE TypeOK'
    BY <2>7, NoJobTyped, OneJob DEF Discard, TypeOK
  <2>8. ASSUME NEW e \in Editors, Commit(e) PROVE TypeOK'
    <3>1. variant' \in Seq(Variants) /\ DOMAIN variant \subseteq DOMAIN variant'
      <4>1. Added(e) \in Nat /\ variant' = Synchronised(e)
        BY <2>8, AddedNat DEF Commit
      <4> QED
        BY <4>1, SavedVariants, VariantRows
    <3>2. photo' \in Seq(Photos) /\ DOMAIN photo \subseteq DOMAIN photo'
      <4>1. photo' = Covered(Appended(e)) /\ job[e].uploads \in Nat
        BY <2>8 DEF Commit, TypeOK, Jobs
      <4> QED
        <5>1. Appended(e) \in Seq(Photos) /\ DOMAIN Appended(e) = 1..(Len(photo) + job[e].uploads)
          BY KeptPhotos
        <5>2. photo' \in Seq(Photos) /\ DOMAIN photo' = DOMAIN Appended(e)
          BY <4>1, <5>1, CoveredPhotos
        <5> QED
          BY <4>1, <5>1, <5>2, PhotoRows
    <3>3. job' \in [Editors -> Jobs]
          /\ \A d \in Editors : JobTyped(job'[d])
      BY <2>0, <2>8, NoJobTyped DEF Commit, TypeOK, JobTyped
    <3> QED
      BY <2>8, <3>1, <3>2, <3>3 DEF Commit, TypeOK, JobTyped
  <2>9. CASE UNCHANGED vars
    BY <2>9 DEF vars, TypeOK
  <2> QED
    BY <2>1, <2>2, <2>3, <2>4, <2>5, <2>6, <2>7, <2>8, <2>9 DEF Next
<1> QED
  BY <1>1, <1>2, PTL DEF Spec

-----------------------------------------------------------------------------
(* Only a commit changes the rows, only a purchase the set of bought rows.  *)
LEMMA RowChanges ==
  ASSUME [Next]_vars
  PROVE  \/ UNCHANGED <<variant, photo, bought>>
         \/ UNCHANGED <<variant, photo>> /\ \E n \in LiveVariants : bought' = bought \cup {n}
         \/ \E e \in Editors : Commit(e)
<1>1. ASSUME NEW n \in DOMAIN variant, Buy(n)
      PROVE  UNCHANGED <<variant, photo>> /\ \E m \in LiveVariants : bought' = bought \cup {m}
  BY <1>1 DEF Buy
<1>2. ASSUME NEW e \in Editors,
             \/ OpenPage(e) \/ ShowAgain(e) \/ BeginSave(e) \/ DeleteVariants(e) \/ Discard(e)
             \/ \E form \in Forms(e) : Submit(e, form)
      PROVE  UNCHANGED <<variant, photo, bought>>
  BY <1>2 DEF OpenPage, ShowAgain, Submit, BeginSave, DeleteVariants, Discard
<1>3. CASE UNCHANGED vars
  BY <1>3 DEF vars
<1> QED
  BY <1>1, <1>2, <1>3 DEF Next

(* A bought variant is never deleted.                                       *)
THEOREM BoughtStay == Spec => []BoughtVariantsStay
<1>1. Init => BoughtVariantsStay
  BY DEF Init, BoughtVariantsStay
<1>2. TypeOK /\ BoughtVariantsStay /\ [Next]_vars => BoughtVariantsStay'
  <2> SUFFICES ASSUME TypeOK, BoughtVariantsStay, [Next]_vars PROVE BoughtVariantsStay'
    OBVIOUS
  <2>1. CASE UNCHANGED <<variant, photo, bought>>
    BY <2>1 DEF BoughtVariantsStay, LiveVariants
  <2>2. ASSUME UNCHANGED <<variant, photo>>, NEW n \in LiveVariants, bought' = bought \cup {n}
        PROVE  BoughtVariantsStay'
    BY <2>2 DEF BoughtVariantsStay, LiveVariants
  <2>3. ASSUME NEW e \in Editors, Commit(e) PROVE BoughtVariantsStay'
    <3>1. bought' = bought /\ bought \cap job[e].doomed = {} /\ variant' = Synchronised(e)
      BY <2>3 DEF Commit, Unprotected
    <3>2. Added(e) \in Nat
      BY AddedNat
    <3>3. ASSUME NEW n \in bought PROVE n \in LiveVariants'
      <4>1. n \in 1..Len(variant) /\ variant[n].live /\ n \notin job[e].doomed
        BY <3>1, <3>3, VariantRows DEF BoughtVariantsStay, LiveVariants
      <4>2. n \in DOMAIN variant' /\ variant'[n].live
        BY <3>1, <3>2, <4>1, SavedVariants, VariantRows
      <4> QED
        BY <4>2 DEF LiveVariants
    <3> QED
      BY <3>1, <3>3 DEF BoughtVariantsStay
  <2> QED
    BY <2>1, <2>2, <2>3, RowChanges
<1> QED
  BY <1>1, <1>2, TypeCorrect, PTL DEF Spec

-----------------------------------------------------------------------------
(* No two live variants share an SKU.                                       *)
Apart == \A m, n \in LiveVariants : variant[m].sku = variant[n].sku => m = n

\* Synchronising the variants keeps their SKUs apart.
LEMMA SavedApart ==
  ASSUME TypeOK, Apart, NEW e \in Editors, variant' = Synchronised(e)
  PROVE  Apart'
<1> DEFINE l == Len(variant)
           k == Added(e)
<1>1. l \in Nat /\ k \in Nat /\ DOMAIN variant = 1..l
  BY VariantRows, AddedNat
<1>2. /\ DOMAIN variant' = 1..(l + k)
      /\ \A n \in 1..l : variant'[n].sku = variant[n].sku /\ (variant'[n].live => variant[n].live)
      /\ \A n \in (l + 1)..(l + k) : variant'[n] = [sku |-> NewSku(UsedSkus, n - l), live |-> TRUE]
  BY SavedVariants
<1> HIDE DEF l, k
<1>3. ASSUME NEW n \in LiveVariants', n <= l
      PROVE  n \in LiveVariants /\ variant'[n].sku = variant[n].sku /\ variant'[n].sku \in UsedSkus
  <2>1. n \in 1..l /\ variant'[n].live
    BY <1>1, <1>2, <1>3 DEF LiveVariants
  <2> QED
    BY <1>1, <1>2, <2>1 DEF LiveVariants, UsedSkus
<1>4. ASSUME NEW n \in LiveVariants', n > l
      PROVE  /\ n \in Nat
             /\ variant'[n].sku \notin UsedSkus
             /\ Cardinality(Unused(UsedSkus, variant'[n].sku)) = n - l
  <2>1. n \in (l + 1)..(l + k) /\ n - l \in Nat /\ n - l > 0
    BY <1>1, <1>2, <1>4 DEF LiveVariants
  <2>2. variant'[n].sku = NewSku(UsedSkus, n - l)
    <3>1. variant'[n] = [sku |-> NewSku(UsedSkus, n - l), live |-> TRUE]
      BY <1>2, <2>1
    <3> QED
      BY <3>1
  <2> QED
    BY <1>1, <2>1, <2>2, SkusFinite, NewSkuExists
<1>5. \A n \in LiveVariants' : n \in Nat
  BY <1>1, <1>2 DEF LiveVariants
<1>6. ASSUME NEW m \in LiveVariants', NEW n \in LiveVariants', variant'[m].sku = variant'[n].sku
      PROVE  m = n
  <2>1. CASE m <= l /\ n <= l
    BY <1>3, <1>6, <2>1 DEF Apart
  <2>2. CASE m > l /\ n > l
    <3>1. m - l = n - l /\ m \in Nat /\ n \in Nat
      BY <1>4, <1>6, <2>2
    <3> QED
      BY <1>1, <3>1
  <2>3. CASE (m <= l /\ n > l) \/ (m > l /\ n <= l)
    BY <1>3, <1>4, <1>6, <2>3
  <2> QED
    BY <1>1, <1>5, <2>1, <2>2, <2>3
<1> QED
  BY <1>6 DEF Apart

(* The SKU on an order line names one variant for ever.                     *)
THEOREM SkusStayApart == Spec => []SkuNamesOneVariant
<1>1. Init => Apart
  <2> SUFFICES ASSUME Init PROVE Apart
    OBVIOUS
  <2>1. PICK v \in 0..MaxListed : variant = [n \in 1..v |-> [sku |-> n, live |-> TRUE]]
    BY DEF Init
  <2> QED
    BY <2>1 DEF Apart, LiveVariants
<1>2. TypeOK /\ Apart /\ [Next]_vars => Apart'
  <2> SUFFICES ASSUME TypeOK, Apart, [Next]_vars PROVE Apart'
    OBVIOUS
  <2>1. CASE UNCHANGED variant
    BY <2>1 DEF Apart, LiveVariants
  <2>2. ASSUME NEW e \in Editors, Commit(e) PROVE Apart'
    BY <2>2, SavedApart DEF Commit
  <2> QED
    BY <2>1, <2>2, RowChanges
<1>3. Apart /\ BoughtVariantsStay => SkuNamesOneVariant
  BY DEF Apart, BoughtVariantsStay, SkuNamesOneVariant
<1> QED
  BY <1>1, <1>2, <1>3, TypeCorrect, BoughtStay, PTL DEF Spec

-----------------------------------------------------------------------------
(* Some live row comes first, and only one.                                 *)
LEMMA FirstExists ==
  ASSUME NEW p \in Seq(Photos), \E n \in DOMAIN p : p[n].live
  PROVE  \E n \in DOMAIN p : First(p, n) /\ \A m \in DOMAIN p : First(p, m) => m = n
<1>1. \A n \in DOMAIN p : n \in Nat /\ p[n].order \in Nat
  <2> SUFFICES ASSUME NEW n \in DOMAIN p PROVE n \in Nat /\ p[n].order \in Nat
    OBVIOUS
  <2>1. n \in Nat /\ p[n] \in Photos
    BY RowOfTable
  <2> QED
    BY <2>1 DEF Photos
<1> DEFINE L == {m \in DOMAIN p : p[m].live}
           T == {<<p[n].order, n>> : n \in L}
<1>2. T \subseteq Nat \X Nat /\ T # {}
  <2>1. L # {} /\ \A n \in L : n \in Nat /\ p[n].order \in Nat
    BY <1>1
  <2> HIDE DEF L
  <2>2. T \subseteq Nat \X Nat
    BY <2>1
  <2>3. PICK n \in L : TRUE
    BY <2>1
  <2>4. <<p[n].order, n>> \in T
    OBVIOUS
  <2> QED
    BY <2>2, <2>4
<1>3. PICK t \in T : \A u \in T : t[1] < u[1] \/ (t[1] = u[1] /\ t[2] <= u[2])
  <2> HIDE DEF T
  <2> QED
    BY <1>2, LeastPair
<1>4. PICK n \in DOMAIN p : p[n].live /\ t = <<p[n].order, n>>
  OBVIOUS
<1>5. ASSUME NEW m \in DOMAIN p, p[m].live
      PROVE  p[n].order < p[m].order \/ (p[n].order = p[m].order /\ n <= m)
  <2>1. <<p[m].order, m>> \in T
    BY <1>5
  <2> QED
    BY <1>3, <1>4, <2>1
<1>6. First(p, n)
  BY <1>4, <1>5 DEF First
<1>7. ASSUME NEW m \in DOMAIN p, First(p, m) PROVE m = n
  <2>1. p[m].live /\ (p[m].order < p[n].order \/ (p[m].order = p[n].order /\ m <= n))
    BY <1>4, <1>7 DEF First
  <2> QED
    BY <1>1, <1>5, <2>1
<1> QED
  BY <1>6, <1>7

(* As long as there is a photo, exactly one is the cover.                   *)
THEOREM CoverIsOne == Spec => []OneCover
<1>1. Init => OneCover
  <2> SUFFICES ASSUME Init PROVE OneCover
    OBVIOUS
  <2>1. PICK k \in 0..MaxPhotos :
          photo = [n \in 1..k |-> [order |-> n - 1, cover |-> n = 1, live |-> TRUE]]
    BY DEF Init
  <2>2. LivePhotos = 1..k /\ k \in Nat /\ \A n \in 1..k : photo[n].cover <=> n = 1
    <3>1. k \in Nat
      BY CatalogueAssumption
    <3>2. \A n \in 1..k : photo[n].live /\ (photo[n].cover <=> n = 1)
      BY <2>1
    <3>3. DOMAIN photo = 1..k
      BY <2>1
    <3> QED
      BY <3>1, <3>2, <3>3 DEF LivePhotos
  <2>3. ASSUME LivePhotos # {} PROVE 1 \in LivePhotos /\ {m \in LivePhotos : photo[m].cover} = {1}
    BY <2>2, <2>3
  <2> QED
    BY <2>3 DEF OneCover
<1>2. TypeOK /\ OneCover /\ [Next]_vars => OneCover'
  <2> SUFFICES ASSUME TypeOK, OneCover, [Next]_vars PROVE OneCover'
    OBVIOUS
  <2>1. CASE UNCHANGED photo
    BY <2>1 DEF OneCover, LivePhotos
  <2>2. ASSUME NEW e \in Editors, Commit(e), LivePhotos' # {}
        PROVE  \E n \in LivePhotos' : {m \in LivePhotos' : photo'[m].cover} = {n}
    <3> DEFINE p == Appended(e)
               l == Len(photo)
               k == job[e].uploads
    <3>1. photo' = Covered(p) /\ k \in Nat /\ l \in Nat /\ DOMAIN photo = 1..l
      BY <2>2, PhotoRows DEF Commit, TypeOK, Jobs
    <3>2. /\ p \in Seq(Photos)
          /\ DOMAIN p = 1..(l + k)
          /\ \A n \in 1..l : p[n].cover = photo[n].cover /\ (p[n].live => n \in LivePhotos)
          /\ \A n \in (l + 1)..(l + k) : p[n].cover = FALSE
      BY KeptPhotos
    <3> HIDE DEF p, l, k
    <3>3. /\ DOMAIN photo' = DOMAIN p
          /\ \A n \in DOMAIN p :
               /\ photo'[n].live = p[n].live
               /\ photo'[n].cover <=>
                    p[n].cover \/ (First(p, n) /\ \A m \in DOMAIN p : ~(p[m].live /\ p[m].cover))
      BY <3>1, <3>2, CoveredPhotos
    <3>4. LivePhotos' = {n \in DOMAIN p : p[n].live}
      BY <3>3 DEF LivePhotos
    <3>5. CASE \E n \in DOMAIN p : p[n].live /\ p[n].cover
      <4>1. PICK n \in DOMAIN p : p[n].live /\ p[n].cover
        BY <3>5
      <4>2. ASSUME NEW m \in DOMAIN p, p[m].live, p[m].cover
            PROVE  m \in LivePhotos /\ photo[m].cover
        <5>1. m \in 1..l \/ m \in (l + 1)..(l + k)
          BY <3>1, <3>2
        <5> QED
          BY <3>2, <4>2, <5>1
      <4>3. ASSUME NEW m \in DOMAIN p, p[m].live, p[m].cover PROVE m = n
        <5>1. LivePhotos # {}
          BY <4>1, <4>2
        <5>2. PICK c \in LivePhotos : {x \in LivePhotos : photo[x].cover} = {c}
          BY <5>1 DEF OneCover
        <5> QED
          BY <4>1, <4>2, <4>3, <5>2
      <4>4. \A m \in LivePhotos' : photo'[m].cover <=> m = n
        BY <3>3, <3>4, <4>1, <4>3
      <4> QED
        BY <3>4, <4>1, <4>4
    <3>6. CASE \A n \in DOMAIN p : ~(p[n].live /\ p[n].cover)
      <4>1. PICK n \in DOMAIN p : First(p, n) /\ \A m \in DOMAIN p : First(p, m) => m = n
        BY <2>2, <3>2, <3>4, FirstExists
      <4>2. n \in LivePhotos'
        BY <3>4, <4>1 DEF First
      <4>3. \A m \in LivePhotos' : photo'[m].cover <=> m = n
        BY <3>3, <3>4, <3>6, <4>1
      <4> QED
        BY <4>2, <4>3
    <3> QED
      BY <3>5, <3>6
  <2> QED
    BY <2>1, <2>2, RowChanges DEF OneCover
<1> QED
  BY <1>1, <1>2, TypeCorrect, PTL DEF Spec

-----------------------------------------------------------------------------
(* The save that holds the product's row is the only one, so the rows it is *)
(* about to delete are still the ones its form does not list.               *)
OneSaveAtATime ==
  /\ \A d, e \in Editors : Saving(d) /\ Saving(e) => d = e
  /\ \A e \in Editors : Saving(e) => job[e].doomed = Doomed(e)

\* The save updates the product's row first, so that two saves of one product
\* never overlap (dashboard.py:494).
THEOREM SavesExclusive == Spec => []OneSaveAtATime
<1>1. Init => OneSaveAtATime
  BY DEF Init, OneSaveAtATime, Saving, NoJob
<1>2. TypeOK /\ OneSaveAtATime /\ [Next]_vars => OneSaveAtATime'
  <2> SUFFICES ASSUME TypeOK, OneSaveAtATime, [Next]_vars PROVE OneSaveAtATime'
    OBVIOUS
  <2>1. ASSUME NEW e \in Editors, \A d \in Editors \ {e} : job'[d] = job[d],
               job'[e].phase \notin {"saving", "unlinked"},
               UNCHANGED variant \/ Saving(e)
        PROVE  OneSaveAtATime'
    <3>1. ~Saving(e)' /\ \A d \in Editors \ {e} : Saving(d)' <=> Saving(d)
      BY <2>1 DEF Saving
    <3>2. ASSUME NEW d \in Editors, Saving(d)' PROVE job'[d].doomed = Doomed(d)'
      <4>1. d # e /\ Saving(d) /\ job'[d] = job[d]
        BY <2>1, <3>1, <3>2
      <4>2. UNCHANGED variant
        BY <2>1, <4>1 DEF OneSaveAtATime
      <4> QED
        BY <4>1, <4>2 DEF OneSaveAtATime, Doomed, LiveVariants
    <3> QED
      BY <3>1, <3>2 DEF OneSaveAtATime
  <2>2. ASSUME NEW n \in DOMAIN variant, Buy(n) PROVE OneSaveAtATime'
    BY <2>2 DEF Buy, OneSaveAtATime, Saving, Doomed, LiveVariants
  <2>3. ASSUME NEW e \in Editors, OpenPage(e) \/ ShowAgain(e) PROVE OneSaveAtATime'
    <3>1. /\ \A d \in Editors \ {e} : job'[d] = job[d]
          /\ job'[e].phase = "shown" /\ UNCHANGED variant
      BY <2>3 DEF OpenPage, ShowAgain, TypeOK, Jobs
    <3> QED
      BY <2>1, <3>1
  <2>4. ASSUME NEW e \in Editors, NEW form \in Forms(e), Submit(e, form) PROVE OneSaveAtATime'
    <3>1. /\ \A d \in Editors \ {e} : job'[d] = job[d]
          /\ job'[e].phase = "checked" /\ UNCHANGED variant
      BY <2>4 DEF Submit, TypeOK
    <3> QED
      BY <2>1, <3>1
  <2>5. ASSUME NEW e \in Editors, BeginSave(e) PROVE OneSaveAtATime'
    <3>1. /\ \A d \in Editors \ {e} : job'[d] = job[d] /\ ~Saving(d)
          /\ job'[e] = [job[e] EXCEPT !.phase = "saving", !.doomed = Doomed(e)]
          /\ UNCHANGED variant
      BY <2>5 DEF BeginSave, TypeOK
    <3>2. \A d \in Editors \ {e} : ~Saving(d)'
      BY <3>1 DEF Saving
    <3>3. job'[e].doomed = Doomed(e) /\ job'[e].sync = job[e].sync
          /\ job'[e].variants = job[e].variants
      BY <3>1 DEF TypeOK, Jobs
    <3>4. Doomed(e)' = Doomed(e)
      BY <3>1, <3>3 DEF Doomed, LiveVariants
    <3> QED
      BY <3>2, <3>3, <3>4 DEF OneSaveAtATime
  <2>6. ASSUME NEW e \in Editors, DeleteVariants(e) PROVE OneSaveAtATime'
    <3>1. /\ \A d \in Editors \ {e} : job'[d] = job[d]
          /\ job'[e] = [job[e] EXCEPT !.phase = "unlinked"]
          /\ UNCHANGED variant /\ Saving(e)
      BY <2>6 DEF DeleteVariants, TypeOK, Saving
    <3>2. \A d \in Editors : Saving(d)' => Saving(d)
      BY <3>1 DEF Saving
    <3>3. \A d \in Editors : /\ job'[d].doomed = job[d].doomed /\ job'[d].sync = job[d].sync
                             /\ job'[d].variants = job[d].variants
      BY <3>1 DEF TypeOK, Jobs
    <3>4. \A d \in Editors : Doomed(d)' = Doomed(d)
      BY <3>1, <3>3 DEF Doomed, LiveVariants
    <3> QED
      BY <3>2, <3>3, <3>4 DEF OneSaveAtATime
  <2>7. ASSUME NEW e \in Editors, Commit(e) PROVE OneSaveAtATime'
    <3>1. /\ \A d \in Editors \ {e} : job'[d] = job[d]
          /\ job'[e].phase = "idle" /\ Saving(e)
      BY <2>7 DEF Commit, TypeOK, NoJob, Saving
    <3> QED
      BY <2>1, <3>1
  <2>8. ASSUME NEW e \in Editors, Discard(e) PROVE OneSaveAtATime'
    <3>1. /\ \A d \in Editors \ {e} : job'[d] = job[d]
          /\ job'[e].phase = "idle" /\ UNCHANGED variant
      BY <2>8 DEF Discard, TypeOK, NoJob
    <3> QED
      BY <2>1, <3>1
  <2>9. CASE UNCHANGED vars
    BY <2>9 DEF vars, OneSaveAtATime, Saving, Doomed, LiveVariants
  <2> QED
    BY <2>2, <2>3, <2>4, <2>5, <2>6, <2>7, <2>8, <2>9 DEF Next
<1> QED
  BY <1>1, <1>2, TypeCorrect, PTL DEF Spec

(* A committed save leaves as many variants as its form listed, the ones    *)
(* that another editor had deleted included (dashboard.py:501-523).         *)
THEOREM SavesAsListed == Spec => SavedAsListed
<1>1. ASSUME TypeOK, OneSaveAtATime, NEW e \in Editors, Commit(e), job[e].sync
      PROVE  Cardinality(LiveVariants') = Cardinality(job[e].variants) + job[e].new
  <2> DEFINE l == Len(variant)
             k == Added(e)
             listed == job[e].variants
             kept == LiveVariants \cap listed
             added == (l + 1)..(l + k)
  <2>1. /\ l \in Nat /\ k \in Nat /\ DOMAIN variant = 1..l
        /\ LiveVariants \in SUBSET (1..l) /\ listed \in SUBSET (1..l)
        /\ job[e].new \in Nat
    BY <1>1, VariantRows, AddedNat DEF TypeOK, Jobs
  <2>2. job[e].doomed = LiveVariants \ listed
    BY <1>1 DEF OneSaveAtATime, Commit, Saving, Doomed
  <2>3. LiveVariants' = kept \cup added
    <3>1. /\ DOMAIN variant' = 1..(l + k)
          /\ \A n \in 1..l : variant'[n].live <=> variant[n].live /\ n \notin job[e].doomed
          /\ \A n \in added : variant'[n].live
      <4>1. variant' = Synchronised(e)
        BY <1>1 DEF Commit
      <4>2. \A n \in added : variant'[n] = [sku |-> NewSku(UsedSkus, n - l), live |-> TRUE]
        BY <1>1, <4>1, SavedVariants
      <4>3. \A n \in added : variant'[n].live
        <5> SUFFICES ASSUME NEW n \in added PROVE variant'[n].live
          OBVIOUS
        <5>1. variant'[n] = [sku |-> NewSku(UsedSkus, n - l), live |-> TRUE]
          BY <4>2
        <5> QED
          BY <5>1
      <4> HIDE DEF added
      <4> QED
        BY <1>1, <4>1, <4>3, SavedVariants
    <3>2. \A n \in 1..l : n \in LiveVariants <=> variant[n].live
      BY <2>1 DEF LiveVariants
    <3>3. LiveVariants' = {n \in 1..(l + k) : variant'[n].live}
      BY <3>1 DEF LiveVariants
    <3>4. \A n \in 1..(l + k) : n \in 1..l \/ n \in added
      BY <2>1
    <3>5. added \subseteq 1..(l + k) /\ 1..l \subseteq 1..(l + k)
      BY <2>1
    <3> HIDE DEF l, k, added
    <3> QED
      BY <2>1, <2>2, <3>1, <3>2, <3>3, <3>4, <3>5
  <2>4. /\ IsFiniteSet(kept) /\ IsFiniteSet(listed) /\ Cardinality(kept) \in Nat
        /\ Cardinality(listed) \in Nat
    <3>1. IsFiniteSet(1..l)
      BY <2>1, FS_Interval
    <3>2. kept \in SUBSET (1..l)
      BY <2>1
    <3> HIDE DEF l, kept, listed
    <3> QED
      BY <2>1, <3>1, <3>2, FS_Subset, FS_CardinalityType
  <2>5. IsFiniteSet(added) /\ Cardinality(added) = k
    <3>1. l + 1 \in Int /\ l + k \in Int
      BY <2>1
    <3>2. IsFiniteSet(added) /\ Cardinality(added) = IF l + 1 > l + k THEN 0 ELSE (l + k) - (l + 1) + 1
      BY <3>1, FS_Interval
    <3> HIDE DEF l, k, added
    <3> QED
      BY <2>1, <3>2
  <2>6. Cardinality(kept \cup added) = Cardinality(kept) + k
    <3>1. kept \cap added = {}
      BY <2>1
    <3> HIDE DEF kept, added, k
    <3>2. Cardinality(kept \cup added) = Cardinality(kept) + Cardinality(added) - Cardinality(kept \cap added)
      BY <2>4, <2>5, FS_Union
    <3>3. Cardinality({}) = 0
      BY FS_EmptySet
    <3>4. Cardinality(kept \cap added) = 0
      BY <3>1, <3>3, Zenon
    <3> QED
      BY <2>1, <2>4, <2>5, <3>2, <3>4
  <2>7. k = job[e].new + Cardinality(listed \ LiveVariants)
    BY DEF Added
  <2>8. Cardinality(listed \ LiveVariants) = Cardinality(listed) - Cardinality(kept)
    <3>1. kept = listed \cap LiveVariants
      OBVIOUS
    <3> HIDE DEF listed, kept
    <3> QED
      BY <2>4, <3>1, FS_Difference
  <2> HIDE DEF k, kept, listed, added, l
  <2> QED
    BY <2>1, <2>3, <2>4, <2>6, <2>7, <2>8 DEF listed
<1>2. TypeOK /\ OneSaveAtATime =>
        [\A e \in Editors : Commit(e) /\ job[e].sync =>
           Cardinality(LiveVariants') = Cardinality(job[e].variants) + job[e].new]_vars
  BY <1>1
<1> QED
  BY <1>2, TypeCorrect, SavesExclusive, PTL DEF Spec, SavedAsListed
=============================================================================
