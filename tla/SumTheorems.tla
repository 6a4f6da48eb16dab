----------------------------- MODULE SumTheorems ----------------------------
(***************************************************************************)
(* What SumTo and SumFunction compute.  The library's induction theorems   *)
(* quantify over an operator, which the provers cannot instantiate:        *)
(* NatSetInduction and SubsetInduction say the same of a set, and the      *)
(* lemmas go by them.                                                      *)
(***************************************************************************)
EXTENDS Sums, Functions, FiniteSetTheorems, WellFoundedInduction, TLAPS

(* Induction over the naturals: a set with 0 and closed under successor    *)
(* holds all of them.                                                      *)
LEMMA NatSetInduction ==
  ASSUME NEW S, 0 \in S, \A n \in Nat : n \in S => n+1 \in S
  PROVE  Nat \subseteq S
<1> DEFINE T == Nat \ S
<1>1. SUFFICES ASSUME T # {} PROVE FALSE
  OBVIOUS
<1>2. PICK x \in T : \A y \in T : ~(<<y, x>> \in OpToRel(<, Nat))
  BY <1>1, WFMin, NatLessThanWellFounded
<1>3. x \in Nat \ {0} /\ x-1 \in Nat
  OBVIOUS
<1>4. x-1 \notin T
  <2>1. <<x-1, x>> \in OpToRel(<, Nat)
    BY <1>3 DEF OpToRel
  <2> QED BY <2>1, <1>2
<1>5. (x-1)+1 \in S
  BY <1>3, <1>4
<1> QED BY <1>3, <1>5

-----------------------------------------------------------------------------
(* The recursive function under SumTo exists, and there is only one. *)

LOCAL Body(f, n, g) == [k \in 0..n |-> IF k = 0 THEN 0 ELSE g[k-1] + f[k]]
LOCAL IsPartialSums(f, n, g) == g = Body(f, n, g)

(* Two tables of partial sums agree wherever both are defined. *)
LEMMA PartialSumsUnique ==
  ASSUME NEW f, NEW n \in Nat, NEW m \in Nat, NEW g, NEW h,
         \A k \in 1..n : f[k] \in Int,
         IsPartialSums(f, n, g), IsPartialSums(f, m, h)
  PROVE  \A k \in Nat : k <= n /\ k <= m => g[k] \in Int /\ g[k] = h[k]
<1> DEFINE S == {k \in Nat : k <= n /\ k <= m => g[k] \in Int /\ g[k] = h[k]}
<1>1. 0 \in S
  BY DEF IsPartialSums, Body
<1>2. ASSUME NEW k \in Nat, k \in S PROVE k+1 \in S
  <2> SUFFICES ASSUME k+1 <= n, k+1 <= m
               PROVE  g[k+1] \in Int /\ g[k+1] = h[k+1]
    OBVIOUS
  <2>1. g[k+1] = g[k] + f[k+1] /\ h[k+1] = h[k] + f[k+1]
    BY DEF IsPartialSums, Body
  <2> QED BY <2>1, <1>2
<1> QED BY <1>1, <1>2, NatSetInduction

(* A table of partial sums exists up to every n. *)
LEMMA PartialSumsExist ==
  ASSUME NEW f, NEW n \in Nat, \A k \in 1..n : f[k] \in Int
  PROVE  \E g : IsPartialSums(f, n, g)
<1> DEFINE S == {m \in Nat : m <= n => \E g : IsPartialSums(f, m, g)}
<1>1. 0 \in S
  <2>1. IsPartialSums(f, 0, [k \in 0..0 |-> 0])
    BY DEF IsPartialSums, Body
  <2> QED BY <2>1
<1>2. ASSUME NEW m \in Nat, m \in S PROVE m+1 \in S
  <2> SUFFICES ASSUME m+1 <= n PROVE \E g : IsPartialSums(f, m+1, g)
    OBVIOUS
  <2>1. PICK g : IsPartialSums(f, m, g)
    BY <1>2
  <2> DEFINE h == [k \in 0..m+1 |-> IF k = m+1 THEN g[m] + f[m+1] ELSE g[k]]
  <2>2. ASSUME NEW k \in 0..m+1
        PROVE  h[k] = IF k = 0 THEN 0 ELSE h[k-1] + f[k]
    <3>1. CASE k = 0
      BY <3>1, <2>1 DEF IsPartialSums, Body
    <3>2. CASE k # 0 /\ k <= m
      BY <3>2, <2>1 DEF IsPartialSums, Body
    <3>3. CASE k = m+1
      BY <3>3
    <3> QED BY <3>1, <3>2, <3>3
  <2>3. IsPartialSums(f, m+1, h)
    BY <2>2 DEF IsPartialSums, Body
  <2> QED BY <2>3
<1>3. Nat \subseteq S
  <2> HIDE DEF S
  <2> QED BY <1>1, <1>2, NatSetInduction
<1> QED BY <1>3

(* SumTo reads the last entry of such a table. *)
LEMMA SumToIsPartialSum ==
  ASSUME NEW f, NEW n \in Nat, \A k \in 1..n : f[k] \in Int
  PROVE  \E g : IsPartialSums(f, n, g) /\ SumTo(f, n) = g[n]
<1> DEFINE s == CHOOSE g : g = [k \in 0..n |-> IF k = 0 THEN 0 ELSE g[k-1] + f[k]]
<1>1. SumTo(f, n) = s[n]
  BY DEF SumTo
<1>2. IsPartialSums(f, n, s)
  BY PartialSumsExist DEF IsPartialSums, Body
<1> QED BY <1>1, <1>2

-----------------------------------------------------------------------------

(* The empty sum. *)
LEMMA SumEmpty ==
  ASSUME NEW f
  PROVE  SumTo(f, 0) = 0
<1>1. PICK g : IsPartialSums(f, 0, g) /\ SumTo(f, 0) = g[0]
  BY SumToIsPartialSum
<1> QED BY <1>1 DEF IsPartialSums, Body

(* One more term. *)
LEMMA SumStep ==
  ASSUME NEW f, NEW n \in Nat, \A k \in 1..n+1 : f[k] \in Int
  PROVE  /\ SumTo(f, n) \in Int
         /\ SumTo(f, n+1) = SumTo(f, n) + f[n+1]
<1>1. PICK g : IsPartialSums(f, n, g) /\ SumTo(f, n) = g[n]
  BY SumToIsPartialSum
<1>2. PICK h : IsPartialSums(f, n+1, h) /\ SumTo(f, n+1) = h[n+1]
  BY SumToIsPartialSum
<1>3. g[n] \in Int /\ g[n] = h[n]
  BY <1>1, <1>2, PartialSumsUnique
<1>4. h[n+1] = h[n] + f[n+1]
  BY <1>2 DEF IsPartialSums, Body
<1> QED BY <1>1, <1>2, <1>3, <1>4

-----------------------------------------------------------------------------
(* A sum of naturals is a natural, and no term exceeds it. *)
LEMMA SumNat ==
  ASSUME NEW f, NEW n \in Nat, \A k \in 1..n : f[k] \in Nat
  PROVE  /\ SumTo(f, n) \in Nat
         /\ \A k \in 1..n : f[k] <= SumTo(f, n)
<1> DEFINE S == {m \in Nat : m <= n =>
                   /\ SumTo(f, m) \in Nat
                   /\ \A k \in 1..m : f[k] <= SumTo(f, m)}
<1>1. 0 \in S
  BY SumEmpty
<1>2. ASSUME NEW m \in Nat, m \in S PROVE m+1 \in S
  <2> SUFFICES ASSUME m+1 <= n
               PROVE  /\ SumTo(f, m+1) \in Nat
                      /\ \A k \in 1..m+1 : f[k] <= SumTo(f, m+1)
    OBVIOUS
  <2>1. SumTo(f, m+1) = SumTo(f, m) + f[m+1]
    BY SumStep
  <2>2. SumTo(f, m) \in Nat /\ \A k \in 1..m : f[k] <= SumTo(f, m)
    BY <1>2
  <2>3. f[m+1] \in Nat
    OBVIOUS
  <2>4. \A k \in 1..m+1 : k = m+1 \/ k \in 1..m
    OBVIOUS
  <2>5. \A k \in 1..m : f[k] \in Nat
    OBVIOUS
  <2> QED BY <2>1, <2>2, <2>3, <2>4, <2>5
<1>3. Nat \subseteq S
  <2> HIDE DEF S
  <2> QED BY <1>1, <1>2, NatSetInduction
<1> QED BY <1>3

(* A sum of integers is an integer. *)
LEMMA SumInt ==
  ASSUME NEW f, NEW n \in Nat, \A k \in 1..n : f[k] \in Int
  PROVE  SumTo(f, n) \in Int
<1>1. CASE n = 0
  BY <1>1, SumEmpty
<1>2. CASE n # 0
  <2>1. n-1 \in Nat /\ (n-1)+1 = n
    BY <1>2
  <2>2. SumTo(f, n-1) \in Int /\ SumTo(f, n) = SumTo(f, n-1) + f[n]
    BY <2>1, SumStep
  <2> QED BY <2>1, <2>2, <1>2
<1> QED BY <1>1, <1>2

(* Sums are added term by term. *)
LEMMA SumAdd ==
  ASSUME NEW f, NEW g, NEW h, NEW n \in Nat,
         \A k \in 1..n : f[k] \in Int /\ g[k] \in Int /\ h[k] = f[k] + g[k]
  PROVE  SumTo(h, n) = SumTo(f, n) + SumTo(g, n)
<1> DEFINE S == {m \in Nat : m <= n => SumTo(h, m) = SumTo(f, m) + SumTo(g, m)}
<1>1. 0 \in S
  BY SumEmpty
<1>2. ASSUME NEW m \in Nat, m \in S PROVE m+1 \in S
  <2> SUFFICES ASSUME m+1 <= n
               PROVE  SumTo(h, m+1) = SumTo(f, m+1) + SumTo(g, m+1)
    OBVIOUS
  <2>1. SumTo(f, m) \in Int /\ SumTo(f, m+1) = SumTo(f, m) + f[m+1]
    BY SumStep
  <2>2. SumTo(g, m) \in Int /\ SumTo(g, m+1) = SumTo(g, m) + g[m+1]
    BY SumStep
  <2>3. SumTo(h, m) \in Int /\ SumTo(h, m+1) = SumTo(h, m) + h[m+1]
    BY SumStep
  <2>4. f[m+1] \in Int /\ g[m+1] \in Int /\ h[m+1] = f[m+1] + g[m+1]
    OBVIOUS
  <2>5. SumTo(h, m) = SumTo(f, m) + SumTo(g, m)
    BY <1>2
  <2> QED BY <2>1, <2>2, <2>3, <2>4, <2>5
<1>3. Nat \subseteq S
  <2> HIDE DEF S
  <2> QED BY <1>1, <1>2, NatSetInduction
<1> QED BY <1>3

(* Equal terms, equal sums. *)
LEMMA SumEqual ==
  ASSUME NEW f, NEW g, NEW n \in Nat,
         \A k \in 1..n : f[k] \in Int /\ g[k] = f[k]
  PROVE  SumTo(g, n) = SumTo(f, n)
<1> DEFINE S == {m \in Nat : m <= n => SumTo(g, m) = SumTo(f, m)}
<1>1. 0 \in S
  BY SumEmpty
<1>2. ASSUME NEW m \in Nat, m \in S PROVE m+1 \in S
  <2> SUFFICES ASSUME m+1 <= n PROVE SumTo(g, m+1) = SumTo(f, m+1)
    OBVIOUS
  <2>1. SumTo(f, m+1) = SumTo(f, m) + f[m+1]
    BY SumStep
  <2>2. SumTo(g, m+1) = SumTo(g, m) + g[m+1]
    BY SumStep
  <2> QED BY <2>1, <2>2, <1>2
<1>3. Nat \subseteq S
  <2> HIDE DEF S
  <2> QED BY <1>1, <1>2, NatSetInduction
<1> QED BY <1>3

(* Nothing, summed. *)
LEMMA SumOfNothing ==
  ASSUME NEW f, NEW n \in Nat, \A k \in 1..n : f[k] = 0
  PROVE  SumTo(f, n) = 0
<1>1. SumTo(f, n) = SumTo(f, n) + SumTo(f, n)
  BY SumAdd
<1>2. SumTo(f, n) \in Nat
  BY SumNat
<1>3. \A x \in Nat : x = x + x => x = 0
  OBVIOUS
<1> QED BY ONLY <1>1, <1>2, <1>3

(* Smaller terms, a smaller sum. *)
LEMMA SumAtMost ==
  ASSUME NEW f, NEW g, NEW n \in Nat, \A k \in 1..n : f[k] \in Int /\ g[k] \in Int /\ f[k] <= g[k]
  PROVE  SumTo(f, n) <= SumTo(g, n)
<1> DEFINE d == [k \in 1..n |-> g[k] - f[k]]
<1>1. \A k \in 1..n : d[k] \in Nat /\ d[k] \in Int /\ g[k] = f[k] + d[k]
  OBVIOUS
<1> HIDE DEF d
<1>2. SumTo(g, n) = SumTo(f, n) + SumTo(d, n)
  BY <1>1, SumAdd
<1>3. SumTo(d, n) \in Nat /\ SumTo(f, n) \in Int
  BY <1>1, SumNat, SumInt
<1>4. \A x \in Int, y \in Nat : x <= x + y
  OBVIOUS
<1> QED BY ONLY <1>2, <1>3, <1>4

(* Terms covered by two others, a sum covered by their sums. *)
LEMMA SumCovers ==
  ASSUME NEW f, NEW g, NEW d, NEW n \in Nat,
         \A k \in 1..n : f[k] \in Int /\ g[k] \in Int /\ d[k] \in Int /\ f[k] <= g[k] + d[k]
  PROVE  SumTo(f, n) <= SumTo(g, n) + SumTo(d, n)
<1> DEFINE h == [k \in 1..n |-> g[k] + d[k]]
<1>1. \A k \in 1..n : h[k] = g[k] + d[k] /\ h[k] \in Int /\ f[k] <= h[k]
  OBVIOUS
<1> HIDE DEF h
<1>2. SumTo(h, n) = SumTo(g, n) + SumTo(d, n)
  BY <1>1, SumAdd
<1>3. SumTo(f, n) <= SumTo(h, n)
  BY <1>1, SumAtMost
<1> QED BY <1>2, <1>3

(* One term changes: so does the sum, by as much. *)
LEMMA SumChange ==
  ASSUME NEW f, NEW g, NEW n \in Nat, NEW j \in 1..n,
         g[j] \in Int,
         \A k \in 1..n : f[k] \in Int /\ (k # j => g[k] = f[k])
  PROVE  SumTo(g, n) = SumTo(f, n) + g[j] - f[j]
<1> DEFINE S == {m \in Nat : m <= n =>
                   SumTo(g, m) = IF j <= m THEN SumTo(f, m) + g[j] - f[j]
                                           ELSE SumTo(f, m)}
<1>1. 0 \in S
  BY SumEmpty
<1>2. ASSUME NEW m \in Nat, m \in S PROVE m+1 \in S
  <2> SUFFICES ASSUME m+1 <= n
               PROVE  SumTo(g, m+1) = IF j <= m+1 THEN SumTo(f, m+1) + g[j] - f[j]
                                                  ELSE SumTo(f, m+1)
    OBVIOUS
  <2>1. SumTo(f, m) \in Int /\ SumTo(f, m+1) = SumTo(f, m) + f[m+1]
    BY SumStep
  <2>2. SumTo(g, m) \in Int /\ SumTo(g, m+1) = SumTo(g, m) + g[m+1]
    BY SumStep
  <2>3. f[m+1] \in Int /\ f[j] \in Int /\ g[j] \in Int
        /\ (m+1 # j => g[m+1] = f[m+1])
    OBVIOUS
  <2>4. SumTo(g, m) = IF j <= m THEN SumTo(f, m) + g[j] - f[j] ELSE SumTo(f, m)
    BY <1>2
  <2>5. CASE m+1 = j
    BY <2>1, <2>2, <2>3, <2>4, <2>5
  <2>6. CASE m+1 # j
    BY <2>1, <2>2, <2>3, <2>4, <2>6
  <2> QED BY <2>5, <2>6
<1>3. Nat \subseteq S
  <2> HIDE DEF S
  <2> QED BY <1>1, <1>2, NatSetInduction
<1> QED BY <1>3

-----------------------------------------------------------------------------
(* The sum of a function on a finite set: the library's fold goes from a   *)
(* set to the set without an element of its own choice.                    *)

LOCAL Pick(s) == CHOOSE x \in s : TRUE
LOCAL FoldBody(f, A, g) ==
  [s \in SUBSET A |-> IF s = {} THEN 0 ELSE f[Pick(s)] + g[s \ {Pick(s)}]]
LOCAL IsFold(f, A, g) == g = FoldBody(f, A, g)

LEMMA PickType == \A s : s # {} => Pick(s) \in s
BY DEF Pick

LEMMA WithoutOne ==
  ASSUME NEW A, IsFiniteSet(A), NEW s \in SUBSET A
  PROVE  /\ Cardinality(s) \in Nat
         /\ Cardinality(s) = 0 <=> s = {}
         /\ \A x \in s : s \ {x} \in SUBSET A /\ Cardinality(s \ {x}) = Cardinality(s) - 1
<1>1. IsFiniteSet(s)
  BY FS_Subset
<1>2. Cardinality(s) \in Nat /\ (Cardinality(s) = 0 <=> s = {})
  BY <1>1, FS_CardinalityType, FS_EmptySet
<1>3. \A x \in s : Cardinality(s \ {x}) = Cardinality(s) - 1
  BY <1>1, FS_RemoveElement
<1> QED BY <1>2, <1>3

(* Induction over the subsets of a finite set, an element more each time. *)
LEMMA SubsetInduction ==
  ASSUME NEW A, IsFiniteSet(A), NEW U, {} \in U,
         \A s \in SUBSET A : s # {} /\ s \ {Pick(s)} \in U => s \in U
  PROVE  SUBSET A \subseteq U
<1> DEFINE N == {n \in Nat : \A s \in SUBSET A : Cardinality(s) = n => s \in U}
<1>1. 0 \in N
  BY WithoutOne
<1>2. ASSUME NEW n \in Nat, n \in N PROVE n + 1 \in N
  <2> SUFFICES ASSUME NEW s \in SUBSET A, Cardinality(s) = n + 1 PROVE s \in U
    OBVIOUS
  <2>1. s # {}
    BY WithoutOne
  <2>2. Pick(s) \in s
    BY <2>1, PickType
  <2>3. s \ {Pick(s)} \in SUBSET A /\ Cardinality(s \ {Pick(s)}) = (n + 1) - 1
    BY <2>2, WithoutOne
  <2>4. (n + 1) - 1 = n
    OBVIOUS
  <2>5. s \ {Pick(s)} \in U
    BY <1>2, <2>3, <2>4
  <2> QED BY <2>1, <2>5
<1>3. Nat \subseteq N
  <2> HIDE DEF N
  <2> QED BY <1>1, <1>2, NatSetInduction
<1> QED BY <1>3, WithoutOne

LEMMA FoldExists ==
  ASSUME NEW A, IsFiniteSet(A), NEW f
  PROVE  \E g : IsFold(f, A, g)
<1> DEFINE body(g) == FoldBody(f, A, g)
           upTo(n, g) == \A s \in SUBSET A : Cardinality(s) <= n => g[s] = body(g)[s]
           N == {n \in Nat : \E g : DOMAIN g = SUBSET A /\ g = [s \in SUBSET A |-> g[s]] /\ upTo(n, g)}
<1>1. 0 \in N
  <2> DEFINE g == [s \in SUBSET A |-> 0]
  <2>1. upTo(0, g)
    BY WithoutOne DEF FoldBody
  <2> QED BY <2>1
<1>2. ASSUME NEW n \in Nat, n \in N PROVE n + 1 \in N
  <2>1. PICK g : upTo(n, g)
    BY <1>2
  <2> DEFINE h == body(g)
  <2>2. DOMAIN h = SUBSET A /\ h = [s \in SUBSET A |-> h[s]]
    BY DEF FoldBody
  <2>3. ASSUME NEW s \in SUBSET A, Cardinality(s) <= n + 1 PROVE h[s] = body(h)[s]
    <3>1. CASE s = {}
      BY <3>1 DEF FoldBody
    <3>2. CASE s # {}
      <4> DEFINE t == s \ {Pick(s)}
      <4>1. t \in SUBSET A /\ Cardinality(t) <= n
        BY <2>3, <3>2, PickType, WithoutOne
      <4>2. h[t] = g[t]
        BY <2>1, <4>1
      <4>3. h[s] = f[Pick(s)] + g[t] /\ body(h)[s] = f[Pick(s)] + h[t]
        BY <3>2 DEF FoldBody
      <4> QED BY <4>2, <4>3
    <3> QED BY <3>1, <3>2
  <2>4. upTo(n + 1, h)
    BY <2>3
  <2> HIDE DEF h, upTo
  <2> QED BY <2>2, <2>4
<1>3. Nat \subseteq N
  <2> HIDE DEF N
  <2> QED BY <1>1, <1>2, NatSetInduction
<1>4. Cardinality(A) \in Nat
  BY FS_CardinalityType
<1>5. PICK g : DOMAIN g = SUBSET A /\ g = [s \in SUBSET A |-> g[s]] /\ upTo(Cardinality(A), g)
  BY <1>3, <1>4
<1>6. \A s \in SUBSET A : Cardinality(s) <= Cardinality(A)
  BY FS_Subset
<1>7. \A s \in SUBSET A : g[s] = body(g)[s]
  BY <1>5, <1>6
<1>8. g = body(g)
  BY <1>5, <1>7 DEF FoldBody
<1> QED BY <1>8 DEF IsFold

LEMMA SumIsFold ==
  ASSUME NEW A, IsFiniteSet(A), NEW f, DOMAIN f = A
  PROVE  \E g : IsFold(f, A, g) /\ SumFunction(f) = g[A]
<1> DEFINE fold == CHOOSE g : g = [s \in SUBSET A |->
                                     IF s = {} THEN 0
                                     ELSE f[CHOOSE x \in s : TRUE]
                                            + g[s \ {CHOOSE x \in s : TRUE}]]
<1>1. SumFunction(f) = fold[A]
  BY DEF SumFunction, SumFunctionOnSet, FoldFunctionOnSet, MapThenFoldSet
<1>2. \E g : IsFold(f, A, g)
  BY FoldExists
<1>3. fold = CHOOSE g : IsFold(f, A, g)
  BY DEF IsFold, FoldBody, Pick
<1> HIDE DEF fold
<1>4. IsFold(f, A, fold)
  BY <1>2, <1>3
<1> QED BY <1>1, <1>4

(* What a fold says of the empty set, and of a set and one element less. *)
LEMMA FoldEmpty ==
  ASSUME NEW A, NEW f, NEW g, IsFold(f, A, g)
  PROVE  g[{}] = 0
BY DEF IsFold, FoldBody

LEMMA FoldStep ==
  ASSUME NEW A, NEW f, NEW g, IsFold(f, A, g), NEW s \in SUBSET A, s # {}
  PROVE  /\ Pick(s) \in s
         /\ g[s] = f[Pick(s)] + g[s \ {Pick(s)}]
BY PickType DEF IsFold, FoldBody

LEMMA FoldInt ==
  ASSUME NEW A, IsFiniteSet(A), NEW f \in [A -> Int], NEW g, IsFold(f, A, g)
  PROVE  \A s \in SUBSET A : g[s] \in Int
<1> DEFINE U == {s \in SUBSET A : g[s] \in Int}
<1>1. {} \in U
  BY FoldEmpty
<1>2. ASSUME NEW s \in SUBSET A, s # {}, s \ {Pick(s)} \in U PROVE s \in U
  BY <1>2, FoldStep
<1> HIDE DEF U
<1>3. SUBSET A \subseteq U
  BY <1>1, <1>2, SubsetInduction
<1> QED BY <1>3 DEF U

LEMMA SumFunctionInt ==
  ASSUME NEW A, IsFiniteSet(A), NEW f \in [A -> Int]
  PROVE  SumFunction(f) \in Int
<1>1. DOMAIN f = A
  OBVIOUS
<1>2. PICK g : IsFold(f, A, g) /\ SumFunction(f) = g[A]
  BY <1>1, SumIsFold
<1> QED BY <1>2, FoldInt

(* Functions are added term by term. *)
LEMMA SumFunctionAdd ==
  ASSUME NEW A, IsFiniteSet(A), NEW f \in [A -> Int], NEW g \in [A -> Int], NEW h \in [A -> Int],
         \A a \in A : h[a] = f[a] + g[a]
  PROVE  SumFunction(h) = SumFunction(f) + SumFunction(g)
<1>1. DOMAIN f = A /\ DOMAIN g = A /\ DOMAIN h = A
  OBVIOUS
<1>2. PICK F : IsFold(f, A, F) /\ SumFunction(f) = F[A]
  BY <1>1, SumIsFold
<1>3. PICK G : IsFold(g, A, G) /\ SumFunction(g) = G[A]
  BY <1>1, SumIsFold
<1>4. PICK H : IsFold(h, A, H) /\ SumFunction(h) = H[A]
  BY <1>1, SumIsFold
<1>5. \A s \in SUBSET A : F[s] \in Int /\ G[s] \in Int
  BY <1>2, <1>3, FoldInt
<1> DEFINE U == {s \in SUBSET A : H[s] = F[s] + G[s]}
<1>6. {} \in U
  BY <1>2, <1>3, <1>4, FoldEmpty
<1>7. ASSUME NEW s \in SUBSET A, s # {}, s \ {Pick(s)} \in U PROVE s \in U
  <2> DEFINE x == Pick(s)
             t == s \ {x}
  <2>1. x \in A /\ t \in SUBSET A
    BY <1>7, PickType
  <2>2. F[s] = f[x] + F[t] /\ G[s] = g[x] + G[t] /\ H[s] = h[x] + H[t]
    <3>1. F[s] = f[x] + F[t]
      BY <1>2, <1>7, FoldStep
    <3>2. G[s] = g[x] + G[t]
      BY <1>3, <1>7, FoldStep
    <3>3. H[s] = h[x] + H[t]
      BY <1>4, <1>7, FoldStep
    <3> QED BY <3>1, <3>2, <3>3
  <2>3. f[x] \in Int /\ g[x] \in Int /\ F[t] \in Int /\ G[t] \in Int
    BY <1>5, <2>1
  <2>4. H[t] = F[t] + G[t] /\ h[x] = f[x] + g[x]
    BY <1>7, <2>1
  <2> HIDE DEF x, t
  <2>5. H[s] = F[s] + G[s]
    BY <2>2, <2>3, <2>4
  <2> QED BY <2>5
<1> HIDE DEF U
<1>8. SUBSET A \subseteq U
  BY <1>6, <1>7, SubsetInduction
<1> QED BY <1>2, <1>3, <1>4, <1>8 DEF U

(* A function that is 0 but at one place. *)
LEMMA SumFunctionOne ==
  ASSUME NEW A, IsFiniteSet(A), NEW b \in A, NEW n \in Int, NEW h,
         DOMAIN h = A, \A a \in A : h[a] = IF a = b THEN n ELSE 0
  PROVE  SumFunction(h) = n
<1>1. PICK H : IsFold(h, A, H) /\ SumFunction(h) = H[A]
  BY SumIsFold
<1> DEFINE U == {s \in SUBSET A : H[s] = IF b \in s THEN n ELSE 0}
<1>2. {} \in U
  BY <1>1, FoldEmpty
<1>3. ASSUME NEW s \in SUBSET A, s # {}, s \ {Pick(s)} \in U PROVE s \in U
  <2>1. Pick(s) \in s /\ H[s] = h[Pick(s)] + H[s \ {Pick(s)}]
    BY <1>1, <1>3, FoldStep
  <2>2. CASE Pick(s) = b
    BY <1>3, <2>1, <2>2
  <2>3. CASE Pick(s) # b
    BY <1>3, <2>1, <2>3
  <2> QED BY <2>2, <2>3
<1> HIDE DEF U
<1>4. SUBSET A \subseteq U
  BY <1>2, <1>3, SubsetInduction
<1> QED BY <1>1, <1>4 DEF U

LEMMA SumFunctionZero ==
  ASSUME NEW A, IsFiniteSet(A), NEW h, DOMAIN h = A, \A a \in A : h[a] = 0
  PROVE  SumFunction(h) = 0
<1>1. PICK H : IsFold(h, A, H) /\ SumFunction(h) = H[A]
  BY SumIsFold
<1> DEFINE U == {s \in SUBSET A : H[s] = 0}
<1>2. {} \in U
  BY <1>1, FoldEmpty
<1>3. ASSUME NEW s \in SUBSET A, s # {}, s \ {Pick(s)} \in U PROVE s \in U
  BY <1>1, <1>3, FoldStep
<1> HIDE DEF U
<1>4. SUBSET A \subseteq U
  BY <1>2, <1>3, SubsetInduction
<1> QED BY <1>1, <1>4 DEF U

(* The order in which a fold takes the elements does not matter. *)
LEMMA FoldAnyOrder ==
  ASSUME NEW A, IsFiniteSet(A), NEW f \in [A -> Int], NEW g, IsFold(f, A, g),
         NEW s \in SUBSET A, NEW x \in s
  PROVE  g[s] = f[x] + g[s \ {x}]
<1> DEFINE N == {n \in Nat : \A t \in SUBSET A : Cardinality(t) = n =>
                               \A y \in t : g[t] = f[y] + g[t \ {y}]}
<1>1. 0 \in N
  BY WithoutOne
<1>2. ASSUME NEW n \in Nat, n \in N PROVE n + 1 \in N
  <2> SUFFICES ASSUME NEW t \in SUBSET A, Cardinality(t) = n + 1, NEW y \in t
               PROVE  g[t] = f[y] + g[t \ {y}]
    OBVIOUS
  <2> DEFINE p == Pick(t)
  <2>1. p \in t /\ g[t] = f[p] + g[t \ {p}]
    BY FoldStep
  <2> HIDE DEF p
  <2>2. CASE y # p
    <3> DEFINE u == t \ {p}
               v == t \ {y}
               w == (t \ {p}) \ {y}
    <3>1. u \in SUBSET A /\ v \in SUBSET A /\ w \in SUBSET A
      OBVIOUS
    <3>2. Cardinality(u) = n /\ Cardinality(v) = n
      BY <2>1, WithoutOne
    <3>3. y \in u /\ p \in v /\ u \ {y} = w /\ v \ {p} = w
      BY <2>1, <2>2
    <3>4. g[u] = f[y] + g[w] /\ g[v] = f[p] + g[w]
      BY <1>2, <3>1, <3>2, <3>3
    <3>5. f[y] \in Int /\ f[p] \in Int /\ g[w] \in Int
      BY <2>1, <3>1, FoldInt
    <3>6. g[t] = f[p] + g[u]
      BY <2>1
    <3> HIDE DEF u, v, w
    <3>7. g[t] = f[y] + g[v]
      BY <3>4, <3>5, <3>6
    <3> QED BY <3>7 DEF v
  <2> QED BY <2>1, <2>2
<1> HIDE DEF N
<1>3. Nat \subseteq N
  BY <1>1, <1>2, NatSetInduction
<1>4. Cardinality(s) \in N
  BY <1>3, WithoutOne
<1> QED BY <1>4 DEF N

(* Zeros elsewhere add nothing. *)
LEMMA SumFunctionExtended ==
  ASSUME NEW A, NEW B, IsFiniteSet(B), A \subseteq B, NEW f \in [A -> Int], NEW h,
         DOMAIN h = B, \A b \in B : h[b] = IF b \in A THEN f[b] ELSE 0
  PROVE  SumFunction(h) = SumFunction(f)
<1>1. IsFiniteSet(A) /\ DOMAIN f = A
  BY FS_Subset
<1>2. PICK F : IsFold(f, A, F) /\ SumFunction(f) = F[A]
  BY <1>1, SumIsFold
<1>3. PICK H : IsFold(h, B, H) /\ SumFunction(h) = H[B]
  BY SumIsFold
<1>4. \A s \in SUBSET A : F[s] \in Int
  BY <1>1, <1>2, FoldInt
<1> DEFINE U == {s \in SUBSET B : H[s] = F[s \cap A]}
<1>5. {} \in U
  <2>1. {} \cap A = {}
    OBVIOUS
  <2> QED BY <1>2, <1>3, <2>1, FoldEmpty
<1>6. ASSUME NEW s \in SUBSET B, s # {}, s \ {Pick(s)} \in U PROVE s \in U
  <2> DEFINE p == Pick(s)
             t == s \ {p}
  <2>1. p \in s /\ H[s] = h[p] + H[t]
    BY <1>3, <1>6, FoldStep
  <2>2. H[t] = F[t \cap A]
    BY <1>6
  <2>3. CASE p \in A
    <3>1. p \in s \cap A /\ s \cap A \in SUBSET A /\ (s \cap A) \ {p} = t \cap A
      BY <2>1, <2>3
    <3>2. F[s \cap A] = f[p] + F[t \cap A]
      BY <1>1, <1>2, <3>1, FoldAnyOrder
    <3>3. h[p] = f[p]
      BY <2>1, <2>3
    <3> QED BY <2>1, <2>2, <3>2, <3>3
  <2>4. CASE p \notin A
    <3>1. s \cap A = t \cap A /\ t \cap A \in SUBSET A /\ h[p] = 0
      BY <2>1, <2>4
    <3>2. F[t \cap A] \in Int
      BY <1>4, <3>1
    <3> DEFINE rest == F[t \cap A]
    <3>3. H[s] = 0 + rest /\ rest \in Int /\ F[s \cap A] = rest
      BY <2>1, <2>2, <3>1, <3>2
    <3> HIDE DEF rest
    <3>4. H[s] = F[s \cap A]
      BY <3>3
    <3> QED BY <3>4
  <2> QED BY <2>3, <2>4
<1> HIDE DEF U
<1>7. SUBSET B \subseteq U
  BY <1>5, <1>6, SubsetInduction
<1>8. B \cap A = A
  OBVIOUS
<1> QED BY <1>2, <1>3, <1>7, <1>8 DEF U

(* The sum of a table, by columns and by rows. *)
LEMMA SumsSwap ==
  ASSUME NEW A, IsFiniteSet(A), NEW n \in Nat, NEW row,
         \A i \in 1..n : row[i] \in [A -> Int]
  PROVE  SumFunction([a \in A |-> SumTo([i \in 1..n |-> row[i][a]], n)])
           = SumTo([i \in 1..n |-> SumFunction(row[i])], n)
<1> DEFINE c == [a \in A |-> [i \in 1..n |-> row[i][a]]]
           total == [a \in A |-> SumTo(c[a], n)]
           sums == [i \in 1..n |-> SumFunction(row[i])]
           upTo(m) == [a \in A |-> SumTo(c[a], m)]
           S == {m \in Nat : m <= n => SumFunction(upTo(m)) = SumTo(sums, m)}
<1>1. \A i \in 1..n : sums[i] \in Int
  BY SumFunctionInt
<1>0. /\ \A a \in A : DOMAIN c[a] = 1..n /\ \A i \in 1..n : c[a][i] = row[i][a]
      /\ total = [a \in A |-> SumTo([i \in 1..n |-> row[i][a]], n)]
  OBVIOUS
<1> HIDE DEF c
<1>2. ASSUME NEW a \in A, NEW m \in Nat, m <= n
      PROVE  SumTo(c[a], m) \in Int
  <2>1. \A i \in 1..m : c[a][i] \in Int
    BY <1>0, <1>2
  <2> QED BY <2>1, SumInt
<1>3. 0 \in S
  <2>1. \A a \in A : upTo(0)[a] = 0
    BY SumEmpty
  <2>2. SumFunction(upTo(0)) = 0
    BY <2>1, SumFunctionZero
  <2> QED BY <2>2, SumEmpty
<1>4. ASSUME NEW m \in Nat, m \in S PROVE m + 1 \in S
  <2> SUFFICES ASSUME m + 1 <= n PROVE SumFunction(upTo(m + 1)) = SumTo(sums, m + 1)
    OBVIOUS
  <2>1. upTo(m) \in [A -> Int] /\ upTo(m + 1) \in [A -> Int]
    <3>1. \A a \in A : SumTo(c[a], m) \in Int /\ SumTo(c[a], m + 1) \in Int
      BY <1>2
    <3> QED BY <3>1
  <2>2. m + 1 \in 1..n /\ row[m + 1] \in [A -> Int]
    OBVIOUS
  <2>3. ASSUME NEW a \in A PROVE upTo(m + 1)[a] = upTo(m)[a] + row[m + 1][a]
    <3>1. \A i \in 1..m+1 : c[a][i] \in Int
      BY <1>0
    <3>2. SumTo(c[a], m + 1) = SumTo(c[a], m) + c[a][m + 1]
      BY <3>1, SumStep
    <3> QED BY <1>0, <2>2, <3>2
  <2> HIDE DEF upTo
  <2>4. SumFunction(upTo(m + 1)) = SumFunction(upTo(m)) + SumFunction(row[m + 1])
    <3> DEFINE f == upTo(m)
               g == row[m + 1]
               h == upTo(m + 1)
    <3>1. f \in [A -> Int] /\ g \in [A -> Int] /\ h \in [A -> Int]
      BY <2>1, <2>2
    <3>2. \A a \in A : h[a] = f[a] + g[a]
      BY <2>3
    <3>3. \A u, v, w \in [A -> Int] :
             (\A a \in A : w[a] = u[a] + v[a]) => SumFunction(w) = SumFunction(u) + SumFunction(v)
      BY SumFunctionAdd
    <3> HIDE DEF f, g, h
    <3>4. SumFunction(h) = SumFunction(f) + SumFunction(g)
      BY <3>1, <3>2, <3>3
    <3> QED BY <3>4 DEF f, g, h
  <2>5. SumTo(sums, m + 1) = SumTo(sums, m) + sums[m + 1]
    <3>1. \A i \in 1..m+1 : sums[i] \in Int
      BY <1>1
    <3> HIDE DEF sums
    <3> QED BY <3>1, SumStep
  <2>6. sums[m + 1] = SumFunction(row[m + 1])
    BY <2>2
  <2>7. SumFunction(upTo(m)) = SumTo(sums, m)
    BY <1>4
  <2> QED BY <2>4, <2>5, <2>6, <2>7
<1> HIDE DEF S
<1>5. Nat \subseteq S
  BY <1>3, <1>4, NatSetInduction
<1>6. n \in S
  BY <1>5
<1>7. total = upTo(n) /\ n <= n
  OBVIOUS
<1> HIDE DEF upTo, sums, total
<1>8. SumFunction(upTo(n)) = SumTo(sums, n)
  BY <1>6, <1>7 DEF S
<1> QED BY <1>0, <1>7, <1>8 DEF sums

LEMMA TimesSum == \A k, x, y \in Nat : k * (x + y) = k * x + k * y
OBVIOUS

(* A set counted class by class. *)
LEMMA SumOfClasses ==
  ASSUME NEW A, IsFiniteSet(A), NEW V, IsFiniteSet(V), NEW key \in [V -> A], NEW k \in Nat,
         NEW h, DOMAIN h = A, \A a \in A : h[a] = k * Cardinality({v \in V : key[v] = a})
  PROVE  SumFunction(h) = k * Cardinality(V)
<1> DEFINE class(a) == {v \in V : key[v] = a}
           within(s) == {v \in V : key[v] \in s}
<1>1. PICK H : IsFold(h, A, H) /\ SumFunction(h) = H[A]
  BY SumIsFold
<1>2. \A s : IsFiniteSet(within(s)) /\ Cardinality(within(s)) \in Nat
  <2>1. \A s : within(s) \in SUBSET V
    OBVIOUS
  <2> HIDE DEF within
  <2> QED BY <2>1, FS_Subset, FS_CardinalityType
<1>3. \A a : IsFiniteSet(class(a)) /\ Cardinality(class(a)) \in Nat
  <2>1. \A a : class(a) \in SUBSET V
    OBVIOUS
  <2> HIDE DEF class
  <2> QED BY <2>1, FS_Subset, FS_CardinalityType
<1>4. Cardinality({}) = 0 /\ k * 0 = 0
  BY FS_EmptySet
<1> DEFINE S == {s \in SUBSET A : H[s] = k * Cardinality(within(s))}
<1>5. {} \in S
  <2>1. within({}) = {}
    OBVIOUS
  <2>2. H[{}] = 0
    BY <1>1, FoldEmpty
  <2> QED BY <1>4, <2>1, <2>2
<1>6. ASSUME NEW s \in SUBSET A, s # {}, s \ {Pick(s)} \in S PROVE s \in S
  <2> DEFINE p == Pick(s)
             t == s \ {p}
  <2>1. p \in s /\ H[s] = h[p] + H[t]
    BY <1>1, <1>6, FoldStep
  <2>2. H[t] = k * Cardinality(within(t))
    BY <1>6
  <2>3. h[p] = k * Cardinality(class(p))
    BY <2>1
  <2>4. within(s) = class(p) \cup within(t) /\ class(p) \cap within(t) = {}
    BY <2>1
  <2> HIDE DEF p, t, class, within
  <2>5. Cardinality(within(s)) = Cardinality(class(p)) + Cardinality(within(t))
    <3> DEFINE X == class(p)
               Y == within(t)
    <3>1. /\ IsFiniteSet(X) /\ IsFiniteSet(Y) /\ within(s) = X \cup Y /\ X \cap Y = {}
          /\ Cardinality(X) \in Nat /\ Cardinality(Y) \in Nat
      BY <1>2, <1>3, <2>4
    <3> HIDE DEF X, Y
    <3>2. Cardinality(X \cup Y) = Cardinality(X) + Cardinality(Y) - Cardinality(X \cap Y)
      BY <3>1, FS_Union
    <3>3. Cardinality(X \cap Y) = 0 /\ Cardinality(within(s)) = Cardinality(X \cup Y)
      BY <1>4, <3>1
    <3> DEFINE x == Cardinality(X)
               y == Cardinality(Y)
    <3>4. x \in Nat /\ y \in Nat /\ Cardinality(within(s)) = x + y - 0
      BY <3>1, <3>2, <3>3
    <3> HIDE DEF x, y
    <3>5. Cardinality(within(s)) = x + y
      BY <3>4
    <3> QED BY <3>5 DEF X, Y, x, y
  <2>6. k * Cardinality(within(s)) = k * Cardinality(class(p)) + k * Cardinality(within(t))
    BY <1>2, <1>3, <2>5, TimesSum
  <2>7. H[s] = k * Cardinality(within(s))
    BY <2>1, <2>2, <2>3, <2>6
  <2> QED BY <2>7
<1>7. SUBSET A \subseteq S
  <2> HIDE DEF S
  <2> QED BY <1>5, <1>6, SubsetInduction
<1>8. within(A) = V
  OBVIOUS
<1> HIDE DEF within
<1>9. H[A] = k * Cardinality(within(A))
  BY <1>7
<1> QED BY <1>1, <1>8, <1>9

LEMMA PartIsFold ==
  ASSUME NEW A, IsFiniteSet(A), NEW f
  PROVE  \E g : IsFold(f, A, g) /\ SumFunctionOnSet(f, A) = g[A]
<1> DEFINE fold == CHOOSE g : g = [s \in SUBSET A |->
                                     IF s = {} THEN 0
                                     ELSE f[CHOOSE x \in s : TRUE]
                                            + g[s \ {CHOOSE x \in s : TRUE}]]
<1>1. SumFunctionOnSet(f, A) = fold[A]
  BY DEF SumFunctionOnSet, FoldFunctionOnSet, MapThenFoldSet
<1>2. \E g : IsFold(f, A, g)
  BY FoldExists
<1>3. fold = CHOOSE g : IsFold(f, A, g)
  BY DEF IsFold, FoldBody, Pick
<1> HIDE DEF fold
<1>4. IsFold(f, A, fold)
  BY <1>2, <1>3
<1> QED BY <1>1, <1>4

LEMMA SumOnPart ==
  ASSUME NEW P, IsFiniteSet(P), NEW f, NEW part, DOMAIN part = P, \A a \in P : part[a] = f[a]
  PROVE  SumFunctionOnSet(f, P) = SumFunction(part)
<1>1. PICK F : IsFold(f, P, F) /\ SumFunctionOnSet(f, P) = F[P]
  BY PartIsFold
<1>2. PICK G : IsFold(part, P, G) /\ SumFunction(part) = G[P]
  BY SumIsFold
<1> DEFINE U == {s \in SUBSET P : F[s] = G[s]}
<1>3. {} \in U
  BY <1>1, <1>2, FoldEmpty
<1>4. ASSUME NEW s \in SUBSET P, s # {}, s \ {Pick(s)} \in U PROVE s \in U
  <2>1. Pick(s) \in s /\ F[s] = f[Pick(s)] + F[s \ {Pick(s)}]
    BY <1>1, <1>4, FoldStep
  <2>2. G[s] = part[Pick(s)] + G[s \ {Pick(s)}]
    BY <1>2, <1>4, FoldStep
  <2> QED BY <1>4, <2>1, <2>2
<1> HIDE DEF U
<1>5. SUBSET P \subseteq U
  BY <1>3, <1>4, SubsetInduction
<1> QED BY <1>1, <1>2, <1>5 DEF U

(* The part of a sum that falls on a set of its indices is what the sum    *)
(* loses when these become zero.                                           *)
LEMMA SumOverPart ==
  ASSUME NEW A, IsFiniteSet(A), NEW f \in [A -> Int], NEW P \in SUBSET A,
         NEW g \in [A -> Int], \A a \in A : g[a] = IF a \in P THEN 0 ELSE f[a]
  PROVE  SumFunctionOnSet(f, P) = SumFunction(f) - SumFunction(g)
<1> DEFINE part == [a \in P |-> f[a]]
           kept == [a \in A |-> IF a \in P THEN part[a] ELSE 0]
<1>1. IsFiniteSet(P) /\ part \in [P -> Int] /\ DOMAIN part = P
  BY FS_Subset
<1>2. \A a \in P : part[a] = f[a]
  OBVIOUS
<1>3. kept \in [A -> Int] /\ DOMAIN kept = A /\ g \in [A -> Int]
  OBVIOUS
<1>4. /\ \A a \in A : kept[a] = IF a \in P THEN part[a] ELSE 0
      /\ \A a \in A : f[a] = kept[a] + g[a]
  OBVIOUS
<1> HIDE DEF part, kept
<1>5. SumFunctionOnSet(f, P) = SumFunction(part)
  BY <1>1, <1>2, SumOnPart
<1>6. SumFunction(kept) = SumFunction(part)
  BY <1>1, <1>3, <1>4, SumFunctionExtended
<1>7. SumFunction(f) = SumFunction(kept) + SumFunction(g)
  BY <1>3, <1>4, SumFunctionAdd
<1>8. SumFunction(kept) \in Int /\ SumFunction(g) \in Int
  BY <1>3, SumFunctionInt
<1> QED BY <1>5, <1>6, <1>7, <1>8

(* A sum over indices that have numbers is the sum in their order. *)
LEMMA SumOfNumbered ==
  ASSUME NEW A, IsFiniteSet(A), NEW f \in [A -> Int], NEW n \in Nat, NEW key,
         \A i \in 1..n : key[i] \in A,
         \A i, j \in 1..n : key[i] = key[j] => i = j,
         NEW h \in [A -> Int],
         \A a \in A : h[a] = IF \E i \in 1..n : a = key[i] THEN f[a] ELSE 0,
         NEW value, \A i \in 1..n : value[i] = f[key[i]]
  PROVE  SumFunction(h) = SumTo(value, n)
<1> DEFINE upTo(m) == [a \in A |-> IF \E i \in 1..m : a = key[i] THEN f[a] ELSE 0]
           S == {m \in Nat : m <= n => SumFunction(upTo(m)) = SumTo(value, m)}
<1>1. \A i \in 1..n : value[i] \in Int /\ value[i] = f[key[i]]
  OBVIOUS
<1>2. \A m : upTo(m) \in [A -> Int]
  OBVIOUS
<1>3. 0 \in S
  <2>1. DOMAIN upTo(0) = A /\ \A a \in A : upTo(0)[a] = 0
    OBVIOUS
  <2>2. SumFunction(upTo(0)) = 0
    BY <2>1, SumFunctionZero
  <2> QED BY <2>2, SumEmpty
<1>4. ASSUME NEW m \in Nat, m \in S PROVE m + 1 \in S
  <2> SUFFICES ASSUME m + 1 <= n PROVE SumFunction(upTo(m + 1)) = SumTo(value, m + 1)
    OBVIOUS
  <2> DEFINE one == [a \in A |-> IF a = key[m + 1] THEN value[m + 1] ELSE 0]
  <2>1. m + 1 \in 1..n /\ 1..m \subseteq 1..n /\ \A i \in 1..m+1 : i \in 1..m \/ i = m + 1
    OBVIOUS
  <2>2. key[m + 1] \in A /\ value[m + 1] \in Int /\ one \in [A -> Int] /\ DOMAIN one = A
    BY <1>1, <2>1
  <2>3. \A a \in A : one[a] = IF a = key[m + 1] THEN value[m + 1] ELSE 0
    OBVIOUS
  <2>4. SumFunction(one) = value[m + 1]
    <3> HIDE DEF one
    <3> QED BY <2>2, <2>3, SumFunctionOne
  <2>5. ASSUME NEW a \in A PROVE upTo(m + 1)[a] = upTo(m)[a] + one[a]
    <3>1. f[a] \in Int
      OBVIOUS
    <3>2. CASE a = key[m + 1]
      <4>1. \A i \in 1..m : a # key[i]
        BY <2>1, <3>2
      <4>2. one[a] = f[a] /\ upTo(m)[a] = 0
        BY <1>1, <2>1, <3>2, <4>1
      <4>3. upTo(m + 1)[a] = f[a]
        BY <2>1, <3>2
      <4> QED BY <3>1, <4>2, <4>3
    <3>3. CASE a # key[m + 1]
      <4>1. one[a] = 0
        BY <3>3
      <4>2. (\E i \in 1..m+1 : a = key[i]) <=> (\E i \in 1..m : a = key[i])
        BY <2>1, <3>3
      <4>3. upTo(m + 1)[a] = upTo(m)[a] /\ upTo(m)[a] \in Int
        BY <1>2, <4>2
      <4> QED BY <4>1, <4>3
    <3> QED BY <3>2, <3>3
  <2>6. SumFunction(upTo(m + 1)) = SumFunction(upTo(m)) + SumFunction(one)
    <3> DEFINE x == upTo(m)
               y == upTo(m + 1)
    <3>1. x \in [A -> Int] /\ y \in [A -> Int] /\ \A a \in A : y[a] = x[a] + one[a]
      BY <1>2, <2>5
    <3> HIDE DEF x, y, one, upTo
    <3>2. SumFunction(y) = SumFunction(x) + SumFunction(one)
      BY <2>2, <3>1, SumFunctionAdd
    <3> QED BY <3>2 DEF x, y
  <2>7. SumTo(value, m + 1) = SumTo(value, m) + value[m + 1]
    <3>1. \A i \in 1..m+1 : value[i] \in Int
      BY <1>1
    <3> QED BY <3>1, SumStep
  <2>8. SumFunction(upTo(m)) = SumTo(value, m)
    BY <1>4
  <2> HIDE DEF upTo, one
  <2> QED BY <2>4, <2>6, <2>7, <2>8
<1> HIDE DEF S
<1>5. n \in S
  BY <1>3, <1>4, NatSetInduction
<1>6. h = upTo(n)
  OBVIOUS
<1> HIDE DEF upTo
<1> QED BY <1>5, <1>6 DEF S

=============================================================================
