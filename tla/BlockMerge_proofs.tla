-------------------------- MODULE BlockMerge_proofs --------------------------
(***************************************************************************)
(* What the recursive operators of the block merge compute, for documents  *)
(* of any length and any keys.                                             *)
(*                                                                         *)
(* Induction is over sets: a set of naturals that is not empty has a least *)
(* element, and from that follow induction up to a bound, induction along  *)
(* a rank, and that a recursive definition whose every value depends on    *)
(* values of smaller rank has a solution.                                  *)
(***************************************************************************)
EXTENDS BlockMerge, FiniteSetTheorems, WellFoundedInduction, SequenceTheorems, TLAPS

-----------------------------------------------------------------------------
(***************************************************************************)
(* Induction and recursion.                                                *)
(***************************************************************************)

LEMMA LeastNatural ==
    ASSUME NEW T \in SUBSET Nat, T # {}
    PROVE  \E n \in T : \A m \in T : n <= m
<1>1. IsWellFoundedOn(OpToRel(<, Nat), Nat)
  BY NatLessThanWellFounded
<1>2. PICK n \in T : \A m \in T : <<m, n>> \notin OpToRel(<, Nat)
  <2> DEFINE R == OpToRel(<, Nat)
  <2>1. IsWellFoundedOn(R, Nat)
    BY <1>1
  <2> HIDE DEF R
  <2>2. \E x \in T : \A y \in T : ~(<<y, x>> \in R)
    BY <2>1, WFMin
  <2> QED
    BY <2>2 DEF R
<1>3. \A m \in T : ~(m < n)
  BY <1>2, Zenon DEF OpToRel
<1> QED
  BY <1>3

\* Induction up to n.
LEMMA InductionTo ==
    ASSUME NEW n \in Nat, NEW T, 0 \in T, \A i \in 1 .. n : i - 1 \in T => i \in T
    PROVE  \A i \in 0 .. n : i \in T
<1> DEFINE U == {i \in 0 .. n : i \notin T}
<1> SUFFICES ASSUME U # {} PROVE FALSE
  OBVIOUS
<1>1. PICK k \in U : \A m \in U : k <= m
  <2>1. U \in SUBSET Nat
    OBVIOUS
  <2> HIDE DEF U
  <2> QED
    BY <2>1, LeastNatural
<1>2. k \in 1 .. n
  BY <1>1
<1>3. k - 1 \in 0 .. n /\ k - 1 \notin U
  BY <1>1, <1>2
<1> QED
  BY <1>1, <1>2, <1>3

\* T holds at a place whenever it holds at the places of smaller rank.
RankStep(S, T, rank) == \A x \in S : (\A y \in S : rank[y] < rank[x] => y \in T) => x \in T

\* Induction along a rank.
LEMMA RankInduction ==
    ASSUME NEW S, NEW n \in Nat, NEW rank \in [S -> 0 .. n], NEW T, RankStep(S, T, rank)
    PROVE  \A x \in S : x \in T
<1> DEFINE U == {k \in 0 .. n : \E x \in S : rank[x] = k /\ x \notin T}
<1> SUFFICES ASSUME NEW z \in S, z \notin T PROVE FALSE
  OBVIOUS
<1>1. rank[z] \in U
  OBVIOUS
<1>2. PICK k \in U : \A m \in U : k <= m
  <2>1. U \in SUBSET Nat /\ U # {}
    BY <1>1
  <2> HIDE DEF U
  <2> QED
    BY <2>1, LeastNatural
<1>3. PICK x \in S : rank[x] = k /\ x \notin T
  BY <1>2
<1>4. \A y \in S : rank[y] < rank[x] => y \in T
  <2> SUFFICES ASSUME NEW y \in S, rank[y] < rank[x], y \notin T PROVE FALSE
    OBVIOUS
  <2>1. rank[y] \in U
    OBVIOUS
  <2> QED
    BY <1>2, <1>3, <2>1
<1> QED
  BY <1>3, <1>4 DEF RankStep

\* What F makes of a function at x depends on the values of smaller rank only.
FollowsRank(S, V, rank, F) ==
    \A x \in S, g, h \in [S -> V] :
       (\A y \in S : rank[y] < rank[x] => g[y] = h[y]) => F[<<x, g>>] = F[<<x, h>>]

HasSolution(S, V, F) == \E f \in [S -> V] : \A x \in S : f[x] = F[<<x, f>>]

\* A function that is defined from its own values of smaller rank exists.
LEMMA RecursionExists ==
    ASSUME NEW S, NEW V, NEW v \in V, NEW n \in Nat, NEW rank \in [S -> 0 .. n],
           NEW F \in [S \X [S -> V] -> V], FollowsRank(S, V, rank, F)
    PROVE  HasSolution(S, V, F)
<1> DEFINE Solves(g, k) == \A x \in S : rank[x] < k => g[x] = F[<<x, g>>]
           T == {k \in 0 .. n + 1 : \E g \in [S -> V] : Solves(g, k)}
<1>1. 0 \in T
  <2>1. [x \in S |-> v] \in [S -> V]
    OBVIOUS
  <2>2. Solves([x \in S |-> v], 0)
    OBVIOUS
  <2>3. 0 \in 0 .. n + 1
    OBVIOUS
  <2> HIDE DEF Solves
  <2> QED
    BY <2>1, <2>2, <2>3
<1>2. ASSUME NEW k \in 1 .. n + 1, k - 1 \in T PROVE k \in T
  <2>1. PICK g \in [S -> V] : Solves(g, k - 1)
    BY <1>2
  <2> DEFINE h == [x \in S |-> F[<<x, g>>]]
  <2>2. h \in [S -> V]
    OBVIOUS
  <2>3. \A x \in S : rank[x] < k - 1 => g[x] = h[x]
    BY <2>1
  <2>4. ASSUME NEW x \in S, rank[x] < k PROVE h[x] = F[<<x, h>>]
    <3>1. \A y \in S : rank[y] < rank[x] => g[y] = h[y]
      BY <2>3, <2>4
    <3> HIDE DEF h
    <3>2. F[<<x, g>>] = F[<<x, h>>]
      BY <2>2, <3>1 DEF FollowsRank
    <3> QED
      BY <3>2 DEF h
  <2>5. Solves(h, k)
    BY <2>4
  <2> HIDE DEF h, Solves
  <2> QED
    BY <2>2, <2>5
<1>3. n + 1 \in T
  <2>1. \A k \in 0 .. n + 1 : k \in T
    <3>1. n + 1 \in Nat
      OBVIOUS
    <3> HIDE DEF T
    <3> QED
      BY <1>1, <1>2, <3>1, InductionTo
  <2>2. n + 1 \in 0 .. n + 1
    OBVIOUS
  <2> HIDE DEF T
  <2> QED
    BY <2>1, <2>2
<1>4. PICK f \in [S -> V] : Solves(f, n + 1)
  BY <1>3
<1> QED
  BY <1>4 DEF HasSolution

\* The same along the naturals up to n.
Iterates(n, V, v, G) ==
    \E f \in [0 .. n -> V] : f[0] = v /\ \A i \in 1 .. n : f[i] = G[<<i, f[i - 1]>>]

LEMMA RecursionTo ==
    ASSUME NEW n \in Nat, NEW V, NEW v \in V, NEW G \in [(1 .. n) \X V -> V]
    PROVE  Iterates(n, V, v, G)
<1> DEFINE S == 0 .. n
           rank == [i \in S |-> i]
           F == [x \in S \X [S -> V] |-> IF x[1] = 0 THEN v ELSE G[<<x[1], x[2][x[1] - 1]>>]]
<1>1. rank \in [S -> 0 .. n]
  OBVIOUS
<1>2. F \in [S \X [S -> V] -> V]
  <2> SUFFICES ASSUME NEW x \in S \X [S -> V], x[1] # 0 PROVE G[<<x[1], x[2][x[1] - 1]>>] \in V
    OBVIOUS
  <2>1. x[1] \in 1 .. n /\ x[1] - 1 \in S /\ x[2] \in [S -> V]
    OBVIOUS
  <2>2. x[2][x[1] - 1] \in V
    BY <2>1
  <2> QED
    BY <2>1, <2>2
<1>3. ASSUME NEW x \in S, NEW g \in [S -> V], NEW h \in [S -> V],
             \A y \in S : rank[y] < rank[x] => g[y] = h[y]
      PROVE  F[<<x, g>>] = F[<<x, h>>]
  <2>1. CASE x = 0
    BY <2>1
  <2>2. CASE x # 0
    <3>1. x - 1 \in S /\ rank[x - 1] < rank[x]
      BY <2>2
    <3>2. g[x - 1] = h[x - 1]
      BY <1>3, <3>1
    <3> QED
      BY <2>2, <3>2
  <2> QED
    BY <2>1, <2>2
<1>4. PICK f \in [S -> V] : \A x \in S : f[x] = F[<<x, f>>]
  <2> HIDE DEF S, F, rank
  <2>1. FollowsRank(S, V, rank, F)
    BY <1>3 DEF FollowsRank
  <2>2. HasSolution(S, V, F)
    BY <1>1, <1>2, <2>1, RecursionExists
  <2> QED
    BY <2>2 DEF HasSolution
<1>5. \A i \in S : F[<<i, f>>] = IF i = 0 THEN v ELSE G[<<i, f[i - 1]>>]
  OBVIOUS
<1>6. f \in [0 .. n -> V] /\ f[0] = v /\ \A i \in 1 .. n : f[i] = G[<<i, f[i - 1]>>]
  <2>1. 0 \in S /\ \A i \in 1 .. n : i \in S /\ i # 0
    OBVIOUS
  <2> HIDE DEF F
  <2> QED
    BY <1>4, <1>5, <2>1
<1> QED
  BY <1>6 DEF Iterates

-----------------------------------------------------------------------------
(***************************************************************************)
(* The longest common subsequence.                                         *)
(***************************************************************************)

LEMMA LargestNatural ==
    ASSUME NEW n \in Nat, NEW T \in SUBSET (0 .. n), T # {}
    PROVE  Max(T) \in T /\ \A t \in T : t <= Max(T)
<1>1. PICK u \in {n - t : t \in T} : \A w \in {n - t : t \in T} : u <= w
  <2>1. {n - t : t \in T} \in SUBSET Nat
    OBVIOUS
  <2>2. {n - t : t \in T} # {}
    <3>1. PICK t \in T : TRUE
      OBVIOUS
    <3>2. n - t \in {n - r : r \in T}
      OBVIOUS
    <3> QED
      BY <3>2
  <2> QED
    BY <2>1, <2>2, LeastNatural
<1>2. PICK x \in T : u = n - x
  BY <1>1
<1>3. \A t \in T : x >= t
  BY <1>1, <1>2
<1>4. Max(T) \in T /\ \A t \in T : Max(T) >= t
  BY <1>3, Zenon DEF Max
<1> QED
  BY <1>4

LEMMA LargerOfTwo ==
    ASSUME NEW x \in Nat, NEW y \in Nat
    PROVE  Max({x, y}) = IF x >= y THEN x ELSE y
<1>1. \E z \in {x, y} : \A w \in {x, y} : z >= w
  OBVIOUS
<1>2. Max({x, y}) \in {x, y} /\ \A w \in {x, y} : Max({x, y}) >= w
  BY <1>1, Zenon DEF Max
<1> QED
  BY <1>2

LEMMA SmallerOfTwo ==
    ASSUME NEW x \in Nat, NEW y \in Nat
    PROVE  Min({x, y}) = IF x <= y THEN x ELSE y
<1>1. \E z \in {x, y} : \A w \in {x, y} : z <= w
  OBVIOUS
<1>2. Min({x, y}) \in {x, y} /\ \A w \in {x, y} : Min({x, y}) <= w
  BY <1>1, Zenon DEF Min
<1> QED
  BY <1>2

\* The table and the walk are computed from the end.
Rank(a, b) == [x \in Places(a, b) |-> (Len(a) + 1 - x[1]) + (Len(b) + 1 - x[2])]
Inside(a, b, x) == x[1] <= Len(a) /\ x[2] <= Len(b)

\* Numbers, apart from the sequences they count.
LEMMA SameAfterShift ==
    ASSUME NEW i \in Nat, NEW k \in Nat, NEW m \in Nat, i - m = k - m
    PROVE  i = k
OBVIOUS

LEMMA SameDistance ==
    ASSUME NEW i \in Nat, NEW j \in Nat, NEW k \in Nat, NEW l \in Nat, NEW n \in Nat, NEW m \in Nat,
           i < k <=> j < l, k < i <=> l < j,
           (IF n - i <= m - j THEN n - i + 1 ELSE m - j + 1) = (IF n - k <= m - l THEN n - k + 1 ELSE m - l + 1)
    PROVE  i = k /\ j = l
OBVIOUS

LEMMA PlaceFacts ==
    ASSUME NEW K, NEW a \in Seq(K), NEW b \in Seq(K)
    PROVE  /\ Len(a) \in Nat /\ Len(b) \in Nat /\ Len(a) + Len(b) \in Nat
           /\ <<1, 1>> \in Places(a, b)
           /\ Rank(a, b) \in [Places(a, b) -> 0 .. Len(a) + Len(b)]
           /\ \A x \in Places(a, b) :
                 x[1] \in 1 .. Len(a) + 1 /\ x[2] \in 1 .. Len(b) + 1 /\ x = <<x[1], x[2]>>
<1>1. Len(a) \in Nat /\ Len(b) \in Nat
  OBVIOUS
<1>2. <<1, 1>> \in Places(a, b)
  BY <1>1 DEF Places
<1>3. Rank(a, b) \in [Places(a, b) -> 0 .. Len(a) + Len(b)]
  <2> SUFFICES ASSUME NEW x \in Places(a, b)
               PROVE  (Len(a) + 1 - x[1]) + (Len(b) + 1 - x[2]) \in 0 .. Len(a) + Len(b)
    BY DEF Rank
  <2> QED
    BY <1>1 DEF Places
<1>4. \A x \in Places(a, b) : x[1] \in 1 .. Len(a) + 1 /\ x[2] \in 1 .. Len(b) + 1 /\ x = <<x[1], x[2]>>
  BY <1>1 DEF Places
<1> QED
  BY <1>1, <1>2, <1>3, <1>4

LEMMA AnyPlace ==
    ASSUME NEW K, NEW a \in Seq(K), NEW b \in Seq(K), NEW x \in Places(a, b)
    PROVE  /\ x[1] \in Nat /\ x[2] \in Nat /\ Len(a) \in Nat /\ Len(b) \in Nat
           /\ ~Inside(a, b, x) <=> x[1] > Len(a) \/ x[2] > Len(b)
<1>1. x[1] \in Nat /\ x[2] \in Nat /\ Len(a) \in Nat /\ Len(b) \in Nat
  BY PlaceFacts
<1> QED
  BY <1>1 DEF Inside

\* The places that a place inside looks at.
Both(x) == <<x[1] + 1, x[2] + 1>>
Down(x) == <<x[1] + 1, x[2]>>
Right(x) == <<x[1], x[2] + 1>>

LEMMA NextPlaces ==
    ASSUME NEW K, NEW a \in Seq(K), NEW b \in Seq(K), NEW x \in Places(a, b), Inside(a, b, x)
    PROVE  /\ x[1] \in 1 .. Len(a) /\ x[2] \in 1 .. Len(b)
           /\ Both(x) \in Places(a, b) /\ Rank(a, b)[Both(x)] < Rank(a, b)[x]
           /\ Down(x) \in Places(a, b) /\ Rank(a, b)[Down(x)] < Rank(a, b)[x]
           /\ Right(x) \in Places(a, b) /\ Rank(a, b)[Right(x)] < Rank(a, b)[x]
<1>1. /\ x[1] \in Nat /\ x[2] \in Nat /\ Len(a) \in Nat /\ Len(b) \in Nat
      /\ x[1] \in 1 .. Len(a) /\ x[2] \in 1 .. Len(b)
  BY PlaceFacts DEF Inside
<1>2. Both(x) \in Places(a, b) /\ Down(x) \in Places(a, b) /\ Right(x) \in Places(a, b)
  BY <1>1 DEF Places, Both, Down, Right
<1>3. Rank(a, b)[x] = (Len(a) + 1 - x[1]) + (Len(b) + 1 - x[2])
  BY DEF Rank
<1>4. Rank(a, b)[Both(x)] = (Len(a) + 1 - (x[1] + 1)) + (Len(b) + 1 - (x[2] + 1))
  BY <1>2 DEF Rank, Both
<1>5. Rank(a, b)[Down(x)] = (Len(a) + 1 - (x[1] + 1)) + (Len(b) + 1 - x[2])
  BY <1>2 DEF Rank, Down
<1>6. Rank(a, b)[Right(x)] = (Len(a) + 1 - x[1]) + (Len(b) + 1 - (x[2] + 1))
  BY <1>2 DEF Rank, Right
<1>7. /\ Rank(a, b)[Both(x)] < Rank(a, b)[x]
      /\ Rank(a, b)[Down(x)] < Rank(a, b)[x]
      /\ Rank(a, b)[Right(x)] < Rank(a, b)[x]
  <2> DEFINE i == x[1]
             j == x[2]
             n == Len(a)
             m == Len(b)
             r == Rank(a, b)[x]
             both == Rank(a, b)[Both(x)]
             down == Rank(a, b)[Down(x)]
             right == Rank(a, b)[Right(x)]
  <2> SUFFICES both < r /\ down < r /\ right < r
    OBVIOUS
  <2>1. i \in Nat /\ j \in Nat /\ n \in Nat /\ m \in Nat
    BY <1>1
  <2>2. /\ r = (n + 1 - i) + (m + 1 - j)
        /\ both = (n + 1 - (i + 1)) + (m + 1 - (j + 1))
        /\ down = (n + 1 - (i + 1)) + (m + 1 - j)
        /\ right = (n + 1 - i) + (m + 1 - (j + 1))
    BY <1>3, <1>4, <1>5, <1>6, Zenon
  <2> HIDE DEF i, j, n, m, r, both, down, right
  <2> QED
    BY <2>1, <2>2
<1> QED
  BY <1>1, <1>2, <1>7

LEMMA TableRecursion ==
    ASSUME NEW K, NEW a \in Seq(K), NEW b \in Seq(K), NEW x \in Places(a, b)
    PROVE  LET length == LcsTable(a, b)
           IN  /\ length[x] \in Nat
               /\ ~Inside(a, b, x) => length[x] = 0
               /\ Inside(a, b, x) /\ a[x[1]] = b[x[2]] => length[x] = length[Both(x)] + 1
               /\ Inside(a, b, x) /\ a[x[1]] # b[x[2]] =>
                     /\ length[x] >= length[Down(x)]
                     /\ length[x] >= length[Right(x)]
                     /\ length[x] \in {length[Down(x)], length[Right(x)]}
<1> DEFINE S == Places(a, b)
           n == Len(a) + Len(b)
           Body(y, g) == IF y[1] > Len(a) \/ y[2] > Len(b) THEN 0
                         ELSE IF a[y[1]] = b[y[2]] THEN g[Both(y)] + 1
                         ELSE Max({g[Down(y)], g[Right(y)]})
           F == [z \in S \X [S -> Nat] |-> Body(z[1], z[2])]
           length == LcsTable(a, b)
<1>0. n \in Nat /\ Rank(a, b) \in [S -> 0 .. n]
  BY PlaceFacts
<1>1. ASSUME NEW y \in S, NEW g,
             \A w \in S : Rank(a, b)[w] < Rank(a, b)[y] => g[w] \in Nat
      PROVE  Body(y, g) \in Nat
  <2>1. CASE ~Inside(a, b, y)
    BY <2>1, AnyPlace
  <2>2. CASE Inside(a, b, y)
    <3>1. /\ g[Both(y)] \in Nat /\ g[Down(y)] \in Nat
          /\ g[Right(y)] \in Nat
      BY <1>1, <2>2, NextPlaces
    <3>2. Max({g[Down(y)], g[Right(y)]}) \in Nat
      BY <3>1, LargerOfTwo
    <3> QED
      BY <3>1, <3>2
  <2> QED
    BY <2>1, <2>2
<1>2. \A z \in S \X [S -> Nat] : z[1] \in S /\ z[2] \in [S -> Nat]
  OBVIOUS
<1>3. F \in [S \X [S -> Nat] -> Nat]
  <2>1. ASSUME NEW z \in S \X [S -> Nat] PROVE Body(z[1], z[2]) \in Nat
    <3>1. z[1] \in S /\ \A w \in S : z[2][w] \in Nat
      BY <1>2
    <3> HIDE DEF Body, S
    <3> QED
      BY <1>1, <3>1
  <2> HIDE DEF Body, S
  <2> QED
    BY <2>1
<1>4. FollowsRank(S, Nat, Rank(a, b), F)
  <2> SUFFICES ASSUME NEW y \in S, NEW g \in [S -> Nat], NEW h \in [S -> Nat],
                      \A w \in S : Rank(a, b)[w] < Rank(a, b)[y] => g[w] = h[w]
               PROVE  F[<<y, g>>] = F[<<y, h>>]
    BY DEF FollowsRank
  <2>1. Body(y, g) = Body(y, h)
    <3>1. CASE ~Inside(a, b, y)
      BY <3>1, AnyPlace
    <3>2. CASE Inside(a, b, y)
      <4>1. /\ g[Both(y)] = h[Both(y)]
            /\ g[Down(y)] = h[Down(y)]
            /\ g[Right(y)] = h[Right(y)]
        BY <3>2, NextPlaces
      <4> QED
        BY <4>1
    <3> QED
      BY <3>1, <3>2
  <2> HIDE DEF Body, S
  <2> QED
    BY <2>1
<1>5. PICK f : f = [y \in S |-> Body(y, f)]
  <2>1. HasSolution(S, Nat, F)
    <3> HIDE DEF S, F, n
    <3> QED
      BY <1>0, <1>3, <1>4, RecursionExists
  <2>2. PICK f \in [S -> Nat] : \A y \in S : f[y] = F[<<y, f>>]
    BY <2>1 DEF HasSolution
  <2>3. \A y \in S : F[<<y, f>>] = Body(y, f)
    <3> HIDE DEF Body, S
    <3> QED
      OBVIOUS
  <2>4. f = [y \in S |-> Body(y, f)]
    <3> HIDE DEF Body, S
    <3> QED
      BY <2>2, <2>3
  <2> QED
    BY <2>4
<1>6. length = [y \in S |-> Body(y, length)]
  BY <1>5, Zenon DEF LcsTable, Both, Down, Right
<1>7. \A y \in S : length[y] = Body(y, length)
  <2> HIDE DEF Body, S, length
  <2> QED
    BY <1>6
<1>8. \A y \in S : length[y] \in Nat
  <2> DEFINE T == {y \in S : length[y] \in Nat}
  <2>1. ASSUME NEW y \in S, \A w \in S : Rank(a, b)[w] < Rank(a, b)[y] => w \in T PROVE y \in T
    <3>1. \A w \in S : Rank(a, b)[w] < Rank(a, b)[y] => length[w] \in Nat
      BY <2>1
    <3> HIDE DEF Body, S, length
    <3> QED
      BY <1>1, <1>7, <3>1
  <2>2. \A y \in S : y \in T
    <3>1. RankStep(S, T, Rank(a, b))
      <4> HIDE DEF S, T, n
      <4> QED
        BY <2>1 DEF RankStep
    <3> HIDE DEF S, T, n
    <3> QED
      BY <1>0, <3>1, RankInduction
  <2> QED
    BY <2>2
<1>9. length[x] \in Nat /\ length[x] = Body(x, length)
  BY <1>7, <1>8
<1>10. CASE ~Inside(a, b, x)
  <2>1. x[1] > Len(a) \/ x[2] > Len(b)
    BY <1>10, AnyPlace
  <2>2. length[x] = 0
    BY <1>9, <2>1
  <2> QED
    BY <1>9, <1>10, <2>2
<1>11. CASE Inside(a, b, x)
  <2>1. ~(x[1] > Len(a) \/ x[2] > Len(b)) /\ Down(x) \in S /\ Right(x) \in S
    BY <1>11, AnyPlace, NextPlaces
  <2>2. length[x] = IF a[x[1]] = b[x[2]] THEN length[Both(x)] + 1
                    ELSE Max({length[Down(x)], length[Right(x)]})
    BY <1>9, <2>1
  <2>3. length[Down(x)] \in Nat /\ length[Right(x)] \in Nat
    BY <1>8, <2>1
  <2>4. Max({length[Down(x)], length[Right(x)]})
          = IF length[Down(x)] >= length[Right(x)]
            THEN length[Down(x)] ELSE length[Right(x)]
    BY <2>3, LargerOfTwo
  <2> QED
    BY <1>9, <1>11, <2>2, <2>3, <2>4
<1> QED
  BY <1>10, <1>11

Pairs(a, b) == (1 .. Len(a)) \X (1 .. Len(b))

LEMMA WalkRecursion ==
    ASSUME NEW K, NEW a \in Seq(K), NEW b \in Seq(K), NEW x \in Places(a, b)
    PROVE  LET length == LcsTable(a, b)
               walk == LcsWalk(a, b)
           IN  /\ ~Inside(a, b, x) => walk[x] = {}
               /\ Inside(a, b, x) /\ a[x[1]] = b[x[2]] => walk[x] = {x} \cup walk[Both(x)]
               /\ Inside(a, b, x) /\ a[x[1]] # b[x[2]] =>
                     walk[x] = IF length[Down(x)] >= length[Right(x)] THEN walk[Down(x)] ELSE walk[Right(x)]
<1> DEFINE S == Places(a, b)
           V == SUBSET S
           n == Len(a) + Len(b)
           length == LcsTable(a, b)
           Body(y, g) == IF y[1] > Len(a) \/ y[2] > Len(b) THEN {}
                         ELSE IF a[y[1]] = b[y[2]] THEN {y} \cup g[Both(y)]
                         ELSE IF length[Down(y)] >= length[Right(y)] THEN g[Down(y)] ELSE g[Right(y)]
           F == [z \in S \X [S -> V] |-> Body(z[1], z[2])]
           walk == LcsWalk(a, b)
<1>0. n \in Nat /\ Rank(a, b) \in [S -> 0 .. n]
  BY PlaceFacts
<1>1. ASSUME NEW y \in S, NEW g \in [S -> V] PROVE Body(y, g) \in V
  <2>1. CASE ~Inside(a, b, y)
    BY <2>1, AnyPlace
  <2>2. CASE Inside(a, b, y)
    <3>1. g[Both(y)] \in V /\ g[Down(y)] \in V /\ g[Right(y)] \in V
      <4>1. Both(y) \in S /\ Down(y) \in S /\ Right(y) \in S
        BY <2>2, NextPlaces
      <4> HIDE DEF S, V
      <4> QED
        BY <4>1
    <3> QED
      BY <3>1
  <2> QED
    BY <2>1, <2>2
<1>2. \A z \in S \X [S -> V] : z[1] \in S /\ z[2] \in [S -> V]
  OBVIOUS
<1>3. F \in [S \X [S -> V] -> V]
  <2>1. ASSUME NEW z \in S \X [S -> V] PROVE Body(z[1], z[2]) \in V
    <3> HIDE DEF Body, S, V
    <3> QED
      BY <1>1, <1>2
  <2> HIDE DEF Body, S, V
  <2> QED
    BY <2>1
<1>4. FollowsRank(S, V, Rank(a, b), F)
  <2> SUFFICES ASSUME NEW y \in S, NEW g \in [S -> V], NEW h \in [S -> V],
                      \A w \in S : Rank(a, b)[w] < Rank(a, b)[y] => g[w] = h[w]
               PROVE  F[<<y, g>>] = F[<<y, h>>]
    BY DEF FollowsRank
  <2>1. Body(y, g) = Body(y, h)
    <3>1. CASE ~Inside(a, b, y)
      BY <3>1, AnyPlace
    <3>2. CASE Inside(a, b, y)
      <4>1. g[Both(y)] = h[Both(y)] /\ g[Down(y)] = h[Down(y)] /\ g[Right(y)] = h[Right(y)]
        BY <3>2, NextPlaces
      <4> QED
        BY <4>1
    <3> QED
      BY <3>1, <3>2
  <2> HIDE DEF Body, S, V
  <2> QED
    BY <2>1
<1>5. PICK f : f = [y \in S |-> Body(y, f)]
  <2>0. {} \in V
    OBVIOUS
  <2>1. HasSolution(S, V, F)
    <3> HIDE DEF S, V, F, n
    <3> QED
      BY <1>0, <1>3, <1>4, <2>0, RecursionExists
  <2>2. PICK f \in [S -> V] : \A y \in S : f[y] = F[<<y, f>>]
    BY <2>1 DEF HasSolution
  <2>3. \A y \in S : F[<<y, f>>] = Body(y, f)
    <3> HIDE DEF Body, S, V
    <3> QED
      OBVIOUS
  <2>4. f = [y \in S |-> Body(y, f)]
    <3> HIDE DEF Body, S, V
    <3> QED
      BY <2>2, <2>3
  <2> QED
    BY <2>4
<1>6. walk = [y \in S |-> Body(y, walk)]
  BY <1>5, Zenon DEF LcsWalk, Both, Down, Right
<1>7. walk[x] = Body(x, walk)
  <2> HIDE DEF Body, S, walk
  <2>1. x \in S
    BY DEF S
  <2> QED
    BY <1>6, <2>1
<1> QED
  BY <1>7, AnyPlace

-----------------------------------------------------------------------------
\* The pairs from a place on.
Region(a, b, x) == {p \in Pairs(a, b) : p[1] >= x[1] /\ p[2] >= x[2]}

LEMMA PairsAreFinite ==
    ASSUME NEW K, NEW a \in Seq(K), NEW b \in Seq(K), NEW Q \in SUBSET Pairs(a, b)
    PROVE  IsFiniteSet(Q) /\ Cardinality(Q) \in Nat
<1>1. IsFiniteSet(1 .. Len(a)) /\ IsFiniteSet(1 .. Len(b))
  BY PlaceFacts, FS_Interval
<1>2. IsFiniteSet(Pairs(a, b))
  BY <1>1, FS_Product DEF Pairs
<1> QED
  BY <1>2, FS_Subset, FS_CardinalityType

LEMMA Regions ==
    ASSUME NEW K, NEW a \in Seq(K), NEW b \in Seq(K), NEW x \in Places(a, b)
    PROVE  /\ Region(a, b, x) \subseteq Pairs(a, b)
           /\ \A p \in Region(a, b, x) : /\ p[1] \in Nat /\ p[2] \in Nat /\ p = <<p[1], p[2]>>
                                         /\ p[1] >= x[1] /\ p[2] >= x[2]
           /\ ~Inside(a, b, x) => Region(a, b, x) = {}
           /\ Inside(a, b, x) =>
                 /\ x \in Region(a, b, x)
                 /\ Region(a, b, Both(x)) = {p \in Region(a, b, x) : p[1] # x[1] /\ p[2] # x[2]}
                 /\ Region(a, b, Down(x)) = {p \in Region(a, b, x) : p[1] # x[1]}
                 /\ Region(a, b, Right(x)) = {p \in Region(a, b, x) : p[2] # x[2]}
<1>1. /\ x[1] \in Nat /\ x[2] \in Nat /\ Len(a) \in Nat /\ Len(b) \in Nat /\ x = <<x[1], x[2]>>
      /\ x[1] \in 1 .. Len(a) + 1 /\ x[2] \in 1 .. Len(b) + 1
  BY PlaceFacts
<1>2. \A p \in Pairs(a, b) : /\ p[1] \in 1 .. Len(a) /\ p[2] \in 1 .. Len(b) /\ p = <<p[1], p[2]>>
                             /\ p[1] \in Nat /\ p[2] \in Nat
  BY <1>1 DEF Pairs
<1>3. ~Inside(a, b, x) => Region(a, b, x) = {}
  BY <1>1, <1>2 DEF Region, Inside
<1>4. Inside(a, b, x) => x \in Region(a, b, x)
  <2> SUFFICES ASSUME Inside(a, b, x) PROVE x \in Region(a, b, x)
    OBVIOUS
  <2>1. x[1] \in 1 .. Len(a) /\ x[2] \in 1 .. Len(b)
    BY NextPlaces
  <2>2. x \in Pairs(a, b)
    BY <1>1, <2>1 DEF Pairs
  <2> QED
    BY <1>1, <2>2 DEF Region
<1>5. /\ Region(a, b, Both(x)) = {p \in Region(a, b, x) : p[1] # x[1] /\ p[2] # x[2]}
      /\ Region(a, b, Down(x)) = {p \in Region(a, b, x) : p[1] # x[1]}
      /\ Region(a, b, Right(x)) = {p \in Region(a, b, x) : p[2] # x[2]}
  BY <1>1, <1>2 DEF Region, Both, Down, Right
<1> QED
  BY <1>2, <1>3, <1>4, <1>5 DEF Region

\* Pairs of an alignment that share an index are the same pair.
LEMMA AlignmentIsInjective ==
    ASSUME NEW a, NEW b, NEW Q, Alignment(Q, a, b),
           NEW p \in Q, NEW q \in Q, p[1] \in Nat, p[2] \in Nat, q[1] \in Nat, q[2] \in Nat,
           p = <<p[1], p[2]>>, q = <<q[1], q[2]>>, p[1] = q[1] \/ p[2] = q[2]
    PROVE  p = q
<1>1. (p[1] < q[1] <=> p[2] < q[2]) /\ (q[1] < p[1] <=> q[2] < p[2])
  BY DEF Alignment
<1>2. p[1] = q[1] /\ p[2] = q[2]
  BY <1>1
<1> QED
  BY <1>2

LEMMA PartAligns ==
    ASSUME NEW a, NEW b, NEW Q, NEW P \in SUBSET Q, Alignment(Q, a, b)
    PROVE  Alignment(P, a, b)
BY DEF Alignment

WalkFits(a, b, x) ==
    /\ LcsWalk(a, b)[x] \subseteq Region(a, b, x)
    /\ Alignment(LcsWalk(a, b)[x], a, b)
    /\ Cardinality(LcsWalk(a, b)[x]) = LcsTable(a, b)[x]

LEMMA WalkAligns ==
    ASSUME NEW K, NEW a \in Seq(K), NEW b \in Seq(K), NEW x \in Places(a, b)
    PROVE  WalkFits(a, b, x)
<1> DEFINE S == Places(a, b)
           T == {y \in S : WalkFits(a, b, y)}
           n == Len(a) + Len(b)
<1>1. ASSUME NEW y \in S, \A z \in S : Rank(a, b)[z] < Rank(a, b)[y] => WalkFits(a, b, z)
      PROVE  WalkFits(a, b, y)
  <2> DEFINE walk == LcsWalk(a, b)
             length == LcsTable(a, b)
  <2>1. CASE ~Inside(a, b, y)
    <3>1. walk[y] = {} /\ length[y] = 0
      BY <2>1, WalkRecursion, TableRecursion
    <3> HIDE DEF walk, length
    <3>2. Cardinality({}) = 0 /\ Alignment({}, a, b)
      BY FS_EmptySet DEF Alignment
    <3>3. walk[y] \subseteq Region(a, b, y) /\ Alignment(walk[y], a, b) /\ Cardinality(walk[y]) = length[y]
      BY <3>1, <3>2
    <3> QED
      BY <3>3 DEF WalkFits, walk, length
  <2>2. CASE Inside(a, b, y) /\ a[y[1]] = b[y[2]]
    <3>1. walk[y] = {y} \cup walk[Both(y)] /\ length[y] = length[Both(y)] + 1
      BY <2>2, WalkRecursion, TableRecursion
    <3>2. WalkFits(a, b, Both(y))
      BY <1>1, <2>2, NextPlaces
    <3>3. /\ walk[Both(y)] \subseteq Region(a, b, Both(y)) /\ Alignment(walk[Both(y)], a, b)
          /\ Cardinality(walk[Both(y)]) = length[Both(y)]
      BY <3>2 DEF WalkFits
    <3> HIDE DEF walk, length
    <3>4. Both(y) \in Places(a, b) /\ y[1] \in Nat /\ y[2] \in Nat
      BY <2>2, NextPlaces, AnyPlace
    <3>5. /\ Region(a, b, Both(y)) \subseteq Pairs(a, b) /\ y \in Region(a, b, y)
          /\ Region(a, b, Both(y)) \subseteq Region(a, b, y)
          /\ y \notin Region(a, b, Both(y))
      BY <2>2, <3>4, Regions
    <3>6. \A p \in walk[Both(y)] : /\ p[1] \in Nat /\ p[2] \in Nat
                                   /\ p[1] >= y[1] + 1 /\ p[2] >= y[2] + 1
      BY <3>3, <3>4, Regions DEF Both
    <3>7. Alignment(walk[y], a, b)
      <4>1. ASSUME NEW p \in walk[y], NEW q \in walk[y] PROVE p[1] < q[1] <=> p[2] < q[2]
        <5>1. CASE p = y /\ q = y
          BY <5>1, <3>4
        <5>2. CASE p = y /\ q \in walk[Both(y)]
          BY <5>2, <3>4, <3>6
        <5>3. CASE q = y /\ p \in walk[Both(y)]
          BY <5>3, <3>4, <3>6
        <5>4. CASE p \in walk[Both(y)] /\ q \in walk[Both(y)]
          BY <5>4, <3>3 DEF Alignment
        <5> QED
          BY <3>1, <5>1, <5>2, <5>3, <5>4
      <4>2. \A p \in walk[y] : a[p[1]] = b[p[2]]
        BY <2>2, <3>1, <3>3 DEF Alignment
      <4> QED
        BY <4>1, <4>2 DEF Alignment
    <3>8. Cardinality(walk[y]) = length[y]
      <4>1. IsFiniteSet(walk[Both(y)])
        BY <3>3, <3>5, PairsAreFinite
      <4>2. y \notin walk[Both(y)]
        BY <3>3, <3>5
      <4>3. Cardinality(walk[Both(y)] \cup {y}) = Cardinality(walk[Both(y)]) + 1
        BY <4>1, <4>2, FS_AddElement
      <4>4. walk[Both(y)] \cup {y} = walk[y]
        BY <3>1
      <4> QED
        BY <3>1, <3>3, <4>3, <4>4
    <3>9. walk[y] \subseteq Region(a, b, y)
      BY <3>1, <3>3, <3>5
    <3> QED
      BY <3>7, <3>8, <3>9 DEF WalkFits, walk, length
  <2>3. CASE Inside(a, b, y) /\ a[y[1]] # b[y[2]]
    <3>1. PICK z \in {Down(y), Right(y)} : walk[y] = walk[z] /\ length[y] = length[z]
      <4>1. walk[y] = IF length[Down(y)] >= length[Right(y)] THEN walk[Down(y)] ELSE walk[Right(y)]
        BY <2>3, WalkRecursion
      <4>2. /\ length[y] >= length[Down(y)] /\ length[y] >= length[Right(y)]
            /\ length[y] \in {length[Down(y)], length[Right(y)]}
        BY <2>3, TableRecursion
      <4>3. length[Down(y)] \in Nat /\ length[Right(y)] \in Nat
        <5>1. Down(y) \in S /\ Right(y) \in S
          BY <2>3, NextPlaces
        <5> QED
          BY <5>1, TableRecursion
      <4> HIDE DEF walk, length
      <4> QED
        BY <4>1, <4>2, <4>3
    <3>2. WalkFits(a, b, z) /\ z \in Places(a, b)
      BY <1>1, <2>3, NextPlaces
    <3>3. /\ walk[z] \subseteq Region(a, b, z) /\ Alignment(walk[z], a, b) /\ Cardinality(walk[z]) = length[z]
      BY <3>2 DEF WalkFits
    <3>4. Region(a, b, z) \subseteq Region(a, b, y)
      <4>1. Region(a, b, Down(y)) \subseteq Region(a, b, y) /\ Region(a, b, Right(y)) \subseteq Region(a, b, y)
        BY <2>3, Regions
      <4> QED
        BY <4>1
    <3> HIDE DEF walk, length
    <3>5. walk[y] \subseteq Region(a, b, y) /\ Alignment(walk[y], a, b) /\ Cardinality(walk[y]) = length[y]
      BY <3>1, <3>3, <3>4
    <3> QED
      BY <3>5 DEF WalkFits, walk, length
  <2> QED
    BY <2>1, <2>2, <2>3
<1>2. \A y \in S : y \in T
  <2>1. n \in Nat /\ Rank(a, b) \in [S -> 0 .. n]
    BY PlaceFacts
  <2>2. ASSUME NEW y \in S, \A z \in S : Rank(a, b)[z] < Rank(a, b)[y] => z \in T PROVE y \in T
    <3>1. \A z \in S : Rank(a, b)[z] < Rank(a, b)[y] => WalkFits(a, b, z)
      BY <2>2
    <3>2. WalkFits(a, b, y)
      BY <1>1, <3>1
    <3> QED
      BY <3>2
  <2> HIDE DEF S, T, n
  <2>3. RankStep(S, T, Rank(a, b))
    BY <2>2 DEF RankStep
  <2> QED
    BY <2>1, <2>3, RankInduction
<1> QED
  BY <1>2

\* No alignment from x on has more pairs than the table says.
LongestFrom(a, b, x) ==
    \A Q \in SUBSET Region(a, b, x) : Alignment(Q, a, b) => Cardinality(Q) <= LcsTable(a, b)[x]

LEMMA TableIsLongest ==
    ASSUME NEW K, NEW a \in Seq(K), NEW b \in Seq(K), NEW x \in Places(a, b)
    PROVE  LongestFrom(a, b, x)
<1> DEFINE S == Places(a, b)
           T == {y \in S : LongestFrom(a, b, y)}
           n == Len(a) + Len(b)
<1>1. ASSUME NEW y \in S, \A z \in S : Rank(a, b)[z] < Rank(a, b)[y] => LongestFrom(a, b, z)
      PROVE  LongestFrom(a, b, y)
  <2> DEFINE length == LcsTable(a, b)
  <2> SUFFICES ASSUME NEW Q \in SUBSET Region(a, b, y), Alignment(Q, a, b)
               PROVE  Cardinality(Q) <= length[y]
    BY DEF LongestFrom
  <2>0. length[y] \in Nat /\ Q \in SUBSET Pairs(a, b) /\ IsFiniteSet(Q) /\ Cardinality(Q) \in Nat
    <3>1. Q \in SUBSET Pairs(a, b)
      BY Regions
    <3> QED
      BY <3>1, PairsAreFinite, TableRecursion
  <2>1. CASE ~Inside(a, b, y)
    <3>1. Q = {}
      BY <2>1, Regions
    <3> QED
      BY <2>0, <3>1, FS_EmptySet
  <2>2. CASE Inside(a, b, y)
    <3>1. y[1] \in Nat /\ y[2] \in Nat
      BY AnyPlace
    <3>2. /\ Region(a, b, Both(y)) = {p \in Region(a, b, y) : p[1] # y[1] /\ p[2] # y[2]}
          /\ Region(a, b, Down(y)) = {p \in Region(a, b, y) : p[1] # y[1]}
          /\ Region(a, b, Right(y)) = {p \in Region(a, b, y) : p[2] # y[2]}
      BY <2>2, Regions
    <3>3. \A p \in Q : /\ p[1] \in Nat /\ p[2] \in Nat /\ p = <<p[1], p[2]>>
                       /\ p[1] >= y[1] /\ p[2] >= y[2]
      BY Regions
    <3>4. /\ Both(y) \in S /\ Down(y) \in S /\ Right(y) \in S
          /\ LongestFrom(a, b, Both(y)) /\ LongestFrom(a, b, Down(y)) /\ LongestFrom(a, b, Right(y))
          /\ length[Both(y)] \in Nat /\ length[Down(y)] \in Nat /\ length[Right(y)] \in Nat
      <4>1. Both(y) \in S /\ Down(y) \in S /\ Right(y) \in S
        BY <2>2, NextPlaces
      <4>2. LongestFrom(a, b, Both(y)) /\ LongestFrom(a, b, Down(y)) /\ LongestFrom(a, b, Right(y))
        BY <1>1, <2>2, NextPlaces
      <4> QED
        BY <4>1, <4>2, TableRecursion
    <3>5. CASE a[y[1]] = b[y[2]]
      <4> DEFINE P == {p \in Q : p[1] # y[1] /\ p[2] # y[2]}
                 R == {p \in Q : p[1] = y[1] \/ p[2] = y[2]}
      <4>1. Cardinality(P) <= length[Both(y)]
        <5>1. P \in SUBSET Region(a, b, Both(y)) /\ Alignment(P, a, b)
          BY <3>2 DEF Alignment
        <5> QED
          BY <3>4, <5>1 DEF LongestFrom
      <4>2. ASSUME NEW p \in R, NEW q \in R PROVE p = q
        <5>1. p \in Q /\ q \in Q /\ (p[1] = y[1] \/ p[2] = y[2]) /\ (q[1] = y[1] \/ q[2] = y[2])
          OBVIOUS
        <5>2. (p[1] < q[1] <=> p[2] < q[2]) /\ (q[1] < p[1] <=> q[2] < p[2])
          BY <5>1 DEF Alignment
        <5>3. /\ p[1] \in Nat /\ p[2] \in Nat /\ p = <<p[1], p[2]>> /\ p[1] >= y[1] /\ p[2] >= y[2]
              /\ q[1] \in Nat /\ q[2] \in Nat /\ q = <<q[1], q[2]>> /\ q[1] >= y[1] /\ q[2] >= y[2]
          BY <3>3, <5>1
        <5>4. p[1] = q[1] /\ p[2] = q[2]
          BY <3>1, <5>1, <5>2, <5>3
        <5> QED
          BY <5>3, <5>4
      <4>3. IsFiniteSet(R) /\ Cardinality(R) <= 1
        <5>1. CASE R = {}
          <6>1. IsFiniteSet({}) /\ Cardinality({}) = 0
            BY FS_EmptySet
          <6> HIDE DEF R
          <6> QED
            BY <5>1, <6>1
        <5>2. CASE R # {}
          <6>1. PICK p \in R : R = {p}
            BY <4>2, <5>2
          <6>2. IsFiniteSet({p}) /\ Cardinality({p}) = 1
            BY FS_Singleton
          <6> HIDE DEF R
          <6> QED
            BY <6>1, <6>2
        <5> QED
          BY <5>1, <5>2
      <4>4. Cardinality(Q) <= Cardinality(P) + Cardinality(R)
        <5>1. IsFiniteSet(P) /\ IsFiniteSet(R) /\ P \cap R = {} /\ Q = P \cup R
          BY <2>0, FS_Subset
        <5>2. Cardinality(P \cap R) = 0 /\ Cardinality(P) \in Nat /\ Cardinality(R) \in Nat
          BY <5>1, FS_EmptySet, FS_CardinalityType
        <5>3. Cardinality(P \cup R) = Cardinality(P) + Cardinality(R) - Cardinality(P \cap R)
          <6> HIDE DEF P, R
          <6> QED
            BY <5>1, FS_Union
        <5> HIDE DEF P, R
        <5> QED
          BY <5>1, <5>2, <5>3
      <4>5. length[y] = length[Both(y)] + 1
        BY <2>2, <3>5, TableRecursion
      <4>6. Cardinality(P) \in Nat /\ Cardinality(R) \in Nat
        BY <2>0, FS_Subset, FS_CardinalityType
      <4> HIDE DEF P, R, length
      <4> QED
        BY <2>0, <3>4, <4>1, <4>3, <4>4, <4>5, <4>6
    <3>6. CASE a[y[1]] # b[y[2]]
      <4>1. (\A p \in Q : p[1] # y[1]) \/ (\A p \in Q : p[2] # y[2])
        <5> SUFFICES ASSUME NEW p \in Q, NEW q \in Q, p[1] = y[1], q[2] = y[2] PROVE FALSE
          OBVIOUS
        <5>1. (p[1] < q[1] <=> p[2] < q[2]) /\ (q[1] < p[1] <=> q[2] < p[2]) /\ a[p[1]] = b[p[2]]
          BY DEF Alignment
        <5>2. /\ p[1] \in Nat /\ p[2] \in Nat /\ p[1] >= y[1] /\ p[2] >= y[2]
              /\ q[1] \in Nat /\ q[2] \in Nat /\ q[1] >= y[1] /\ q[2] >= y[2]
          BY <3>3
        <5>3. p[2] = y[2]
          BY <3>1, <5>1, <5>2
        <5> QED
          BY <3>6, <5>1, <5>3
      <4>2. Cardinality(Q) <= length[Down(y)] \/ Cardinality(Q) <= length[Right(y)]
        BY <3>2, <3>4, <4>1 DEF LongestFrom
      <4>3. length[y] >= length[Down(y)] /\ length[y] >= length[Right(y)]
        BY <2>2, <3>6, TableRecursion
      <4> HIDE DEF length
      <4> QED
        BY <2>0, <3>4, <4>2, <4>3
    <3> QED
      BY <3>5, <3>6
  <2> QED
    BY <2>1, <2>2
<1>2. \A y \in S : y \in T
  <2>1. n \in Nat /\ Rank(a, b) \in [S -> 0 .. n]
    BY PlaceFacts
  <2>2. ASSUME NEW y \in S, \A z \in S : Rank(a, b)[z] < Rank(a, b)[y] => z \in T PROVE y \in T
    <3>1. \A z \in S : Rank(a, b)[z] < Rank(a, b)[y] => LongestFrom(a, b, z)
      BY <2>2
    <3>2. LongestFrom(a, b, y)
      BY <1>1, <3>1
    <3> QED
      BY <3>2
  <2> HIDE DEF S, T, n
  <2>3. RankStep(S, T, Rank(a, b))
    BY <2>2 DEF RankStep
  <2> QED
    BY <2>1, <2>3, RankInduction
<1> QED
  BY <1>2

\* What lcsDynamic gives: a longest alignment.
LEMMA DynamicIsLongest ==
    ASSUME NEW K, NEW a \in Seq(K), NEW b \in Seq(K)
    PROVE  /\ DynamicAlignment(a, b) \in SUBSET Pairs(a, b)
           /\ Alignment(DynamicAlignment(a, b), a, b)
           /\ \A Q \in SUBSET Pairs(a, b) :
                 Alignment(Q, a, b) => Cardinality(Q) <= Cardinality(DynamicAlignment(a, b))
<1>1. <<1, 1>> \in Places(a, b)
  BY PlaceFacts
<1>2. WalkFits(a, b, <<1, 1>>) /\ LongestFrom(a, b, <<1, 1>>)
  BY <1>1, WalkAligns, TableIsLongest
<1>3. Region(a, b, <<1, 1>>) = Pairs(a, b)
  BY DEF Region, Pairs
<1> QED
  BY <1>2, <1>3 DEF WalkFits, LongestFrom, DynamicAlignment

-----------------------------------------------------------------------------
(***************************************************************************)
(* The alignment on keys that occur once, for documents too long for the   *)
(* table.                                                                  *)
(***************************************************************************)

LEMMA UniqueRecursion ==
    ASSUME NEW K, NEW a \in Seq(K), NEW b \in Seq(K)
    PROVE  LET taken == UniqueTaken(a, b)
           IN  /\ taken[0] = {}
               /\ \A i \in 1 .. Len(a) :
                     taken[i] = taken[i - 1] \cup
                        {p \in OnceInBoth(a, b) : p[1] = i /\ \A q \in taken[i - 1] : q[2] < p[2]}
<1> DEFINE n == Len(a)
           V == SUBSET OnceInBoth(a, b)
           New(i, S) == S \cup {p \in OnceInBoth(a, b) : p[1] = i /\ \A q \in S : q[2] < p[2]}
           G == [z \in (1 .. n) \X V |-> New(z[1], z[2])]
           taken == UniqueTaken(a, b)
<1>1. n \in Nat
  OBVIOUS
<1>2. G \in [(1 .. n) \X V -> V]
  OBVIOUS
<1>3. Iterates(n, V, {}, G)
  <2>1. {} \in V
    OBVIOUS
  <2> HIDE DEF n, V, G
  <2> QED
    BY <1>1, <1>2, <2>1, RecursionTo
<1>5. PICK f : f = [i \in 0 .. n |-> IF i = 0 THEN {} ELSE New(i, f[i - 1])]
  <2>1. PICK f \in [0 .. n -> V] : f[0] = {} /\ \A i \in 1 .. n : f[i] = G[<<i, f[i - 1]>>]
    BY <1>3 DEF Iterates
  <2>2. \A i \in 1 .. n : f[i] = New(i, f[i - 1])
    <3> SUFFICES ASSUME NEW i \in 1 .. n PROVE f[i] = New(i, f[i - 1])
      OBVIOUS
    <3>1. i - 1 \in 0 .. n
      BY <1>1
    <3>2. f[i - 1] \in V
      BY <3>1
    <3> HIDE DEF New, V
    <3> QED
      BY <2>1, <3>2
  <2>3. \A i \in 0 .. n : i = 0 \/ i \in 1 .. n
    OBVIOUS
  <2>4. f = [i \in 0 .. n |-> IF i = 0 THEN {} ELSE New(i, f[i - 1])]
    <3> HIDE DEF New, V, n
    <3> QED
      BY <2>1, <2>2, <2>3
  <2> QED
    BY <2>4
<1>6. taken = [i \in 0 .. n |-> IF i = 0 THEN {} ELSE New(i, taken[i - 1])]
  <2> DEFINE H(g) == [i \in 0 .. n |-> IF i = 0 THEN {} ELSE New(i, g[i - 1])]
  <2>1. taken = CHOOSE g : g = H(g)
    BY DEF UniqueTaken
  <2>2. \E g : g = H(g)
    BY <1>5
  <2> HIDE DEF H, taken
  <2>3. taken = H(taken)
    BY <2>1, <2>2, Zenon
  <2> QED
    BY <2>3 DEF H
<1>7. 0 \in 0 .. n /\ \A i \in 1 .. n : i \in 0 .. n /\ i # 0
  BY <1>1
<1>8. taken[0] = {} /\ \A i \in 1 .. n : taken[i] = New(i, taken[i - 1])
  <2> HIDE DEF New, n, taken
  <2> QED
    BY <1>6, <1>7
<1> QED
  BY <1>8

LEMMA OnceFacts ==
    ASSUME NEW K, NEW a \in Seq(K), NEW b \in Seq(K), NEW p \in OnceInBoth(a, b)
    PROVE  /\ p \in Pairs(a, b) /\ p[1] \in 1 .. Len(a) /\ p[2] \in 1 .. Len(b)
           /\ p[1] \in Nat /\ p[2] \in Nat /\ p = <<p[1], p[2]>>
           /\ a[p[1]] = b[p[2]]
           /\ \A q \in OnceInBoth(a, b) : p[1] = q[1] => p[2] = q[2]
BY DEF OnceInBoth, Pairs

\* After i keys of a: pairs of keys that occur once, with their first index up to i.
TakenFits(a, b, i) ==
    /\ \A p \in UniqueTaken(a, b)[i] : p \in OnceInBoth(a, b) /\ p[1] <= i
    /\ Alignment(UniqueTaken(a, b)[i], a, b)

LEMMA UniqueAligns ==
    ASSUME NEW K, NEW a \in Seq(K), NEW b \in Seq(K)
    PROVE  UniqueAlignment(a, b) \in SUBSET Pairs(a, b) /\ Alignment(UniqueAlignment(a, b), a, b)
<1> DEFINE n == Len(a)
           taken == UniqueTaken(a, b)
           T == {i \in 0 .. n : TakenFits(a, b, i)}
<1>1. n \in Nat
  OBVIOUS
<1>2. 0 \in T
  BY <1>1, UniqueRecursion DEF TakenFits, Alignment
<1>3. ASSUME NEW i \in 1 .. n, i - 1 \in T PROVE i \in T
  <2> DEFINE New == {p \in OnceInBoth(a, b) : p[1] = i /\ \A q \in taken[i - 1] : q[2] < p[2]}
  <2>1. taken[i] = taken[i - 1] \cup New
    BY UniqueRecursion
  <2>2. /\ \A p \in taken[i - 1] : p \in OnceInBoth(a, b) /\ p[1] <= i - 1
        /\ Alignment(taken[i - 1], a, b)
    BY <1>3 DEF TakenFits
  <2>3. /\ \A p \in taken[i - 1] : p[1] \in Nat /\ p[2] \in Nat /\ p[1] < i /\ a[p[1]] = b[p[2]]
        /\ \A p \in New : /\ p[1] \in Nat /\ p[2] \in Nat /\ p[1] = i /\ a[p[1]] = b[p[2]]
                          /\ \A q \in taken[i - 1] : q[2] < p[2]
                          /\ \A q \in New : p[2] = q[2]
    BY <1>1, <2>2, OnceFacts
  <2> HIDE DEF taken
  <2>4. \A p \in taken[i] : p \in OnceInBoth(a, b) /\ p[1] <= i
    <3>1. \A p \in New : p \in OnceInBoth(a, b)
      OBVIOUS
    <3> HIDE DEF New
    <3> QED
      BY <2>1, <2>2, <2>3, <3>1
  <2>5. Alignment(taken[i], a, b)
    <3> HIDE DEF New
    <3>1. ASSUME NEW p \in taken[i], NEW q \in taken[i] PROVE p[1] < q[1] <=> p[2] < q[2]
      <4>1. CASE p \in taken[i - 1] /\ q \in taken[i - 1]
        BY <2>2, <4>1 DEF Alignment
      <4>2. CASE p \in taken[i - 1] /\ q \in New
        BY <2>3, <4>2
      <4>3. CASE p \in New /\ q \in taken[i - 1]
        BY <2>3, <4>3
      <4>4. CASE p \in New /\ q \in New
        <5>1. p[1] \in Nat /\ p[2] \in Nat /\ p[1] = q[1] /\ p[2] = q[2]
          BY <2>3, <4>4
        <5> QED
          BY <5>1
      <4> QED
        BY <2>1, <4>1, <4>2, <4>3, <4>4
    <3> QED
      BY <2>1, <2>3, <3>1 DEF Alignment
  <2>6. i \in 0 .. n
    OBVIOUS
  <2> QED
    BY <2>4, <2>5, <2>6 DEF TakenFits, taken
<1>4. \A i \in 0 .. n : i \in T
  <2> HIDE DEF n, T
  <2> QED
    BY <1>1, <1>2, <1>3, InductionTo
<1>5. n \in T
  <2>1. n \in 0 .. n
    BY <1>1
  <2> HIDE DEF n, T
  <2> QED
    BY <1>4, <2>1
<1> QED
  BY <1>5, OnceFacts DEF TakenFits, UniqueAlignment

-----------------------------------------------------------------------------
(***************************************************************************)
(* lcsPairs: the common prefix, the middle and the common suffix.          *)
(***************************************************************************)

Pre(a, b) == CommonPrefix(a, b)
Suf(a, b) == CommonSuffix(a, b, CommonPrefix(a, b))
MidA(a, b) == SubSeq(a, Pre(a, b) + 1, Pre(a, b) + (Len(a) - Suf(a, b) - Pre(a, b)))
MidB(a, b) == SubSeq(b, Pre(a, b) + 1, Pre(a, b) + (Len(b) - Suf(a, b) - Pre(a, b)))
Middle(a, b) ==
    IF (Len(a) - Suf(a, b) - Pre(a, b)) * (Len(b) - Suf(a, b) - Pre(a, b)) <= MaxCells
    THEN DynamicAlignment(MidA(a, b), MidB(a, b)) ELSE UniqueAlignment(MidA(a, b), MidB(a, b))

HeadPairs(a, b) == {<<i, i>> : i \in 1 .. Pre(a, b)}
MiddlePairs(a, b) == {<<p[1] + Pre(a, b), p[2] + Pre(a, b)>> : p \in Middle(a, b)}
TailPairs(a, b) == {<<Len(a) - i, Len(b) - i>> : i \in 0 .. (Suf(a, b) - 1)}

LEMMA LcsParts ==
    ASSUME NEW a, NEW b
    PROVE  LcsPairs(a, b) = HeadPairs(a, b) \cup MiddlePairs(a, b) \cup TailPairs(a, b)
BY Zenon DEF LcsPairs, HeadPairs, MiddlePairs, TailPairs, Middle, MidA, MidB, Pre, Suf

LEMMA PrefixFacts ==
    ASSUME NEW K, NEW a \in Seq(K), NEW b \in Seq(K)
    PROVE  /\ Pre(a, b) \in Nat /\ Pre(a, b) <= Len(a) /\ Pre(a, b) <= Len(b)
           /\ \A i \in 1 .. Pre(a, b) : a[i] = b[i]
           /\ \A n \in Nat : n <= Len(a) /\ n <= Len(b) /\ (\A i \in 1 .. n : a[i] = b[i]) => n <= Pre(a, b)
<1> DEFINE least == Min({Len(a), Len(b)})
           T == {n \in 0 .. least : \A i \in 1 .. n : a[i] = b[i]}
<1>1. Len(a) \in Nat /\ Len(b) \in Nat
  OBVIOUS
<1>2. least = IF Len(a) <= Len(b) THEN Len(a) ELSE Len(b)
  BY <1>1, SmallerOfTwo
<1>3. least \in Nat /\ \A n \in Nat : n <= least <=> n <= Len(a) /\ n <= Len(b)
  <2> HIDE DEF least
  <2> QED
    BY <1>1, <1>2
<1>4. Pre(a, b) = Max(T)
  BY Zenon DEF Pre, CommonPrefix
<1> HIDE DEF least
<1>5. T \in SUBSET (0 .. least) /\ 0 \in T
  BY <1>3
<1>6. Max(T) \in T /\ \A t \in T : t <= Max(T)
  <2> HIDE DEF T
  <2> QED
    BY <1>3, <1>5, LargestNatural
<1>7. Pre(a, b) \in T /\ \A t \in T : t <= Pre(a, b)
  BY <1>4, <1>6
<1>8. Pre(a, b) \in Nat /\ Pre(a, b) <= least
  BY <1>3, <1>7
<1> QED
  BY <1>3, <1>7, <1>8

LEMMA SuffixFacts ==
    ASSUME NEW K, NEW a \in Seq(K), NEW b \in Seq(K)
    PROVE  /\ Suf(a, b) \in Nat
           /\ Pre(a, b) + Suf(a, b) <= Len(a) /\ Pre(a, b) + Suf(a, b) <= Len(b)
           /\ \A i \in 0 .. Suf(a, b) - 1 : a[Len(a) - i] = b[Len(b) - i]
<1> DEFINE skip == CommonPrefix(a, b)
           least == Min({Len(a), Len(b)})
           T == {n \in 0 .. (least - skip) : \A i \in 0 .. (n - 1) : a[Len(a) - i] = b[Len(b) - i]}
<1>1. Len(a) \in Nat /\ Len(b) \in Nat /\ skip \in Nat /\ skip <= Len(a) /\ skip <= Len(b)
  BY PrefixFacts DEF Pre
<1>2. least = IF Len(a) <= Len(b) THEN Len(a) ELSE Len(b)
  BY <1>1, SmallerOfTwo
<1>3. Suf(a, b) = Max(T)
  BY Zenon DEF Suf, CommonSuffix
<1>4. Pre(a, b) = skip
  BY DEF Pre
<1> HIDE DEF least, skip
<1>5. least - skip \in Nat /\ \A n \in Nat : n <= least - skip => skip + n <= Len(a) /\ skip + n <= Len(b)
  BY <1>1, <1>2
<1>6. T \in SUBSET (0 .. least - skip) /\ 0 \in T
  BY <1>5
<1>7. Max(T) \in T
  <2> HIDE DEF T
  <2> QED
    BY <1>5, <1>6, LargestNatural
<1>8. Suf(a, b) \in T
  BY <1>3, <1>7
<1>9. Suf(a, b) \in Nat /\ Suf(a, b) <= least - skip
  BY <1>5, <1>8
<1> QED
  BY <1>4, <1>5, <1>8, <1>9

\* The n elements of s behind the p-th.
LEMMA Slice ==
    ASSUME NEW K, NEW s \in Seq(K), NEW p \in Nat, NEW n \in Nat, p + n <= Len(s)
    PROVE  /\ SubSeq(s, p + 1, p + n) \in Seq(K)
           /\ Len(SubSeq(s, p + 1, p + n)) = n
           /\ \A i \in 1 .. n : SubSeq(s, p + 1, p + n)[i] = s[p + i]
<1>1. p + 1 \in Int /\ p + n \in Int /\ \A i \in p + 1 .. p + n : s[i] \in K
  OBVIOUS
<1>2. /\ SubSeq(s, p + 1, p + n) \in Seq(K)
      /\ Len(SubSeq(s, p + 1, p + n)) = IF p + 1 <= p + n THEN (p + n) - (p + 1) + 1 ELSE 0
      /\ \A i \in 1 .. (p + n) - (p + 1) + 1 : SubSeq(s, p + 1, p + n)[i] = s[(p + 1) + i - 1]
  BY <1>1, SubSeqProperties
<1>3. /\ (IF p + 1 <= p + n THEN (p + n) - (p + 1) + 1 ELSE 0) = n
      /\ (p + n) - (p + 1) + 1 = n /\ \A i \in 1 .. n : (p + 1) + i - 1 = p + i
  OBVIOUS
<1> QED
  BY <1>2, <1>3

LEMMA MiddleFacts ==
    ASSUME NEW K, NEW a \in Seq(K), NEW b \in Seq(K)
    PROVE  /\ MidA(a, b) \in Seq(K) /\ MidB(a, b) \in Seq(K)
           /\ Len(MidA(a, b)) = Len(a) - Suf(a, b) - Pre(a, b)
           /\ Len(MidB(a, b)) = Len(b) - Suf(a, b) - Pre(a, b)
           /\ \A i \in 1 .. Len(MidA(a, b)) : MidA(a, b)[i] = a[Pre(a, b) + i]
           /\ \A i \in 1 .. Len(MidB(a, b)) : MidB(a, b)[i] = b[Pre(a, b) + i]
           /\ Middle(a, b) \in SUBSET Pairs(MidA(a, b), MidB(a, b))
           /\ Alignment(Middle(a, b), MidA(a, b), MidB(a, b))
<1>2. /\ Len(a) \in Nat /\ Len(b) \in Nat /\ Pre(a, b) \in Nat /\ Suf(a, b) \in Nat
      /\ Len(a) - Suf(a, b) - Pre(a, b) \in Nat /\ Len(b) - Suf(a, b) - Pre(a, b) \in Nat
      /\ Pre(a, b) + (Len(a) - Suf(a, b) - Pre(a, b)) <= Len(a)
      /\ Pre(a, b) + (Len(b) - Suf(a, b) - Pre(a, b)) <= Len(b)
  <2>1. /\ Len(a) \in Nat /\ Len(b) \in Nat /\ Pre(a, b) \in Nat /\ Suf(a, b) \in Nat
        /\ Pre(a, b) + Suf(a, b) <= Len(a) /\ Pre(a, b) + Suf(a, b) <= Len(b)
    BY PrefixFacts, SuffixFacts
  <2> QED
    BY <2>1
<1>3. /\ MidA(a, b) \in Seq(K) /\ Len(MidA(a, b)) = Len(a) - Suf(a, b) - Pre(a, b)
      /\ \A i \in 1 .. Len(MidA(a, b)) : MidA(a, b)[i] = a[Pre(a, b) + i]
  <2> DEFINE p == Pre(a, b)
             n == Len(a) - Suf(a, b) - Pre(a, b)
  <2>1. p \in Nat /\ n \in Nat /\ p + n <= Len(a) /\ MidA(a, b) = SubSeq(a, p + 1, p + n)
    BY <1>2, Zenon DEF MidA
  <2> HIDE DEF p, n
  <2>2. /\ MidA(a, b) \in Seq(K) /\ Len(MidA(a, b)) = n
        /\ \A i \in 1 .. n : MidA(a, b)[i] = a[p + i]
    BY <2>1, Slice
  <2> QED
    BY <2>2 DEF p, n
<1>4. /\ MidB(a, b) \in Seq(K) /\ Len(MidB(a, b)) = Len(b) - Suf(a, b) - Pre(a, b)
      /\ \A i \in 1 .. Len(MidB(a, b)) : MidB(a, b)[i] = b[Pre(a, b) + i]
  <2> DEFINE p == Pre(a, b)
             n == Len(b) - Suf(a, b) - Pre(a, b)
  <2>1. p \in Nat /\ n \in Nat /\ p + n <= Len(b) /\ MidB(a, b) = SubSeq(b, p + 1, p + n)
    BY <1>2, Zenon DEF MidB
  <2> HIDE DEF p, n
  <2>2. /\ MidB(a, b) \in Seq(K) /\ Len(MidB(a, b)) = n
        /\ \A i \in 1 .. n : MidB(a, b)[i] = b[p + i]
    BY <2>1, Slice
  <2> QED
    BY <2>2 DEF p, n
<1>5. /\ Middle(a, b) \in SUBSET Pairs(MidA(a, b), MidB(a, b))
      /\ Alignment(Middle(a, b), MidA(a, b), MidB(a, b))
  BY <1>3, <1>4, DynamicIsLongest, UniqueAligns DEF Middle
<1> QED
  BY <1>3, <1>4, <1>5

LEMMA MiddlePairFacts ==
    ASSUME NEW K, NEW a \in Seq(K), NEW b \in Seq(K), NEW p \in MiddlePairs(a, b)
    PROVE  /\ p \in Pairs(a, b) /\ p[1] > Pre(a, b) /\ p[2] > Pre(a, b)
           /\ p[1] <= Len(a) - Suf(a, b) /\ p[2] <= Len(b) - Suf(a, b)
           /\ a[p[1]] = b[p[2]]
           /\ <<p[1] - Pre(a, b), p[2] - Pre(a, b)>> \in Middle(a, b)
<1>0. /\ Len(a) \in Nat /\ Len(b) \in Nat /\ Pre(a, b) \in Nat /\ Suf(a, b) \in Nat
      /\ Pre(a, b) <= Len(a) /\ Pre(a, b) <= Len(b)
      /\ Pre(a, b) + Suf(a, b) <= Len(a) /\ Pre(a, b) + Suf(a, b) <= Len(b)
  BY PrefixFacts, SuffixFacts
<1>1. PICK q \in Middle(a, b) : p = <<q[1] + Pre(a, b), q[2] + Pre(a, b)>>
  BY DEF MiddlePairs
<1>2. /\ q \in Pairs(MidA(a, b), MidB(a, b)) /\ MidA(a, b)[q[1]] = MidB(a, b)[q[2]]
      /\ Len(MidA(a, b)) = Len(a) - Suf(a, b) - Pre(a, b)
      /\ Len(MidB(a, b)) = Len(b) - Suf(a, b) - Pre(a, b)
  BY MiddleFacts DEF Alignment
<1>3. q[1] \in 1 .. Len(MidA(a, b)) /\ q[2] \in 1 .. Len(MidB(a, b)) /\ q = <<q[1], q[2]>>
  BY <1>2 DEF Pairs
<1>4. MidA(a, b)[q[1]] = a[Pre(a, b) + q[1]] /\ MidB(a, b)[q[2]] = b[Pre(a, b) + q[2]]
  BY <1>3, MiddleFacts
<1>5. PICK i \in Nat, j \in Nat, n \in Nat, m \in Nat, k \in Nat, s \in Nat :
         /\ i = q[1] /\ j = q[2] /\ n = Len(a) /\ m = Len(b) /\ k = Pre(a, b) /\ s = Suf(a, b)
  BY <1>0, <1>3
<1>6. i >= 1 /\ j >= 1 /\ i <= n - s - k /\ j <= m - s - k /\ k + s <= n /\ k + s <= m
  BY <1>0, <1>2, <1>3, <1>5
<1>7. p[1] = i + k /\ p[2] = j + k /\ p = <<i + k, j + k>>
  BY <1>1, <1>5
<1>8. p[1] \in 1 .. n /\ p[2] \in 1 .. m
  BY <1>6, <1>7
<1>9. p \in Pairs(a, b)
  BY <1>5, <1>7, <1>8 DEF Pairs
<1>10. p[1] > k /\ p[2] > k /\ p[1] <= n - s /\ p[2] <= m - s
  BY <1>6, <1>7
<1>11. k + i = i + k /\ k + j = j + k /\ p[1] - k = i /\ p[2] - k = j
  BY <1>7
<1> QED
  BY <1>2, <1>3, <1>4, <1>5, <1>7, <1>9, <1>10, <1>11

\* Where the pairs of each part lie.
LEMMA PartFacts ==
    ASSUME NEW K, NEW a \in Seq(K), NEW b \in Seq(K)
    PROVE  /\ \A p \in HeadPairs(a, b) : /\ p \in Pairs(a, b) /\ p[1] = p[2] /\ p[1] <= Pre(a, b)
                                         /\ a[p[1]] = b[p[2]]
           /\ \A p \in MiddlePairs(a, b) : /\ p \in Pairs(a, b) /\ p[1] > Pre(a, b) /\ p[2] > Pre(a, b)
                                           /\ p[1] <= Len(a) - Suf(a, b) /\ p[2] <= Len(b) - Suf(a, b)
                                           /\ a[p[1]] = b[p[2]]
                                           /\ <<p[1] - Pre(a, b), p[2] - Pre(a, b)>> \in Middle(a, b)
           /\ \A p \in TailPairs(a, b) : /\ p \in Pairs(a, b) /\ Len(a) - p[1] = Len(b) - p[2]
                                         /\ p[1] > Len(a) - Suf(a, b) /\ p[2] > Len(b) - Suf(a, b)
                                         /\ a[p[1]] = b[p[2]]
<1>1. /\ Len(a) \in Nat /\ Len(b) \in Nat /\ Pre(a, b) \in Nat /\ Suf(a, b) \in Nat
      /\ Pre(a, b) <= Len(a) /\ Pre(a, b) <= Len(b)
      /\ Pre(a, b) + Suf(a, b) <= Len(a) /\ Pre(a, b) + Suf(a, b) <= Len(b)
  BY PrefixFacts, SuffixFacts
<1>2. \A p \in HeadPairs(a, b) : /\ p \in Pairs(a, b) /\ p[1] = p[2] /\ p[1] <= Pre(a, b)
                                 /\ a[p[1]] = b[p[2]]
  <2> SUFFICES ASSUME NEW i \in 1 .. Pre(a, b) PROVE <<i, i>> \in Pairs(a, b) /\ i <= Pre(a, b) /\ a[i] = b[i]
    BY DEF HeadPairs
  <2> QED
    BY <1>1, PrefixFacts DEF Pairs
<1>3. ASSUME NEW p \in MiddlePairs(a, b)
      PROVE  /\ p \in Pairs(a, b) /\ p[1] > Pre(a, b) /\ p[2] > Pre(a, b)
             /\ p[1] <= Len(a) - Suf(a, b) /\ p[2] <= Len(b) - Suf(a, b)
             /\ a[p[1]] = b[p[2]]
             /\ <<p[1] - Pre(a, b), p[2] - Pre(a, b)>> \in Middle(a, b)
  BY MiddlePairFacts
<1>4. \A p \in TailPairs(a, b) : /\ p \in Pairs(a, b) /\ Len(a) - p[1] = Len(b) - p[2]
                                 /\ p[1] > Len(a) - Suf(a, b) /\ p[2] > Len(b) - Suf(a, b)
                                 /\ a[p[1]] = b[p[2]]
  <2> SUFFICES ASSUME NEW i \in 0 .. (Suf(a, b) - 1)
               PROVE  /\ <<Len(a) - i, Len(b) - i>> \in Pairs(a, b)
                      /\ Len(a) - (Len(a) - i) = Len(b) - (Len(b) - i)
                      /\ Len(a) - i > Len(a) - Suf(a, b) /\ Len(b) - i > Len(b) - Suf(a, b)
                      /\ a[Len(a) - i] = b[Len(b) - i]
    BY DEF TailPairs
  <2>1. Len(a) - i \in 1 .. Len(a) /\ Len(b) - i \in 1 .. Len(b)
    BY <1>1
  <2>2. <<Len(a) - i, Len(b) - i>> \in Pairs(a, b)
    BY <2>1 DEF Pairs
  <2> QED
    BY <1>1, <2>2, SuffixFacts
<1> QED
  BY <1>2, <1>3, <1>4

LEMMA PairFacts ==
    ASSUME NEW K, NEW a \in Seq(K), NEW b \in Seq(K), NEW p \in Pairs(a, b)
    PROVE  /\ p[1] \in 1 .. Len(a) /\ p[2] \in 1 .. Len(b) /\ p = <<p[1], p[2]>>
           /\ p[1] \in Nat /\ p[2] \in Nat /\ Len(a) \in Nat /\ Len(b) \in Nat
BY DEF Pairs

\* lcsPairs gives an alignment.
LEMMA LcsAligns ==
    ASSUME NEW K, NEW a \in Seq(K), NEW b \in Seq(K)
    PROVE  LcsPairs(a, b) \in SUBSET Pairs(a, b) /\ Alignment(LcsPairs(a, b), a, b)
<1>1. LcsPairs(a, b) = HeadPairs(a, b) \cup MiddlePairs(a, b) \cup TailPairs(a, b)
  BY LcsParts
<1>2. ASSUME NEW p \in LcsPairs(a, b) PROVE p \in Pairs(a, b) /\ a[p[1]] = b[p[2]]
  <2>1. CASE p \in HeadPairs(a, b)
    BY <2>1, PartFacts
  <2>2. CASE p \in MiddlePairs(a, b)
    <3>1. p \in Pairs(a, b)
      BY <2>2, PartFacts
    <3>2. a[p[1]] = b[p[2]]
      BY <2>2, MiddlePairFacts
    <3> QED
      BY <3>1, <3>2
  <2>3. CASE p \in TailPairs(a, b)
    BY <2>3, PartFacts
  <2> QED
    BY <1>1, <2>1, <2>2, <2>3
<1>3. /\ Len(a) \in Nat /\ Len(b) \in Nat /\ Pre(a, b) \in Nat /\ Suf(a, b) \in Nat
      /\ Pre(a, b) + Suf(a, b) <= Len(a) /\ Pre(a, b) + Suf(a, b) <= Len(b)
  BY PrefixFacts, SuffixFacts
<1>5. \A p \in HeadPairs(a, b) : p[1] = p[2] /\ p[1] <= Pre(a, b)
  BY PartFacts
<1>6. \A p \in MiddlePairs(a, b) : /\ p[1] > Pre(a, b) /\ p[2] > Pre(a, b)
                                   /\ p[1] <= Len(a) - Suf(a, b) /\ p[2] <= Len(b) - Suf(a, b)
  BY PartFacts
<1>7. \A p \in TailPairs(a, b) : /\ Len(a) - p[1] = Len(b) - p[2]
                                 /\ p[1] > Len(a) - Suf(a, b) /\ p[2] > Len(b) - Suf(a, b)
  BY PartFacts
<1>4. ASSUME NEW p \in LcsPairs(a, b), NEW q \in LcsPairs(a, b) PROVE p[1] < q[1] <=> p[2] < q[2]
  <2> DEFINE i == p[1]
             j == p[2]
             k == q[1]
             l == q[2]
             n == Len(a)
             m == Len(b)
             pre == Pre(a, b)
             suf == Suf(a, b)
  <2> SUFFICES i < k <=> j < l
    OBVIOUS
  <2>0. /\ i \in Nat /\ j \in Nat /\ k \in Nat /\ l \in Nat
        /\ n \in Nat /\ m \in Nat /\ pre \in Nat /\ suf \in Nat /\ pre + suf <= n /\ pre + suf <= m
    BY <1>2, <1>3, PairFacts
  <2>1. CASE p \in HeadPairs(a, b) /\ q \in HeadPairs(a, b)
    <3>1. i = j /\ k = l
      BY <1>5, <2>1, Zenon
    <3> HIDE DEF i, j, k, l, n, m, pre, suf
    <3> QED
      BY <2>0, <3>1
  <2>2. CASE p \in HeadPairs(a, b) /\ q \in MiddlePairs(a, b)
    <3>1. i = j /\ i <= pre /\ k > pre /\ l > pre
      BY <1>5, <1>6, <2>2, Zenon
    <3> HIDE DEF i, j, k, l, n, m, pre, suf
    <3> QED
      BY <2>0, <3>1
  <2>3. CASE p \in HeadPairs(a, b) /\ q \in TailPairs(a, b)
    <3>1. i = j /\ i <= pre /\ k > n - suf /\ l > m - suf
      BY <1>5, <1>7, <2>3, Zenon
    <3> HIDE DEF i, j, k, l, n, m, pre, suf
    <3> QED
      BY <2>0, <3>1
  <2>4. CASE p \in MiddlePairs(a, b) /\ q \in HeadPairs(a, b)
    <3>1. k = l /\ k <= pre /\ i > pre /\ j > pre
      BY <1>5, <1>6, <2>4, Zenon
    <3> HIDE DEF i, j, k, l, n, m, pre, suf
    <3> QED
      BY <2>0, <3>1
  <2>5. CASE p \in MiddlePairs(a, b) /\ q \in MiddlePairs(a, b)
    <3> DEFINE x == <<i - pre, j - pre>>
               y == <<k - pre, l - pre>>
    <3>1. x \in Middle(a, b) /\ y \in Middle(a, b)
      BY <2>5, PartFacts
    <3>2. x[1] < y[1] <=> x[2] < y[2]
      <4> HIDE DEF x, y
      <4> QED
        BY <3>1, MiddleFacts DEF Alignment
    <3>3. i - pre < k - pre <=> j - pre < l - pre
      BY <3>2
    <3> HIDE DEF i, j, k, l, n, m, pre, suf
    <3> QED
      BY <2>0, <3>3
  <2>6. CASE p \in MiddlePairs(a, b) /\ q \in TailPairs(a, b)
    <3>1. i <= n - suf /\ j <= m - suf /\ k > n - suf /\ l > m - suf
      BY <1>6, <1>7, <2>6, Zenon
    <3> HIDE DEF i, j, k, l, n, m, pre, suf
    <3> QED
      BY <2>0, <3>1
  <2>7. CASE p \in TailPairs(a, b) /\ q \in HeadPairs(a, b)
    <3>1. k = l /\ k <= pre /\ i > n - suf /\ j > m - suf
      BY <1>5, <1>7, <2>7, Zenon
    <3> HIDE DEF i, j, k, l, n, m, pre, suf
    <3> QED
      BY <2>0, <3>1
  <2>8. CASE p \in TailPairs(a, b) /\ q \in MiddlePairs(a, b)
    <3>1. k <= n - suf /\ l <= m - suf /\ i > n - suf /\ j > m - suf
      BY <1>6, <1>7, <2>8, Zenon
    <3> HIDE DEF i, j, k, l, n, m, pre, suf
    <3> QED
      BY <2>0, <3>1
  <2>9. CASE p \in TailPairs(a, b) /\ q \in TailPairs(a, b)
    <3>1. n - i = m - j /\ n - k = m - l
      BY <1>7, <2>9, Zenon
    <3> HIDE DEF i, j, k, l, n, m, pre, suf
    <3> QED
      BY <2>0, <3>1
  <2> QED
    BY <1>1, <2>1, <2>2, <2>3, <2>4, <2>5, <2>6, <2>7, <2>8, <2>9
<1> QED
  BY <1>2, <1>4 DEF Alignment

-----------------------------------------------------------------------------
(***************************************************************************)
(* Counting.                                                               *)
(***************************************************************************)

LEMMA Injects ==
    ASSUME NEW S, NEW T, IsFiniteSet(T), NEW f \in [S -> T],
           \A x, y \in S : f[x] = f[y] => x = y
    PROVE  IsFiniteSet(S) /\ Cardinality(S) <= Cardinality(T)
<1>1. f \in Injection(S, T)
  BY Zenon DEF Injection, IsInjective
<1> QED
  BY <1>1, FS_Injection

LEMMA InThree ==
    ASSUME NEW S, NEW A, NEW B, NEW C, IsFiniteSet(A), IsFiniteSet(B), IsFiniteSet(C), S = A \cup B \cup C
    PROVE  /\ IsFiniteSet(S) /\ Cardinality(S) \in Nat
           /\ Cardinality(A) \in Nat /\ Cardinality(B) \in Nat /\ Cardinality(C) \in Nat
           /\ Cardinality(S) <= Cardinality(A) + Cardinality(B) + Cardinality(C)
<1>1. /\ IsFiniteSet(A \cup B)
      /\ Cardinality(A \cup B) = Cardinality(A) + Cardinality(B) - Cardinality(A \cap B)
  BY FS_Union
<1>2. /\ IsFiniteSet((A \cup B) \cup C)
      /\ Cardinality((A \cup B) \cup C) = Cardinality(A \cup B) + Cardinality(C) - Cardinality((A \cup B) \cap C)
  BY <1>1, FS_Union
<1>3. /\ Cardinality(A) \in Nat /\ Cardinality(B) \in Nat /\ Cardinality(C) \in Nat
      /\ Cardinality(A \cup B) \in Nat /\ Cardinality((A \cup B) \cup C) \in Nat
  BY <1>1, <1>2, FS_CardinalityType
<1>4. Cardinality(A \cap B) \in Nat /\ Cardinality((A \cup B) \cap C) \in Nat
  <2>1. IsFiniteSet(A \cap B) /\ IsFiniteSet((A \cup B) \cap C)
    <3>1. A \cap B \in SUBSET A /\ (A \cup B) \cap C \in SUBSET C
      OBVIOUS
    <3> QED
      BY <3>1, FS_Subset
  <2> QED
    BY <2>1, FS_CardinalityType
<1>5. S = (A \cup B) \cup C
  OBVIOUS
<1> QED
  BY <1>1, <1>2, <1>3, <1>4, <1>5

LEMMA InThreeApart ==
    ASSUME NEW A, NEW B, NEW C, IsFiniteSet(A), IsFiniteSet(B), IsFiniteSet(C),
           A \cap B = {}, A \cap C = {}, B \cap C = {}
    PROVE  Cardinality(A \cup B \cup C) = Cardinality(A) + Cardinality(B) + Cardinality(C)
<1>1. /\ IsFiniteSet(A \cup B)
      /\ Cardinality(A \cup B) = Cardinality(A) + Cardinality(B) - Cardinality(A \cap B)
  BY FS_Union
<1>2. /\ IsFiniteSet((A \cup B) \cup C)
      /\ Cardinality((A \cup B) \cup C) = Cardinality(A \cup B) + Cardinality(C) - Cardinality((A \cup B) \cap C)
  BY <1>1, FS_Union
<1>3. /\ Cardinality(A) \in Nat /\ Cardinality(B) \in Nat /\ Cardinality(C) \in Nat
      /\ Cardinality(A \cup B) \in Nat
  BY <1>1, FS_CardinalityType
<1>4. A \cap B = {} /\ (A \cup B) \cap C = {}
  OBVIOUS
<1>5. Cardinality(A \cap B) = 0 /\ Cardinality((A \cup B) \cap C) = 0
  BY <1>4, FS_EmptySet
<1> QED
  BY <1>1, <1>2, <1>3, <1>5

\* The part of an alignment that touches the first n indices of either document has at
\* most n pairs, and so has the part that touches the last n.
LEMMA FewTouchTheStart ==
    ASSUME NEW K, NEW a \in Seq(K), NEW b \in Seq(K), NEW n \in Nat, NEW Q \in SUBSET Pairs(a, b),
           Alignment(Q, a, b), \A p \in Q : p[1] <= n \/ p[2] <= n
    PROVE  Cardinality(Q) <= n
<1> DEFINE f == [p \in Q |-> IF p[1] <= p[2] THEN p[1] ELSE p[2]]
<1>1. \A p \in Q : /\ p[1] \in Nat /\ p[2] \in Nat /\ p[1] >= 1 /\ p[2] >= 1
                   /\ p = <<p[1], p[2]>>
  BY PairFacts
<1>2. f \in [Q -> 1 .. n]
  BY <1>1
<1>3. ASSUME NEW p \in Q, NEW q \in Q, f[p] = f[q] PROVE p = q
  <2>1. (p[1] < q[1] <=> p[2] < q[2]) /\ (q[1] < p[1] <=> q[2] < p[2])
    BY DEF Alignment
  <2>2. p[1] = q[1] /\ p[2] = q[2]
    BY <1>1, <1>3, <2>1
  <2> QED
    BY <1>1, <2>2
<1>4. IsFiniteSet(1 .. n) /\ Cardinality(1 .. n) = n
  BY FS_Interval
<1> HIDE DEF f
<1> QED
  BY <1>2, <1>3, <1>4, Injects

LEMMA SameFromEnd ==
    ASSUME NEW n \in Nat, NEW x \in Nat, NEW y \in Nat, n - x = n - y
    PROVE  x = y
OBVIOUS

LEMMA FewTouchTheEnd ==
    ASSUME NEW K, NEW a \in Seq(K), NEW b \in Seq(K), NEW n \in Nat, NEW Q \in SUBSET Pairs(a, b),
           Alignment(Q, a, b), \A p \in Q : Len(a) - p[1] < n \/ Len(b) - p[2] < n
    PROVE  Cardinality(Q) <= n
<1> DEFINE f == [p \in Q |-> IF Len(a) - p[1] <= Len(b) - p[2] THEN Len(a) - p[1] + 1 ELSE Len(b) - p[2] + 1]
<1>1. \A p \in Q : /\ p[1] \in Nat /\ p[2] \in Nat /\ p[1] >= 1 /\ p[2] >= 1
                   /\ p[1] <= Len(a) /\ p[2] <= Len(b) /\ p = <<p[1], p[2]>>
  BY PairFacts
<1>2. f \in [Q -> 1 .. n]
  <2> SUFFICES ASSUME NEW p \in Q
               PROVE  (IF Len(a) - p[1] <= Len(b) - p[2] THEN Len(a) - p[1] + 1 ELSE Len(b) - p[2] + 1) \in 1 .. n
    OBVIOUS
  <2>1. PICK i \in Nat, j \in Nat, l \in Nat, m \in Nat : i = p[1] /\ j = p[2] /\ l = Len(a) /\ m = Len(b)
    BY <1>1
  <2>2. i <= l /\ j <= m /\ (l - i < n \/ m - j < n)
    BY <1>1, <2>1
  <2>3. (IF l - i <= m - j THEN l - i + 1 ELSE m - j + 1) \in 1 .. n
    BY <2>2
  <2> QED
    BY <2>1, <2>3
<1>3. ASSUME NEW p \in Q, NEW q \in Q, f[p] = f[q] PROVE p = q
  <2>1. (p[1] < q[1] <=> p[2] < q[2]) /\ (q[1] < p[1] <=> q[2] < p[2])
    BY DEF Alignment
  <2>2. Len(a) \in Nat /\ Len(b) \in Nat
    OBVIOUS
  <2> DEFINE i == p[1]
             j == p[2]
             k == q[1]
             l == q[2]
             u == Len(a)
             v == Len(b)
  <2>3. (IF u - i <= v - j THEN u - i + 1 ELSE v - j + 1) = (IF u - k <= v - l THEN u - k + 1 ELSE v - l + 1)
    BY <1>3
  <2>4. i = k /\ j = l
    <3>1. i \in Nat /\ j \in Nat /\ k \in Nat /\ l \in Nat /\ u \in Nat /\ v \in Nat
      BY <1>1, <2>2
    <3>2. (i < k <=> j < l) /\ (k < i <=> l < j)
      BY <2>1
    <3> HIDE DEF f, i, j, k, l, u, v
    <3> QED
      BY <2>3, <3>1, <3>2, SameDistance
  <2> QED
    BY <1>1, <2>4
<1>4. IsFiniteSet(1 .. n) /\ Cardinality(1 .. n) = n
  BY FS_Interval
<1> HIDE DEF f
<1> QED
  BY <1>2, <1>3, <1>4, Injects

LEMMA PartSizes ==
    ASSUME NEW K, NEW a \in Seq(K), NEW b \in Seq(K)
    PROVE  /\ IsFiniteSet(LcsPairs(a, b)) /\ Cardinality(LcsPairs(a, b)) \in Nat
           /\ Cardinality(Middle(a, b)) \in Nat
           /\ Cardinality(LcsPairs(a, b)) >= Pre(a, b) + Cardinality(Middle(a, b)) + Suf(a, b)
<1>1. /\ Pre(a, b) \in Nat /\ Suf(a, b) \in Nat /\ Len(a) \in Nat /\ Len(b) \in Nat
      /\ Pre(a, b) + Suf(a, b) <= Len(a)
  BY PrefixFacts, SuffixFacts
<1>2. IsFiniteSet(HeadPairs(a, b)) /\ IsFiniteSet(MiddlePairs(a, b)) /\ IsFiniteSet(TailPairs(a, b))
  <2>1. HeadPairs(a, b) \in SUBSET Pairs(a, b)
    BY PartFacts
  <2>2. MiddlePairs(a, b) \in SUBSET Pairs(a, b)
    BY PartFacts
  <2>3. TailPairs(a, b) \in SUBSET Pairs(a, b)
    BY PartFacts
  <2> QED
    BY <2>1, <2>2, <2>3, PairsAreFinite
<1>3. Pre(a, b) <= Cardinality(HeadPairs(a, b))
  <2> DEFINE f == [i \in 1 .. Pre(a, b) |-> <<i, i>>]
  <2>1. f \in [1 .. Pre(a, b) -> HeadPairs(a, b)]
    BY DEF HeadPairs
  <2>2. \A x, y \in 1 .. Pre(a, b) : f[x] = f[y] => x = y
    OBVIOUS
  <2>3. Cardinality(1 .. Pre(a, b)) = Pre(a, b)
    BY <1>1, FS_Interval
  <2> HIDE DEF f
  <2>4. Cardinality(1 .. Pre(a, b)) <= Cardinality(HeadPairs(a, b))
    BY <1>2, <2>1, <2>2, Injects
  <2> QED
    BY <2>3, <2>4
<1>4. Suf(a, b) <= Cardinality(TailPairs(a, b))
  <2> DEFINE f == [i \in 0 .. (Suf(a, b) - 1) |-> <<Len(a) - i, Len(b) - i>>]
  <2>1. f \in [0 .. (Suf(a, b) - 1) -> TailPairs(a, b)]
    BY DEF TailPairs
  <2>2. \A x, y \in 0 .. (Suf(a, b) - 1) : f[x] = f[y] => x = y
    <3> SUFFICES ASSUME NEW x \in 0 .. (Suf(a, b) - 1), NEW y \in 0 .. (Suf(a, b) - 1), f[x] = f[y] PROVE x = y
      OBVIOUS
    <3> DEFINE n == Len(a)
    <3>1. n - x = n - y
      OBVIOUS
    <3>2. x \in Nat /\ y \in Nat /\ n \in Nat
      BY <1>1
    <3> HIDE DEF n, f
    <3> QED
      BY <3>1, <3>2, SameFromEnd
  <2>3. Cardinality(0 .. (Suf(a, b) - 1)) = Suf(a, b)
    BY <1>1, FS_Interval
  <2> HIDE DEF f
  <2>4. Cardinality(0 .. (Suf(a, b) - 1)) <= Cardinality(TailPairs(a, b))
    BY <1>2, <2>1, <2>2, Injects
  <2> QED
    BY <2>3, <2>4
<1>5. IsFiniteSet(Middle(a, b)) /\ Cardinality(Middle(a, b)) \in Nat
  BY MiddleFacts, PairsAreFinite
<1>6. Cardinality(Middle(a, b)) <= Cardinality(MiddlePairs(a, b))
  <2> DEFINE f == [p \in Middle(a, b) |-> <<p[1] + Pre(a, b), p[2] + Pre(a, b)>>]
  <2>1. f \in [Middle(a, b) -> MiddlePairs(a, b)]
    BY DEF MiddlePairs
  <2>2. \A p \in Middle(a, b) : p[1] \in Nat /\ p[2] \in Nat /\ p = <<p[1], p[2]>>
    BY MiddleFacts, PairFacts
  <2>3. ASSUME NEW x \in Middle(a, b), NEW y \in Middle(a, b), f[x] = f[y] PROVE x = y
    <3>1. x[1] + Pre(a, b) = y[1] + Pre(a, b) /\ x[2] + Pre(a, b) = y[2] + Pre(a, b)
      BY <2>3
    <3>2. x[1] = y[1] /\ x[2] = y[2]
      BY <1>1, <2>2, <3>1
    <3> QED
      BY <2>2, <3>2
  <2> HIDE DEF f
  <2> QED
    BY <1>2, <2>1, <2>3, Injects
<1>7. HeadPairs(a, b) \cap MiddlePairs(a, b) = {}
  <2> SUFFICES ASSUME NEW p \in HeadPairs(a, b), p \in MiddlePairs(a, b) PROVE FALSE
    OBVIOUS
  <2>1. p \in Pairs(a, b) /\ p[1] <= Pre(a, b) /\ p[1] > Pre(a, b)
    BY PartFacts
  <2> QED
    BY <1>1, <2>1, PairFacts
<1>8. HeadPairs(a, b) \cap TailPairs(a, b) = {}
  <2> SUFFICES ASSUME NEW p \in HeadPairs(a, b), p \in TailPairs(a, b) PROVE FALSE
    OBVIOUS
  <2>1. p \in Pairs(a, b) /\ p[1] <= Pre(a, b)
    BY PartFacts
  <2>2. p[1] > Len(a) - Suf(a, b)
    BY PartFacts
  <2>3. p[1] \in Nat
    BY <2>1, PairFacts
  <2> QED
    BY <1>1, <2>1, <2>2, <2>3
<1>9. MiddlePairs(a, b) \cap TailPairs(a, b) = {}
  <2> SUFFICES ASSUME NEW p \in MiddlePairs(a, b), p \in TailPairs(a, b) PROVE FALSE
    OBVIOUS
  <2>1. p \in Pairs(a, b) /\ p[1] <= Len(a) - Suf(a, b)
    BY PartFacts
  <2>2. p[1] > Len(a) - Suf(a, b)
    BY PartFacts
  <2>3. p[1] \in Nat
    BY <2>1, PairFacts
  <2> QED
    BY <1>1, <2>1, <2>2, <2>3
<1>10. LcsPairs(a, b) = HeadPairs(a, b) \cup MiddlePairs(a, b) \cup TailPairs(a, b)
  BY LcsParts
<1>11. /\ IsFiniteSet(LcsPairs(a, b)) /\ Cardinality(LcsPairs(a, b)) \in Nat
       /\ Cardinality(HeadPairs(a, b)) \in Nat /\ Cardinality(MiddlePairs(a, b)) \in Nat
       /\ Cardinality(TailPairs(a, b)) \in Nat
       /\ Cardinality(LcsPairs(a, b))
            = Cardinality(HeadPairs(a, b)) + Cardinality(MiddlePairs(a, b)) + Cardinality(TailPairs(a, b))
  <2> DEFINE S == LcsPairs(a, b)
             A == HeadPairs(a, b)
             B == MiddlePairs(a, b)
             C == TailPairs(a, b)
  <2>1. /\ IsFiniteSet(A) /\ IsFiniteSet(B) /\ IsFiniteSet(C) /\ S = A \cup B \cup C
        /\ A \cap B = {} /\ A \cap C = {} /\ B \cap C = {}
    BY <1>2, <1>7, <1>8, <1>9, <1>10
  <2> HIDE DEF S, A, B, C
  <2>2. /\ IsFiniteSet(S) /\ Cardinality(S) \in Nat
        /\ Cardinality(A) \in Nat /\ Cardinality(B) \in Nat /\ Cardinality(C) \in Nat
    BY <2>1, InThree
  <2>3. Cardinality(A \cup B \cup C) = Cardinality(A) + Cardinality(B) + Cardinality(C)
    BY <2>1, InThreeApart
  <2> QED
    BY <2>1, <2>2, <2>3 DEF S, A, B, C
<1> QED
  BY <1>1, <1>3, <1>4, <1>5, <1>6, <1>11

\* The middle fits the table.
FitsTable(a, b) == (Len(a) - Suf(a, b) - Pre(a, b)) * (Len(b) - Suf(a, b) - Pre(a, b)) <= MaxCells

\* Then it is a longest one.
LEMMA LcsIsLongestOf ==
    ASSUME NEW K, NEW a \in Seq(K), NEW b \in Seq(K),
           FitsTable(a, b),
           NEW Q \in SUBSET Pairs(a, b), Alignment(Q, a, b)
    PROVE  Cardinality(Q) <= Cardinality(LcsPairs(a, b))
<1> DEFINE pre == Pre(a, b)
           suf == Suf(a, b)
           A == {p \in Q : p[1] <= pre \/ p[2] <= pre}
           C == {p \in Q \ A : Len(a) - p[1] < suf \/ Len(b) - p[2] < suf}
           B == (Q \ A) \ C
           Z == {<<p[1] - pre, p[2] - pre>> : p \in B}
<1>1. /\ pre \in Nat /\ suf \in Nat /\ Len(a) \in Nat /\ Len(b) \in Nat
      /\ pre + suf <= Len(a) /\ pre + suf <= Len(b)
  BY PrefixFacts, SuffixFacts
<1>2. \A p \in Q : /\ p[1] \in 1 .. Len(a) /\ p[2] \in 1 .. Len(b) /\ p = <<p[1], p[2]>>
                   /\ p[1] \in Nat /\ p[2] \in Nat
  BY PairFacts
<1>3. IsFiniteSet(Q) /\ IsFiniteSet(A) /\ IsFiniteSet(B) /\ IsFiniteSet(C)
  <2>1. IsFiniteSet(Q) /\ A \in SUBSET Q /\ B \in SUBSET Q /\ C \in SUBSET Q
    BY PairsAreFinite
  <2> HIDE DEF A, B, C
  <2> QED
    BY <2>1, FS_Subset
<1>4. Alignment(A, a, b) /\ Alignment(B, a, b) /\ Alignment(C, a, b)
  BY DEF Alignment
<1>5. Cardinality(A) <= pre
  <2>1. A \in SUBSET Pairs(a, b) /\ \A p \in A : p[1] <= pre \/ p[2] <= pre
    OBVIOUS
  <2> HIDE DEF A, pre
  <2> QED
    BY <1>1, <1>4, <2>1, FewTouchTheStart
<1>6. Cardinality(C) <= suf
  <2>1. C \in SUBSET Pairs(a, b) /\ \A p \in C : Len(a) - p[1] < suf \/ Len(b) - p[2] < suf
    OBVIOUS
  <2> HIDE DEF C, suf
  <2> QED
    BY <1>1, <1>4, <2>1, FewTouchTheEnd
<1>7. \A p \in B : /\ p \in Q /\ p[1] > pre /\ p[2] > pre
                   /\ Len(a) - p[1] >= suf /\ Len(b) - p[2] >= suf
  BY <1>1, <1>2
<1>8. ASSUME NEW p \in B
      PROVE  /\ <<p[1] - pre, p[2] - pre>> \in Pairs(MidA(a, b), MidB(a, b))
             /\ MidA(a, b)[p[1] - pre] = MidB(a, b)[p[2] - pre]
  <2>1. PICK i \in Nat, j \in Nat, l \in Nat, m \in Nat, k \in Nat, s \in Nat :
           i = p[1] /\ j = p[2] /\ l = Len(a) /\ m = Len(b) /\ k = pre /\ s = suf
    BY <1>1, <1>2, <1>7
  <2>2. i > k /\ j > k /\ l - i >= s /\ m - j >= s
    BY <1>7, <2>1
  <2>3. i - k \in 1 .. l - s - k /\ j - k \in 1 .. m - s - k /\ k + (i - k) = i /\ k + (j - k) = j
    BY <2>2
  <2>4. Len(MidA(a, b)) = l - s - k /\ Len(MidB(a, b)) = m - s - k
    BY <2>1, MiddleFacts
  <2>5. p[1] - pre \in 1 .. Len(MidA(a, b)) /\ p[2] - pre \in 1 .. Len(MidB(a, b))
    BY <2>1, <2>3, <2>4
  <2>6. MidA(a, b)[p[1] - pre] = a[pre + (p[1] - pre)] /\ MidB(a, b)[p[2] - pre] = b[pre + (p[2] - pre)]
    BY <2>5, MiddleFacts
  <2>7. MidA(a, b)[p[1] - pre] = a[p[1]] /\ MidB(a, b)[p[2] - pre] = b[p[2]]
    BY <2>1, <2>3, <2>6
  <2>8. a[p[1]] = b[p[2]]
    BY <1>7 DEF Alignment
  <2> QED
    BY <2>5, <2>7, <2>8 DEF Pairs
<1>9. Z \in SUBSET Pairs(MidA(a, b), MidB(a, b))
  BY <1>8
<1>10. Alignment(Z, MidA(a, b), MidB(a, b))
  <2>1. ASSUME NEW x \in Z, NEW y \in Z PROVE x[1] < y[1] <=> x[2] < y[2]
    <3>1. PICK p \in B : x = <<p[1] - pre, p[2] - pre>>
      OBVIOUS
    <3>2. PICK q \in B : y = <<q[1] - pre, q[2] - pre>>
      OBVIOUS
    <3>3. p[1] < q[1] <=> p[2] < q[2]
      BY <1>4 DEF Alignment
    <3>4. p \in Q /\ q \in Q
      BY <1>7
    <3>5. p[1] \in Nat /\ p[2] \in Nat /\ q[1] \in Nat /\ q[2] \in Nat
      BY <1>2, <3>4
    <3>6. PICK i \in Nat, j \in Nat, k \in Nat, l \in Nat, m \in Nat :
             i = p[1] /\ j = p[2] /\ k = q[1] /\ l = q[2] /\ m = pre
      BY <1>1, <3>5
    <3> HIDE DEF A, B, C, Z, pre
    <3>7. x[1] = i - m /\ x[2] = j - m /\ y[1] = k - m /\ y[2] = l - m
      BY <3>1, <3>2, <3>6
    <3>8. i < k <=> j < l
      BY <3>3, <3>6
    <3>9. (i - m < k - m <=> i < k) /\ (j - m < l - m <=> j < l)
      OBVIOUS
    <3> QED
      BY <3>7, <3>8, <3>9
  <2>2. \A x \in Z : MidA(a, b)[x[1]] = MidB(a, b)[x[2]]
    BY <1>8
  <2> HIDE DEF Z
  <2> QED
    BY <2>1, <2>2 DEF Alignment
<1>11. Cardinality(Z) <= Cardinality(Middle(a, b))
  <2>1. Middle(a, b) = DynamicAlignment(MidA(a, b), MidB(a, b))
    BY DEF Middle, FitsTable
  <2>2. MidA(a, b) \in Seq(K) /\ MidB(a, b) \in Seq(K)
    BY MiddleFacts
  <2> HIDE DEF Z
  <2> QED
    BY <1>9, <1>10, <2>1, <2>2, DynamicIsLongest
<1>12. IsFiniteSet(Z) /\ Cardinality(Z) \in Nat
  <2>1. MidA(a, b) \in Seq(K) /\ MidB(a, b) \in Seq(K)
    BY MiddleFacts
  <2> HIDE DEF Z
  <2> QED
    BY <1>9, <2>1, PairsAreFinite
<1>13. Cardinality(B) <= Cardinality(Z)
  <2> DEFINE f == [p \in B |-> <<p[1] - pre, p[2] - pre>>]
  <2>1. f \in [B -> Z]
    OBVIOUS
  <2>2. ASSUME NEW p \in B, NEW q \in B, f[p] = f[q] PROVE p = q
    <3>1. p[1] - pre = q[1] - pre /\ p[2] - pre = q[2] - pre
      BY <2>2
    <3>2. p \in Q /\ q \in Q
      BY <1>7
    <3>3. /\ p[1] \in Nat /\ p[2] \in Nat /\ p = <<p[1], p[2]>>
          /\ q[1] \in Nat /\ q[2] \in Nat /\ q = <<q[1], q[2]>>
      BY <1>2, <3>2
    <3>4. p[1] = q[1] /\ p[2] = q[2]
      <4> HIDE DEF A, B, C, Z, pre, f
      <4>1. pre \in Nat
        BY <1>1
      <4> QED
        BY <3>1, <3>3, <4>1, SameAfterShift, Zenon
    <3> QED
      BY <3>3, <3>4
  <2> HIDE DEF f, B, Z
  <2> QED
    BY <1>12, <2>1, <2>2, Injects
<1>14. /\ Cardinality(Q) \in Nat /\ Cardinality(A) \in Nat /\ Cardinality(B) \in Nat /\ Cardinality(C) \in Nat
       /\ Cardinality(Q) <= Cardinality(A) + Cardinality(B) + Cardinality(C)
  <2>1. Q = A \cup B \cup C
    OBVIOUS
  <2> HIDE DEF A, B, C
  <2> QED
    BY <1>3, <2>1, InThree
<1>15. /\ Cardinality(LcsPairs(a, b)) \in Nat /\ Cardinality(Middle(a, b)) \in Nat
       /\ Cardinality(LcsPairs(a, b)) >= pre + Cardinality(Middle(a, b)) + suf
  BY PartSizes
<1> HIDE DEF A, B, C, Z, pre, suf
<1> QED
  BY <1>1, <1>5, <1>6, <1>11, <1>12, <1>13, <1>14, <1>15

-----------------------------------------------------------------------------
(***************************************************************************)
(* Sequences of steps.                                                     *)
(***************************************************************************)

Steps == [kind : {"keep", "insert"}, index : Nat]

\* Kept blocks come in the order of the live document, new ones in the order of theirs.
InOrder(steps) ==
    \A x, y \in 1 .. Len(steps) :
       x < y /\ steps[x].kind = steps[y].kind => steps[x].index < steps[y].index

\* The step lies behind the l-th block of theirs and the m-th live one, and not behind the
\* t-th and the u-th.
StepWithin(step, l, m, t, u) ==
    /\ step.kind = "keep" => m < step.index /\ step.index <= u
    /\ step.kind = "insert" => l < step.index /\ step.index <= t

Within(steps, l, m, t, u) ==
    /\ steps \in Seq(Steps)
    /\ InOrder(steps)
    /\ \A step \in ToSet(steps) : StepWithin(step, l, m, t, u)

LEMMA ElementsOf ==
    ASSUME NEW K, NEW s \in Seq(K)
    PROVE  /\ Len(s) \in Nat /\ DOMAIN s = 1 .. Len(s) /\ ToSet(s) \subseteq K
           /\ \A i \in 1 .. Len(s) : s[i] \in K /\ s[i] \in ToSet(s)
           /\ \A e \in ToSet(s) : \E i \in 1 .. Len(s) : e = s[i]
<1>1. DOMAIN s = 1 .. Len(s) /\ Len(s) \in Nat
  BY LenProperties
<1> QED
  BY <1>1 DEF ToSet

Associates(s, t, u) == (s \o t) \o u = s \o (t \o u)

LEMMA JoinedInThree ==
    ASSUME NEW K, NEW s \in Seq(K), NEW t \in Seq(K), NEW u \in Seq(K)
    PROVE  Associates(s, t, u)
BY ConcatAssociative DEF Associates

LEMMA JoinedElements ==
    ASSUME NEW K, NEW s \in Seq(K), NEW t \in Seq(K)
    PROVE  s \o t \in Seq(K) /\ ToSet(s \o t) = ToSet(s) \cup ToSet(t)
<1>1. /\ s \o t \in Seq(K) /\ Len(s \o t) = Len(s) + Len(t)
      /\ \A i \in 1 .. Len(s) + Len(t) : (s \o t)[i] = IF i <= Len(s) THEN s[i] ELSE t[i - Len(s)]
  BY ConcatProperties
<1>2. Len(s) \in Nat /\ Len(t) \in Nat
  OBVIOUS
<1>3. ASSUME NEW e \in ToSet(s \o t) PROVE e \in ToSet(s) \cup ToSet(t)
  <2>1. PICK i \in 1 .. Len(s) + Len(t) : e = (s \o t)[i]
    BY <1>1, ElementsOf
  <2>2. CASE i <= Len(s)
    <3>1. e = s[i] /\ i \in 1 .. Len(s)
      BY <1>1, <2>1, <2>2
    <3> QED
      BY <3>1, ElementsOf
  <2>3. CASE ~(i <= Len(s))
    <3>1. e = t[i - Len(s)] /\ i - Len(s) \in 1 .. Len(t)
      BY <1>1, <1>2, <2>1, <2>3
    <3> QED
      BY <3>1, ElementsOf
  <2> QED
    BY <2>2, <2>3
<1>4. ASSUME NEW e \in ToSet(s) PROVE e \in ToSet(s \o t)
  <2>1. PICK i \in 1 .. Len(s) : e = s[i]
    BY ElementsOf
  <2>2. i \in 1 .. Len(s \o t) /\ (s \o t)[i] = e
    BY <1>1, <1>2, <2>1
  <2> QED
    BY <1>1, <2>2, ElementsOf
<1>5. ASSUME NEW e \in ToSet(t) PROVE e \in ToSet(s \o t)
  <2>1. PICK i \in 1 .. Len(t) : e = t[i]
    BY ElementsOf
  <2>2. i + Len(s) \in 1 .. Len(s) + Len(t) /\ ~(i + Len(s) <= Len(s)) /\ (i + Len(s)) - Len(s) = i
    BY <1>2
  <2>3. i + Len(s) \in 1 .. Len(s \o t) /\ (s \o t)[i + Len(s)] = e
    BY <1>1, <2>1, <2>2
  <2> QED
    BY <1>1, <2>3, ElementsOf
<1> QED
  BY <1>1, <1>3, <1>4, <1>5

LEMMA OneElement ==
    ASSUME NEW K, NEW e \in K
    PROVE  <<e>> \in Seq(K) /\ Len(<<e>>) = 1 /\ <<e>>[1] = e /\ ToSet(<<e>>) = {e}
<1>1. <<e>> \in Seq(K) /\ Len(<<e>>) = 1 /\ <<e>>[1] = e
  OBVIOUS
<1>2. DOMAIN <<e>> = {1}
  OBVIOUS
<1> QED
  BY <1>1, <1>2 DEF ToSet

LEMMA NoElements ==
    ASSUME NEW K
    PROVE  <<>> \in Seq(K) /\ Len(<<>>) = 0 /\ ToSet(<<>>) = {}
<1>1. <<>> \in Seq(K) /\ Len(<<>>) = 0 /\ DOMAIN <<>> = {}
  OBVIOUS
<1> QED
  BY <1>1 DEF ToSet

\* Two parts of a plan, the one behind the other.
LEMMA JoinedInOrder ==
    ASSUME NEW s \in Seq(Steps), NEW t \in Seq(Steps), InOrder(s), InOrder(t),
           \A x \in ToSet(s), y \in ToSet(t) : x.kind = y.kind => x.index < y.index
    PROVE  InOrder(s \o t)
<1>1. /\ s \o t \in Seq(Steps) /\ Len(s \o t) = Len(s) + Len(t)
      /\ \A i \in 1 .. Len(s) + Len(t) : (s \o t)[i] = IF i <= Len(s) THEN s[i] ELSE t[i - Len(s)]
  BY ConcatProperties
<1>2. Len(s) \in Nat /\ Len(t) \in Nat
  OBVIOUS
<1>3. ASSUME NEW x \in 1 .. Len(s) + Len(t), NEW y \in 1 .. Len(s) + Len(t), x < y,
             (s \o t)[x].kind = (s \o t)[y].kind
      PROVE  (s \o t)[x].index < (s \o t)[y].index
  <2>1. CASE y <= Len(s)
    <3>1. x <= Len(s) /\ x \in 1 .. Len(s) /\ y \in 1 .. Len(s)
      BY <1>2, <1>3, <2>1
    <3>2. (s \o t)[x] = s[x] /\ (s \o t)[y] = s[y]
      BY <1>1, <2>1, <3>1
    <3> QED
      BY <1>3, <3>1, <3>2 DEF InOrder
  <2>2. CASE x <= Len(s) /\ ~(y <= Len(s))
    <3>1. x \in 1 .. Len(s) /\ y - Len(s) \in 1 .. Len(t)
      BY <1>2, <2>2
    <3>2. (s \o t)[x] = s[x] /\ (s \o t)[y] = t[y - Len(s)]
      BY <1>1, <2>2
    <3>3. s[x] \in ToSet(s) /\ t[y - Len(s)] \in ToSet(t)
      BY <3>1, ElementsOf
    <3> QED
      BY <1>3, <3>2, <3>3
  <2>3. CASE ~(x <= Len(s)) /\ ~(y <= Len(s))
    <3>1. x - Len(s) \in 1 .. Len(t) /\ y - Len(s) \in 1 .. Len(t) /\ x - Len(s) < y - Len(s)
      BY <1>2, <1>3, <2>3
    <3>2. (s \o t)[x] = t[x - Len(s)] /\ (s \o t)[y] = t[y - Len(s)]
      BY <1>1, <2>3
    <3> QED
      BY <1>3, <3>1, <3>2 DEF InOrder
  <2> QED
    BY <1>2, <1>3, <2>1, <2>2, <2>3
<1> QED
  BY <1>1, <1>3 DEF InOrder

LEMMA StepFacts ==
    /\ \A st \in Steps : /\ st.kind \in {"keep", "insert"} /\ st.index \in Nat
                         /\ st.kind = "keep" => st = Keep(st.index)
                         /\ st.kind = "insert" => st = Insert(st.index)
    /\ \A i \in Nat : /\ Keep(i) \in Steps /\ Keep(i).kind = "keep" /\ Keep(i).index = i
                      /\ Insert(i) \in Steps /\ Insert(i).kind = "insert" /\ Insert(i).index = i
BY DEF Steps, Keep, Insert

\* The steps s go on where r ends.
Abut(r, s, l, m, t, u, v, w) ==
    /\ l \in Nat /\ m \in Nat /\ t \in Nat /\ u \in Nat /\ v \in Nat /\ w \in Nat
    /\ l <= t /\ m <= u /\ t <= v /\ u <= w
    /\ Within(r, l, m, t, u) /\ Within(s, t, u, v, w)

LEMMA JoinedWithin ==
    ASSUME NEW l, NEW m, NEW t, NEW u, NEW v, NEW w, NEW r, NEW s, Abut(r, s, l, m, t, u, v, w)
    PROVE  Within(r \o s, l, m, v, w) /\ ToSet(r \o s) = ToSet(r) \cup ToSet(s)
<1>0. /\ l \in Nat /\ m \in Nat /\ t \in Nat /\ u \in Nat /\ v \in Nat /\ w \in Nat
      /\ l <= t /\ m <= u /\ t <= v /\ u <= w
      /\ Within(r, l, m, t, u) /\ Within(s, t, u, v, w)
  BY DEF Abut
<1>1. r \in Seq(Steps) /\ s \in Seq(Steps) /\ InOrder(r) /\ InOrder(s)
  BY <1>0 DEF Within
<1>2. r \o s \in Seq(Steps) /\ ToSet(r \o s) = ToSet(r) \cup ToSet(s)
  BY <1>1, JoinedElements
<1>3. ASSUME NEW x \in ToSet(r) PROVE x \in Steps /\ StepWithin(x, l, m, t, u)
  BY <1>0, <1>1, ElementsOf DEF Within
<1>4. ASSUME NEW y \in ToSet(s) PROVE y \in Steps /\ StepWithin(y, t, u, v, w)
  BY <1>0, <1>1, ElementsOf DEF Within
<1>5. InOrder(r \o s)
  <2>1. ASSUME NEW x \in ToSet(r), NEW y \in ToSet(s), x.kind = y.kind PROVE x.index < y.index
    <3>1. x.kind \in {"keep", "insert"} /\ x.index \in Nat /\ y.index \in Nat
      BY <1>3, <1>4, StepFacts
    <3>2. StepWithin(x, l, m, t, u) /\ StepWithin(y, t, u, v, w)
      BY <1>3, <1>4
    <3> QED
      BY <1>0, <2>1, <3>1, <3>2 DEF StepWithin
  <2> QED
    BY <1>1, <2>1, JoinedInOrder
<1>6. ASSUME NEW x \in ToSet(r \o s) PROVE StepWithin(x, l, m, v, w)
  <2>1. CASE x \in ToSet(r)
    <3>1. x.index \in Nat /\ StepWithin(x, l, m, t, u)
      BY <1>3, <2>1, StepFacts
    <3> QED
      BY <1>0, <3>1 DEF StepWithin
  <2>2. CASE x \in ToSet(s)
    <3>1. x.index \in Nat /\ StepWithin(x, t, u, v, w)
      BY <1>4, <2>2, StepFacts
    <3> QED
      BY <1>0, <3>1 DEF StepWithin
  <2> QED
    BY <1>2, <2>1, <2>2
<1> QED
  BY <1>2, <1>5, <1>6 DEF Within

\* Selected is reached one element at a time.
Selects(K, s, S) ==
    \E f \in [0 .. Len(s) -> Seq(K)] :
       /\ f[0] = <<>> /\ f[Len(s)] = Selected(s, S)
       /\ \A i \in 1 .. Len(s) : f[i] = IF i \in S THEN Append(f[i - 1], s[i]) ELSE f[i - 1]

LEMMA SelectedRecursion ==
    ASSUME NEW K, NEW s \in Seq(K), NEW S
    PROVE  Selects(K, s, S)
<1> DEFINE n == Len(s)
           V == Seq(K)
           Next(i, r) == IF i \in S THEN Append(r, s[i]) ELSE r
           G == [z \in (1 .. n) \X V |-> Next(z[1], z[2])]
           H(g) == [i \in 0 .. n |-> IF i = 0 THEN <<>> ELSE Next(i, g[i - 1])]
           selected == CHOOSE g : g = H(g)
<1>1. n \in Nat /\ <<>> \in V
  OBVIOUS
<1>2. G \in [(1 .. n) \X V -> V]
  <2> SUFFICES ASSUME NEW z \in (1 .. n) \X V PROVE Next(z[1], z[2]) \in V
    OBVIOUS
  <2>1. z[1] \in 1 .. n /\ z[2] \in V /\ s[z[1]] \in K
    OBVIOUS
  <2> QED
    BY <2>1
<1>3. Iterates(n, V, <<>>, G)
  <2> HIDE DEF n, V, G
  <2> QED
    BY <1>1, <1>2, RecursionTo
<1>4. PICK f \in [0 .. n -> V] : f[0] = <<>> /\ \A i \in 1 .. n : f[i] = G[<<i, f[i - 1]>>]
  BY <1>3 DEF Iterates
<1>5. \A i \in 1 .. n : f[i - 1] \in V /\ f[i] = Next(i, f[i - 1])
  <2> SUFFICES ASSUME NEW i \in 1 .. n PROVE f[i - 1] \in V /\ f[i] = Next(i, f[i - 1])
    OBVIOUS
  <2>1. i - 1 \in 0 .. n
    BY <1>1
  <2>2. f[i - 1] \in V
    BY <2>1
  <2> HIDE DEF Next, V
  <2> QED
    BY <1>4, <2>2
<1>6. f = H(f)
  <2>1. \A i \in 0 .. n : i = 0 \/ i \in 1 .. n
    OBVIOUS
  <2> HIDE DEF Next, V, n
  <2> QED
    BY <1>4, <1>5, <2>1
<1>7. selected = H(selected)
  <2> HIDE DEF H
  <2> QED
    BY <1>6, Zenon
<1>8. \A i \in 0 .. n : selected[i] = IF i = 0 THEN <<>> ELSE Next(i, selected[i - 1])
  <2> HIDE DEF Next, n, selected
  <2> QED
    BY <1>7
<1> DEFINE T == {i \in 0 .. n : selected[i] = f[i]}
<1>9. \A i \in 0 .. n : i \in T
  <2>1. 0 \in T
    <3>1. 0 \in 0 .. n
      BY <1>1
    <3> HIDE DEF Next, n, selected
    <3> QED
      BY <1>4, <1>8, <3>1
  <2>2. ASSUME NEW i \in 1 .. n, i - 1 \in T PROVE i \in T
    <3>1. i \in 0 .. n /\ i # 0
      OBVIOUS
    <3>2. selected[i - 1] = f[i - 1]
      BY <2>2
    <3> HIDE DEF Next, n, selected
    <3> QED
      BY <1>5, <1>8, <3>1, <3>2
  <2> HIDE DEF T, n
  <2> QED
    BY <1>1, <2>1, <2>2, InductionTo
<1>10. f[n] = selected[n]
  <2>1. n \in 0 .. n
    BY <1>1
  <2>2. n \in T
    BY <1>9, <2>1
  <2> QED
    BY <2>2
<1>11. selected[n] = Selected(s, S)
  BY Zenon DEF Selected
<1>12. f[n] = Selected(s, S)
  BY <1>10, <1>11
<1> QED
  <2> HIDE DEF H, G, selected, T
  <2> QED
    BY <1>4, <1>5, <1>12 DEF Selects

LEMMA SelectedFacts ==
    ASSUME NEW K, NEW s \in Seq(K), NEW S
    PROVE  Selected(s, S) \in Seq(K) /\ ToSet(Selected(s, S)) = {s[i] : i \in (1 .. Len(s)) \cap S}
<1> DEFINE n == Len(s)
           Chosen(i) == {s[j] : j \in (1 .. i) \cap S}
<1>0. n \in Nat
  OBVIOUS
<1>1. PICK f \in [0 .. n -> Seq(K)] :
         /\ f[0] = <<>> /\ f[n] = Selected(s, S)
         /\ \A i \in 1 .. n : f[i] = IF i \in S THEN Append(f[i - 1], s[i]) ELSE f[i - 1]
  <2>1. Selects(K, s, S)
    BY SelectedRecursion
  <2> QED
    BY <2>1 DEF Selects
<1> DEFINE T == {i \in 0 .. n : ToSet(f[i]) = Chosen(i)}
<1>2. 0 \in T
  <2>1. Chosen(0) = {} /\ 0 \in 0 .. n
    BY <1>0
  <2> QED
    BY <1>1, <2>1, NoElements
<1>3. ASSUME NEW i \in 1 .. n, i - 1 \in T PROVE i \in T
  <2>1. i \in 0 .. n /\ i - 1 \in 0 .. n /\ f[i - 1] \in Seq(K) /\ s[i] \in K
    BY <1>0
  <2>2. ToSet(f[i - 1]) = Chosen(i - 1)
    BY <1>3
  <2>3. CASE i \in S
    <3>1. f[i] = f[i - 1] \o <<s[i]>>
      BY <1>1, <2>1, <2>3, AppendIsConcat
    <3>2. ToSet(f[i]) = Chosen(i - 1) \cup {s[i]}
      <4> DEFINE e == <<s[i]>>
                 g == f[i - 1]
      <4>1. e \in Seq(K) /\ ToSet(e) = {s[i]} /\ g \in Seq(K)
        BY <2>1, OneElement
      <4>2. f[i] = g \o e /\ ToSet(g) = Chosen(i - 1)
        BY <2>2, <3>1
      <4> HIDE DEF e, g, Chosen
      <4>3. ToSet(g \o e) = ToSet(g) \cup ToSet(e)
        BY <4>1, JoinedElements
      <4> QED
        BY <4>1, <4>2, <4>3
    <3>3. (1 .. i) \cap S = ((1 .. i - 1) \cap S) \cup {i}
      BY <2>3
    <3>4. Chosen(i) = Chosen(i - 1) \cup {s[i]}
      BY <3>3
    <3> QED
      BY <2>1, <3>2, <3>4
  <2>4. CASE i \notin S
    <3>1. f[i] = f[i - 1]
      BY <1>1, <2>4
    <3>2. (1 .. i) \cap S = (1 .. i - 1) \cap S
      BY <2>4
    <3> QED
      BY <2>1, <2>2, <3>1, <3>2
  <2> QED
    BY <2>3, <2>4
<1>4. \A i \in 0 .. n : i \in T
  <2> HIDE DEF n, T
  <2> QED
    BY <1>0, <1>2, <1>3, InductionTo
<1>5. n \in 0 .. n
  BY <1>0
<1>6. ToSet(f[n]) = Chosen(n) /\ f[n] \in Seq(K)
  BY <1>4, <1>5
<1> QED
  BY <1>1, <1>6

LEMMA SelectedInOrder ==
    ASSUME NEW s \in Seq(Steps), InOrder(s), NEW S
    PROVE  InOrder(Selected(s, S))
<1> DEFINE n == Len(s)
<1>0. n \in Nat
  OBVIOUS
<1>1. PICK f \in [0 .. n -> Seq(Steps)] :
         /\ f[0] = <<>> /\ f[n] = Selected(s, S)
         /\ \A i \in 1 .. n : f[i] = IF i \in S THEN Append(f[i - 1], s[i]) ELSE f[i - 1]
  <2>1. Selects(Steps, s, S)
    BY SelectedRecursion
  <2> QED
    BY <2>1 DEF Selects
<1> DEFINE T == {i \in 0 .. n : /\ InOrder(f[i])
                                /\ \A x \in ToSet(f[i]) : \E j \in 1 .. i : x = s[j]}
<1>2. 0 \in T
  <2>1. ToSet(f[0]) = {} /\ Len(f[0]) = 0 /\ 0 \in 0 .. n
    BY <1>0, <1>1, NoElements
  <2>2. InOrder(f[0])
    BY <2>1 DEF InOrder
  <2> QED
    BY <2>1, <2>2
<1>3. ASSUME NEW i \in 1 .. n, i - 1 \in T PROVE i \in T
  <2>1. i \in 0 .. n /\ i - 1 \in 0 .. n /\ f[i - 1] \in Seq(Steps) /\ s[i] \in Steps
    BY <1>0
  <2>2. InOrder(f[i - 1]) /\ \A x \in ToSet(f[i - 1]) : \E j \in 1 .. i - 1 : x = s[j]
    BY <1>3
  <2>3. CASE i \in S
    <3>1. f[i] = f[i - 1] \o <<s[i]>>
      BY <1>1, <2>1, <2>3, AppendIsConcat
    <3>2. <<s[i]>> \in Seq(Steps) /\ ToSet(<<s[i]>>) = {s[i]} /\ Len(<<s[i]>>) = 1
      BY <2>1, OneElement
    <3>3. ToSet(f[i]) = ToSet(f[i - 1]) \cup {s[i]}
      <4> DEFINE e == <<s[i]>>
                 g == f[i - 1]
      <4>1. e \in Seq(Steps) /\ ToSet(e) = {s[i]} /\ g \in Seq(Steps) /\ f[i] = g \o e
        BY <2>1, <3>1, <3>2
      <4> HIDE DEF e, g
      <4>2. ToSet(g \o e) = ToSet(g) \cup ToSet(e)
        BY <4>1, JoinedElements
      <4>3. ToSet(f[i]) = ToSet(g) \cup {s[i]}
        BY <4>1, <4>2
      <4> QED
        BY <4>3 DEF g
    <3>4. InOrder(<<s[i]>>)
      BY <3>2 DEF InOrder
    <3>5. \A x \in ToSet(f[i - 1]), y \in ToSet(<<s[i]>>) : x.kind = y.kind => x.index < y.index
      <4> SUFFICES ASSUME NEW x \in ToSet(f[i - 1]), x.kind = s[i].kind PROVE x.index < s[i].index
        BY <3>2
      <4>1. PICK j \in 1 .. i - 1 : x = s[j]
        BY <2>2
      <4>2. j \in 1 .. Len(s) /\ i \in 1 .. Len(s) /\ j < i
        BY <1>0
      <4> QED
        BY <4>1, <4>2 DEF InOrder
    <3>6. InOrder(f[i])
      <4>1. InOrder(f[i - 1] \o <<s[i]>>)
        BY <2>1, <2>2, <3>2, <3>4, <3>5, JoinedInOrder
      <4> QED
        BY <3>1, <4>1
    <3>7. \A x \in ToSet(f[i]) : \E j \in 1 .. i : x = s[j]
      <4>1. \A j \in 1 .. i - 1 : j \in 1 .. i
        OBVIOUS
      <4>2. i \in 1 .. i
        OBVIOUS
      <4> QED
        BY <2>2, <3>3, <4>1, <4>2
    <3> QED
      BY <2>1, <3>6, <3>7
  <2>4. CASE i \notin S
    <3>1. f[i] = f[i - 1]
      BY <1>1, <2>4
    <3>2. \A j \in 1 .. i - 1 : j \in 1 .. i
      OBVIOUS
    <3> QED
      BY <2>1, <2>2, <3>1, <3>2
  <2> QED
    BY <2>3, <2>4
<1>4. \A i \in 0 .. n : i \in T
  <2> HIDE DEF n, T
  <2> QED
    BY <1>0, <1>2, <1>3, InductionTo
<1>5. n \in T
  <2>1. n \in 0 .. n
    BY <1>0
  <2> HIDE DEF n, T
  <2> QED
    BY <1>4, <2>1
<1> QED
  BY <1>1, <1>5

-----------------------------------------------------------------------------
(***************************************************************************)
(* The region between two anchors.                                         *)
(***************************************************************************)

Seg(s, f, t) == SubSeq(s, f + 1, t - 1)

LEMMA SegFacts ==
    ASSUME NEW K, NEW s \in Seq(K), NEW f \in Nat, NEW t \in Nat, f < t, t <= Len(s) + 1
    PROVE  /\ Seg(s, f, t) \in Seq(K)
           /\ Len(Seg(s, f, t)) = t - f - 1
           /\ \A i \in 1 .. t - f - 1 : Seg(s, f, t)[i] = s[f + i]
           /\ ToSet(Seg(s, f, t)) = {s[i] : i \in f + 1 .. t - 1}
<1> DEFINE n == t - f - 1
<1>1. n \in Nat /\ f + n <= Len(s) /\ f + n = t - 1
  OBVIOUS
<1>2. Seg(s, f, t) = SubSeq(s, f + 1, f + n)
  BY <1>1 DEF Seg
<1>3. /\ SubSeq(s, f + 1, f + n) \in Seq(K) /\ Len(SubSeq(s, f + 1, f + n)) = n
      /\ \A i \in 1 .. n : SubSeq(s, f + 1, f + n)[i] = s[f + i]
  <2> HIDE DEF n
  <2> QED
    BY <1>1, Slice
<1>4. /\ Seg(s, f, t) \in Seq(K) /\ Len(Seg(s, f, t)) = n
      /\ \A i \in 1 .. n : Seg(s, f, t)[i] = s[f + i]
  BY <1>2, <1>3
<1>5. ASSUME NEW e \in ToSet(Seg(s, f, t)) PROVE e \in {s[i] : i \in f + 1 .. t - 1}
  <2>1. PICK i \in 1 .. n : e = Seg(s, f, t)[i]
    BY <1>4, ElementsOf
  <2>2. e = s[f + i] /\ f + i \in f + 1 .. t - 1
    BY <1>1, <1>4, <2>1
  <2> QED
    BY <2>2
<1>6. ASSUME NEW i \in f + 1 .. t - 1 PROVE s[i] \in ToSet(Seg(s, f, t))
  <2>1. i - f \in 1 .. n /\ f + (i - f) = i
    OBVIOUS
  <2>2. Seg(s, f, t)[i - f] = s[i]
    BY <1>4, <2>1
  <2> QED
    BY <1>4, <2>1, <2>2, ElementsOf
<1> QED
  BY <1>4, <1>5, <1>6

LEMMA ListedIsASeq ==
    ASSUME NEW K, NEW n \in Nat, NEW g \in [1 .. n -> K]
    PROVE  g \in Seq(K) /\ Len(g) = n
OBVIOUS

\* The steps that keep, or insert, the blocks from f to t.
KeepSteps(f, t) == [i \in 1 .. t - f - 1 |-> Keep(f + i)]
InsertSteps(f, t) == [i \in 1 .. t - f - 1 |-> Insert(f + i)]

LEMMA StepRuns ==
    ASSUME NEW f \in Nat, NEW t \in Nat, f < t
    PROVE  /\ KeepSteps(f, t) \in Seq(Steps) /\ InOrder(KeepSteps(f, t))
           /\ Len(KeepSteps(f, t)) = t - f - 1
           /\ \A i \in 1 .. t - f - 1 : KeepSteps(f, t)[i] = Keep(f + i)
           /\ InsertSteps(f, t) \in Seq(Steps) /\ InOrder(InsertSteps(f, t))
           /\ Len(InsertSteps(f, t)) = t - f - 1
           /\ \A i \in 1 .. t - f - 1 : InsertSteps(f, t)[i] = Insert(f + i)
<1> DEFINE n == t - f - 1
<1>1. n \in Nat
  OBVIOUS
<1>2. \A i \in 1 .. n : /\ Keep(f + i) \in Steps /\ Keep(f + i).index = f + i
                        /\ Insert(f + i) \in Steps /\ Insert(f + i).index = f + i
  <2>1. \A i \in 1 .. n : f + i \in Nat
    OBVIOUS
  <2> QED
    BY <2>1, StepFacts
<1>3. /\ KeepSteps(f, t) \in Seq(Steps) /\ Len(KeepSteps(f, t)) = n
      /\ \A i \in 1 .. n : KeepSteps(f, t)[i] = Keep(f + i)
  <2> HIDE DEF n
  <2>1. KeepSteps(f, t) = [i \in 1 .. n |-> Keep(f + i)]
    BY DEF KeepSteps, n
  <2>2. KeepSteps(f, t) \in [1 .. n -> Steps] /\ \A i \in 1 .. n : KeepSteps(f, t)[i] = Keep(f + i)
    BY <1>2, <2>1
  <2> QED
    BY <1>1, <2>2, ListedIsASeq
<1>4. /\ InsertSteps(f, t) \in Seq(Steps) /\ Len(InsertSteps(f, t)) = n
      /\ \A i \in 1 .. n : InsertSteps(f, t)[i] = Insert(f + i)
  <2> HIDE DEF n
  <2>1. InsertSteps(f, t) = [i \in 1 .. n |-> Insert(f + i)]
    BY DEF InsertSteps, n
  <2>2. InsertSteps(f, t) \in [1 .. n -> Steps] /\ \A i \in 1 .. n : InsertSteps(f, t)[i] = Insert(f + i)
    BY <1>2, <2>1
  <2> QED
    BY <1>1, <2>2, ListedIsASeq
<1>5. InOrder(KeepSteps(f, t))
  <2> HIDE DEF n
  <2> SUFFICES ASSUME NEW x \in 1 .. n, NEW y \in 1 .. n, x < y
               PROVE  KeepSteps(f, t)[x].index < KeepSteps(f, t)[y].index
    BY <1>3 DEF InOrder
  <2>1. KeepSteps(f, t)[x].index = f + x /\ KeepSteps(f, t)[y].index = f + y
    BY <1>2, <1>3
  <2>2. f + x < f + y
    BY <1>1
  <2> QED
    BY <2>1, <2>2
<1>6. InOrder(InsertSteps(f, t))
  <2> HIDE DEF n
  <2> SUFFICES ASSUME NEW x \in 1 .. n, NEW y \in 1 .. n, x < y
               PROVE  InsertSteps(f, t)[x].index < InsertSteps(f, t)[y].index
    BY <1>4 DEF InOrder
  <2>1. InsertSteps(f, t)[x].index = f + x /\ InsertSteps(f, t)[y].index = f + y
    BY <1>2, <1>4
  <2>2. f + x < f + y
    BY <1>1
  <2> QED
    BY <2>1, <2>2
<1> QED
  BY <1>3, <1>4, <1>5, <1>6

\* A region of the three documents: from is the place of the last anchor, to of the next.
OpenGap(base, theirs, current, from, to) ==
    /\ from[1] \in Nat /\ to[1] \in Nat /\ from[1] < to[1] /\ to[1] <= Len(base) + 1
    /\ from[2] \in Nat /\ to[2] \in Nat /\ from[2] < to[2] /\ to[2] <= Len(theirs) + 1
    /\ from[3] \in Nat /\ to[3] \in Nat /\ from[3] < to[3] /\ to[3] <= Len(current) + 1

SegIs(s, f, t) ==
    /\ Len(Seg(s, f, t)) = t - f - 1
    /\ \A i \in 1 .. t - f - 1 : Seg(s, f, t)[i] = s[f + i]

LEMMA GapSegs ==
    ASSUME NEW K, NEW base \in Seq(K), NEW theirs \in Seq(K), NEW current \in Seq(K),
           NEW from, NEW to, OpenGap(base, theirs, current, from, to)
    PROVE  /\ SegIs(base, from[1], to[1])
           /\ SegIs(theirs, from[2], to[2])
           /\ SegIs(current, from[3], to[3])
<1>1. ASSUME NEW s \in Seq(K), NEW f, NEW t, f \in Nat, t \in Nat, f < t, t <= Len(s) + 1
      PROVE  SegIs(s, f, t)
  BY <1>1, SegFacts DEF SegIs
<1>2. /\ from[1] \in Nat /\ to[1] \in Nat /\ from[1] < to[1] /\ to[1] <= Len(base) + 1
      /\ from[2] \in Nat /\ to[2] \in Nat /\ from[2] < to[2] /\ to[2] <= Len(theirs) + 1
      /\ from[3] \in Nat /\ to[3] \in Nat /\ from[3] < to[3] /\ to[3] <= Len(current) + 1
  BY DEF OpenGap
<1> QED
  BY <1>1, <1>2

\* What Gap is, with its parts named.
GapIs(base, theirs, current, from, to) ==
    LET B == Seg(base, from[1], to[1])
        T == Seg(theirs, from[2], to[2])
        C == Seg(current, from[3], to[3])
        Keeps == KeepSteps(from[3], to[3])
        Inserts == InsertSteps(from[2], to[2])
    IN  Gap(base, theirs, current, from, to) =
           IF T \in {B, C} THEN Keeps
           ELSE IF B = C THEN Inserts
           ELSE Selected(Keeps, {i \in DOMAIN Keeps : KeepsLive(C[i], B, T)})
                \o Selected(Inserts, {i \in DOMAIN Inserts : TakesTheirs(T[i], B, C)})

LEMMA GapForm ==
    ASSUME NEW K, NEW base \in Seq(K), NEW theirs \in Seq(K), NEW current \in Seq(K),
           NEW from, NEW to, OpenGap(base, theirs, current, from, to)
    PROVE  GapIs(base, theirs, current, from, to)
<1> DEFINE B == Seg(base, from[1], to[1])
           T == Seg(theirs, from[2], to[2])
           C == Seg(current, from[3], to[3])
<1>1. Len(C) = to[3] - from[3] - 1 /\ Len(T) = to[2] - from[2] - 1
  <2>1. SegIs(theirs, from[2], to[2]) /\ SegIs(current, from[3], to[3])
    BY GapSegs
  <2> QED
    BY <2>1, Zenon DEF SegIs
<1>2. /\ [i \in 1 .. Len(C) |-> Keep(from[3] + i)] = KeepSteps(from[3], to[3])
      /\ [i \in 1 .. Len(T) |-> Insert(from[2] + i)] = InsertSteps(from[2], to[2])
  BY <1>1, Zenon DEF KeepSteps, InsertSteps
<1> DEFINE Keeps == KeepSteps(from[3], to[3])
           Inserts == InsertSteps(from[2], to[2])
<1>3. Gap(base, theirs, current, from, to) =
         IF T \in {B, C} THEN [i \in 1 .. Len(C) |-> Keep(from[3] + i)]
         ELSE IF B = C THEN [i \in 1 .. Len(T) |-> Insert(from[2] + i)]
         ELSE Selected([i \in 1 .. Len(C) |-> Keep(from[3] + i)],
                       {i \in DOMAIN [i \in 1 .. Len(C) |-> Keep(from[3] + i)] : KeepsLive(C[i], B, T)})
              \o Selected([i \in 1 .. Len(T) |-> Insert(from[2] + i)],
                       {i \in DOMAIN [i \in 1 .. Len(T) |-> Insert(from[2] + i)] : TakesTheirs(T[i], B, C)})
  BY Zenon DEF Gap, Seg, LiveUnchanged
<1> HIDE DEF B, T, C
<1>4. Gap(base, theirs, current, from, to) =
         IF T \in {B, C} THEN Keeps
         ELSE IF B = C THEN Inserts
         ELSE Selected(Keeps, {i \in DOMAIN Keeps : KeepsLive(C[i], B, T)})
              \o Selected(Inserts, {i \in DOMAIN Inserts : TakesTheirs(T[i], B, C)})
  BY <1>2, <1>3, Zenon
<1> QED
  BY <1>4, Zenon DEF GapIs, B, T, C

\* The live blocks that a region keeps, and the blocks of theirs that it inserts.
GapKeeps(base, theirs, current, from, to, i) ==
    LET B == Seg(base, from[1], to[1])
        T == Seg(theirs, from[2], to[2])
        C == Seg(current, from[3], to[3])
    IN  /\ from[3] < i /\ i < to[3]
        /\ T \in {B, C} \/ (B # C /\ current[i] \notin ToSet(B) \ ToSet(T))

GapInserts(base, theirs, current, from, to, j) ==
    LET B == Seg(base, from[1], to[1])
        T == Seg(theirs, from[2], to[2])
        C == Seg(current, from[3], to[3])
    IN  /\ from[2] < j /\ j < to[2]
        /\ T \notin {B, C}
        /\ B = C \/ theirs[j] \notin ToSet(B) \cup ToSet(C)

\* The steps of a run at the places S.
SomeKeeps(f, t, S)   == {Keep(f + i) : i \in (1 .. t - f - 1) \cap S}
SomeInserts(f, t, S) == {Insert(f + i) : i \in (1 .. t - f - 1) \cap S}

RunIs(f, t, S) ==
    /\ Selected(KeepSteps(f, t), S) \in Seq(Steps) /\ InOrder(Selected(KeepSteps(f, t), S))
    /\ ToSet(Selected(KeepSteps(f, t), S)) = SomeKeeps(f, t, S)
    /\ ToSet(KeepSteps(f, t)) = SomeKeeps(f, t, Nat)
    /\ Selected(InsertSteps(f, t), S) \in Seq(Steps) /\ InOrder(Selected(InsertSteps(f, t), S))
    /\ ToSet(Selected(InsertSteps(f, t), S)) = SomeInserts(f, t, S)
    /\ ToSet(InsertSteps(f, t)) = SomeInserts(f, t, Nat)

LEMMA RunElements ==
    ASSUME NEW f \in Nat, NEW t \in Nat, f < t, NEW S
    PROVE  RunIs(f, t, S)
<1> DEFINE n == t - f - 1
           Keeps == KeepSteps(f, t)
           Inserts == InsertSteps(f, t)
<1>1. /\ n \in Nat
      /\ Keeps \in Seq(Steps) /\ InOrder(Keeps) /\ Len(Keeps) = n /\ \A i \in 1 .. n : Keeps[i] = Keep(f + i)
      /\ Inserts \in Seq(Steps) /\ InOrder(Inserts) /\ Len(Inserts) = n
      /\ \A i \in 1 .. n : Inserts[i] = Insert(f + i)
  BY StepRuns
<1> HIDE DEF n, Keeps, Inserts
<1>2. /\ Selected(Keeps, S) \in Seq(Steps) /\ InOrder(Selected(Keeps, S))
      /\ ToSet(Selected(Keeps, S)) = {Keeps[i] : i \in (1 .. n) \cap S}
  BY <1>1, SelectedFacts, SelectedInOrder
<1>3. /\ Selected(Inserts, S) \in Seq(Steps) /\ InOrder(Selected(Inserts, S))
      /\ ToSet(Selected(Inserts, S)) = {Inserts[i] : i \in (1 .. n) \cap S}
  BY <1>1, SelectedFacts, SelectedInOrder
<1>4. /\ {Keeps[i] : i \in (1 .. n) \cap S} = {Keep(f + i) : i \in (1 .. n) \cap S}
      /\ {Inserts[i] : i \in (1 .. n) \cap S} = {Insert(f + i) : i \in (1 .. n) \cap S}
  BY <1>1
<1>5. ToSet(Keeps) = {Keep(f + i) : i \in 1 .. n}
  <2>1. DOMAIN Keeps = 1 .. n
    BY <1>1, ElementsOf
  <2> QED
    BY <1>1, <2>1 DEF ToSet
<1>6. ToSet(Inserts) = {Insert(f + i) : i \in 1 .. n}
  <2>1. DOMAIN Inserts = 1 .. n
    BY <1>1, ElementsOf
  <2> QED
    BY <1>1, <2>1 DEF ToSet
<1>7. (1 .. n) \cap Nat = 1 .. n
  BY <1>1
<1>8. /\ ToSet(Selected(Keeps, S)) = SomeKeeps(f, t, S) /\ ToSet(Keeps) = SomeKeeps(f, t, Nat)
      /\ ToSet(Selected(Inserts, S)) = SomeInserts(f, t, S) /\ ToSet(Inserts) = SomeInserts(f, t, Nat)
  BY <1>2, <1>3, <1>4, <1>5, <1>6, <1>7 DEF SomeKeeps, SomeInserts, n
<1> QED
  BY <1>2, <1>3, <1>8 DEF RunIs, Keeps, Inserts

LEMMA SomeOfRuns ==
    ASSUME NEW f \in Nat, NEW t \in Nat, f < t, NEW S, NEW i \in Nat
    PROVE  /\ Keep(i) \in SomeKeeps(f, t, S) <=> f < i /\ i < t /\ i - f \in S
           /\ Insert(i) \in SomeInserts(f, t, S) <=> f < i /\ i < t /\ i - f \in S
           /\ Keep(i) \notin SomeInserts(f, t, S)
           /\ Insert(i) \notin SomeKeeps(f, t, S)
<1>1. \A k, l : (Keep(k) = Keep(l) => k = l) /\ (Insert(k) = Insert(l) => k = l) /\ Keep(k) # Insert(l)
  BY DEF Keep, Insert
<1>2. (\E k \in (1 .. t - f - 1) \cap S : f + k = i) <=> f < i /\ i < t /\ i - f \in S
  <2>1. ASSUME f < i, i < t, i - f \in S PROVE \E k \in (1 .. t - f - 1) \cap S : f + k = i
    <3>1. i - f \in 1 .. t - f - 1 /\ f + (i - f) = i
      BY <2>1
    <3> QED
      BY <2>1, <3>1
  <2>2. ASSUME NEW k \in (1 .. t - f - 1) \cap S, f + k = i PROVE f < i /\ i < t /\ i - f \in S
    <3>1. i - f = k
      BY <2>2
    <3> QED
      BY <2>2, <3>1
  <2> QED
    BY <2>1, <2>2
<1> QED
  BY <1>1, <1>2 DEF SomeKeeps, SomeInserts

LEMMA PlaceInRun ==
    ASSUME NEW f \in Nat, NEW t \in Nat, NEW i \in Nat, f < i, i < t
    PROVE  i - f \in 1 .. t - f - 1 /\ f + (i - f) = i
OBVIOUS

LEMMA GapElements ==
    ASSUME NEW K, NEW base \in Seq(K), NEW theirs \in Seq(K), NEW current \in Seq(K),
           NEW from, NEW to, OpenGap(base, theirs, current, from, to)
    PROVE  /\ Within(Gap(base, theirs, current, from, to), from[2], from[3], to[2] - 1, to[3] - 1)
           /\ \A i \in Nat :
                 /\ Keep(i) \in ToSet(Gap(base, theirs, current, from, to)) <=>
                       GapKeeps(base, theirs, current, from, to, i)
                 /\ Insert(i) \in ToSet(Gap(base, theirs, current, from, to)) <=>
                       GapInserts(base, theirs, current, from, to, i)
<1> DEFINE B == Seg(base, from[1], to[1])
           T == Seg(theirs, from[2], to[2])
           C == Seg(current, from[3], to[3])
           Keeps == KeepSteps(from[3], to[3])
           Inserts == InsertSteps(from[2], to[2])
           gap == Gap(base, theirs, current, from, to)
           S == {i \in DOMAIN Keeps : KeepsLive(C[i], B, T)}
           R == {i \in DOMAIN Inserts : TakesTheirs(T[i], B, C)}
           nk == to[3] - from[3] - 1
           ni == to[2] - from[2] - 1
           ks == SomeKeeps(from[3], to[3], Nat)
           is == SomeInserts(from[2], to[2], Nat)
           kss == SomeKeeps(from[3], to[3], S)
           isr == SomeInserts(from[2], to[2], R)
<1>1. /\ from[3] \in Nat /\ to[3] \in Nat /\ from[3] < to[3] /\ to[3] <= Len(current) + 1
      /\ from[2] \in Nat /\ to[2] \in Nat /\ from[2] < to[2] /\ to[2] <= Len(theirs) + 1
  BY DEF OpenGap
<1>2. gap = IF T \in {B, C} THEN Keeps ELSE IF B = C THEN Inserts ELSE Selected(Keeps, S) \o Selected(Inserts, R)
  <2>1. GapIs(base, theirs, current, from, to)
    BY GapForm
  <2> QED
    BY <2>1, Zenon DEF GapIs
<1>3. /\ Keeps \in Seq(Steps) /\ InOrder(Keeps) /\ Len(Keeps) = nk
      /\ Inserts \in Seq(Steps) /\ InOrder(Inserts) /\ Len(Inserts) = ni
  BY <1>1, StepRuns
<1>4. /\ Selected(Keeps, S) \in Seq(Steps) /\ InOrder(Selected(Keeps, S)) /\ ToSet(Selected(Keeps, S)) = kss
      /\ ToSet(Keeps) = ks
  <2> HIDE DEF S
  <2>1. RunIs(from[3], to[3], S)
    BY <1>1, RunElements
  <2> QED
    BY <2>1, Zenon DEF RunIs
<1>5. /\ Selected(Inserts, R) \in Seq(Steps) /\ InOrder(Selected(Inserts, R)) /\ ToSet(Selected(Inserts, R)) = isr
      /\ ToSet(Inserts) = is
  <2> HIDE DEF R
  <2>1. RunIs(from[2], to[2], R)
    BY <1>1, RunElements
  <2> QED
    BY <2>1, Zenon DEF RunIs
<1>6. ASSUME NEW i \in Nat
      PROVE  /\ Keep(i) \in ks <=> from[3] < i /\ i < to[3]
             /\ Keep(i) \in kss <=> from[3] < i /\ i < to[3] /\ current[i] \notin ToSet(B) \ ToSet(T)
             /\ Keep(i) \notin is /\ Keep(i) \notin isr
  <2>1. Keep(i) \in ks <=> from[3] < i /\ i < to[3]
    <3>1. Keep(i) \in ks <=> from[3] < i /\ i < to[3] /\ i - from[3] \in Nat
      BY <1>1, SomeOfRuns
    <3> QED
      BY <1>1, <3>1
  <2>2. Keep(i) \in kss <=> from[3] < i /\ i < to[3] /\ i - from[3] \in S
    <3> HIDE DEF S
    <3> QED
      BY <1>1, SomeOfRuns
  <2>3. ASSUME from[3] < i, i < to[3] PROVE i - from[3] \in S <=> current[i] \notin ToSet(B) \ ToSet(T)
    <3>1. i - from[3] \in 1 .. nk /\ from[3] + (i - from[3]) = i
      BY <1>1, <2>3, PlaceInRun, Zenon
    <3>2. C[i - from[3]] = current[i]
      <4>1. \A k \in 1 .. nk : C[k] = current[from[3] + k]
        <5>1. SegIs(current, from[3], to[3])
          BY GapSegs
        <5> QED
          BY <5>1, Zenon DEF SegIs
      <4> HIDE DEF C
      <4> QED
        BY <3>1, <4>1
    <3>3. DOMAIN Keeps = 1 .. nk
      BY <1>3, ElementsOf
    <3> HIDE DEF B, T, C
    <3> QED
      BY <3>1, <3>2, <3>3 DEF KeepsLive
  <2>4. Keep(i) \notin is /\ Keep(i) \notin isr
    BY DEF Keep, Insert, SomeKeeps, SomeInserts
  <2> QED
    BY <2>1, <2>2, <2>3, <2>4
<1>7. ASSUME NEW j \in Nat
      PROVE  /\ Insert(j) \in is <=> from[2] < j /\ j < to[2]
             /\ Insert(j) \in isr <=> from[2] < j /\ j < to[2] /\ theirs[j] \notin ToSet(B) \cup ToSet(C)
             /\ Insert(j) \notin ks /\ Insert(j) \notin kss
  <2>1. Insert(j) \in is <=> from[2] < j /\ j < to[2]
    <3>1. Insert(j) \in is <=> from[2] < j /\ j < to[2] /\ j - from[2] \in Nat
      BY <1>1, SomeOfRuns
    <3> QED
      BY <1>1, <3>1
  <2>2. Insert(j) \in isr <=> from[2] < j /\ j < to[2] /\ j - from[2] \in R
    <3> HIDE DEF R
    <3> QED
      BY <1>1, SomeOfRuns
  <2>3. ASSUME from[2] < j, j < to[2] PROVE j - from[2] \in R <=> theirs[j] \notin ToSet(B) \cup ToSet(C)
    <3>1. j - from[2] \in 1 .. ni /\ from[2] + (j - from[2]) = j
      BY <1>1, <2>3, PlaceInRun, Zenon
    <3>2. T[j - from[2]] = theirs[j]
      <4>1. \A k \in 1 .. ni : T[k] = theirs[from[2] + k]
        <5>1. SegIs(theirs, from[2], to[2])
          BY GapSegs
        <5> QED
          BY <5>1, Zenon DEF SegIs
      <4> HIDE DEF T
      <4> QED
        BY <3>1, <4>1
    <3>3. DOMAIN Inserts = 1 .. ni
      BY <1>3, ElementsOf
    <3> HIDE DEF B, T, C
    <3> QED
      BY <3>1, <3>2, <3>3 DEF TakesTheirs
  <2>4. Insert(j) \notin ks /\ Insert(j) \notin kss
    BY DEF Keep, Insert, SomeKeeps, SomeInserts
  <2> QED
    BY <2>1, <2>2, <2>3, <2>4
<1>8. gap \in Seq(Steps) /\ InOrder(gap)
      /\ ToSet(gap) = IF T \in {B, C} THEN ks ELSE IF B = C THEN is ELSE kss \cup isr
  <2>1. ToSet(Selected(Keeps, S) \o Selected(Inserts, R)) = kss \cup isr
        /\ Selected(Keeps, S) \o Selected(Inserts, R) \in Seq(Steps)
    <3> HIDE DEF S, R, kss, isr
    <3> QED
      BY <1>4, <1>5, JoinedElements
  <2>2. InOrder(Selected(Keeps, S) \o Selected(Inserts, R))
    <3>1. \A x \in kss, y \in isr : x.kind # y.kind
      BY DEF Keep, Insert, SomeKeeps, SomeInserts
    <3> HIDE DEF S, R, kss, isr
    <3> QED
      BY <1>4, <1>5, <3>1, JoinedInOrder
  <2> HIDE DEF gap, B, T, C, S, R, kss, isr, ks, is, Keeps, Inserts
  <2> QED
    BY <1>2, <1>3, <1>4, <1>5, <2>1, <2>2
<1>9. \A x \in ToSet(gap) : StepWithin(x, from[2], from[3], to[2] - 1, to[3] - 1)
  <2> SUFFICES ASSUME NEW x \in ToSet(gap) PROVE StepWithin(x, from[2], from[3], to[2] - 1, to[3] - 1)
    OBVIOUS
  <2>1. x \in Steps
    BY <1>8, ElementsOf
  <2>2. x \in ks \cup kss \cup is \cup isr
    <3> HIDE DEF gap, B, T, C, S, R, kss, isr, ks, is
    <3> QED
      BY <1>8
  <2>3. CASE x.kind = "keep"
    <3>1. x = Keep(x.index) /\ x.index \in Nat
      BY <2>1, <2>3, StepFacts
    <3>2. from[3] < x.index /\ x.index < to[3]
      <4> HIDE DEF gap, B, T, C, S, R, kss, isr, ks, is
      <4> QED
        BY <1>6, <2>2, <3>1
    <3>3. x.index <= to[3] - 1
      BY <1>1, <3>1, <3>2
    <3> QED
      BY <2>3, <3>2, <3>3 DEF StepWithin
  <2>4. CASE x.kind = "insert"
    <3>1. x = Insert(x.index) /\ x.index \in Nat
      BY <2>1, <2>4, StepFacts
    <3>2. from[2] < x.index /\ x.index < to[2]
      <4> HIDE DEF gap, B, T, C, S, R, kss, isr, ks, is
      <4> QED
        BY <1>7, <2>2, <3>1
    <3>3. x.index <= to[2] - 1
      BY <1>1, <3>1, <3>2
    <3> QED
      BY <2>4, <3>2, <3>3 DEF StepWithin
  <2> QED
    BY <2>1, <2>3, <2>4, StepFacts
<1>10. Within(gap, from[2], from[3], to[2] - 1, to[3] - 1)
  BY <1>8, <1>9 DEF Within
<1>11. ASSUME NEW i \in Nat
       PROVE  Keep(i) \in ToSet(gap) <=>
                 /\ from[3] < i /\ i < to[3]
                 /\ T \in {B, C} \/ (B # C /\ current[i] \notin ToSet(B) \ ToSet(T))
  <2> HIDE DEF gap, B, T, C, S, R, kss, isr, ks, is
  <2> QED
    BY <1>6, <1>8
<1>12. ASSUME NEW j \in Nat
       PROVE  Insert(j) \in ToSet(gap) <=>
                 /\ from[2] < j /\ j < to[2] /\ T \notin {B, C}
                 /\ B = C \/ theirs[j] \notin ToSet(B) \cup ToSet(C)
  <2> HIDE DEF gap, B, T, C, S, R, kss, isr, ks, is
  <2> QED
    BY <1>7, <1>8
<1> QED
  <2>1. \A i \in Nat : GapKeeps(base, theirs, current, from, to, i) <=>
                 /\ from[3] < i /\ i < to[3]
                 /\ T \in {B, C} \/ (B # C /\ current[i] \notin ToSet(B) \ ToSet(T))
    BY DEF GapKeeps
  <2>2. \A j \in Nat : GapInserts(base, theirs, current, from, to, j) <=>
                 /\ from[2] < j /\ j < to[2] /\ T \notin {B, C}
                 /\ B = C \/ theirs[j] \notin ToSet(B) \cup ToSet(C)
    BY DEF GapInserts
  <2> HIDE DEF B, T, C
  <2> QED
    BY <1>10, <1>11, <1>12, <2>1, <2>2

-----------------------------------------------------------------------------
(***************************************************************************)
(* The plan, one block of base at a time.                                  *)
(***************************************************************************)

PartnerIs(a, c, b) ==
    /\ b \in 1 .. Len(a) /\ Partner(LcsPairs(a, c), b) \in 1 .. Len(c)
    /\ <<b, Partner(LcsPairs(a, c), b)>> \in LcsPairs(a, c)
    /\ a[b] = c[Partner(LcsPairs(a, c), b)]

LEMMA PartnerFacts ==
    ASSUME NEW K, NEW a \in Seq(K), NEW c \in Seq(K), NEW b, IsAligned(LcsPairs(a, c), b)
    PROVE  PartnerIs(a, c, b)
<1> DEFINE pairs == LcsPairs(a, c)
<1>1. pairs \in SUBSET Pairs(a, c) /\ Alignment(pairs, a, c)
  BY LcsAligns
<1>2. PICK p \in pairs : p[1] = b /\ Partner(pairs, b) = p[2]
  <2>1. \E p \in pairs : p[1] = b
    BY DEF IsAligned
  <2> DEFINE p == CHOOSE q \in pairs : q[1] = b
  <2>2. p \in pairs /\ p[1] = b
    BY <2>1
  <2>3. Partner(pairs, b) = p[2]
    BY DEF Partner
  <2> HIDE DEF p
  <2> QED
    BY <2>2, <2>3
<1>3. p[1] \in 1 .. Len(a) /\ p[2] \in 1 .. Len(c) /\ p = <<p[1], p[2]>>
  BY <1>1, PairFacts
<1>4. a[p[1]] = c[p[2]]
  BY <1>1 DEF Alignment
<1> QED
  BY <1>2, <1>3, <1>4 DEF PartnerIs

AnchorOf(base, theirs, current, b) ==
    <<b, Partner(LcsPairs(base, theirs), b), Partner(LcsPairs(base, current), b)>>

IsAnchor(base, theirs, current, b, from) ==
    /\ IsAligned(LcsPairs(base, theirs), b) /\ IsAligned(LcsPairs(base, current), b)
    /\ AnchorOf(base, theirs, current, b)[2] > from[2] /\ AnchorOf(base, theirs, current, b)[3] > from[3]

PlanStep(base, theirs, current, b, prev) ==
    LET anchor == AnchorOf(base, theirs, current, b)
    IN  IF IsAnchor(base, theirs, current, b, prev.from)
        THEN [from  |-> anchor,
              steps |-> prev.steps \o Gap(base, theirs, current, prev.from, anchor) \o <<Keep(anchor[3])>>]
        ELSE prev

\* A place in the three documents where a block stands in all of them, or their start.
AtAnchor(base, theirs, current, f) ==
    /\ f = <<f[1], f[2], f[3]>> /\ f[1] \in Nat /\ f[2] \in Nat /\ f[3] \in Nat
    /\ \/ f[1] = 0 /\ f[2] = 0 /\ f[3] = 0
       \/ /\ f[1] \in 1 .. Len(base) /\ f[2] \in 1 .. Len(theirs) /\ f[3] \in 1 .. Len(current)
          /\ base[f[1]] = theirs[f[2]] /\ base[f[1]] = current[f[3]]

PlanFits(base, theirs, current, b, plan) ==
    /\ AtAnchor(base, theirs, current, plan.from) /\ plan.from[1] <= b
    /\ Within(plan.steps, 0, 0, plan.from[2], plan.from[3])

StartPlan == [from |-> <<0, 0, 0>>, steps |-> <<>>]

LEMMA StartFits ==
    ASSUME NEW base, NEW theirs, NEW current
    PROVE  PlanFits(base, theirs, current, 0, StartPlan)
<1>1. Within(<<>>, 0, 0, 0, 0)
  BY NoElements DEF Within, InOrder
<1> QED
  BY <1>1 DEF PlanFits, StartPlan, AtAnchor

\* The region in front of a new anchor is open.
LEMMA AnchorOpens ==
    ASSUME NEW K, NEW base \in Seq(K), NEW theirs \in Seq(K), NEW current \in Seq(K),
           NEW b \in Nat, NEW from, AtAnchor(base, theirs, current, from), from[1] < b,
           IsAnchor(base, theirs, current, b, from)
    PROVE  /\ OpenGap(base, theirs, current, from, AnchorOf(base, theirs, current, b))
           /\ AtAnchor(base, theirs, current, AnchorOf(base, theirs, current, b))
           /\ AnchorOf(base, theirs, current, b)[1] = b
           /\ AnchorOf(base, theirs, current, b)[2] \in 1 .. Len(theirs)
           /\ AnchorOf(base, theirs, current, b)[3] \in 1 .. Len(current)
           /\ from[1] < b /\ from[2] < AnchorOf(base, theirs, current, b)[2]
           /\ from[3] < AnchorOf(base, theirs, current, b)[3]
<1> DEFINE j == Partner(LcsPairs(base, theirs), b)
           i == Partner(LcsPairs(base, current), b)
<1>0. IsAligned(LcsPairs(base, theirs), b) /\ IsAligned(LcsPairs(base, current), b)
  BY DEF IsAnchor
<1>1. b \in 1 .. Len(base) /\ j \in 1 .. Len(theirs) /\ base[b] = theirs[j]
  <2>1. PartnerIs(base, theirs, b)
    BY <1>0, PartnerFacts
  <2> QED
    BY <2>1, Zenon DEF PartnerIs
<1>2. i \in 1 .. Len(current) /\ base[b] = current[i]
  <2>1. PartnerIs(base, current, b)
    BY <1>0, PartnerFacts
  <2> QED
    BY <2>1, Zenon DEF PartnerIs
<1>3. j > from[2] /\ i > from[3]
  BY DEF IsAnchor, AnchorOf
<1>4. AnchorOf(base, theirs, current, b) = <<b, j, i>>
  BY DEF AnchorOf
<1> HIDE DEF i, j
<1>5. /\ AnchorOf(base, theirs, current, b)[1] = b /\ AnchorOf(base, theirs, current, b)[2] = j
      /\ AnchorOf(base, theirs, current, b)[3] = i
      /\ AnchorOf(base, theirs, current, b)
           = <<AnchorOf(base, theirs, current, b)[1], AnchorOf(base, theirs, current, b)[2],
               AnchorOf(base, theirs, current, b)[3]>>
  BY <1>4
<1>6. from[1] \in Nat /\ from[2] \in Nat /\ from[3] \in Nat
  BY DEF AtAnchor
<1>7. Len(base) \in Nat /\ Len(theirs) \in Nat /\ Len(current) \in Nat
  OBVIOUS
<1>8. OpenGap(base, theirs, current, from, AnchorOf(base, theirs, current, b))
  BY <1>1, <1>2, <1>3, <1>5, <1>6, <1>7 DEF OpenGap
<1>9. AtAnchor(base, theirs, current, AnchorOf(base, theirs, current, b))
  <2> DEFINE to == AnchorOf(base, theirs, current, b)
  <2>1. to = <<to[1], to[2], to[3]>> /\ to[1] = b /\ to[2] = j /\ to[3] = i
    BY <1>5
  <2> HIDE DEF to
  <2>2. b \in Nat /\ j \in Nat /\ i \in Nat
    BY <1>1, <1>2
  <2>3. AtAnchor(base, theirs, current, to)
    BY <1>1, <1>2, <2>1, <2>2 DEF AtAnchor
  <2> QED
    BY <2>3 DEF to
<1> QED
  BY <1>1, <1>2, <1>3, <1>5, <1>6, <1>8, <1>9

LEMMA OneKeep ==
    ASSUME NEW j \in Nat, NEW i \in Nat, j >= 1, i >= 1
    PROVE  Within(<<Keep(i)>>, j - 1, i - 1, j, i) /\ ToSet(<<Keep(i)>>) = {Keep(i)}
<1>1. Keep(i) \in Steps /\ Keep(i).kind = "keep" /\ Keep(i).index = i
  BY StepFacts
<1>2. <<Keep(i)>> \in Seq(Steps) /\ Len(<<Keep(i)>>) = 1 /\ ToSet(<<Keep(i)>>) = {Keep(i)}
  BY <1>1, OneElement
<1>3. InOrder(<<Keep(i)>>)
  BY <1>2 DEF InOrder
<1>4. StepWithin(Keep(i), j - 1, i - 1, j, i)
  BY <1>1 DEF StepWithin
<1> QED
  BY <1>2, <1>3, <1>4 DEF Within

\* The plan up to the end of a region, and up to the next anchor.
LEMMA PlanExtends ==
    ASSUME NEW K, NEW base \in Seq(K), NEW theirs \in Seq(K), NEW current \in Seq(K),
           NEW steps, NEW from, NEW to, OpenGap(base, theirs, current, from, to),
           Within(steps, 0, 0, from[2], from[3])
    PROVE  /\ Within(steps \o Gap(base, theirs, current, from, to), 0, 0, to[2] - 1, to[3] - 1)
           /\ ToSet(steps \o Gap(base, theirs, current, from, to))
                = ToSet(steps) \cup ToSet(Gap(base, theirs, current, from, to))
           /\ Within(steps \o Gap(base, theirs, current, from, to) \o <<Keep(to[3])>>, 0, 0, to[2], to[3])
           /\ ToSet(steps \o Gap(base, theirs, current, from, to) \o <<Keep(to[3])>>)
                = ToSet(steps) \cup ToSet(Gap(base, theirs, current, from, to)) \cup {Keep(to[3])}
<1> DEFINE gap == Gap(base, theirs, current, from, to)
<1>1. PICK f2 \in Nat, f3 \in Nat, t2 \in Nat, t3 \in Nat :
         /\ f2 = from[2] /\ f3 = from[3] /\ t2 = to[2] /\ t3 = to[3]
         /\ f2 < t2 /\ f3 < t3
  BY DEF OpenGap
<1>2. Within(gap, f2, f3, t2 - 1, t3 - 1)
  BY <1>1, GapElements
<1>3. /\ t2 - 1 \in Nat /\ t3 - 1 \in Nat /\ f2 <= t2 - 1 /\ f3 <= t3 - 1 /\ 0 <= f2 /\ 0 <= f3
      /\ t2 - 1 <= t2 /\ t3 - 1 <= t3 /\ 0 <= t2 - 1 /\ 0 <= t3 - 1 /\ t2 >= 1 /\ t3 >= 1
  <2>1. f2 < t2 /\ f3 < t3
    BY <1>1
  <2> QED
    BY <2>1
<1> HIDE DEF gap
<1>4. Within(steps \o gap, 0, 0, t2 - 1, t3 - 1) /\ ToSet(steps \o gap) = ToSet(steps) \cup ToSet(gap)
  <2> DEFINE v == t2 - 1
             w == t3 - 1
  <2>1. PICK z \in Nat : z = 0
    OBVIOUS
  <2>2. /\ v \in Nat /\ w \in Nat /\ z <= f2 /\ z <= f3 /\ f2 <= v /\ f3 <= w
        /\ Within(steps, z, z, f2, f3) /\ Within(gap, f2, f3, v, w)
    BY <1>1, <1>2, <1>3, <2>1
  <2> HIDE DEF v, w
  <2>3. Within(steps \o gap, z, z, v, w) /\ ToSet(steps \o gap) = ToSet(steps) \cup ToSet(gap)
    <3>1. Abut(steps, gap, z, z, f2, f3, v, w)
      BY <2>1, <2>2 DEF Abut
    <3> QED
      BY <3>1, JoinedWithin
  <2> QED
    BY <2>1, <2>3 DEF v, w
<1>5. Within(<<Keep(t3)>>, t2 - 1, t3 - 1, t2, t3) /\ ToSet(<<Keep(t3)>>) = {Keep(t3)}
  BY <1>3, OneKeep
<1>6. /\ Within(steps \o gap \o <<Keep(t3)>>, 0, 0, t2, t3)
      /\ ToSet(steps \o gap \o <<Keep(t3)>>) = ToSet(steps \o gap) \cup ToSet(<<Keep(t3)>>)
  <2> DEFINE r == steps \o gap
             k == <<Keep(t3)>>
             v == t2 - 1
             w == t3 - 1
  <2>1. PICK z \in Nat : z = 0
    OBVIOUS
  <2>2. /\ v \in Nat /\ w \in Nat /\ z <= v /\ z <= w /\ v <= t2 /\ w <= t3
        /\ Within(r, z, z, v, w) /\ Within(k, v, w, t2, t3)
    BY <1>3, <1>4, <1>5, <2>1
  <2> HIDE DEF r, k, v, w
  <2>3. Within(r \o k, z, z, t2, t3) /\ ToSet(r \o k) = ToSet(r) \cup ToSet(k)
    <3>1. Abut(r, k, z, z, v, w, t2, t3)
      BY <2>1, <2>2 DEF Abut
    <3> QED
      BY <3>1, JoinedWithin
  <2> QED
    BY <2>1, <2>3 DEF r, k
<1> QED
  BY <1>1, <1>4, <1>5, <1>6 DEF gap

LEMMA StepFits ==
    ASSUME NEW K, NEW base \in Seq(K), NEW theirs \in Seq(K), NEW current \in Seq(K),
           NEW b \in Nat, b >= 1, NEW prev, PlanFits(base, theirs, current, b - 1, prev)
    PROVE  PlanFits(base, theirs, current, b, PlanStep(base, theirs, current, b, prev))
<1> DEFINE from == prev.from
           to == AnchorOf(base, theirs, current, b)
           next == PlanStep(base, theirs, current, b, prev)
<1>1. /\ AtAnchor(base, theirs, current, from) /\ from[1] <= b - 1
      /\ Within(prev.steps, 0, 0, from[2], from[3])
  BY DEF PlanFits
<1>2. from[1] \in Nat
  BY <1>1 DEF AtAnchor
<1>3. CASE IsAnchor(base, theirs, current, b, from)
  <2>1. /\ next.from = to
        /\ next.steps = prev.steps \o Gap(base, theirs, current, from, to) \o <<Keep(to[3])>>
    BY <1>3 DEF PlanStep
  <2>2. from[1] < b
    BY <1>1, <1>2
  <2> HIDE DEF from, to, next
  <2>3. OpenGap(base, theirs, current, from, to) /\ AtAnchor(base, theirs, current, to) /\ to[1] = b
    BY <1>1, <1>3, <2>2, AnchorOpens DEF to
  <2>4. Within(prev.steps \o Gap(base, theirs, current, from, to) \o <<Keep(to[3])>>, 0, 0, to[2], to[3])
    BY <1>1, <2>3, PlanExtends
  <2>5. PlanFits(base, theirs, current, b, next)
    BY <2>1, <2>3, <2>4 DEF PlanFits
  <2> QED
    BY <2>5 DEF next
<1>4. CASE ~IsAnchor(base, theirs, current, b, from)
  <2>1. next = prev
    BY <1>4 DEF PlanStep
  <2>2. from[1] <= b
    BY <1>1, <1>2
  <2> QED
    BY <1>1, <2>1, <2>2 DEF PlanFits
<1> QED
  BY <1>3, <1>4

\* What PlanTo computes, and that every part of a plan fits.
PlanGrows(base, theirs, current) ==
    LET plan == PlanTo(base, theirs, current)
    IN  /\ plan[0] = StartPlan
        /\ \A b \in 1 .. Len(base) : plan[b] = PlanStep(base, theirs, current, b, plan[b - 1])
        /\ \A b \in 0 .. Len(base) : PlanFits(base, theirs, current, b, plan[b])

LEMMA PlanRecursion ==
    ASSUME NEW K, NEW base \in Seq(K), NEW theirs \in Seq(K), NEW current \in Seq(K)
    PROVE  PlanGrows(base, theirs, current)
<1> DEFINE n == Len(base)
           Step(b, prev) == PlanStep(base, theirs, current, b, prev)
           V == {p \in [from : Nat \X Nat \X Nat, steps : Seq(Steps)] : \E b \in 0 .. n : PlanFits(base, theirs, current, b, p)}
           G == [z \in (1 .. n) \X V |-> IF Step(z[1], z[2]) \in V THEN Step(z[1], z[2]) ELSE StartPlan]
           H(g) == [b \in 0 .. n |-> IF b = 0 THEN StartPlan ELSE Step(b, g[b - 1])]
           plan == PlanTo(base, theirs, current)
<1>1. n \in Nat
  OBVIOUS
<1>2. PlanFits(base, theirs, current, 0, StartPlan)
  BY StartFits
<1>3. StartPlan \in V
  <2>1. StartPlan \in [from : Nat \X Nat \X Nat, steps : Seq(Steps)]
    BY DEF StartPlan
  <2>2. 0 \in 0 .. n
    BY <1>1
  <2> QED
    BY <1>2, <2>1, <2>2
<1>4. ASSUME NEW b \in 1 .. n, NEW prev, PlanFits(base, theirs, current, b - 1, prev)
      PROVE  PlanFits(base, theirs, current, b, Step(b, prev))
  <2>1. b \in Nat /\ b >= 1
    BY <1>1
  <2> QED
    BY <1>4, <2>1, StepFits
<1>5. ASSUME NEW b \in 1 .. n, NEW prev \in V, PlanFits(base, theirs, current, b - 1, prev)
      PROVE  Step(b, prev) \in V
  <2>1. PlanFits(base, theirs, current, b, Step(b, prev))
    BY <1>4, <1>5
  <2>2. Step(b, prev) \in [from : Nat \X Nat \X Nat, steps : Seq(Steps)]
    <3>1. CASE Step(b, prev) = prev
      BY <3>1
    <3>2. CASE Step(b, prev) # prev
      <4>1. \E f, s : Step(b, prev) = [from |-> f, steps |-> s]
        BY <3>2 DEF PlanStep
      <4>2. PICK f, s : Step(b, prev) = [from |-> f, steps |-> s]
        BY <4>1
      <4>3. AtAnchor(base, theirs, current, f) /\ s \in Seq(Steps)
        BY <2>1, <4>2 DEF PlanFits, Within
      <4>4. f \in Nat \X Nat \X Nat
        BY <4>3 DEF AtAnchor
      <4> QED
        BY <4>2, <4>3, <4>4
    <3> QED
      BY <3>1, <3>2
  <2>3. b \in 0 .. n
    BY <1>1
  <2> HIDE DEF Step
  <2> QED
    BY <2>1, <2>2, <2>3
<1>6. Iterates(n, V, StartPlan, G)
  <2>1. G \in [(1 .. n) \X V -> V]
    <3> HIDE DEF V, Step
    <3> QED
      BY <1>3
  <2> HIDE DEF n, V, G
  <2> QED
    BY <1>1, <1>3, <2>1, RecursionTo
<1>7. PICK f \in [0 .. n -> V] : f[0] = StartPlan /\ \A b \in 1 .. n : f[b] = G[<<b, f[b - 1]>>]
  BY <1>6 DEF Iterates
<1>8. ASSUME NEW b \in 1 .. n, PlanFits(base, theirs, current, b - 1, f[b - 1])
      PROVE  f[b] = Step(b, f[b - 1]) /\ PlanFits(base, theirs, current, b, f[b])
  <2>1. b - 1 \in 0 .. n
    BY <1>1
  <2>2. f[b - 1] \in V
    <3> HIDE DEF V
    <3> QED
      BY <2>1
  <2>3. Step(b, f[b - 1]) \in V /\ PlanFits(base, theirs, current, b, Step(b, f[b - 1]))
    <3> HIDE DEF V, Step
    <3> QED
      BY <1>4, <1>5, <1>8, <2>2
  <2>4. G[<<b, f[b - 1]>>] = Step(b, f[b - 1])
    <3> HIDE DEF V, Step
    <3> QED
      BY <2>2, <2>3
  <2> HIDE DEF G, V, Step
  <2> QED
    BY <1>7, <2>3, <2>4
<1>9. \A b \in 0 .. n : PlanFits(base, theirs, current, b, f[b])
  <2> DEFINE T == {b \in 0 .. n : PlanFits(base, theirs, current, b, f[b])}
  <2>1. 0 \in T
    BY <1>1, <1>2, <1>7
  <2>2. ASSUME NEW b \in 1 .. n, b - 1 \in T PROVE b \in T
    <3>1. b \in 0 .. n
      BY <1>1
    <3>2. PlanFits(base, theirs, current, b - 1, f[b - 1])
      BY <2>2
    <3> QED
      BY <1>8, <3>1, <3>2
  <2>3. \A b \in 0 .. n : b \in T
    <3> HIDE DEF T, n
    <3> QED
      BY <1>1, <2>1, <2>2, InductionTo
  <2> QED
    BY <2>3
<1>10. \A b \in 1 .. n : f[b] = Step(b, f[b - 1])
  <2> SUFFICES ASSUME NEW b \in 1 .. n PROVE f[b] = Step(b, f[b - 1])
    OBVIOUS
  <2>1. b - 1 \in 0 .. n
    BY <1>1
  <2> HIDE DEF Step, G, V
  <2> QED
    BY <1>8, <1>9, <2>1
<1>11. \E g : g = H(g)
  <2>1. f = H(f)
    <3>1. \A b \in 0 .. n : b = 0 \/ b \in 1 .. n
      OBVIOUS
    <3> HIDE DEF Step, G, V, n
    <3> QED
      BY <1>7, <1>10, <3>1
  <2> QED
    BY <2>1
<1> DEFINE Go(b, prev) ==
               IF IsAligned(LcsPairs(base, theirs), b) /\ IsAligned(LcsPairs(base, current), b)
               THEN Anchored(base, theirs, current, prev, AnchorOf(base, theirs, current, b))
               ELSE prev
           J(g) == [b \in 0 .. n |-> IF b = 0 THEN StartPlan ELSE Go(b, g[b - 1])]
<1>12. plan = CHOOSE g : g = J(g)
  BY DEF PlanTo, StartPlan, AnchorOf
<1>13. plan = H(plan)
  <2>1. \A b, prev : Go(b, prev) = Step(b, prev)
    BY DEF PlanStep, Anchored, IsAnchor
  <2>2. \A g : J(g) = H(g)
    <3> HIDE DEF Go, Step, n
    <3> QED
      BY <2>1
  <2> HIDE DEF H, J, plan
  <2>3. plan = J(plan)
    BY <1>11, <1>12, <2>2, Zenon
  <2> QED
    BY <2>2, <2>3
<1>14. plan[0] = StartPlan /\ \A b \in 1 .. n : plan[b] = Step(b, plan[b - 1])
  <2>1. 0 \in 0 .. n /\ \A b \in 1 .. n : b \in 0 .. n /\ b # 0
    BY <1>1
  <2> HIDE DEF Step, plan, n
  <2> QED
    BY <1>13, <2>1
<1>15. \A b \in 0 .. n : PlanFits(base, theirs, current, b, plan[b])
  <2> DEFINE T == {b \in 0 .. n : PlanFits(base, theirs, current, b, plan[b])}
  <2> HIDE DEF plan
  <2>1. 0 \in T
    BY <1>1, <1>2, <1>14
  <2>2. ASSUME NEW b \in 1 .. n, b - 1 \in T PROVE b \in T
    <3>1. b \in 0 .. n
      BY <1>1
    <3>2. PlanFits(base, theirs, current, b - 1, plan[b - 1])
      BY <2>2
    <3>3. PlanFits(base, theirs, current, b, Step(b, plan[b - 1]))
      BY <1>4, <3>2
    <3>4. plan[b] = Step(b, plan[b - 1])
      BY <1>14
    <3> HIDE DEF Step
    <3> QED
      BY <3>1, <3>3, <3>4
  <2>3. \A b \in 0 .. n : b \in T
    <3> HIDE DEF T, n
    <3> QED
      BY <1>1, <2>1, <2>2, InductionTo
  <2> QED
    BY <2>3
<1> QED
  BY <1>14, <1>15 DEF PlanGrows

\* The last region, up to the end of all three documents.
EndOf(base, theirs, current) == <<Len(base) + 1, Len(theirs) + 1, Len(current) + 1>>

LEMMA PlanEnds ==
    ASSUME NEW K, NEW base \in Seq(K), NEW theirs \in Seq(K), NEW current \in Seq(K),
           NEW from, AtAnchor(base, theirs, current, from)
    PROVE  OpenGap(base, theirs, current, from, EndOf(base, theirs, current))
<1>1. Len(base) \in Nat /\ Len(theirs) \in Nat /\ Len(current) \in Nat
  OBVIOUS
<1>2. /\ EndOf(base, theirs, current)[1] = Len(base) + 1
      /\ EndOf(base, theirs, current)[2] = Len(theirs) + 1
      /\ EndOf(base, theirs, current)[3] = Len(current) + 1
  BY DEF EndOf
<1>3. /\ from[1] \in Nat /\ from[2] \in Nat /\ from[3] \in Nat
      /\ from[1] <= Len(base) /\ from[2] <= Len(theirs) /\ from[3] <= Len(current)
  BY <1>1 DEF AtAnchor
<1> QED
  BY <1>1, <1>2, <1>3 DEF OpenGap

\* The plan of a merge: steps for blocks there are, in order.
LEMMA PlanIsInOrder ==
    ASSUME NEW K, NEW base \in Seq(K), NEW theirs \in Seq(K), NEW current \in Seq(K)
    PROVE  Within(PlanBlockMerge(base, theirs, current), 0, 0, Len(theirs), Len(current))
<1> DEFINE plan == PlanTo(base, theirs, current)[Len(base)]
           end == EndOf(base, theirs, current)
<1>1. Len(base) \in 0 .. Len(base) /\ Len(theirs) \in Nat /\ Len(current) \in Nat
  OBVIOUS
<1>2. PlanFits(base, theirs, current, Len(base), plan)
  BY <1>1, PlanRecursion DEF PlanGrows
<1>3. PlanBlockMerge(base, theirs, current) = plan.steps \o Gap(base, theirs, current, plan.from, end)
  BY Zenon DEF PlanBlockMerge, EndOf
<1> HIDE DEF plan, end
<1>4. AtAnchor(base, theirs, current, plan.from) /\ Within(plan.steps, 0, 0, plan.from[2], plan.from[3])
  BY <1>2 DEF PlanFits
<1>5. OpenGap(base, theirs, current, plan.from, end)
  BY <1>4, PlanEnds DEF end
<1>6. Within(plan.steps \o Gap(base, theirs, current, plan.from, end), 0, 0, end[2] - 1, end[3] - 1)
  BY <1>4, <1>5, PlanExtends
<1>7. end[2] - 1 = Len(theirs) /\ end[3] - 1 = Len(current)
  BY <1>1 DEF end, EndOf
<1> QED
  BY <1>3, <1>6, <1>7

-----------------------------------------------------------------------------
(***************************************************************************)
(* The splice.                                                             *)
(***************************************************************************)

LEMMA JoinedParts ==
    ASSUME NEW K, NEW s \in Seq(K), NEW t \in Seq(K)
    PROVE  /\ SubSeq(s \o t, 1, Len(s)) = s
           /\ SubSeq(s \o t, Len(s) + 1, Len(s \o t)) = t
           /\ \A m \in 1 .. Len(s) : SubSeq(s \o t, 1, m - 1) = SubSeq(s, 1, m - 1)
<1> DEFINE r == s \o t
           n == Len(s)
           l == Len(t)
<1>1. /\ r \in Seq(K) /\ Len(r) = n + l
      /\ \A i \in 1 .. n + l : r[i] = IF i <= n THEN s[i] ELSE t[i - n]
  BY ConcatProperties
<1>2. n \in Nat /\ l \in Nat
  OBVIOUS
<1> HIDE DEF r
<1>3. ASSUME NEW m \in 0 .. n PROVE SubSeq(r, 1, m) = SubSeq(s, 1, m)
  <2>1. m \in Nat /\ 0 \in Nat /\ 0 + m <= Len(r) /\ 0 + m <= Len(s) /\ 0 + 1 = 1 /\ 0 + m = m
    BY <1>1, <1>2
  <2>2. /\ SubSeq(r, 0 + 1, 0 + m) \in Seq(K) /\ Len(SubSeq(r, 0 + 1, 0 + m)) = m
        /\ \A i \in 1 .. m : SubSeq(r, 0 + 1, 0 + m)[i] = r[0 + i]
    BY <1>1, <2>1, Slice
  <2>3. /\ SubSeq(s, 0 + 1, 0 + m) \in Seq(K) /\ Len(SubSeq(s, 0 + 1, 0 + m)) = m
        /\ \A i \in 1 .. m : SubSeq(s, 0 + 1, 0 + m)[i] = s[0 + i]
    BY <1>1, <2>1, Slice
  <2>4. \A i \in 1 .. m : 0 + i = i /\ r[i] = s[i]
    BY <1>1, <1>2
  <2>5. \A i \in 1 .. m : SubSeq(r, 1, m)[i] = SubSeq(s, 1, m)[i]
    BY <2>1, <2>2, <2>3, <2>4
  <2>6. SubSeq(r, 1, m) \in Seq(K) /\ SubSeq(s, 1, m) \in Seq(K) /\ Len(SubSeq(r, 1, m)) = m /\ Len(SubSeq(s, 1, m)) = m
    BY <2>1, <2>2, <2>3
  <2> QED
    BY <2>5, <2>6, SeqEqual
<1>4. SubSeq(r, 1, n) = s
  <2>1. SubSeq(r, 1, n) = SubSeq(s, 1, n)
    BY <1>2, <1>3
  <2> QED
    BY <2>1, SubSeqFull
<1>5. SubSeq(r, n + 1, Len(r)) = t
  <2>1. /\ SubSeq(r, n + 1, n + l) \in Seq(K) /\ Len(SubSeq(r, n + 1, n + l)) = l
        /\ \A i \in 1 .. l : SubSeq(r, n + 1, n + l)[i] = r[n + i]
    <3>1. n + l <= Len(r)
      BY <1>1, <1>2
    <3> HIDE DEF n, l
    <3> QED
      BY <1>1, <1>2, <3>1, Slice
  <2>2. \A i \in 1 .. l : r[n + i] = t[i]
    <3> SUFFICES ASSUME NEW i \in 1 .. l PROVE r[n + i] = t[i]
      OBVIOUS
    <3>1. n + i \in 1 .. n + l /\ ~(n + i <= n) /\ (n + i) - n = i
      BY <1>2
    <3> HIDE DEF n, l
    <3> QED
      BY <1>1, <3>1
  <2>3. \A i \in 1 .. l : SubSeq(r, n + 1, n + l)[i] = t[i]
    BY <2>1, <2>2
  <2>4. SubSeq(r, n + 1, n + l) = t
    BY <2>1, <2>3, SeqEqual
  <2> QED
    BY <1>1, <2>4
<1>6. \A m \in 1 .. n : SubSeq(r, 1, m - 1) = SubSeq(s, 1, m - 1)
  <2> SUFFICES ASSUME NEW m \in 1 .. n PROVE SubSeq(r, 1, m - 1) = SubSeq(s, 1, m - 1)
    OBVIOUS
  <2>1. m - 1 \in 0 .. n
    BY <1>2
  <2> HIDE DEF n
  <2> QED
    BY <1>3, <2>1
<1> QED
  BY <1>4, <1>5, <1>6 DEF r

LEMMA FirstOf ==
    ASSUME NEW K, NEW s \in Seq(K), NEW m \in 1 .. Len(s)
    PROVE  /\ SubSeq(s, 1, m) = SubSeq(s, 1, m - 1) \o <<s[m]>>
           /\ SubSeq(s, 1, m) \in Seq(K) /\ Len(SubSeq(s, 1, m)) = m
           /\ SubSeq(s, 1, m - 1) \in Seq(K) /\ Len(SubSeq(s, 1, m - 1)) = m - 1
           /\ s[m] \in K
<1>1. Len(s) \in Nat /\ s[m] \in K /\ 1 \in 1 .. Len(s) /\ m \in 1 .. Len(s)
  OBVIOUS
<1>2. SubSeq(s, 1, m) = SubSeq(s, 1, m - 1) \o <<s[m]>>
  BY <1>1, SubSeqRecursiveSecond
<1>3. ASSUME NEW k \in Nat, k <= Len(s) PROVE SubSeq(s, 1, k) \in Seq(K) /\ Len(SubSeq(s, 1, k)) = k
  <2>1. 0 \in Nat /\ 0 + k <= Len(s) /\ 0 + k = k /\ 0 + 1 = 1
    BY <1>3
  <2>2. SubSeq(s, 0 + 1, 0 + k) \in Seq(K) /\ Len(SubSeq(s, 0 + 1, 0 + k)) = k
    BY <2>1, Slice
  <2> QED
    BY <2>1, <2>2
<1>4. m \in Nat /\ m <= Len(s) /\ m - 1 \in Nat /\ m - 1 <= Len(s)
  BY <1>1
<1> QED
  BY <1>1, <1>2, <1>3, <1>4

LEMMA NoneOf ==
    ASSUME NEW s
    PROVE  SubSeq(s, 1, 0) = <<>>
BY SubSeqEmpty

LEMMA RemovedLast ==
    ASSUME NEW K, NEW s \in Seq(K), NEW t \in Seq(K), NEW m \in Nat, m >= 1, Len(s) = m
    PROVE  RemoveAt(s \o t, m) = SubSeq(s, 1, m - 1) \o t
<1>1. SubSeq(s \o t, m + 1, Len(s \o t)) = t /\ SubSeq(s \o t, 1, m - 1) = SubSeq(s, 1, m - 1)
  BY JoinedParts
<1> QED
  BY <1>1 DEF RemoveAt

LEMMA InsertedBetween ==
    ASSUME NEW K, NEW s \in Seq(K), NEW t \in Seq(K), NEW e \in K, NEW m \in Nat, m >= 1, Len(s) = m - 1
    PROVE  InsertAt(s \o t, m, e) = (s \o <<e>>) \o t
<1>1. SubSeq(s \o t, Len(s) + 1, Len(s \o t)) = t /\ SubSeq(s \o t, 1, Len(s)) = s
  BY JoinedParts
<1>2. Len(s) + 1 = m /\ Len(s) = m - 1
  OBVIOUS
<1>3. SubSeq(s \o t, m, Len(s \o t)) = t /\ SubSeq(s \o t, 1, m - 1) = s
  BY <1>1, <1>2
<1> QED
  BY <1>3 DEF InsertAt

\* The kept elements among the last i of s, for every i.
RestOf(K, s, kept, r) ==
    /\ r \in [0 .. Len(s) -> Seq(K)] /\ r[0] = <<>>
    /\ \A i \in 1 .. Len(s) :
          r[i] = IF Len(s) - i + 1 \in kept THEN <<s[Len(s) - i + 1]>> \o r[i - 1] ELSE r[i - 1]

HasRest(K, s, kept) == \E r : RestOf(K, s, kept, r)

LEMMA RestExists ==
    ASSUME NEW K, NEW s \in Seq(K), NEW kept
    PROVE  HasRest(K, s, kept)
<1> DEFINE n == Len(s)
           V == Seq(K)
           Next(i, r) == IF n - i + 1 \in kept THEN <<s[n - i + 1]>> \o r ELSE r
           G == [z \in (1 .. n) \X V |-> Next(z[1], z[2])]
<1>1. n \in Nat /\ <<>> \in V
  OBVIOUS
<1>2. ASSUME NEW i \in 1 .. n, NEW r \in V PROVE Next(i, r) \in V
  <2>1. n - i + 1 \in 1 .. n
    BY <1>1
  <2>2. s[n - i + 1] \in K
    BY <2>1
  <2>3. <<s[n - i + 1]>> \in V
    BY <2>2
  <2>4. <<s[n - i + 1]>> \o r \in V
    <3> DEFINE q == <<s[n - i + 1]>>
    <3> HIDE DEF q
    <3>1. q \in Seq(K)
      BY <2>3 DEF q
    <3>2. q \o r \in Seq(K)
      BY <3>1, JoinedElements
    <3> QED
      BY <3>2 DEF q
  <2> QED
    BY <2>4
<1>3. Iterates(n, V, <<>>, G)
  <2>1. G \in [(1 .. n) \X V -> V]
    <3> HIDE DEF V, Next, n
    <3> QED
      BY <1>2
  <2> HIDE DEF n, V, G
  <2> QED
    BY <1>1, <2>1, RecursionTo
<1>4. PICK f \in [0 .. n -> V] : f[0] = <<>> /\ \A i \in 1 .. n : f[i] = G[<<i, f[i - 1]>>]
  BY <1>3 DEF Iterates
<1>5. \A i \in 1 .. n : f[i] = Next(i, f[i - 1])
  <2> SUFFICES ASSUME NEW i \in 1 .. n PROVE f[i] = Next(i, f[i - 1])
    OBVIOUS
  <2>1. i - 1 \in 0 .. n
    BY <1>1
  <2>2. f[i - 1] \in V
    <3> HIDE DEF V
    <3> QED
      BY <2>1
  <2> HIDE DEF Next, V
  <2> QED
    BY <1>4, <2>2
<1> QED
  BY <1>4, <1>5 DEF HasRest, RestOf

\* Elements that are not kept add nothing.
LEMMA RestSkips ==
    ASSUME NEW K, NEW s \in Seq(K), NEW kept, NEW r, RestOf(K, s, kept, r),
           NEW c \in Nat, NEW x \in Nat, c < x, x <= Len(s) + 1,
           \A y \in kept : ~(c < y /\ y < x)
    PROVE  r[Len(s) - c] = r[Len(s) - x + 1]
<1> DEFINE n == Len(s)
           d == x - 1 - c
           from == n - x + 1
           T == {k \in 0 .. d : r[from + k] = r[from]}
<1>1. n \in Nat /\ d \in Nat /\ from \in Nat /\ from + d = n - c
  OBVIOUS
<1>2. 0 \in T
  BY <1>1
<1>3. ASSUME NEW k \in 1 .. d, k - 1 \in T PROVE k \in T
  <2>1. from + k \in 1 .. n /\ from + (k - 1) = (from + k) - 1 /\ k \in 0 .. d
    BY <1>1
  <2>2. n - (from + k) + 1 = x - k /\ c < x - k /\ x - k < x
    BY <1>1
  <2>3. n - (from + k) + 1 \notin kept
    BY <2>2
  <2>4. r[from + k] = r[(from + k) - 1]
    <3> HIDE DEF from
    <3> QED
      BY <2>1, <2>3 DEF RestOf
  <2>5. r[from + (k - 1)] = r[from]
    BY <1>3
  <2> QED
    BY <2>1, <2>4, <2>5
<1>4. \A k \in 0 .. d : k \in T
  <2> HIDE DEF T, d
  <2> QED
    BY <1>1, <1>2, <1>3, InductionTo
<1>5. r[from + d] = r[from]
  <2>1. d \in 0 .. d
    BY <1>1
  <2> QED
    BY <1>4, <2>1
<1> QED
  BY <1>1, <1>5

\* The live blocks that a plan keeps.
Kept(steps) == {steps[i].index : i \in {j \in 1 .. Len(steps) : steps[j].kind = "keep"}}

\* Deleting from the back leaves the blocks that are kept.
LEMMA DeletesUnkept ==
    ASSUME NEW K, NEW current \in Seq(K), NEW steps, NEW r, RestOf(K, current, Kept(steps), r)
    PROVE  WithoutUnkept(current, steps) = r[Len(current)]
<1> DEFINE n == Len(current)
           kept == Kept(steps)
           Delete(i, s) == IF n - i + 1 \in kept THEN s ELSE RemoveAt(s, n - i + 1)
           H(g) == [i \in 0 .. n |-> IF i = 0 THEN current ELSE Delete(i, g[i - 1])]
           left == CHOOSE g : g = H(g)
           g == [i \in 0 .. n |-> SubSeq(current, 1, n - i) \o r[i]]
<1>1. n \in Nat
  OBVIOUS
<1>2. g[0] = current
  <2>1. SubSeq(current, 1, n) = current /\ r[0] = <<>> /\ 0 \in 0 .. n /\ n - 0 = n
    BY <1>1, SubSeqFull DEF RestOf
  <2>2. current \o <<>> = current
    BY ConcatEmptySeq
  <2> QED
    BY <2>1, <2>2
<1>3. ASSUME NEW i \in 1 .. n PROVE g[i] = Delete(i, g[i - 1])
  <2> DEFINE m == n - i + 1
             s == SubSeq(current, 1, m)
             t == SubSeq(current, 1, m - 1)
             rest == r[i - 1]
  <2>1. m \in 1 .. Len(current) /\ m \in Nat /\ m >= 1 /\ n - (i - 1) = m /\ n - i = m - 1 /\ i - 1 \in 0 .. n /\ i \in 0 .. n
    BY <1>1
  <2>2. g[i - 1] = s \o rest /\ g[i] = t \o r[i]
    BY <2>1
  <2>3. s = t \o <<current[m]>> /\ s \in Seq(K) /\ Len(s) = m /\ t \in Seq(K) /\ current[m] \in K
    <3> HIDE DEF m
    <3> QED
      BY <2>1, FirstOf
  <2>4. rest \in Seq(K)
    BY <2>1 DEF RestOf
  <2>5. <<current[m]>> \in Seq(K)
    BY <2>3, OneElement
  <2>6. CASE m \in kept
    <3>1. r[i] = <<current[m]>> \o rest
      BY <2>6 DEF RestOf
    <3> DEFINE e == <<current[m]>>
    <3>2. e \in Seq(K) /\ s = t \o e /\ r[i] = e \o rest
      BY <2>3, <2>5, <3>1
    <3>3. Delete(i, g[i - 1]) = g[i - 1]
      BY <2>6
    <3>0. t \in Seq(K)
      BY <2>3
    <3> HIDE DEF e, s, t, rest, g, Delete
    <3>4. Associates(t, e, rest)
      BY <2>4, <3>0, <3>2, JoinedInThree
    <3> QED
      BY <2>2, <3>2, <3>3, <3>4 DEF Associates
  <2>7. CASE m \notin kept
    <3>1. r[i] = rest
      BY <2>7 DEF RestOf
    <3>2. Delete(i, g[i - 1]) = RemoveAt(g[i - 1], m)
      BY <2>7
    <3>3. RemoveAt(s \o rest, m) = SubSeq(s, 1, m - 1) \o rest
      <4> HIDE DEF s, rest, m
      <4> QED
        BY <2>1, <2>3, <2>4, RemovedLast
    <3>4. SubSeq(s, 1, m - 1) = t
      <4>1. Len(t) = m - 1
        <5> HIDE DEF m
        <5> QED
          BY <2>1, FirstOf
      <4> DEFINE e == <<current[m]>>
      <4>2. e \in Seq(K) /\ s = t \o e
        BY <2>3, <2>5
      <4> HIDE DEF e, t, s
      <4>3. SubSeq(t \o e, 1, Len(t)) = t
        BY <2>3, <4>2, JoinedParts
      <4> QED
        BY <4>1, <4>2, <4>3
    <3> HIDE DEF s, t, rest, g, Delete, m
    <3> QED
      BY <2>2, <3>1, <3>2, <3>3, <3>4
  <2> QED
    BY <2>6, <2>7
<1>4. g = H(g)
  <2>1. \A i \in 0 .. n : i = 0 \/ i \in 1 .. n
    OBVIOUS
  <2>2. g = [i \in 0 .. n |-> g[i]]
    OBVIOUS
  <2> HIDE DEF g, n, Delete
  <2> QED
    BY <1>2, <1>3, <2>1, <2>2
<1>5. left = H(left)
  <2>1. \E h : h = H(h)
    BY <1>4
  <2> HIDE DEF H, g
  <2> QED
    BY <2>1, Zenon
<1> DEFINE T == {i \in 0 .. n : left[i] = g[i]}
<1>6. \A i \in 0 .. n : i \in T
  <2>1. \A i \in 0 .. n : left[i] = IF i = 0 THEN current ELSE Delete(i, left[i - 1])
    <3> HIDE DEF left, Delete, n
    <3> QED
      BY <1>5
  <2> HIDE DEF left, g, Delete
  <2>2. 0 \in T
    BY <1>1, <1>2, <2>1
  <2>3. ASSUME NEW i \in 1 .. n, i - 1 \in T PROVE i \in T
    <3>1. i \in 0 .. n /\ i # 0 /\ left[i - 1] = g[i - 1]
      BY <2>3
    <3> QED
      BY <1>3, <2>1, <3>1
  <2> HIDE DEF T, n
  <2> QED
    BY <1>1, <2>2, <2>3, InductionTo
<1>7. left[n] = g[n]
  <2>1. n \in T
    <3>1. n \in 0 .. n
      BY <1>1
    <3> HIDE DEF T
    <3> QED
      BY <1>6, <3>1
  <2> QED
    BY <2>1
<1>8. g[n] = r[n]
  <2>1. n \in 0 .. n /\ n - n = 0
    BY <1>1
  <2>2. g[n] = <<>> \o r[n] /\ r[n] \in Seq(K)
    BY <2>1, NoneOf DEF RestOf
  <2> HIDE DEF g
  <2>3. <<>> \o r[n] = r[n]
    BY <2>2, ConcatEmptySeq
  <2> QED
    BY <2>2, <2>3
<1>9. WithoutUnkept(current, steps) = left[n]
  BY Zenon DEF WithoutUnkept, Kept
<1> QED
  BY <1>7, <1>8, <1>9

\* What a plan says: its blocks one by one.
Said(theirs, current, steps) ==
    [x \in 1 .. Len(steps) |->
        IF steps[x].kind = "keep" THEN current[steps[x].index] ELSE theirs[steps[x].index]]

\* A plan for two documents.
Plans(K, theirs, current, steps) ==
    /\ theirs \in Seq(K) /\ current \in Seq(K)
    /\ Within(steps, 0, 0, Len(theirs), Len(current))

LEMMA PlanFacts ==
    ASSUME NEW K, NEW theirs, NEW current, NEW steps, Plans(K, theirs, current, steps)
    PROVE  /\ theirs \in Seq(K) /\ current \in Seq(K) /\ steps \in Seq(Steps) /\ InOrder(steps)
           /\ Said(theirs, current, steps) \in Seq(K) /\ Len(Said(theirs, current, steps)) = Len(steps)
           /\ \A x \in 1 .. Len(steps) :
                 /\ steps[x].kind \in {"keep", "insert"}
                 /\ steps[x].kind = "keep" => /\ steps[x].index \in 1 .. Len(current)
                                              /\ steps[x] = Keep(steps[x].index)
                                              /\ Said(theirs, current, steps)[x] = current[steps[x].index]
                 /\ steps[x].kind = "insert" => /\ steps[x].index \in 1 .. Len(theirs)
                                                /\ steps[x] = Insert(steps[x].index)
                                                /\ Said(theirs, current, steps)[x] = theirs[steps[x].index]
                 /\ Said(theirs, current, steps)[x] \in K
<1> DEFINE said == Said(theirs, current, steps)
<1>1. /\ theirs \in Seq(K) /\ current \in Seq(K) /\ steps \in Seq(Steps) /\ InOrder(steps)
      /\ \A step \in ToSet(steps) : StepWithin(step, 0, 0, Len(theirs), Len(current))
  BY DEF Plans, Within
<1>2. Len(theirs) \in Nat /\ Len(current) \in Nat /\ Len(steps) \in Nat
  BY <1>1
<1>3. ASSUME NEW x \in 1 .. Len(steps)
      PROVE  /\ steps[x].kind \in {"keep", "insert"}
             /\ steps[x].kind = "keep" => steps[x].index \in 1 .. Len(current) /\ steps[x] = Keep(steps[x].index)
             /\ steps[x].kind = "insert" => steps[x].index \in 1 .. Len(theirs) /\ steps[x] = Insert(steps[x].index)
  <2>1. steps[x] \in Steps /\ steps[x] \in ToSet(steps)
    BY <1>1, ElementsOf
  <2>2. steps[x].index \in Nat /\ StepWithin(steps[x], 0, 0, Len(theirs), Len(current))
    BY <1>1, <2>1, StepFacts
  <2> QED
    BY <1>2, <2>1, <2>2, StepFacts DEF StepWithin
<1>4. ASSUME NEW x \in 1 .. Len(steps)
      PROVE  /\ said[x] = IF steps[x].kind = "keep" THEN current[steps[x].index] ELSE theirs[steps[x].index]
             /\ said[x] \in K
  <2>1. said[x] = IF steps[x].kind = "keep" THEN current[steps[x].index] ELSE theirs[steps[x].index]
    BY DEF Said
  <2>2. CASE steps[x].kind = "keep"
    BY <1>1, <1>3, <2>1, <2>2
  <2>3. CASE steps[x].kind = "insert"
    BY <1>1, <1>3, <2>1, <2>3
  <2> QED
    BY <1>3, <2>1, <2>2, <2>3
<1>5. said \in Seq(K) /\ Len(said) = Len(steps)
  <2>1. said = [x \in 1 .. Len(steps) |-> said[x]]
    BY DEF Said
  <2>2. said \in [1 .. Len(steps) -> K]
    <3> HIDE DEF said
    <3> QED
      BY <1>4, <2>1
  <2> HIDE DEF said
  <2> QED
    BY <1>2, <2>2, ListedIsASeq
<1> HIDE DEF said
<1>6. \A x \in 1 .. Len(steps) :
                 /\ steps[x].kind = "keep" => said[x] = current[steps[x].index]
                 /\ steps[x].kind = "insert" => said[x] = theirs[steps[x].index]
                 /\ said[x] \in K
  BY <1>3, <1>4
<1> QED
  BY <1>1, <1>3, <1>5, <1>6 DEF said

\* The i-th step of the splice, and what the fragment is after i steps: what the plan says
\* up to there, and behind it the kept blocks that have not been stepped over.
SpliceStep(theirs, steps, i, prev) ==
    IF steps[i].kind = "keep" THEN prev ELSE InsertAt(prev, i, theirs[steps[i].index])

SteppedTo(steps, i, c) ==
    \A x \in 1 .. Len(steps) :
       steps[x].kind = "keep" => /\ x <= i => steps[x].index <= c
                                 /\ x > i => c < steps[x].index

SpliceFits(theirs, current, steps, r, i, s) ==
    \E c \in 0 .. Len(current) :
       /\ s = SubSeq(Said(theirs, current, steps), 1, i) \o r[Len(current) - c]
       /\ SteppedTo(steps, i, c)

\* A kept block is the next of those that have not been stepped over.
LEMMA KeptIsNext ==
    ASSUME NEW K, NEW theirs, NEW current, NEW steps, Plans(K, theirs, current, steps),
           NEW r, RestOf(K, current, Kept(steps), r),
           NEW i \in 1 .. Len(steps), steps[i].kind = "keep",
           NEW c \in 0 .. Len(current), SteppedTo(steps, i - 1, c)
    PROVE  /\ r[Len(current) - c] = <<current[steps[i].index]>> \o r[Len(current) - steps[i].index]
           /\ SteppedTo(steps, i, steps[i].index)
<1> DEFINE n == Len(current)
           x == steps[i].index
           kept == Kept(steps)
<1>1. /\ current \in Seq(K) /\ steps \in Seq(Steps) /\ InOrder(steps) /\ x \in 1 .. Len(current)
      /\ \A j \in 1 .. Len(steps) : steps[j].kind = "keep" => steps[j].index \in 1 .. Len(current)
  BY PlanFacts
<1>2. n \in Nat /\ Len(steps) \in Nat
  BY <1>1
<1>3. c \in Nat /\ x \in Nat /\ c < x /\ x <= n + 1
  <2>1. c < x
    <3>1. i > i - 1
      BY <1>2
    <3> QED
      BY <3>1 DEF SteppedTo
  <2> QED
    BY <1>1, <1>2, <2>1
<1>4. ASSUME NEW j \in 1 .. Len(steps), steps[j].kind = "keep"
      PROVE  /\ j < i => steps[j].index <= c /\ steps[j].index < x
             /\ j > i => x < steps[j].index
  <2>1. j < i => j <= i - 1
    BY <1>2
  <2>2. j < i => steps[j].index <= c
    BY <1>4, <2>1 DEF SteppedTo
  <2>3. j < i => steps[j].index < x
    BY <1>1, <1>4 DEF InOrder
  <2>4. j > i => x < steps[j].index
    BY <1>1, <1>2, <1>4 DEF InOrder
  <2> QED
    BY <2>2, <2>3, <2>4
<1>5. \A y \in kept : ~(c < y /\ y < x)
  <2> SUFFICES ASSUME NEW y \in kept PROVE ~(c < y /\ y < x)
    OBVIOUS
  <2>1. PICK j \in 1 .. Len(steps) : steps[j].kind = "keep" /\ y = steps[j].index
    BY DEF Kept
  <2>2. y \in Nat
    BY <1>1, <2>1
  <2>3. j < i \/ j = i \/ j > i
    BY <1>2
  <2> HIDE DEF x
  <2>4. CASE j < i
    BY <1>3, <1>4, <2>1, <2>2, <2>4
  <2>5. CASE j > i
    BY <1>3, <1>4, <2>1, <2>2, <2>5
  <2>6. CASE j = i
    BY <1>3, <2>1, <2>6 DEF x
  <2> QED
    BY <2>3, <2>4, <2>5, <2>6
<1>6. r[n - c] = r[n - x + 1]
  <2> HIDE DEF x, kept, n
  <2>1. x <= Len(current) + 1
    BY <1>3 DEF n
  <2>2. RestOf(K, current, kept, r)
    BY DEF kept
  <2>3. r[Len(current) - c] = r[Len(current) - x + 1]
    BY <1>1, <1>3, <1>5, <2>1, <2>2, RestSkips
  <2> QED
    BY <2>3 DEF n
<1>7. r[n - x + 1] = <<current[x]>> \o r[n - x]
  <2>1. x \in kept
    BY DEF Kept
  <2>2. n - x + 1 \in 1 .. n /\ n - (n - x + 1) + 1 = x /\ (n - x + 1) - 1 = n - x
    <3>1. x \in 1 .. n
      BY <1>1
    <3> HIDE DEF x, n
    <3> QED
      BY <1>2, <3>1
  <2> HIDE DEF x, kept
  <2> DEFINE k == n - x + 1
  <2>3. r[k] = IF n - k + 1 \in kept THEN <<current[n - k + 1]>> \o r[k - 1] ELSE r[k - 1]
    <3>1. k \in 1 .. Len(current)
      BY <2>2
    <3> HIDE DEF k
    <3> QED
      BY <3>1 DEF RestOf, kept
  <2> QED
    BY <2>1, <2>2, <2>3
<1>8. SteppedTo(steps, i, x)
  <2> SUFFICES ASSUME NEW j \in 1 .. Len(steps), steps[j].kind = "keep"
               PROVE  (j <= i => steps[j].index <= x) /\ (j > i => x < steps[j].index)
    BY DEF SteppedTo
  <2>1. j <= i => j < i \/ j = i
    BY <1>2
  <2>2. steps[j].index \in Nat
    BY <1>1, <2>1
  <2> QED
    BY <1>2, <1>3, <1>4, <2>1, <2>2
<1> QED
  BY <1>6, <1>7, <1>8

LEMMA SpliceGoesOn ==
    ASSUME NEW K, NEW theirs, NEW current, NEW steps, Plans(K, theirs, current, steps),
           NEW r, RestOf(K, current, Kept(steps), r),
           NEW i \in 1 .. Len(steps), NEW prev, SpliceFits(theirs, current, steps, r, i - 1, prev)
    PROVE  SpliceFits(theirs, current, steps, r, i, SpliceStep(theirs, steps, i, prev))
<1> DEFINE n == Len(current)
           x == steps[i].index
           said == Said(theirs, current, steps)
           first == SubSeq(said, 1, i - 1)
           next == SpliceStep(theirs, steps, i, prev)
<1>1. /\ current \in Seq(K) /\ said \in Seq(K) /\ Len(said) = Len(steps) /\ said[i] \in K
      /\ steps[i].kind \in {"keep", "insert"}
      /\ steps[i].kind = "keep" => x \in 1 .. Len(current) /\ said[i] = current[x]
      /\ steps[i].kind = "insert" => said[i] = theirs[x]
  BY PlanFacts
<1>2. n \in Nat /\ Len(steps) \in Nat /\ i \in Nat /\ i >= 1
  BY <1>1
<1>3. PICK c \in 0 .. n : prev = first \o r[n - c] /\ SteppedTo(steps, i - 1, c)
  BY DEF SpliceFits
<1>4. /\ SubSeq(said, 1, i) = first \o <<said[i]>> /\ first \in Seq(K) /\ Len(first) = i - 1
  <2>1. i \in 1 .. Len(said)
    BY <1>1
  <2> HIDE DEF said
  <2> QED
    BY <1>1, <2>1, FirstOf
<1>5. \A d \in 0 .. n : r[n - d] \in Seq(K)
  <2> SUFFICES ASSUME NEW d \in 0 .. n PROVE r[n - d] \in Seq(K)
    OBVIOUS
  <2>1. n - d \in 0 .. n
    BY <1>2
  <2> QED
    BY <2>1 DEF RestOf
<1>6. CASE steps[i].kind = "keep"
  <2>1. r[n - c] = <<current[x]>> \o r[n - x] /\ SteppedTo(steps, i, x)
    BY <1>3, <1>6, KeptIsNext
  <2>2. next = prev /\ x \in 0 .. n /\ said[i] = current[x]
    BY <1>1, <1>6 DEF SpliceStep
  <2> DEFINE e == <<said[i]>>
             rest == r[n - x]
  <2>3. e \in Seq(K)
    BY <1>1, OneElement
  <2>4. rest \in Seq(K)
    BY <1>5, <2>2
  <2>5. next = first \o (e \o rest) /\ SubSeq(said, 1, i) = first \o e
    BY <1>3, <1>4, <2>1, <2>2
  <2> HIDE DEF e, rest, first, said, next, x
  <2>6. Associates(first, e, rest)
    BY <1>4, <2>3, <2>4, JoinedInThree
  <2>7. next = SubSeq(said, 1, i) \o rest
    BY <2>5, <2>6 DEF Associates
  <2> QED
    BY <2>1, <2>2, <2>7 DEF SpliceFits, rest, said, next
<1>7. CASE steps[i].kind = "insert"
  <2> DEFINE rest == r[n - c]
  <2>1. next = InsertAt(first \o rest, i, said[i])
    BY <1>1, <1>3, <1>7 DEF SpliceStep
  <2>2. rest \in Seq(K)
    BY <1>5
  <2>3. SteppedTo(steps, i, c)
    <3> SUFFICES ASSUME NEW j \in 1 .. Len(steps), steps[j].kind = "keep"
                 PROVE  (j <= i => steps[j].index <= c) /\ (j > i => c < steps[j].index)
      BY DEF SteppedTo
    <3>1. j # i
      BY <1>7
    <3>2. (j <= i => j <= i - 1) /\ (j > i => j > i - 1)
      BY <1>2, <3>1
    <3> QED
      BY <1>3, <3>2 DEF SteppedTo
  <2> DEFINE k == said[i]
  <2>4. k \in K
    BY <1>1
  <2> HIDE DEF rest, first, said, next, k
  <2>5. InsertAt(first \o rest, i, k) = (first \o <<k>>) \o rest
    BY <1>2, <1>4, <2>2, <2>4, InsertedBetween
  <2>6. next = SubSeq(said, 1, i) \o rest
    BY <1>4, <2>1, <2>5 DEF k
  <2> QED
    BY <2>3, <2>6 DEF SpliceFits, rest, said, next
<1> QED
  BY <1>1, <1>6, <1>7

\* Before the first step nothing has been said and everything kept is still ahead.
LEMMA SpliceStarts ==
    ASSUME NEW K, NEW theirs, NEW current, NEW steps, Plans(K, theirs, current, steps),
           NEW r, RestOf(K, current, Kept(steps), r)
    PROVE  SpliceFits(theirs, current, steps, r, 0, r[Len(current)])
<1>1. /\ current \in Seq(K) /\ steps \in Seq(Steps)
      /\ \A x \in 1 .. Len(steps) : steps[x].kind = "keep" => steps[x].index \in 1 .. Len(current)
  BY PlanFacts
<1>2. Len(current) \in Nat /\ Len(current) - 0 = Len(current) /\ 0 \in 0 .. Len(current)
  BY <1>1
<1>3. SubSeq(Said(theirs, current, steps), 1, 0) = <<>>
  BY NoneOf
<1>4. r[Len(current)] \in Seq(K)
  <2>1. Len(current) \in 0 .. Len(current)
    BY <1>2
  <2> QED
    BY <2>1 DEF RestOf
<1>5. <<>> \o r[Len(current)] = r[Len(current)]
  BY <1>4, ConcatEmptySeq
<1>6. SteppedTo(steps, 0, 0)
  BY <1>1, <1>2 DEF SteppedTo
<1> QED
  BY <1>2, <1>3, <1>5, <1>6 DEF SpliceFits

\* After the last step nothing is ahead.
LEMMA SpliceEnds ==
    ASSUME NEW K, NEW theirs, NEW current, NEW steps, Plans(K, theirs, current, steps),
           NEW r, RestOf(K, current, Kept(steps), r),
           NEW s, SpliceFits(theirs, current, steps, r, Len(steps), s)
    PROVE  s = Said(theirs, current, steps)
<1> DEFINE n == Len(current)
           said == Said(theirs, current, steps)
<1>1. current \in Seq(K) /\ steps \in Seq(Steps) /\ said \in Seq(K) /\ Len(said) = Len(steps)
  BY PlanFacts
<1>2. n \in Nat /\ Len(steps) \in Nat
  BY <1>1
<1>3. PICK c \in 0 .. n : s = SubSeq(said, 1, Len(steps)) \o r[n - c] /\ SteppedTo(steps, Len(steps), c)
  BY DEF SpliceFits
<1>4. SubSeq(said, 1, Len(steps)) = said
  <2>1. SubSeq(said, 1, Len(said)) = said
    <3> HIDE DEF said
    <3> QED
      BY <1>1, SubSeqFull
  <2> QED
    BY <1>1, <2>1
<1>5. \A y \in Kept(steps) : y <= c
  BY <1>2, <1>3 DEF SteppedTo, Kept
<1>6. r[n - c] = <<>>
  <2> DEFINE x == n + 1
  <2>1. x \in Nat /\ c \in Nat /\ c < x /\ x <= Len(current) + 1 /\ n - x + 1 = 0
    BY <1>2
  <2>2. \A y \in Kept(steps) : ~(c < y /\ y < x)
    <3> SUFFICES ASSUME NEW y \in Kept(steps) PROVE ~(c < y)
      OBVIOUS
    <3>1. y <= c /\ y \in Nat
      <4>1. PICK j \in 1 .. Len(steps) : y = steps[j].index
        BY DEF Kept
      <4> QED
        BY <1>1, <1>5, <4>1, ElementsOf, StepFacts
    <3> QED
      BY <2>1, <3>1
  <2> HIDE DEF x
  <2>3. r[Len(current) - c] = r[Len(current) - x + 1]
    BY <1>1, <2>1, <2>2, RestSkips
  <2>4. r[0] = <<>>
    BY DEF RestOf
  <2> QED
    BY <2>1, <2>3, <2>4
<1> HIDE DEF said
<1>7. said \o <<>> = said
  BY <1>1, ConcatEmptySeq
<1> QED
  BY <1>3, <1>4, <1>6, <1>7 DEF said

LEMMA SplicedIsASeq ==
    ASSUME NEW K, NEW theirs, NEW current, NEW steps, Plans(K, theirs, current, steps),
           NEW r, RestOf(K, current, Kept(steps), r),
           NEW i \in 0 .. Len(steps), NEW s, SpliceFits(theirs, current, steps, r, i, s)
    PROVE  s \in Seq(K)
<1> DEFINE n == Len(current)
           said == Said(theirs, current, steps)
           first == SubSeq(said, 1, i)
<1>1. current \in Seq(K) /\ steps \in Seq(Steps) /\ said \in Seq(K) /\ Len(said) = Len(steps)
  BY PlanFacts
<1>2. n \in Nat /\ Len(steps) \in Nat
  BY <1>1
<1>3. PICK c \in 0 .. n : s = first \o r[n - c]
  BY DEF SpliceFits
<1>4. first \in Seq(K)
  <2>1. CASE i = 0
    BY <2>1, NoneOf, NoElements
  <2>2. CASE i # 0
    <3>1. i \in 1 .. Len(said)
      BY <1>1, <1>2, <2>2
    <3> HIDE DEF said
    <3> QED
      BY <1>1, <3>1, FirstOf
  <2> QED
    BY <2>1, <2>2
<1>5. r[n - c] \in Seq(K)
  <2>1. n - c \in 0 .. n
    BY <1>2
  <2> QED
    BY <2>1 DEF RestOf
<1> DEFINE rest == r[n - c]
<1> HIDE DEF first, rest
<1>6. first \o rest \in Seq(K)
  BY <1>4, <1>5, JoinedElements DEF rest
<1> QED
  BY <1>3, <1>6 DEF rest

\* The splice writes what the plan says.
LEMMA SpliceSays ==
    ASSUME NEW K, NEW base \in Seq(K), NEW theirs \in Seq(K), NEW current \in Seq(K)
    PROVE  MergeSourceIntoYFragment(base, theirs, current) =
              NeverEmpty(Said(theirs, current, PlanBlockMerge(base, theirs, current)))
<1> DEFINE steps == PlanBlockMerge(base, theirs, current)
           n == Len(steps)
<1>1. Plans(K, theirs, current, steps)
  BY PlanIsInOrder DEF Plans
<1>2. PICK r : RestOf(K, current, Kept(steps), r)
  BY RestExists DEF HasRest
<1>3. n \in Nat
  <2>1. steps \in Seq(Steps)
    BY <1>1, PlanFacts
  <2> QED
    BY <2>1
<1> DEFINE start == WithoutUnkept(current, steps)
           Step(i, prev) == SpliceStep(theirs, steps, i, prev)
           Fits(i, s) == SpliceFits(theirs, current, steps, r, i, s)
           V == Seq(K)
           G == [z \in (1 .. n) \X V |-> IF Step(z[1], z[2]) \in V THEN Step(z[1], z[2]) ELSE <<>>]
           H(g) == [i \in 0 .. n |-> IF i = 0 THEN start ELSE Step(i, g[i - 1])]
           fragment == CHOOSE g : g = H(g)
<1>4. MergeSourceIntoYFragment(base, theirs, current) = NeverEmpty(fragment[n])
  BY Zenon DEF MergeSourceIntoYFragment, Spliced, SpliceStep, InsertPosition
<1>5. Fits(0, start)
  <2>1. start = r[Len(current)]
    BY <1>2, DeletesUnkept
  <2> HIDE DEF steps
  <2> QED
    BY <1>1, <1>2, <2>1, SpliceStarts
<1>6. ASSUME NEW i \in 1 .. n, NEW s, Fits(i - 1, s) PROVE Fits(i, Step(i, s))
  <2> HIDE DEF steps
  <2> QED
    BY <1>1, <1>2, <1>6, SpliceGoesOn
<1>7. ASSUME NEW i \in 0 .. n, NEW s, Fits(i, s) PROVE s \in V
  <2> HIDE DEF steps
  <2> QED
    BY <1>1, <1>2, <1>7, SplicedIsASeq
<1>8. ASSUME NEW s, Fits(n, s) PROVE s = Said(theirs, current, steps)
  <2> HIDE DEF steps
  <2> QED
    BY <1>1, <1>2, <1>8, SpliceEnds
<1> HIDE DEF steps, n, start, Step, Fits
<1>9. start \in V /\ <<>> \in V
  <2>1. 0 \in 0 .. n
    BY <1>3
  <2> HIDE DEF V
  <2>2. start \in V
    BY <1>5, <1>7, <2>1
  <2> QED
    BY <2>2, NoElements DEF V
<1>10. Iterates(n, V, start, G)
  <2>1. G \in [(1 .. n) \X V -> V]
    <3> HIDE DEF V
    <3> QED
      BY <1>9
  <2> HIDE DEF V, G
  <2> QED
    BY <1>3, <1>9, <2>1, RecursionTo
<1>11. PICK f \in [0 .. n -> V] : f[0] = start /\ \A i \in 1 .. n : f[i] = G[<<i, f[i - 1]>>]
  BY <1>10 DEF Iterates
<1>12. ASSUME NEW i \in 1 .. n, Fits(i - 1, f[i - 1])
       PROVE  f[i] = Step(i, f[i - 1]) /\ Fits(i, f[i])
  <2>1. i - 1 \in 0 .. n /\ i \in 0 .. n
    BY <1>3
  <2> HIDE DEF V
  <2>2. f[i - 1] \in V
    BY <2>1
  <2>3. Fits(i, Step(i, f[i - 1]))
    BY <1>6, <1>12
  <2>4. Step(i, f[i - 1]) \in V
    BY <1>7, <2>1, <2>3
  <2>5. G[<<i, f[i - 1]>>] = Step(i, f[i - 1])
    BY <2>2, <2>4
  <2> HIDE DEF G
  <2> QED
    BY <1>11, <2>3, <2>5
<1>13. \A i \in 0 .. n : Fits(i, f[i])
  <2> DEFINE T == {i \in 0 .. n : Fits(i, f[i])}
  <2>1. 0 \in T
    BY <1>3, <1>5, <1>11
  <2>2. ASSUME NEW i \in 1 .. n, i - 1 \in T PROVE i \in T
    <3>1. i \in 0 .. n
      BY <1>3
    <3>2. Fits(i - 1, f[i - 1])
      BY <2>2
    <3> QED
      BY <1>12, <3>1, <3>2
  <2>3. \A i \in 0 .. n : i \in T
    <3> HIDE DEF T
    <3> QED
      BY <1>3, <2>1, <2>2, InductionTo
  <2> QED
    BY <2>3
<1>14. \E g : g = H(g)
  <2>1. \A i \in 1 .. n : f[i] = Step(i, f[i - 1])
    <3> SUFFICES ASSUME NEW i \in 1 .. n PROVE f[i] = Step(i, f[i - 1])
      OBVIOUS
    <3>1. i - 1 \in 0 .. n
      BY <1>3
    <3> QED
      BY <1>12, <1>13, <3>1
  <2>2. f = H(f)
    <3>1. \A i \in 0 .. n : i = 0 \/ i \in 1 .. n
      BY <1>3
    <3> HIDE DEF G, V
    <3> QED
      BY <1>11, <2>1, <3>1
  <2> QED
    BY <2>2
<1>15. fragment = H(fragment)
  <2> HIDE DEF H
  <2> QED
    BY <1>14, Zenon
<1> DEFINE T == {i \in 0 .. n : Fits(i, fragment[i])}
<1>16. \A i \in 0 .. n : i \in T
  <2>1. \A i \in 0 .. n : fragment[i] = IF i = 0 THEN start ELSE Step(i, fragment[i - 1])
    <3> HIDE DEF fragment
    <3> QED
      BY <1>15
  <2> HIDE DEF fragment
  <2>2. 0 \in T
    BY <1>3, <1>5, <2>1
  <2>3. ASSUME NEW i \in 1 .. n, i - 1 \in T PROVE i \in T
    <3>1. i \in 0 .. n /\ i # 0 /\ Fits(i - 1, fragment[i - 1])
      BY <1>3, <2>3
    <3>2. fragment[i] = Step(i, fragment[i - 1])
      BY <2>1, <3>1
    <3>3. Fits(i, Step(i, fragment[i - 1]))
      BY <1>6, <3>1
    <3> QED
      BY <3>1, <3>2, <3>3
  <2> HIDE DEF T
  <2> QED
    BY <1>3, <2>2, <2>3, InductionTo
<1>17. Fits(n, fragment[n])
  <2>1. n \in 0 .. n
    BY <1>3
  <2>2. n \in T
    <3> HIDE DEF T
    <3> QED
      BY <1>16, <2>1
  <2> QED
    BY <2>2
<1>18. fragment[n] = Said(theirs, current, steps)
  <2> HIDE DEF fragment
  <2> QED
    BY <1>8, <1>17
<1> QED
  BY <1>4, <1>18, Zenon DEF steps

\* So the merge of documents is a document.
LEMMA MergeIsADocument ==
    ASSUME NEW K, Blank \in K, NEW base \in Seq(K), NEW theirs \in Seq(K), NEW current \in Seq(K)
    PROVE  /\ MergeSourceIntoYFragment(base, theirs, current) \in Seq(K)
           /\ MergeSourceIntoYFragment(base, theirs, current) # <<>>
<1> DEFINE steps == PlanBlockMerge(base, theirs, current)
           said == Said(theirs, current, steps)
<1>1. said \in Seq(K)
  <2>1. Plans(K, theirs, current, steps)
    BY PlanIsInOrder DEF Plans
  <2> HIDE DEF steps
  <2> QED
    BY <2>1, PlanFacts
<1>2. MergeSourceIntoYFragment(base, theirs, current) = NeverEmpty(said)
  BY SpliceSays
<1> HIDE DEF said
<1>3. <<Blank>> \in Seq(K) /\ <<Blank>> # <<>>
  OBVIOUS
<1> QED
  BY <1>1, <1>2, <1>3 DEF NeverEmpty

-----------------------------------------------------------------------------
(***************************************************************************)
(* One step of the plan, and its end, with all that is known there.        *)
(***************************************************************************)

\* The plan next goes on from prev, over a region, up to and with the anchor to.
Extends(base, theirs, current, prev, next, to) ==
    /\ AtAnchor(base, theirs, current, prev.from)
    /\ Within(prev.steps, 0, 0, prev.from[2], prev.from[3])
    /\ OpenGap(base, theirs, current, prev.from, to)
    /\ AtAnchor(base, theirs, current, to)
    /\ to[1] \in 1 .. Len(base) /\ to[2] \in 1 .. Len(theirs) /\ to[3] \in 1 .. Len(current)
    /\ IsAligned(LcsPairs(base, theirs), to[1]) /\ to[2] = Partner(LcsPairs(base, theirs), to[1])
    /\ IsAligned(LcsPairs(base, current), to[1]) /\ to[3] = Partner(LcsPairs(base, current), to[1])
    /\ next.from = to
    /\ next.steps = prev.steps \o Gap(base, theirs, current, prev.from, to) \o <<Keep(to[3])>>

LEMMA PlanGoesOn ==
    ASSUME NEW K, NEW base \in Seq(K), NEW theirs \in Seq(K), NEW current \in Seq(K),
           NEW plan, plan = PlanTo(base, theirs, current), NEW b \in 1 .. Len(base)
    PROVE  /\ plan[0] = StartPlan
           /\ \/ plan[b] = plan[b - 1] /\ ~IsAnchor(base, theirs, current, b, plan[b - 1].from)
              \/ \E to : to[1] = b /\ Extends(base, theirs, current, plan[b - 1], plan[b], to)
<1> DEFINE n == Len(base)
           prev == plan[b - 1]
           from == prev.from
           to == AnchorOf(base, theirs, current, b)
           next == prev.steps \o Gap(base, theirs, current, from, to) \o <<Keep(to[3])>>
<1>1. n \in Nat /\ b \in Nat /\ b \in 0 .. n /\ b - 1 \in 0 .. n
  OBVIOUS
<1>2. /\ plan[0] = StartPlan /\ plan[b] = PlanStep(base, theirs, current, b, prev)
      /\ PlanFits(base, theirs, current, b - 1, prev)
  BY <1>1, PlanRecursion DEF PlanGrows
<1>3. CASE IsAnchor(base, theirs, current, b, from)
  <2>1. /\ AtAnchor(base, theirs, current, from) /\ from[1] <= b - 1 /\ from[1] \in Nat
        /\ Within(prev.steps, 0, 0, from[2], from[3])
    BY <1>2 DEF PlanFits, AtAnchor
  <2>2. from[1] < b
    BY <1>1, <2>1
  <2>3. /\ OpenGap(base, theirs, current, from, to) /\ AtAnchor(base, theirs, current, to)
        /\ to[1] = b /\ to[2] \in 1 .. Len(theirs) /\ to[3] \in 1 .. Len(current)
    <3> HIDE DEF prev
    <3> QED
      BY <1>1, <1>3, <2>1, <2>2, AnchorOpens
  <2>4. plan[b].from = to /\ plan[b].steps = next
    <3>1. plan[b] = [from |-> to, steps |-> next]
      BY <1>2, <1>3, Zenon DEF PlanStep
    <3> HIDE DEF to, next
    <3> QED
      BY <3>1
  <2>5. /\ IsAligned(LcsPairs(base, theirs), b) /\ to[2] = Partner(LcsPairs(base, theirs), b)
        /\ IsAligned(LcsPairs(base, current), b) /\ to[3] = Partner(LcsPairs(base, current), b)
    BY <1>3 DEF IsAnchor, AnchorOf
  <2> HIDE DEF to
  <2>6. Extends(base, theirs, current, prev, plan[b], to)
    BY <2>1, <2>3, <2>4, <2>5 DEF Extends
  <2> QED
    BY <1>2, <2>3, <2>6
<1>4. CASE ~IsAnchor(base, theirs, current, b, from)
  <2>1. plan[b] = prev
    BY <1>2, <1>4 DEF PlanStep
  <2> QED
    BY <1>2, <1>4, <2>1
<1> QED
  BY <1>3, <1>4

\* The whole plan: the last part, and the region up to the ends of the documents.
Completes(base, theirs, current, last, steps) ==
    /\ AtAnchor(base, theirs, current, last.from)
    /\ Within(last.steps, 0, 0, last.from[2], last.from[3])
    /\ OpenGap(base, theirs, current, last.from, EndOf(base, theirs, current))
    /\ steps = last.steps \o Gap(base, theirs, current, last.from, EndOf(base, theirs, current))

LEMMA PlanStops ==
    ASSUME NEW K, NEW base \in Seq(K), NEW theirs \in Seq(K), NEW current \in Seq(K),
           NEW plan, plan = PlanTo(base, theirs, current)
    PROVE  Completes(base, theirs, current, plan[Len(base)], PlanBlockMerge(base, theirs, current))
<1> DEFINE last == plan[Len(base)]
<1>1. Len(base) \in 0 .. Len(base)
  OBVIOUS
<1>2. PlanFits(base, theirs, current, Len(base), last)
  BY <1>1, PlanRecursion DEF PlanGrows
<1>3. PlanBlockMerge(base, theirs, current)
         = last.steps \o Gap(base, theirs, current, last.from, EndOf(base, theirs, current))
  BY Zenon DEF PlanBlockMerge, EndOf
<1> HIDE DEF last
<1>4. AtAnchor(base, theirs, current, last.from) /\ Within(last.steps, 0, 0, last.from[2], last.from[3])
  BY <1>2 DEF PlanFits
<1>5. OpenGap(base, theirs, current, last.from, EndOf(base, theirs, current))
  BY <1>4, PlanEnds
<1> QED
  BY <1>3, <1>4, <1>5 DEF Completes, last

\* A document is aligned with itself block by block.
LEMMA SelfAligned ==
    ASSUME NEW K, NEW s \in Seq(K), NEW b, IsAligned(LcsPairs(s, s), b)
    PROVE  Partner(LcsPairs(s, s), b) = b
<1> DEFINE j == Partner(LcsPairs(s, s), b)
           p == <<b, j>>
<1>1. b \in 1 .. Len(s) /\ j \in 1 .. Len(s) /\ p \in LcsPairs(s, s)
  <2>1. PartnerIs(s, s, b)
    BY PartnerFacts
  <2> QED
    BY <2>1, Zenon DEF PartnerIs
<1>2. Len(s) \in Nat /\ Pre(s, s) = Len(s)
  <2>1. Len(s) \in Nat /\ Pre(s, s) \in Nat /\ Pre(s, s) <= Len(s)
    BY PrefixFacts
  <2>2. Len(s) <= Pre(s, s)
    BY <2>1, PrefixFacts
  <2> QED
    BY <2>1, <2>2
<1>3. Suf(s, s) \in Nat /\ Pre(s, s) + Suf(s, s) <= Len(s)
  BY SuffixFacts
<1>4. Suf(s, s) = 0
  BY <1>2, <1>3
<1>5. p \in HeadPairs(s, s) \cup MiddlePairs(s, s) \cup TailPairs(s, s)
  BY <1>1, LcsParts
<1> HIDE DEF p
<1>6. p[1] \in 1 .. Len(s)
  BY <1>1 DEF p
<1>7. p \notin MiddlePairs(s, s)
  <2>1. p \in MiddlePairs(s, s) => p[1] > Pre(s, s)
    BY PartFacts
  <2> QED
    BY <1>2, <1>6, <2>1
<1>8. p \notin TailPairs(s, s)
  <2>1. p \in TailPairs(s, s) => p[1] > Len(s) - Suf(s, s)
    BY PartFacts
  <2> QED
    BY <1>2, <1>4, <1>6, <2>1
<1>9. p[1] = p[2]
  BY <1>5, <1>7, <1>8, PartFacts
<1> QED
  BY <1>9 DEF p

-----------------------------------------------------------------------------
(***************************************************************************)
(* Documents in which no block occurs twice, and whose common blocks come  *)
(* in the same order: lcsPairs pairs every block they have in common.      *)
(***************************************************************************)

Simple(s) == \A i, j \in 1 .. Len(s) : s[i] = s[j] => i = j

Matches(a, b) == {p \in Pairs(a, b) : a[p[1]] = b[p[2]]}

SameOrder(a, b) ==
    \A i, j \in 1 .. Len(a), k, l \in 1 .. Len(b) :
        a[i] = b[k] /\ a[j] = b[l] /\ i < j => k < l

LEMMA MatchesAlign ==
    ASSUME NEW K, NEW a \in Seq(K), NEW b \in Seq(K), Simple(a), Simple(b), SameOrder(a, b)
    PROVE  Alignment(Matches(a, b), a, b)
<1>1. \A p \in Matches(a, b) : a[p[1]] = b[p[2]]
  BY DEF Matches
<1>2. ASSUME NEW p \in Matches(a, b), NEW q \in Matches(a, b) PROVE p[1] < q[1] <=> p[2] < q[2]
  <2>1. /\ p \in Pairs(a, b) /\ q \in Pairs(a, b)
        /\ a[p[1]] = b[p[2]] /\ a[q[1]] = b[q[2]]
    BY DEF Matches
  <2>2. /\ p[1] \in 1 .. Len(a) /\ p[2] \in 1 .. Len(b) /\ q[1] \in 1 .. Len(a) /\ q[2] \in 1 .. Len(b)
    BY <2>1, PairFacts
  <2>3. PICK i \in 1 .. Len(a), j \in 1 .. Len(a), k \in 1 .. Len(b), l \in 1 .. Len(b) :
           i = p[1] /\ j = q[1] /\ k = p[2] /\ l = q[2]
    BY <2>2
  <2>4. i \in Nat /\ j \in Nat /\ k \in Nat /\ l \in Nat
    OBVIOUS
  <2>5. a[i] = b[k] /\ a[j] = b[l]
    BY <2>1, <2>3
  <2>6. i < j => k < l
    BY <2>5 DEF SameOrder
  <2>7. j < i => l < k
    BY <2>5 DEF SameOrder
  <2>8. i = j => k = l
    BY <2>5 DEF Simple
  <2>9. i < j <=> k < l
    BY <2>4, <2>6, <2>7, <2>8
  <2> QED
    BY <2>3, <2>9
<1> QED
  BY <1>1, <1>2 DEF Alignment

\* The walk over the table takes every match, being the longest; so does the scan of the
\* keys that occur once, when all of them do.
LEMMA DynamicTakesAll ==
    ASSUME NEW K, NEW a \in Seq(K), NEW b \in Seq(K), Alignment(Matches(a, b), a, b)
    PROVE  DynamicAlignment(a, b) = Matches(a, b)
<1> DEFINE D == DynamicAlignment(a, b)
           M == Matches(a, b)
<1>1. M \in SUBSET Pairs(a, b)
  BY DEF Matches
<1>2. D \in SUBSET Pairs(a, b) /\ Alignment(D, a, b) /\ Cardinality(M) <= Cardinality(D)
  BY <1>1, DynamicIsLongest
<1>3. D \subseteq M
  BY <1>2 DEF Alignment, Matches
<1>4. IsFiniteSet(M) /\ Cardinality(M) \in Nat /\ Cardinality(D) \in Nat
  BY <1>1, <1>2, PairsAreFinite
<1> HIDE DEF D, M
<1>5. D # M => Cardinality(D) < Cardinality(M)
  BY <1>3, <1>4, FS_Subset
<1>6. D = M
  BY <1>2, <1>4, <1>5
<1> QED
  BY <1>6 DEF D, M

LEMMA UniqueTakesAll ==
    ASSUME NEW K, NEW a \in Seq(K), NEW b \in Seq(K), Simple(a), Simple(b), Alignment(Matches(a, b), a, b)
    PROVE  UniqueAlignment(a, b) = Matches(a, b)
<1> DEFINE n == Len(a)
           taken == UniqueTaken(a, b)
           M == Matches(a, b)
           T == {i \in 0 .. n : taken[i] = {p \in M : p[1] <= i}}
<1>1. n \in Nat
  OBVIOUS
<1>2. OnceInBoth(a, b) = M
  BY DEF OnceInBoth, Matches, Pairs, Simple
<1>3. /\ taken[0] = {}
      /\ \A i \in 1 .. n :
            taken[i] = taken[i - 1] \cup {p \in M : p[1] = i /\ \A q \in taken[i - 1] : q[2] < p[2]}
  BY <1>2, UniqueRecursion
<1>4. \A p \in M : p[1] \in 1 .. n /\ p[1] \in Nat
  <2>1. \A p \in M : p \in Pairs(a, b)
    BY DEF Matches
  <2> QED
    BY <2>1, PairFacts
<1>5. \A p, q \in M : p[1] < q[1] => p[2] < q[2]
  BY DEF Alignment
<1> HIDE DEF M, taken
<1>6. 0 \in T
  BY <1>1, <1>3, <1>4
<1>7. ASSUME NEW i \in 1 .. n, i - 1 \in T PROVE i \in T
  <2>1. taken[i - 1] = {p \in M : p[1] <= i - 1} /\ i \in Nat
    BY <1>1, <1>7
  <2>2. ASSUME NEW p \in M, p[1] = i, NEW q \in taken[i - 1] PROVE q[2] < p[2]
    <3>1. q \in M /\ q[1] <= i - 1
      BY <2>1
    <3>2. q[1] \in Nat
      BY <1>4, <3>1
    <3>3. q[1] < p[1]
      BY <2>1, <2>2, <3>1, <3>2
    <3> QED
      BY <1>5, <3>1, <3>3
  <2>3. taken[i] = taken[i - 1] \cup {p \in M : p[1] = i}
    BY <1>3, <2>2
  <2>4. \A p \in M : p[1] <= i <=> p[1] <= i - 1 \/ p[1] = i
    BY <1>4, <2>1
  <2>5. taken[i] = {p \in M : p[1] <= i}
    BY <2>1, <2>3, <2>4
  <2> QED
    BY <1>1, <2>5
<1>8. n \in T
  <2>1. \A i \in 0 .. n : i \in T
    <3> HIDE DEF T, n
    <3> QED
      BY <1>1, <1>6, <1>7, InductionTo
  <2>2. n \in 0 .. n
    BY <1>1
  <2> HIDE DEF T, n
  <2> QED
    BY <2>1, <2>2
<1>9. taken[n] = M
  <2>1. \A p \in M : p[1] <= n
    BY <1>1, <1>4
  <2> QED
    BY <1>8, <2>1
<1> QED
  BY <1>9 DEF UniqueAlignment, taken, M

MidIs(a, b) ==
    /\ Len(MidA(a, b)) = Len(a) - Suf(a, b) - Pre(a, b)
    /\ Len(MidB(a, b)) = Len(b) - Suf(a, b) - Pre(a, b)
    /\ \A i \in 1 .. Len(MidA(a, b)) : MidA(a, b)[i] = a[Pre(a, b) + i]
    /\ \A i \in 1 .. Len(MidB(a, b)) : MidB(a, b)[i] = b[Pre(a, b) + i]

LEMMA Middles ==
    ASSUME NEW K, NEW a \in Seq(K), NEW b \in Seq(K)
    PROVE  MidIs(a, b)
BY MiddleFacts DEF MidIs

\* A part of such a document is one, too.
LEMMA MiddleMatches ==
    ASSUME NEW K, NEW a \in Seq(K), NEW b \in Seq(K), Simple(a), Simple(b), Alignment(Matches(a, b), a, b)
    PROVE  Middle(a, b) = Matches(MidA(a, b), MidB(a, b))
<1> DEFINE c == MidA(a, b)
           d == MidB(a, b)
<1>1. /\ Pre(a, b) \in Nat /\ Suf(a, b) \in Nat /\ Len(a) \in Nat /\ Len(b) \in Nat
      /\ Pre(a, b) + Suf(a, b) <= Len(a) /\ Pre(a, b) + Suf(a, b) <= Len(b)
  BY PrefixFacts, SuffixFacts
<1> DEFINE k == Pre(a, b)
           m == Len(c)
           n == Len(d)
<1>2. /\ k \in Nat /\ m \in Nat /\ n \in Nat
      /\ k = Pre(a, b) /\ m = Len(c) /\ n = Len(d) /\ k + m <= Len(a) /\ k + n <= Len(b)
      /\ \A i \in 1 .. m : c[i] = a[k + i]
      /\ \A i \in 1 .. n : d[i] = b[k + i]
  <2> DEFINE s == Suf(a, b)
             x == Len(a)
             y == Len(b)
  <2>1. k \in Nat /\ s \in Nat /\ x \in Nat /\ y \in Nat /\ k + s <= x /\ k + s <= y
    BY <1>1
  <2>2. /\ m = x - s - k /\ n = y - s - k
        /\ \A i \in 1 .. m : c[i] = a[k + i]
        /\ \A i \in 1 .. n : d[i] = b[k + i]
    <3>1. MidIs(a, b)
      BY Middles
    <3> QED
      BY <3>1 DEF MidIs
  <2>3. m \in Nat /\ n \in Nat /\ k + m <= x /\ k + n <= y
    <3>1. m = x - s - k /\ n = y - s - k
      BY <2>2
    <3> HIDE DEF c, d, k, m, n, s, x, y
    <3> QED
      BY <2>1, <3>1
  <2> QED
    BY <2>1, <2>2, <2>3
<1>3. c \in Seq(K) /\ d \in Seq(K)
  BY MiddleFacts
<1> HIDE DEF c, d, k, m, n
<1>9. k \in Nat
  BY <1>2
<1>4. /\ \A i \in 1 .. m : k + i \in 1 .. Len(a)
      /\ \A i \in 1 .. n : k + i \in 1 .. Len(b)
  <2>1. ASSUME NEW x \in Nat, NEW y \in Nat, k + x <= y PROVE \A i \in 1 .. x : k + i \in 1 .. y
    BY <1>9, <2>1
  <2> QED
    BY <1>1, <1>2, <2>1
<1>5. Simple(c)
  <2> SUFFICES ASSUME NEW i \in 1 .. m, NEW j \in 1 .. m, c[i] = c[j] PROVE i = j
    BY <1>2 DEF Simple
  <2>1. a[k + i] = a[k + j]
    BY <1>2
  <2>2. k + i = k + j
    BY <1>4, <2>1 DEF Simple
  <2>3. i \in Int /\ j \in Int
    OBVIOUS
  <2> QED
    BY <1>9, <2>2, <2>3
<1>6. Simple(d)
  <2> SUFFICES ASSUME NEW i \in 1 .. n, NEW j \in 1 .. n, d[i] = d[j] PROVE i = j
    BY <1>2 DEF Simple
  <2>1. b[k + i] = b[k + j]
    BY <1>2
  <2>2. k + i = k + j
    BY <1>4, <2>1 DEF Simple
  <2>3. i \in Int /\ j \in Int
    OBVIOUS
  <2> QED
    BY <1>9, <2>2, <2>3
<1>7. Alignment(Matches(c, d), c, d)
  <2>1. ASSUME NEW p \in Matches(c, d)
        PROVE  /\ p[1] \in 1 .. m /\ p[2] \in 1 .. n /\ c[p[1]] = d[p[2]]
               /\ <<k + p[1], k + p[2]>> \in Matches(a, b)
    <3>1. p \in Pairs(c, d) /\ c[p[1]] = d[p[2]]
      BY DEF Matches
    <3>2. p[1] \in 1 .. m /\ p[2] \in 1 .. n
      BY <1>2, <1>3, <3>1, PairFacts
    <3>3. a[k + p[1]] = b[k + p[2]]
      BY <1>2, <3>1, <3>2
    <3>4. k + p[1] \in 1 .. Len(a) /\ k + p[2] \in 1 .. Len(b)
      BY <1>4, <3>2
    <3> QED
      BY <3>1, <3>2, <3>3, <3>4 DEF Matches, Pairs
  <2>2. ASSUME NEW p \in Matches(c, d), NEW q \in Matches(c, d) PROVE p[1] < q[1] <=> p[2] < q[2]
    <3>1. p[1] \in Nat /\ p[2] \in Nat /\ q[1] \in Nat /\ q[2] \in Nat
      <4>1. \A x \in 1 .. m : x \in Nat
        OBVIOUS
      <4>2. \A x \in 1 .. n : x \in Nat
        OBVIOUS
      <4> QED
        BY <2>1, <4>1, <4>2
    <3>2. PICK e \in Nat, f \in Nat, g \in Nat, h \in Nat : e = p[1] /\ f = p[2] /\ g = q[1] /\ h = q[2]
      BY <3>1
    <3>3. <<k + e, k + f>> \in Matches(a, b) /\ <<k + g, k + h>> \in Matches(a, b)
      BY <2>1, <3>2
    <3>4. \A x, y \in Matches(a, b) : x[1] < y[1] <=> x[2] < y[2]
      BY DEF Alignment
    <3>5. \A x, y, z, w : <<x, y>> \in Matches(a, b) /\ <<z, w>> \in Matches(a, b) => (x < z <=> y < w)
      BY <3>4
    <3>6. k + e < k + g <=> k + f < k + h
      BY <3>3, <3>5
    <3>7. e < g <=> f < h
      BY <1>9, <3>6
    <3> QED
      BY <3>2, <3>7
  <2> QED
    BY <2>1, <2>2 DEF Alignment
<1>8. DynamicAlignment(c, d) = Matches(c, d) /\ UniqueAlignment(c, d) = Matches(c, d)
  BY <1>3, <1>5, <1>6, <1>7, DynamicTakesAll, UniqueTakesAll
<1> QED
  BY <1>8, Zenon DEF Middle, c, d

LEMMA LcsTakesAll ==
    ASSUME NEW K, NEW a \in Seq(K), NEW b \in Seq(K), Simple(a), Simple(b), SameOrder(a, b)
    PROVE  LcsPairs(a, b) = Matches(a, b)
<1>1. LcsPairs(a, b) \subseteq Matches(a, b)
  <2>1. LcsPairs(a, b) \in SUBSET Pairs(a, b) /\ Alignment(LcsPairs(a, b), a, b)
    BY LcsAligns
  <2> QED
    BY <2>1 DEF Alignment, Matches
<1>2. ASSUME NEW p \in Matches(a, b) PROVE p \in LcsPairs(a, b)
  <2>1. p \in Pairs(a, b) /\ a[p[1]] = b[p[2]]
    BY DEF Matches
  <2>2. PICK i \in 1 .. Len(a), j \in 1 .. Len(b) : p = <<i, j>> /\ a[i] = b[j]
    BY <2>1, PairFacts
  <2>3. /\ Pre(a, b) \in Nat /\ Suf(a, b) \in Nat /\ Len(a) \in Nat /\ Len(b) \in Nat
        /\ Pre(a, b) + Suf(a, b) <= Len(a) /\ Pre(a, b) + Suf(a, b) <= Len(b)
        /\ \A x \in 1 .. Pre(a, b) : a[x] = b[x]
        /\ \A x \in 0 .. Suf(a, b) - 1 : a[Len(a) - x] = b[Len(b) - x]
    <3>1. /\ Pre(a, b) \in Nat /\ Len(a) \in Nat /\ Len(b) \in Nat
          /\ \A x \in 1 .. Pre(a, b) : a[x] = b[x]
      BY PrefixFacts
    <3>2. /\ Suf(a, b) \in Nat /\ Pre(a, b) + Suf(a, b) <= Len(a) /\ Pre(a, b) + Suf(a, b) <= Len(b)
          /\ \A x \in 0 .. Suf(a, b) - 1 : a[Len(a) - x] = b[Len(b) - x]
      BY PrefixFacts, SuffixFacts
    <3> QED
      BY <3>1, <3>2
  <2>4. PICK k \in Nat, s \in Nat, l \in Nat, m \in Nat :
           /\ k = Pre(a, b) /\ s = Suf(a, b) /\ l = Len(a) /\ m = Len(b)
           /\ k + s <= l /\ k + s <= m
    BY <2>3
  <2>5. i \in 1 .. l /\ j \in 1 .. m /\ i \in Nat /\ j \in Nat
    BY <2>4
  <2>6. /\ \A x \in 1 .. l, y \in 1 .. l : a[x] = a[y] => x = y
        /\ \A x \in 1 .. m, y \in 1 .. m : b[x] = b[y] => x = y
    BY <2>4 DEF Simple
  <2>7. /\ \A x \in 1 .. k : a[x] = b[x]
        /\ \A x \in 0 .. s - 1 : a[l - x] = b[m - x]
    BY <2>3, <2>4
  <2>8. LcsPairs(a, b) = HeadPairs(a, b) \cup MiddlePairs(a, b) \cup TailPairs(a, b)
    BY LcsParts
  <2>9. CASE i <= k \/ j <= k
    <3>1. i = j /\ i \in 1 .. k
      <4>1. CASE i <= k
        <5>1. i \in 1 .. k /\ i \in 1 .. m
          BY <2>4, <2>5, <4>1
        <5>2. b[i] = b[j]
          BY <2>2, <2>7, <5>1
        <5> QED
          BY <2>5, <2>6, <5>1, <5>2
      <4>2. CASE j <= k
        <5>1. j \in 1 .. k /\ j \in 1 .. l
          BY <2>4, <2>5, <4>2
        <5>2. a[i] = a[j]
          BY <2>2, <2>7, <5>1
        <5> QED
          BY <2>5, <2>6, <5>1, <5>2
      <4> QED
        BY <2>9, <4>1, <4>2
    <3>2. p \in HeadPairs(a, b)
      BY <2>2, <2>4, <3>1 DEF HeadPairs
    <3> QED
      BY <2>8, <3>2
  <2>10. CASE i > l - s \/ j > m - s
    <3>1. \E x \in 0 .. s - 1 : i = l - x /\ j = m - x
      <4>1. CASE i > l - s
        <5> DEFINE x == l - i
        <5>1. x \in 0 .. s - 1 /\ i = l - x /\ m - x \in 1 .. m
          BY <2>4, <2>5, <4>1
        <5> HIDE DEF x
        <5>2. b[m - x] = b[j]
          BY <2>2, <2>7, <5>1
        <5>3. m - x = j
          BY <2>5, <2>6, <5>1, <5>2
        <5> QED
          BY <5>1, <5>3
      <4>2. CASE j > m - s
        <5> DEFINE x == m - j
        <5>1. x \in 0 .. s - 1 /\ j = m - x /\ l - x \in 1 .. l
          BY <2>4, <2>5, <4>2
        <5> HIDE DEF x
        <5>2. a[l - x] = a[i]
          BY <2>2, <2>7, <5>1
        <5>3. l - x = i
          BY <2>5, <2>6, <5>1, <5>2
        <5> QED
          BY <5>1, <5>3
      <4> QED
        BY <2>10, <4>1, <4>2
    <3>2. p \in TailPairs(a, b)
      BY <2>2, <2>4, <3>1 DEF TailPairs
    <3> QED
      BY <2>8, <3>2
  <2>11. CASE ~(i <= k \/ j <= k) /\ ~(i > l - s \/ j > m - s)
    <3> DEFINE q == <<i - k, j - k>>
    <3>1. /\ i - k \in 1 .. l - s - k /\ j - k \in 1 .. m - s - k
          /\ k + (i - k) = i /\ k + (j - k) = j /\ (i - k) + k = i /\ (j - k) + k = j
      <4>1. ASSUME NEW x \in Nat, NEW y \in Nat, ~(x <= k), ~(x > y - s)
            PROVE  x - k \in 1 .. y - s - k /\ k + (x - k) = x /\ (x - k) + k = x
        BY <4>1
      <4> QED
        BY <2>4, <2>5, <2>11, <4>1
    <3>0. /\ Len(MidA(a, b)) = l - s - k /\ Len(MidB(a, b)) = m - s - k
          /\ \A x \in 1 .. Len(MidA(a, b)) : MidA(a, b)[x] = a[k + x]
          /\ \A x \in 1 .. Len(MidB(a, b)) : MidB(a, b)[x] = b[k + x]
      <4>1. MidIs(a, b)
        BY Middles
      <4> QED
        BY <2>4, <4>1 DEF MidIs
    <3>2. i - k \in 1 .. Len(MidA(a, b)) /\ j - k \in 1 .. Len(MidB(a, b))
      BY <3>0, <3>1
    <3>3. MidA(a, b)[i - k] = a[k + (i - k)] /\ MidB(a, b)[j - k] = b[k + (j - k)]
      BY <3>0, <3>2
    <3>4. MidA(a, b)[i - k] = MidB(a, b)[j - k]
      BY <2>2, <3>1, <3>3
    <3>5. q \in Matches(MidA(a, b), MidB(a, b)) /\ q[1] = i - k /\ q[2] = j - k
      BY <3>2, <3>4 DEF Matches, Pairs
    <3>6. q \in Middle(a, b)
      BY <3>5, MatchesAlign, MiddleMatches
    <3>7. p = <<q[1] + Pre(a, b), q[2] + Pre(a, b)>>
      BY <2>2, <2>4, <3>1, <3>5
    <3> HIDE DEF q
    <3>8. p \in MiddlePairs(a, b)
      BY <3>6, <3>7 DEF MiddlePairs
    <3> QED
      BY <2>8, <3>8
  <2> QED
    BY <2>9, <2>10, <2>11
<1> QED
  BY <1>1, <1>2

\* No block occurs twice when there are as many blocks as there are places.
LEMMA SimpleIsCounted ==
    ASSUME NEW K, NEW s \in Seq(K)
    PROVE  Cardinality(ToSet(s)) = Len(s) <=> Simple(s)
<1> DEFINE S == 1 .. Len(s)
           T == ToSet(s)
<1>1. Len(s) \in Nat /\ s \in [S -> T] /\ \A t \in T : \E i \in S : s[i] = t
  BY ElementsOf
<1>2. IsFiniteSet(S) /\ Cardinality(S) = Len(s)
  <2>1. PICK n \in Nat : n = Len(s)
    BY <1>1
  <2>2. 1 \in Int /\ n \in Int
    OBVIOUS
  <2>3. IsFiniteSet(1 .. n) /\ Cardinality(1 .. n) = IF 1 > n THEN 0 ELSE n - 1 + 1
    BY <2>2, FS_Interval
  <2>4. Cardinality(1 .. n) = n
    BY <2>3
  <2> QED
    BY <2>1, <2>3, <2>4
<1>3. DOMAIN s = S
  BY <1>1
<1>4. Simple(s) <=> \A i, j \in S : s[i] = s[j] => i = j
  BY DEF Simple
<1> HIDE DEF S, T
<1>5. s \in Surjection(S, T)
  BY <1>1 DEF Surjection
<1>6. s \in Injection(S, T) <=> \A i, j \in S : s[i] = s[j] => i = j
  BY <1>1, <1>3, Zenon DEF Injection, IsInjective
<1>7. Cardinality(T) = Cardinality(S) <=> s \in Injection(S, T)
  BY <1>2, <1>5, FS_Surjection
<1> QED
  BY <1>2, <1>4, <1>6, <1>7 DEF T

\* Two documents in the same order, between two places where they meet (their start, a
\* block they share, their end): what they have in common there is common to the regions.
Meet(s, t, f, g) ==
    /\ f \in Nat /\ g \in Nat
    /\ \/ f = 0 /\ g = 0
       \/ f \in 1 .. Len(s) /\ g \in 1 .. Len(t) /\ s[f] = t[g]
       \/ f = Len(s) + 1 /\ g = Len(t) + 1

LEMMA RegionsMeet ==
    ASSUME NEW K, NEW s \in Seq(K), NEW t \in Seq(K), SameOrder(s, t),
           NEW f, NEW g, NEW u, NEW v, Meet(s, t, f, g), Meet(s, t, u, v),
           f < u, u <= Len(s) + 1, g < v, v <= Len(t) + 1,
           NEW i \in Nat, f < i, i < u
    PROVE  s[i] \in ToSet(t) <=> s[i] \in ToSet(Seg(t, g, v))
<1>1. Len(s) \in Nat /\ Len(t) \in Nat /\ f \in Nat /\ g \in Nat /\ u \in Nat /\ v \in Nat
  BY DEF Meet
<1>2. i \in 1 .. Len(s)
  BY <1>1
<1>3. ToSet(Seg(t, g, v)) = {t[k] : k \in g + 1 .. v - 1}
  <2>1. ASSUME NEW x \in Nat, NEW y \in Nat, x < y, y <= Len(t) + 1
        PROVE  ToSet(Seg(t, x, y)) = {t[k] : k \in x + 1 .. y - 1}
    BY <2>1, SegFacts
  <2> QED
    BY <1>1, <2>1
<1>4. ASSUME s[i] \in ToSet(t) PROVE s[i] \in ToSet(Seg(t, g, v))
  <2>1. PICK k \in 1 .. Len(t) : s[i] = t[k]
    BY <1>4, ElementsOf
  <2>2. g < k
    <3>1. CASE f = 0 /\ g = 0
      BY <1>1, <3>1
    <3>2. CASE f \in 1 .. Len(s) /\ g \in 1 .. Len(t) /\ s[f] = t[g]
      BY <1>2, <2>1, <3>2 DEF SameOrder
    <3>3. CASE f = Len(s) + 1 /\ g = Len(t) + 1
      BY <1>1, <3>3
    <3> QED
      BY <3>1, <3>2, <3>3 DEF Meet
  <2>3. k < v
    <3>1. CASE u = 0 /\ v = 0
      BY <1>1, <3>1
    <3>2. CASE u \in 1 .. Len(s) /\ v \in 1 .. Len(t) /\ s[u] = t[v]
      BY <1>2, <2>1, <3>2 DEF SameOrder
    <3>3. CASE u = Len(s) + 1 /\ v = Len(t) + 1
      BY <1>1, <2>1, <3>3
    <3> QED
      BY <3>1, <3>2, <3>3 DEF Meet
  <2>4. k \in g + 1 .. v - 1
    BY <1>1, <2>1, <2>2, <2>3
  <2> QED
    BY <1>3, <2>1, <2>4
<1>5. ASSUME s[i] \in ToSet(Seg(t, g, v)) PROVE s[i] \in ToSet(t)
  <2>1. PICK k \in g + 1 .. v - 1 : s[i] = t[k]
    BY <1>3, <1>5
  <2>2. k \in 1 .. Len(t)
    BY <1>1, <2>1
  <2> QED
    BY <2>1, <2>2, ElementsOf
<1> QED
  BY <1>4, <1>5

-----------------------------------------------------------------------------
(***************************************************************************)
(* A class of keys (say, the headings with one ID) that is once in base is *)
(* not lost: if theirs has one of the class, and the live document has one *)
(* or base has none, so has the merge.                                     *)
(***************************************************************************)

\* One of the class P is between the f-th block, exclusive, and the t-th.
Has(s, P, f, t) == \E i \in Nat : f < i /\ i <= t /\ s[i] \in P

OnceAtMost(s, P) == \A i, j \in 1 .. Len(s) : s[i] \in P /\ s[j] \in P => i = j

\* No step of a plan says one of the class.
SaysNone(theirs, current, steps, P) ==
    /\ \A i \in Nat : current[i] \in P => Keep(i) \notin ToSet(steps)
    /\ \A j \in Nat : theirs[j] \in P => Insert(j) \notin ToSet(steps)

\* What may have been passed over between two places of the three documents: what is in
\* base, and nothing that is in both others.
Excused(base, theirs, current, P, f, t) ==
    /\ Has(theirs, P, f[2], t[2]) => Has(base, P, f[1], t[1])
    /\ Has(current, P, f[3], t[3]) => Has(base, P, f[1], t[1])
    /\ ~(Has(theirs, P, f[2], t[2]) /\ Has(current, P, f[3], t[3]))

Before(t) == <<t[1] - 1, t[2] - 1, t[3] - 1>>

LEMMA InnerPlaces ==
    ASSUME NEW f \in Nat, NEW t \in Nat, f < t
    PROVE  /\ t - 1 \in Int /\ f <= t - 1
           /\ \A n \in Nat : t <= n + 1 => \A i \in f + 1 .. t - 1 : i \in 1 .. n
OBVIOUS

SegOf(s, f, t) == {s[i] : i \in f + 1 .. t - 1}

LEMMA SegElementsOf ==
    ASSUME NEW K, NEW s \in Seq(K), NEW f \in Nat, NEW t \in Nat, f < t, t <= Len(s) + 1
    PROVE  ToSet(Seg(s, f, t)) = SegOf(s, f, t)
BY SegFacts DEF SegOf

LEMMA HasInSeg ==
    ASSUME NEW K, NEW s \in Seq(K), NEW f \in Nat, NEW t \in Nat, f < t, t <= Len(s) + 1, NEW P,
           NEW e \in ToSet(Seg(s, f, t)), e \in P
    PROVE  Has(s, P, f, t - 1)
<1>1. ToSet(Seg(s, f, t)) = {s[i] : i \in f + 1 .. t - 1}
  BY SegElementsOf DEF SegOf
<1>2. PICK i \in f + 1 .. t - 1 : e = s[i]
  BY <1>1
<1>3. i \in Nat /\ f < i /\ i <= t - 1
  OBVIOUS
<1> QED
  BY <1>2, <1>3 DEF Has

\* In one region.
LEMMA RegionExcuses ==
    ASSUME NEW K, NEW base \in Seq(K), NEW theirs \in Seq(K), NEW current \in Seq(K),
           NEW from, NEW to, OpenGap(base, theirs, current, from, to),
           NEW P, OnceAtMost(base, P),
           SaysNone(theirs, current, Gap(base, theirs, current, from, to), P)
    PROVE  Excused(base, theirs, current, P, from, Before(to))
<1> DEFINE gap == Gap(base, theirs, current, from, to)
           B == Seg(base, from[1], to[1])
           T == Seg(theirs, from[2], to[2])
           C == Seg(current, from[3], to[3])
<1>1. PICK f1 \in Nat, f2 \in Nat, f3 \in Nat, t1 \in Nat, t2 \in Nat, t3 \in Nat :
         /\ f1 = from[1] /\ f2 = from[2] /\ f3 = from[3] /\ t1 = to[1] /\ t2 = to[2] /\ t3 = to[3]
         /\ f1 < t1 /\ f2 < t2 /\ f3 < t3
         /\ t1 <= Len(base) + 1 /\ t2 <= Len(theirs) + 1 /\ t3 <= Len(current) + 1
  BY DEF OpenGap
<1>2. /\ ToSet(B) = {base[i] : i \in f1 + 1 .. t1 - 1}
      /\ ToSet(T) = {theirs[i] : i \in f2 + 1 .. t2 - 1}
      /\ ToSet(C) = {current[i] : i \in f3 + 1 .. t3 - 1}
  <2>1. B = Seg(base, f1, t1) /\ T = Seg(theirs, f2, t2) /\ C = Seg(current, f3, t3)
    BY <1>1
  <2> HIDE DEF gap, B, T, C
  <2>2. ToSet(Seg(base, f1, t1)) = SegOf(base, f1, t1)
    BY <1>1, SegElementsOf
  <2>3. ToSet(Seg(theirs, f2, t2)) = SegOf(theirs, f2, t2)
    BY <1>1, SegElementsOf
  <2>4. ToSet(Seg(current, f3, t3)) = SegOf(current, f3, t3)
    BY <1>1, SegElementsOf
  <2> QED
    BY <2>1, <2>2, <2>3, <2>4 DEF SegOf
<1>3. \A e \in ToSet(B) : e \in P => Has(base, P, f1, t1 - 1)
  <2>1. B = Seg(base, f1, t1)
    BY <1>1
  <2> HIDE DEF B
  <2> QED
    BY <1>1, <2>1, HasInSeg
<1>4. \A i \in Nat : /\ Keep(i) \in ToSet(gap) <=> GapKeeps(base, theirs, current, from, to, i)
                     /\ Insert(i) \in ToSet(gap) <=> GapInserts(base, theirs, current, from, to, i)
  BY GapElements
<1>5. ASSUME NEW f \in Nat, NEW t \in Nat, NEW i \in Nat
      PROVE  f < i /\ i <= t - 1 <=> i \in f + 1 .. t - 1 /\ f < i /\ i < t
  OBVIOUS
\* A live block of the class: dropped, so theirs has changed and base has it.
<1>6. ASSUME NEW i \in f3 + 1 .. t3 - 1, current[i] \in P
      PROVE  /\ T \notin {B, C} /\ current[i] \in ToSet(B)
             /\ B = C \/ current[i] \notin ToSet(T)
  <2>1. i \in Nat /\ f3 < i /\ i < t3 /\ current[i] \in ToSet(C)
    BY <1>2
  <2>2. ~GapKeeps(base, theirs, current, from, to, i)
    BY <1>4, <1>6, <2>1 DEF SaysNone
  <2>3. T \notin {B, C} /\ (B = C \/ current[i] \in ToSet(B) \ ToSet(T))
    BY <1>1, <2>1, <2>2 DEF GapKeeps
  <2> HIDE DEF B, T, C
  <2> QED
    BY <2>1, <2>3
\* A block of the class in theirs: not inserted, so it is in base or live.
<1>7. ASSUME NEW j \in f2 + 1 .. t2 - 1, theirs[j] \in P
      PROVE  theirs[j] \in ToSet(T) /\ (T \in {B, C} \/ (B # C /\ theirs[j] \in ToSet(B) \cup ToSet(C)))
  <2>1. j \in Nat /\ f2 < j /\ j < t2 /\ theirs[j] \in ToSet(T)
    BY <1>2
  <2>2. ~GapInserts(base, theirs, current, from, to, j)
    BY <1>4, <1>7, <2>1 DEF SaysNone
  <2>3. T \in {B, C} \/ (B # C /\ theirs[j] \in ToSet(B) \cup ToSet(C))
    BY <1>1, <2>1, <2>2 DEF GapInserts
  <2> QED
    BY <2>1, <2>3
<1>8. \A e \in ToSet(C) : \E i \in f3 + 1 .. t3 - 1 : current[i] = e
  BY <1>2
<1>9. \A d \in ToSet(B), e \in ToSet(B) : d \in P /\ e \in P => d = e
  <2>1. \A i \in f1 + 1 .. t1 - 1 : i \in 1 .. Len(base)
    <3>1. Len(base) \in Nat
      OBVIOUS
    <3>2. \A n \in Nat : t1 <= n + 1 => \A i \in f1 + 1 .. t1 - 1 : i \in 1 .. n
      BY <1>1, InnerPlaces
    <3> HIDE DEF B
    <3> QED
      BY <1>1, <3>1, <3>2
  <2> HIDE DEF B
  <2> QED
    BY <1>2, <2>1 DEF OnceAtMost
<1> HIDE DEF B, T, C, gap
<1>10. ASSUME NEW j \in f2 + 1 .. t2 - 1, theirs[j] \in P
       PROVE  theirs[j] \in ToSet(B)
  <2>1. CASE theirs[j] \in ToSet(C)
    <3>1. PICK i \in f3 + 1 .. t3 - 1 : current[i] = theirs[j]
      BY <1>8, <2>1
    <3> QED
      BY <1>6, <1>10, <3>1
  <2>2. CASE theirs[j] \notin ToSet(C)
    BY <1>7, <1>10, <2>2
  <2> QED
    BY <2>1, <2>2
<1>11. ASSUME NEW i \in f3 + 1 .. t3 - 1, current[i] \in P, NEW j \in f2 + 1 .. t2 - 1, theirs[j] \in P
       PROVE  FALSE
  <2>1. T \notin {B, C} /\ current[i] \in ToSet(B) /\ (B = C \/ current[i] \notin ToSet(T))
    BY <1>6, <1>11
  <2>2. theirs[j] \in ToSet(T) /\ B # C /\ theirs[j] \in ToSet(B)
    BY <1>7, <1>10, <1>11, <2>1
  <2>3. theirs[j] = current[i]
    BY <1>9, <1>11, <2>1, <2>2
  <2> QED
    BY <2>1, <2>2, <2>3
<1>12. /\ Has(theirs, P, f2, t2 - 1) => \E j \in f2 + 1 .. t2 - 1 : theirs[j] \in P
       /\ Has(current, P, f3, t3 - 1) => \E i \in f3 + 1 .. t3 - 1 : current[i] \in P
  BY <1>5 DEF Has
<1>13. /\ Has(theirs, P, f2, t2 - 1) => Has(base, P, f1, t1 - 1)
       /\ Has(current, P, f3, t3 - 1) => Has(base, P, f1, t1 - 1)
       /\ ~(Has(theirs, P, f2, t2 - 1) /\ Has(current, P, f3, t3 - 1))
  BY <1>3, <1>6, <1>10, <1>11, <1>12
<1>14. Before(to)[1] = t1 - 1 /\ Before(to)[2] = t2 - 1 /\ Before(to)[3] = t3 - 1
  BY <1>1 DEF Before
<1> QED
  BY <1>1, <1>13, <1>14 DEF Excused

LEMMA HasSplits ==
    ASSUME NEW s, NEW P, NEW f \in Nat, NEW t \in Int, f <= t
    PROVE  Has(s, P, 0, t) <=> Has(s, P, 0, f) \/ Has(s, P, f, t)
<1>1. \A i \in Nat : 0 < i /\ i <= t <=> (0 < i /\ i <= f) \/ (f < i /\ i <= t)
  OBVIOUS
<1> QED
  BY <1>1 DEF Has

\* From region to region: base has the class in one of them only.
LEMMA ExcusesAdd ==
    ASSUME NEW K, NEW base \in Seq(K), NEW theirs \in Seq(K), NEW current \in Seq(K),
           NEW from, NEW to, OpenGap(base, theirs, current, from, to),
           NEW P, OnceAtMost(base, P),
           Excused(base, theirs, current, P, <<0, 0, 0>>, from),
           Excused(base, theirs, current, P, from, Before(to))
    PROVE  Excused(base, theirs, current, P, <<0, 0, 0>>, Before(to))
<1>1. PICK f1 \in Nat, f2 \in Nat, f3 \in Nat, t1 \in Nat, t2 \in Nat, t3 \in Nat :
         /\ f1 = from[1] /\ f2 = from[2] /\ f3 = from[3] /\ t1 = to[1] /\ t2 = to[2] /\ t3 = to[3]
         /\ f1 < t1 /\ f2 < t2 /\ f3 < t3 /\ t1 <= Len(base) + 1
  BY DEF OpenGap
<1>2. Before(to)[1] = t1 - 1 /\ Before(to)[2] = t2 - 1 /\ Before(to)[3] = t3 - 1
  BY <1>1 DEF Before
<1>3. /\ Has(base, P, 0, t1 - 1) <=> Has(base, P, 0, f1) \/ Has(base, P, f1, t1 - 1)
      /\ Has(theirs, P, 0, t2 - 1) <=> Has(theirs, P, 0, f2) \/ Has(theirs, P, f2, t2 - 1)
      /\ Has(current, P, 0, t3 - 1) <=> Has(current, P, 0, f3) \/ Has(current, P, f3, t3 - 1)
  <2>1. /\ t1 - 1 \in Int /\ f1 <= t1 - 1
        /\ t2 - 1 \in Int /\ f2 <= t2 - 1
        /\ t3 - 1 \in Int /\ f3 <= t3 - 1
    BY <1>1, InnerPlaces
  <2>2. ASSUME NEW s, NEW f \in Nat, NEW t \in Int, f <= t
        PROVE  Has(s, P, 0, t) <=> Has(s, P, 0, f) \/ Has(s, P, f, t)
    BY <2>2, HasSplits
  <2> QED
    BY <2>1, <2>2
<1>4. ~(Has(base, P, 0, f1) /\ Has(base, P, f1, t1 - 1))
  <2> SUFFICES ASSUME Has(base, P, 0, f1), Has(base, P, f1, t1 - 1) PROVE FALSE
    OBVIOUS
  <2>1. PICK i \in Nat, j \in Nat :
           0 < i /\ i <= f1 /\ base[i] \in P /\ f1 < j /\ j <= t1 - 1 /\ base[j] \in P
    BY DEF Has
  <2>2. PICK n \in Nat : n = Len(base)
    OBVIOUS
  <2>3. i \in 1 .. n /\ j \in 1 .. n /\ i # j
    <3>1. 0 < i /\ i <= f1 /\ f1 < j /\ j <= t1 - 1 /\ t1 <= n + 1 /\ f1 < t1
      BY <1>1, <2>1, <2>2
    <3> QED
      BY <3>1
  <2> QED
    BY <2>1, <2>2, <2>3 DEF OnceAtMost
<1>5. /\ Has(theirs, P, 0, f2) => Has(base, P, 0, f1)
      /\ Has(current, P, 0, f3) => Has(base, P, 0, f1)
      /\ ~(Has(theirs, P, 0, f2) /\ Has(current, P, 0, f3))
  BY <1>1 DEF Excused
<1>6. /\ Has(theirs, P, f2, t2 - 1) => Has(base, P, f1, t1 - 1)
      /\ Has(current, P, f3, t3 - 1) => Has(base, P, f1, t1 - 1)
      /\ ~(Has(theirs, P, f2, t2 - 1) /\ Has(current, P, f3, t3 - 1))
  BY <1>1, <1>2 DEF Excused
<1> QED
  BY <1>2, <1>3, <1>4, <1>5, <1>6 DEF Excused

\* So it is of every part of the plan.
PartExcuses(base, theirs, current, P, part) ==
    SaysNone(theirs, current, part.steps, P) => Excused(base, theirs, current, P, <<0, 0, 0>>, part.from)

LEMMA HasToTheLast ==
    ASSUME NEW s, NEW P, NEW t \in Nat, t >= 1, s[t] \notin P
    PROVE  Has(s, P, 0, t) <=> Has(s, P, 0, t - 1)
<1>1. \A i \in Nat : (0 < i /\ i <= t) <=> (0 < i /\ i <= t - 1) \/ i = t
  OBVIOUS
<1> QED
  BY <1>1 DEF Has

LEMMA PartExcusesOn ==
    ASSUME NEW K, NEW base \in Seq(K), NEW theirs \in Seq(K), NEW current \in Seq(K),
           NEW P, OnceAtMost(base, P), NEW prev, NEW next, NEW to,
           Extends(base, theirs, current, prev, next, to),
           PartExcuses(base, theirs, current, P, prev)
    PROVE  PartExcuses(base, theirs, current, P, next)
<1> SUFFICES ASSUME SaysNone(theirs, current, next.steps, P)
             PROVE  Excused(base, theirs, current, P, <<0, 0, 0>>, next.from)
  BY DEF PartExcuses
<1> DEFINE from == prev.from
           steps == prev.steps
           gap == Gap(base, theirs, current, from, to)
<1>1. /\ OpenGap(base, theirs, current, from, to) /\ Within(steps, 0, 0, from[2], from[3])
      /\ AtAnchor(base, theirs, current, to) /\ next.from = to
      /\ next.steps = steps \o gap \o <<Keep(to[3])>>
      /\ to[1] \in 1 .. Len(base) /\ to[2] \in 1 .. Len(theirs) /\ to[3] \in 1 .. Len(current)
  BY DEF Extends
<1>2. base[to[1]] = theirs[to[2]] /\ base[to[1]] = current[to[3]]
  BY <1>1 DEF AtAnchor
<1> HIDE DEF from, steps
<1>3. ToSet(next.steps) = ToSet(steps) \cup ToSet(gap) \cup {Keep(to[3])}
  BY <1>1, PlanExtends
<1> HIDE DEF gap
<1>4. SaysNone(theirs, current, steps, P) /\ SaysNone(theirs, current, gap, P)
  BY <1>3 DEF SaysNone
<1>5. PICK t1 \in Nat, t2 \in Nat, t3 \in Nat :
         t1 = to[1] /\ t2 = to[2] /\ t3 = to[3] /\ t1 >= 1 /\ t2 >= 1 /\ t3 >= 1
  <2>1. ASSUME NEW n, NEW i \in 1 .. n PROVE i \in Nat /\ i >= 1
    OBVIOUS
  <2> QED
    BY <1>1, <2>1
<1>6. base[t1] \notin P /\ theirs[t2] \notin P /\ current[t3] \notin P
  <2>1. current[t3] \notin P
    BY <1>3, <1>5 DEF SaysNone
  <2> QED
    BY <1>2, <1>5, <2>1
<1>7. Excused(base, theirs, current, P, <<0, 0, 0>>, from)
  BY <1>4 DEF PartExcuses, from, steps
<1>8. Excused(base, theirs, current, P, from, Before(to))
  BY <1>1, <1>4, RegionExcuses DEF gap
<1>9. Excused(base, theirs, current, P, <<0, 0, 0>>, Before(to))
  BY <1>1, <1>7, <1>8, ExcusesAdd
<1>10. Before(to)[1] = t1 - 1 /\ Before(to)[2] = t2 - 1 /\ Before(to)[3] = t3 - 1
  BY <1>5 DEF Before
<1>11. /\ Has(base, P, 0, t1) <=> Has(base, P, 0, t1 - 1)
       /\ Has(theirs, P, 0, t2) <=> Has(theirs, P, 0, t2 - 1)
       /\ Has(current, P, 0, t3) <=> Has(current, P, 0, t3 - 1)
  BY <1>5, <1>6, HasToTheLast
<1> QED
  BY <1>1, <1>5, <1>9, <1>10, <1>11 DEF Excused

\* The plan.
LEMMA PlanExcuses ==
    ASSUME NEW K, NEW base \in Seq(K), NEW theirs \in Seq(K), NEW current \in Seq(K),
           NEW P, OnceAtMost(base, P), NEW steps, steps = PlanBlockMerge(base, theirs, current),
           SaysNone(theirs, current, steps, P)
    PROVE  Excused(base, theirs, current, P, <<0, 0, 0>>, <<Len(base), Len(theirs), Len(current)>>)
<1> DEFINE n == Len(base)
           plan == PlanTo(base, theirs, current)
           T == {b \in 0 .. n : PartExcuses(base, theirs, current, P, plan[b])}
<1>1. n \in Nat /\ Len(theirs) \in Nat /\ Len(current) \in Nat
  OBVIOUS
<1>2. /\ plan[0] = StartPlan
      /\ \A b \in 1 .. n : \/ plan[b] = plan[b - 1]
                           \/ \E to : Extends(base, theirs, current, plan[b - 1], plan[b], to)
  <2>1. plan[0] = StartPlan
    BY PlanRecursion DEF PlanGrows
  <2>2. ASSUME NEW b \in 1 .. n
        PROVE  \/ plan[b] = plan[b - 1]
               \/ \E to : Extends(base, theirs, current, plan[b - 1], plan[b], to)
    <3>1. PICK whole : whole = PlanTo(base, theirs, current)
      OBVIOUS
    <3>2. \/ whole[b] = whole[b - 1]
          \/ \E to : to[1] = b /\ Extends(base, theirs, current, whole[b - 1], whole[b], to)
      BY <3>1, PlanGoesOn
    <3> QED
      BY <3>1, <3>2
  <2> QED
    BY <2>1, <2>2
<1>3. Completes(base, theirs, current, plan[n], steps)
  <2>1. PICK whole : whole = PlanTo(base, theirs, current)
    OBVIOUS
  <2>2. Completes(base, theirs, current, whole[Len(base)], PlanBlockMerge(base, theirs, current))
    BY <2>1, PlanStops
  <2> QED
    BY <2>1, <2>2
<1> HIDE DEF plan
<1>4. 0 \in T
  <2>1. \A i \in Nat : ~(0 < i /\ i <= 0)
    OBVIOUS
  <2>2. StartPlan.from = <<0, 0, 0>>
    BY DEF StartPlan
  <2>3. PartExcuses(base, theirs, current, P, StartPlan)
    BY <2>1, <2>2 DEF PartExcuses, Excused, Has
  <2> QED
    BY <1>1, <1>2, <2>3
<1>5. ASSUME NEW b \in 1 .. n, b - 1 \in T PROVE b \in T
  <2>1. b \in 0 .. n
    BY <1>1
  <2>2. PartExcuses(base, theirs, current, P, plan[b - 1])
    BY <1>5
  <2>3. PartExcuses(base, theirs, current, P, plan[b])
    <3>1. CASE plan[b] = plan[b - 1]
      BY <2>2, <3>1
    <3>2. CASE \E to : Extends(base, theirs, current, plan[b - 1], plan[b], to)
      <4>1. PICK to : Extends(base, theirs, current, plan[b - 1], plan[b], to)
        BY <3>2
      <4>2. PICK prev, next : prev = plan[b - 1] /\ next = plan[b]
        OBVIOUS
      <4>3. Extends(base, theirs, current, prev, next, to) /\ PartExcuses(base, theirs, current, P, prev)
        BY <2>2, <4>1, <4>2
      <4>4. PartExcuses(base, theirs, current, P, next)
        BY <4>3, PartExcusesOn
      <4> QED
        BY <4>2, <4>4
    <3> QED
      BY <1>2, <3>1, <3>2
  <2> QED
    BY <2>1, <2>3
<1>6. PartExcuses(base, theirs, current, P, plan[n])
  <2>1. \A b \in 0 .. n : b \in T
    <3> HIDE DEF T, n
    <3> QED
      BY <1>1, <1>4, <1>5, InductionTo
  <2>2. n \in 0 .. n
    BY <1>1
  <2> HIDE DEF n
  <2> QED
    BY <2>1, <2>2
<1> DEFINE last == plan[n]
           from == last.from
           to == EndOf(base, theirs, current)
           gap == Gap(base, theirs, current, from, to)
<1>7. /\ OpenGap(base, theirs, current, from, to) /\ Within(last.steps, 0, 0, from[2], from[3])
      /\ steps = last.steps \o gap
  BY <1>3 DEF Completes
<1> HIDE DEF last, to, T, n
<1>8. ToSet(steps) = ToSet(last.steps) \cup ToSet(gap)
  <2> DEFINE first == last.steps
  <2>1. /\ OpenGap(base, theirs, current, from, to) /\ Within(first, 0, 0, from[2], from[3])
        /\ steps = first \o gap
    BY <1>7
  <2> HIDE DEF from, first
  <2>2. Within(gap, from[2], from[3], to[2] - 1, to[3] - 1)
    BY <2>1, GapElements
  <2> HIDE DEF gap
  <2>3. ToSet(first \o gap) = ToSet(first) \cup ToSet(gap)
    BY <2>1, <2>2, JoinedElements DEF Within
  <2> QED
    BY <2>1, <2>3 DEF first
<1>9. SaysNone(theirs, current, last.steps, P) /\ SaysNone(theirs, current, gap, P)
  <2> HIDE DEF gap
  <2> QED
    BY <1>8 DEF SaysNone
<1>10. Excused(base, theirs, current, P, <<0, 0, 0>>, from)
  BY <1>6, <1>9 DEF PartExcuses, last
<1> HIDE DEF from
<1>11. Excused(base, theirs, current, P, from, Before(to))
  BY <1>7, <1>9, RegionExcuses
<1>12. Excused(base, theirs, current, P, <<0, 0, 0>>, Before(to))
  BY <1>7, <1>10, <1>11, ExcusesAdd
<1>13. Before(to) = <<Len(base), Len(theirs), Len(current)>>
  BY <1>1 DEF Before, EndOf, to, n
<1> QED
  BY <1>12, <1>13

\* The merge.
LEMMA ClassSurvives ==
    ASSUME NEW K, NEW base \in Seq(K), NEW theirs \in Seq(K), NEW current \in Seq(K),
           NEW P, OnceAtMost(base, P), \E i \in 1 .. Len(theirs) : theirs[i] \in P,
           (\E i \in 1 .. Len(base) : base[i] \in P) => \E i \in 1 .. Len(current) : current[i] \in P,
           NEW merged, merged = MergeSourceIntoYFragment(base, theirs, current)
    PROVE  \E i \in 1 .. Len(merged) : merged[i] \in P
<1> DEFINE steps == PlanBlockMerge(base, theirs, current)
           said == Said(theirs, current, steps)
<1>1. ASSUME NEW s \in Seq(K) PROVE Has(s, P, 0, Len(s)) <=> \E i \in 1 .. Len(s) : s[i] \in P
  <2>1. PICK n \in Nat : n = Len(s)
    OBVIOUS
  <2>2. \A i \in Nat : 0 < i /\ i <= n <=> i \in 1 .. n
    OBVIOUS
  <2>3. \A i \in 1 .. n : i \in Nat
    OBVIOUS
  <2> QED
    BY <2>1, <2>2, <2>3 DEF Has
<1>2. Has(theirs, P, 0, Len(theirs))
      /\ (Has(base, P, 0, Len(base)) => Has(current, P, 0, Len(current)))
  BY <1>1
<1>3. ~Excused(base, theirs, current, P, <<0, 0, 0>>, <<Len(base), Len(theirs), Len(current)>>)
  BY <1>2 DEF Excused
<1>4. ~SaysNone(theirs, current, steps, P)
  <2>1. PICK whole : whole = PlanBlockMerge(base, theirs, current)
    OBVIOUS
  <2>2. ~SaysNone(theirs, current, whole, P)
    BY <1>3, <2>1, PlanExcuses
  <2> QED
    BY <2>1, <2>2
<1>5. Plans(K, theirs, current, steps)
  BY PlanIsInOrder DEF Plans
<1>6. merged = NeverEmpty(said)
  BY SpliceSays
<1> HIDE DEF steps
<1>7. /\ steps \in Seq(Steps) /\ Len(said) = Len(steps) /\ said \in Seq(K)
      /\ \A x \in 1 .. Len(steps) :
            /\ steps[x].kind = "keep" => said[x] = current[steps[x].index]
            /\ steps[x].kind = "insert" => said[x] = theirs[steps[x].index]
  BY <1>5, PlanFacts
<1> HIDE DEF said
<1>8. \A e \in ToSet(steps) : \E x \in 1 .. Len(steps) : e = steps[x]
  BY <1>7, ElementsOf
<1>9. \E x \in 1 .. Len(said) : said[x] \in P
  <2>1. CASE \E i \in Nat : current[i] \in P /\ Keep(i) \in ToSet(steps)
    <3>1. PICK i \in Nat : current[i] \in P /\ Keep(i) \in ToSet(steps)
      BY <2>1
    <3>2. PICK x \in 1 .. Len(steps) : Keep(i) = steps[x]
      BY <1>8, <3>1
    <3>3. steps[x].kind = "keep" /\ steps[x].index = i
      BY <3>2, StepFacts
    <3> QED
      BY <1>7, <3>1, <3>3
  <2>2. CASE \E j \in Nat : theirs[j] \in P /\ Insert(j) \in ToSet(steps)
    <3>1. PICK j \in Nat : theirs[j] \in P /\ Insert(j) \in ToSet(steps)
      BY <2>2
    <3>2. PICK x \in 1 .. Len(steps) : Insert(j) = steps[x]
      BY <1>8, <3>1
    <3>3. steps[x].kind = "insert" /\ steps[x].index = j
      BY <3>2, StepFacts
    <3> QED
      BY <1>7, <3>1, <3>3
  <2> QED
    BY <1>4, <2>1, <2>2 DEF SaysNone
<1>10. said # <<>>
  BY <1>9
<1>11. merged = said
  BY <1>6, <1>10 DEF NeverEmpty
<1> QED
  BY <1>9, <1>11
=============================================================================
