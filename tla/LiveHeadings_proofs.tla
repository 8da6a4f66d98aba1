------------------------ MODULE LiveHeadings_proofs ------------------------
(***************************************************************************)
(* Proofs about LiveHeadings: the IDs a checkpoint writes are unique, and  *)
(* every ID that was published stays, whatever was typed, repeated and     *)
(* renamed, whatever the merge of the last checkpoint has left in the      *)
(* room, and as long as no checkpoint ran out of attempts.  None does that *)
(* has no more headings than attempts.                                     *)
(***************************************************************************)
EXTENDS LiveHeadings, BlockMerge_proofs

-----------------------------------------------------------------------------
(***************************************************************************)
(* The claims.                                                             *)
(***************************************************************************)

\* A source in which headings have IDs, no two the same.
HasIds(s) == \A i \in Headings(s) : s[i].id # NoId
OwnIds(s) == \A i, j \in Headings(s) : s[i].id = s[j].id => i = j

\* Every heading of s claims its ID or nothing, and no two claim the same.
Claims(s, c) ==
    /\ \A i \in Headings(s) : c[i] \in {s[i].id, NoId}
    /\ \A i, j \in Headings(s) : c[i] = c[j] /\ c[i] # NoId => i = j

\* Headings that are unchanged are different headings of the old source.
LEMMA UnchangedFacts ==
    ASSUME NEW K, NEW s \in Seq(K), NEW old \in Seq(K), OwnIds(old),
           NEW i \in Unchanged(s, old), NEW j \in Unchanged(s, old), s[i].id = s[j].id
    PROVE  i = j
<1> DEFINE pairs == LcsPairs(old, s)
<1>1. pairs \in SUBSET Pairs(old, s) /\ Alignment(pairs, old, s)
  BY LcsAligns
<1>2. /\ i \in 1 .. Len(s) /\ IsHeading(s[i]) /\ \E pair \in pairs : pair[2] = i
      /\ j \in 1 .. Len(s) /\ IsHeading(s[j]) /\ \E pair \in pairs : pair[2] = j
  BY DEF Unchanged, Headings
<1>3. PICK p \in pairs, q \in pairs : p[2] = i /\ q[2] = j
  BY <1>2
<1>4. old[p[1]] = s[i] /\ old[q[1]] = s[j]
  BY <1>1, <1>3 DEF Alignment
<1>5. /\ p[1] \in 1 .. Len(old) /\ p[1] \in Nat /\ p[2] \in Nat /\ p = <<p[1], p[2]>>
      /\ q[1] \in 1 .. Len(old) /\ q[1] \in Nat /\ q[2] \in Nat /\ q = <<q[1], q[2]>>
  <2>1. p \in Pairs(old, s) /\ q \in Pairs(old, s)
    BY <1>1
  <2> QED
    BY <2>1, PairFacts
<1>6. p[1] \in Headings(old) /\ q[1] \in Headings(old)
  BY <1>2, <1>4, <1>5 DEF Headings
<1>7. p[1] = q[1]
  BY <1>4, <1>6 DEF OwnIds
<1> HIDE DEF pairs
<1>8. p = q
  BY <1>1, <1>5, <1>7, AlignmentIsInjective
<1> QED
  BY <1>3, <1>8

LEMMA ClaimedFacts ==
    ASSUME NEW K, NEW s \in Seq(K), NEW old \in Seq(K), OwnIds(old)
    PROVE  Claims(s, Claimed(s, old))
<1> DEFINE c == Claimed(s, old)
           kept == Unchanged(s, old)
           Free(i) == \A j \in kept \cup 1 .. (i - 1) : s[j].id # s[i].id
<1>1. \A i \in Headings(s) : i \in 1 .. Len(s) /\ i \in Nat
  BY DEF Headings
<1>2. \A i \in Headings(s) : c[i] = IF i \in kept \/ Free(i) THEN s[i].id ELSE NoId
  BY <1>1 DEF Claimed
<1>3. ASSUME NEW i \in Headings(s), NEW j \in Headings(s), c[i] = c[j], c[i] # NoId PROVE i = j
  <2>1. /\ i \in kept \/ Free(i)
        /\ j \in kept \/ Free(j)
        /\ s[i].id = s[j].id
    BY <1>2, <1>3
  <2>2. CASE i \in kept /\ j \in kept
    BY <2>1, <2>2, UnchangedFacts
  <2>3. CASE i \in kept /\ j \notin kept
    BY <2>1, <2>3
  <2>4. CASE i \notin kept /\ j \in kept
    BY <2>1, <2>4
  <2>5. CASE i \notin kept /\ j \notin kept
    <3>1. ~(i < j) /\ ~(j < i)
      <4>1. i < j => i \in 1 .. j - 1
        BY <1>1
      <4>2. j < i => j \in 1 .. i - 1
        BY <1>1
      <4> QED
        BY <2>1, <2>5, <4>1, <4>2
    <3> QED
      BY <1>1, <3>1
  <2> QED
    BY <2>2, <2>3, <2>4, <2>5
<1> HIDE DEF c
<1> QED
  BY <1>2, <1>3 DEF Claims, c

\* In a document in which only headings have IDs, every ID is claimed: by an unchanged heading,
\* or by the first that has it.
OnlyHeadingsHaveIds(s) == \A i \in 1 .. Len(s) : IsHeading(s[i]) \/ s[i].id = NoId

LEMMA EveryIdIsClaimed ==
    ASSUME NEW K, NEW s \in Seq(K), NEW old, OnlyHeadingsHaveIds(s),
           NEW i \in Headings(s), s[i].id # NoId
    PROVE  \E k \in Headings(s) : Claimed(s, old)[k] = s[i].id
<1> DEFINE c == Claimed(s, old)
           kept == Unchanged(s, old)
           Free(k) == \A j \in kept \cup 1 .. (k - 1) : s[j].id # s[k].id
           Same == {k \in 1 .. Len(s) : s[k].id = s[i].id}
<1> SUFFICES \E k \in Headings(s) : c[k] = s[i].id
  OBVIOUS
<1>1. \A k \in Headings(s) : k \in 1 .. Len(s) /\ k \in Nat
  BY DEF Headings
<1>2. \A k \in Headings(s) : c[k] = IF k \in kept \/ Free(k) THEN s[k].id ELSE NoId
  BY <1>1 DEF Claimed
<1>3. \A k \in Same : k \in Headings(s)
  BY DEF OnlyHeadingsHaveIds, Headings
<1>4. kept \subseteq Headings(s)
  BY DEF Unchanged
<1>5. CASE \E k \in kept : s[k].id = s[i].id
  <2> HIDE DEF c, kept
  <2> QED
    BY <1>2, <1>4, <1>5
<1>6. CASE \A k \in kept : s[k].id # s[i].id
  <2>1. Same \subseteq Nat /\ Same # {}
    BY <1>1
  <2>2. PICK k \in Same : \A m \in Same : k <= m
    <3> HIDE DEF Same
    <3> QED
      BY <2>1, LeastNatural
  <2>3. k \in 1 .. Len(s) /\ s[k].id = s[i].id /\ k \in Headings(s)
    BY <1>3
  <2>4. ASSUME NEW j \in 1 .. k - 1 PROVE s[j].id # s[k].id
    <3>1. j \in 1 .. Len(s) /\ ~(k <= j)
      <4>1. PICK n \in Nat : n = Len(s)
        OBVIOUS
      <4>2. k \in 1 .. n
        BY <2>3, <4>1
      <4> HIDE DEF Same
      <4>3. j \in 1 .. n /\ ~(k <= j)
        BY <4>2
      <4> QED
        BY <4>1, <4>3
    <3> QED
      BY <2>2, <2>3, <3>1
  <2>5. Free(k)
    BY <1>6, <2>3, <2>4
  <2> HIDE DEF c, kept, Free, Same
  <2> QED
    BY <1>2, <2>3, <2>5
<1> QED
  BY <1>5, <1>6

-----------------------------------------------------------------------------
(***************************************************************************)
(* The IDs of one attempt.                                                 *)
(***************************************************************************)

\* The blocks of a document, and the lines of headings and other blocks.
Labels  == Titles \cup Texts \cup {""}
MaybeId == Ids \cup {NoId}
Blocks  == [text : Labels, id : MaybeId, explicit : BOOLEAN]
Written == [text : Labels, id : MaybeId, spelled : MaybeId]

\* There is a free number: among as many and one more, one is not taken.
LEMMA NumberedIsFree ==
    ASSUME NEW slug \in Ids, NEW taken, IsFiniteSet(taken)
    PROVE  Numbered(slug, taken) \in Ids /\ Numbered(slug, taken) \notin taken
<1> DEFINE m == Cardinality(taken)
           N == 2 .. m + 2
           Free == {n \in N : Append(slug, n) \notin taken}
<1>1. m \in Nat
  BY FS_CardinalityType
<1>2. slug \in Seq(Nat)
  BY DEF Ids
<1>3. Free # {}
  <2> SUFFICES ASSUME Free = {} PROVE FALSE
    OBVIOUS
  <2>1. \A n \in N : Append(slug, n) \in taken
    OBVIOUS
  <2> DEFINE f == [n \in N |-> Append(slug, n)]
  <2>2. f \in [N -> taken]
    BY <2>1
  <2>3. \A x, y \in N : f[x] = f[y] => x = y
    <3> SUFFICES ASSUME NEW x \in N, NEW y \in N, Append(slug, x) = Append(slug, y) PROVE x = y
      OBVIOUS
    <3>1. Append(slug, x)[Len(slug) + 1] = x /\ Append(slug, y)[Len(slug) + 1] = y
      BY <1>2
    <3> QED
      BY <3>1
  <2> HIDE DEF f
  <2>4. Cardinality(N) <= m
    <3> HIDE DEF N
    <3> QED
      BY <2>2, <2>3, Injects
  <2>5. Cardinality(N) = m + 1
    <3>1. 2 \in Int /\ m + 2 \in Int
      BY <1>1
    <3> HIDE DEF m
    <3>2. Cardinality(N) = IF 2 > m + 2 THEN 0 ELSE (m + 2) - 2 + 1
      BY <3>1, FS_Interval
    <3> QED
      BY <1>1, <3>2
  <2> HIDE DEF m, N
  <2> QED
    BY <1>1, <2>4, <2>5
<1>4. Free \subseteq Nat
  BY <1>1
<1>5. \E n \in Free : \A x \in Free : n <= x
  <2> HIDE DEF Free
  <2> QED
    BY <1>3, <1>4, LeastNatural
<1>6. Min(Free) \in Free
  <2> HIDE DEF Free
  <2> QED
    BY <1>5 DEF Min
<1>7. Numbered(slug, taken) = Append(slug, Min(Free))
  BY Zenon DEF Numbered
<1>8. PICK n \in Nat : n = Min(Free) /\ Append(slug, n) \notin taken
  BY <1>4, <1>6
<1>9. Append(slug, n) \in Seq(Nat) /\ Append(slug, n) # <<>>
  BY <1>2, SMTT(20)
<1> QED
  BY <1>7, <1>8, <1>9 DEF Ids, NoId

LEMMA ImageIsFinite ==
    ASSUME NEW S, IsFiniteSet(S), NEW g
    PROVE  IsFiniteSet({g[x] : x \in S})
<1> DEFINE T == {g[x] : x \in S}
           f == [x \in S |-> g[x]]
<1>1. f \in [S -> T] /\ \A t \in T : \E x \in S : f[x] = t
  OBVIOUS
<1> HIDE DEF f, T
<1>2. f \in Surjection(S, T)
  BY <1>1 DEF Surjection
<1>3. IsFiniteSet(T)
  BY <1>2, FS_Surjection
<1> QED
  BY <1>3 DEF T

\* What a sequence holds is finite, and so are the IDs of its headings.
LEMMA SequenceIsFinite ==
    ASSUME NEW K, NEW s \in Seq(K)
    PROVE  IsFiniteSet(ToSet(s)) /\ \A i \in 1 .. Len(s) : s[i] \in ToSet(s)
<1>1. DOMAIN s = 1 .. Len(s) /\ Len(s) \in Nat
  OBVIOUS
<1>2. IsFiniteSet(DOMAIN s)
  BY <1>1, FS_Interval
<1>3. IsFiniteSet({s[i] : i \in DOMAIN s})
  BY <1>2, ImageIsFinite
<1>4. ToSet(s) = {s[i] : i \in DOMAIN s}
  BY DEF ToSet
<1> QED
  BY <1>1, <1>3, <1>4

LEMMA HeadingIdsAreFinite ==
    ASSUME NEW K, NEW s \in Seq(K)
    PROVE  IsFiniteSet({s[i].id : i \in Headings(s)})
<1> DEFINE H == Headings(s)
           g == [i \in H |-> s[i].id]
<1>1. IsFiniteSet(H)
  <2>1. Len(s) \in Nat /\ H \in SUBSET (1 .. Len(s))
    BY DEF Headings
  <2>2. IsFiniteSet(1 .. Len(s))
    BY <2>1, FS_Interval
  <2> QED
    BY <2>1, <2>2, FS_Subset
<1>2. IsFiniteSet({g[i] : i \in H})
  <2> HIDE DEF H, g
  <2> QED
    BY <1>1, ImageIsFinite
<1>3. {g[i] : i \in H} = {s[i].id : i \in H}
  <2> HIDE DEF H
  <2> QED
    OBVIOUS
<1> QED
  BY <1>2, <1>3

LEMMA KnownIsFinite ==
    ASSUME NEW K, NEW s \in Seq(K), NEW old \in Seq(K)
    PROVE  IsFiniteSet(KnownIds(s, old))
<1>1. IsFiniteSet({s[i].id : i \in Headings(s)}) /\ IsFiniteSet({old[i].id : i \in Headings(old)})
  BY HeadingIdsAreFinite
<1> QED
  BY <1>1, FS_Union DEF KnownIds

\* A line of a heading has a slug.
LEMMA LineFacts ==
    ASSUME NEW lines \in Seq(Written), NEW i \in 1 .. Len(lines)
    PROVE  /\ lines[i] \in Written /\ lines[i].id \in MaybeId /\ lines[i].spelled \in MaybeId
           /\ IsHeading(lines[i]) => Slug[lines[i].text] \in Ids
<1>1. lines[i] \in Written
  OBVIOUS
<1>2. lines[i].id \in MaybeId /\ lines[i].spelled \in MaybeId
  BY <1>1 DEF Written
<1>3. IsHeading(lines[i]) => Slug[lines[i].text] \in Ids
  BY LiveHeadingsAssumption DEF IsHeading
<1> QED
  BY <1>1, <1>2, <1>3

\* The ID of the i-th line: none but for a heading, and what is spelled out.
IsParsed(lines, i, id) ==
    /\ id \in MaybeId
    /\ ~IsHeading(lines[i]) => id = NoId
    /\ IsHeading(lines[i]) => id # NoId /\ (lines[i].spelled # NoId => id = lines[i].spelled)

LEMMA ParsedIdFacts ==
    ASSUME NEW lines \in Seq(Written), NEW i \in 1 .. Len(lines), NEW earlier
    PROVE  IsParsed(lines, i, ParsedId(lines, i, earlier))
<1> DEFINE seen == {earlier[j] : j \in {k \in 1 .. (i - 1) : lines[k].spelled = NoId}}
<1>1. IsFiniteSet(seen)
  <2> DEFINE K == {k \in 1 .. (i - 1) : lines[k].spelled = NoId}
  <2>1. i - 1 \in Nat
    OBVIOUS
  <2>2. IsFiniteSet(1 .. (i - 1))
    BY <2>1, FS_Interval
  <2>3. K \in SUBSET (1 .. (i - 1))
    OBVIOUS
  <2>4. IsFiniteSet(K)
    BY <2>2, <2>3, FS_Subset
  <2> HIDE DEF K
  <2>5. IsFiniteSet({earlier[j] : j \in K})
    BY <2>4, ImageIsFinite
  <2> QED
    BY <2>5 DEF K
<1>2. CASE ~IsHeading(lines[i])
  BY <1>2 DEF ParsedId, IsParsed, MaybeId
<1>3. CASE IsHeading(lines[i]) /\ lines[i].spelled # NoId
  <2>1. ParsedId(lines, i, earlier) = lines[i].spelled
    BY <1>3 DEF ParsedId
  <2> QED
    BY <1>3, <2>1, LineFacts DEF IsParsed
<1>4. CASE IsHeading(lines[i]) /\ lines[i].spelled = NoId
  <2>1. ParsedId(lines, i, earlier) = Implicit(Slug[lines[i].text], seen)
    BY <1>4 DEF ParsedId
  <2> HIDE DEF seen
  <2>2. PICK slug \in Ids : slug = Slug[lines[i].text]
    BY <1>4, LineFacts
  <2>3. Implicit(slug, seen) \in Ids
    BY <1>1, NumberedIsFree DEF Implicit
  <2> QED
    BY <1>4, <2>1, <2>2, <2>3 DEF IsParsed, MaybeId, Ids
<1> QED
  BY <1>2, <1>3, <1>4

\* The IDs so far, one more with each line.
ParsesTo(lines) ==
    LET ids == ParsedTo(lines)
    IN  /\ ids[0] = <<>>
        /\ \A i \in 1 .. Len(lines) : ids[i] = Append(ids[i - 1], ParsedId(lines, i, ids[i - 1]))

LEMMA ParsedRecursion ==
    ASSUME NEW lines \in Seq(Written)
    PROVE  ParsesTo(lines)
<1> DEFINE n == Len(lines)
           V == Seq(MaybeId)
           More(i, r) == Append(r, ParsedId(lines, i, r))
           G == [z \in (1 .. n) \X V |-> More(z[1], z[2])]
           H(g) == [i \in 0 .. n |-> IF i = 0 THEN <<>> ELSE More(i, g[i - 1])]
           ids == CHOOSE g : g = H(g)
<1>1. n \in Nat /\ <<>> \in V
  OBVIOUS
<1>2. \A i \in 1 .. n, r \in V : More(i, r) \in V
  <2> SUFFICES ASSUME NEW i \in 1 .. n, NEW r \in V PROVE More(i, r) \in V
    OBVIOUS
  <2>1. PICK id : id = ParsedId(lines, i, r)
    OBVIOUS
  <2>2. id \in MaybeId
    BY <2>1, ParsedIdFacts DEF IsParsed
  <2> QED
    BY <2>1, <2>2
<1> HIDE DEF More
<1>3. G \in [(1 .. n) \X V -> V]
  BY <1>2
<1>4. Iterates(n, V, <<>>, G)
  <2> HIDE DEF n, V, G
  <2> QED
    BY <1>1, <1>3, RecursionTo
<1>5. PICK f \in [0 .. n -> V] : f[0] = <<>> /\ \A i \in 1 .. n : f[i] = G[<<i, f[i - 1]>>]
  BY <1>4 DEF Iterates
<1>6. \A i \in 1 .. n : f[i] = More(i, f[i - 1])
  <2> SUFFICES ASSUME NEW i \in 1 .. n PROVE f[i] = More(i, f[i - 1])
    OBVIOUS
  <2>1. i - 1 \in 0 .. n
    BY <1>1
  <2>2. f[i - 1] \in V
    BY <2>1
  <2> HIDE DEF V
  <2> QED
    BY <1>5, <2>2
<1>7. f = H(f)
  <2>1. \A i \in 0 .. n : i = 0 \/ i \in 1 .. n
    OBVIOUS
  <2> HIDE DEF V, n
  <2> QED
    BY <1>5, <1>6, <2>1
<1>8. ids = H(ids)
  <2> HIDE DEF H
  <2> QED
    BY <1>7, Zenon
<1>9. \A i \in 0 .. n : ids[i] = IF i = 0 THEN <<>> ELSE More(i, ids[i - 1])
  <2> HIDE DEF n, ids
  <2> QED
    BY <1>8
<1>10. ids = ParsedTo(lines)
  BY Zenon DEF ParsedTo, More
<1> HIDE DEF ids, G, H
<1>11. 0 \in 0 .. n /\ \A i \in 1 .. n : i \in 0 .. n /\ i # 0
  BY <1>1
<1> HIDE DEF n
<1>12. ids[0] = <<>> /\ \A i \in 1 .. n : ids[i] = More(i, ids[i - 1])
  BY <1>9, <1>11
<1> QED
  BY <1>10, <1>12 DEF ParsesTo, More, n

\* The IDs of the first i lines.
PartIsParsed(lines, part, i) ==
    part \in Seq(MaybeId) /\ Len(part) = i /\ \A j \in 1 .. i : IsParsed(lines, j, part[j])

LEMMA ParsedFacts ==
    ASSUME NEW lines \in Seq(Written)
    PROVE  PartIsParsed(lines, ParsedIds(lines), Len(lines))
<1> DEFINE n == Len(lines)
           ids == ParsedTo(lines)
           T == {i \in 0 .. n : PartIsParsed(lines, ids[i], i)}
<1>1. n \in Nat
  OBVIOUS
<1>2. ids[0] = <<>> /\ \A i \in 1 .. n : ids[i] = Append(ids[i - 1], ParsedId(lines, i, ids[i - 1]))
  BY ParsedRecursion DEF ParsesTo
<1> HIDE DEF ids
<1>3. 0 \in T
  <2>1. PartIsParsed(lines, <<>>, 0)
    <3>1. <<>> \in Seq(MaybeId) /\ Len(<<>>) = 0 /\ 1 .. 0 = {}
      OBVIOUS
    <3> QED
      BY <3>1 DEF PartIsParsed
  <2>2. 0 \in 0 .. n
    BY <1>1
  <2> HIDE DEF n
  <2> QED
    BY <1>2, <2>1, <2>2
<1>4. ASSUME NEW i \in 1 .. n, i - 1 \in T PROVE i \in T
  <2>1. i \in 0 .. n /\ i \in Nat
    BY <1>1
  <2>2. PICK part : part = ids[i - 1]
    OBVIOUS
  <2>3. PICK id : id = ParsedId(lines, i, part)
    OBVIOUS
  <2>4. PartIsParsed(lines, part, i - 1)
    BY <1>4, <2>2
  <2>5. IsParsed(lines, i, id)
    BY <2>3, ParsedIdFacts
  <2>6. ids[i] = Append(part, id)
    BY <1>2, <2>2, <2>3
  <2>7. PartIsParsed(lines, Append(part, id), i)
    <3>1. part \in Seq(MaybeId) /\ Len(part) = i - 1 /\ id \in MaybeId
      BY <2>4, <2>5 DEF PartIsParsed, IsParsed
    <3>2. /\ Append(part, id) \in Seq(MaybeId) /\ Len(Append(part, id)) = i
          /\ Append(part, id)[i] = id /\ \A j \in 1 .. i - 1 : Append(part, id)[j] = part[j]
      BY <2>1, <3>1
    <3>3. \A j \in 1 .. i : j \in 1 .. i - 1 \/ j = i
      BY <2>1
    <3> QED
      BY <2>4, <2>5, <3>2, <3>3 DEF PartIsParsed
  <2> HIDE DEF n
  <2> QED
    BY <2>1, <2>6, <2>7
<1>5. \A i \in 0 .. n : i \in T
  <2> HIDE DEF T, n
  <2> QED
    BY <1>1, <1>3, <1>4, InductionTo
<1>6. n \in T
  <2>1. n \in 0 .. n
    BY <1>1
  <2> HIDE DEF n, T
  <2> QED
    BY <1>5, <2>1
<1> QED
  BY <1>6 DEF ParsedIds, ids

\* No two lines are to have the same ID.
OwnWanted(lines) ==
    \A i, j \in Headings(lines) : lines[i].id = lines[j].id /\ lines[i].id # NoId => i = j

\* The ID given to the i-th line: the one it is to have, or one that no line is to have and no
\* earlier one has.
IsGiven(lines, i, id, earlier) ==
    /\ id \in MaybeId
    /\ ~IsHeading(lines[i]) => id = NoId
    /\ IsHeading(lines[i]) =>
          /\ id # NoId
          /\ lines[i].id # NoId => id = lines[i].id
          /\ lines[i].id = NoId => id \notin Intended(lines) /\ id \notin ToSet(earlier)

LEMMA GivenIdFacts ==
    ASSUME NEW lines \in Seq(Written), NEW parsed, PartIsParsed(lines, parsed, Len(lines)),
           NEW known, IsFiniteSet(known), NEW i \in 1 .. Len(lines), NEW earlier \in Seq(MaybeId)
    PROVE  IsGiven(lines, i, GivenId(lines, parsed, known, i, earlier), earlier)
<1> DEFINE taken == Intended(lines) \cup ToSet(parsed) \cup known \cup ToSet(earlier)
<1>1. IsFiniteSet(taken)
  <2>1. IsFiniteSet({lines[j].id : j \in Headings(lines)})
    BY HeadingIdsAreFinite
  <2>2. IsFiniteSet(Intended(lines))
    <3>1. Intended(lines) \in SUBSET {lines[j].id : j \in Headings(lines)}
      BY DEF Intended
    <3> QED
      BY <2>1, <3>1, FS_Subset
  <2>3. IsFiniteSet(ToSet(parsed)) /\ IsFiniteSet(ToSet(earlier))
    BY SequenceIsFinite DEF PartIsParsed
  <2>4. IsFiniteSet(Intended(lines) \cup ToSet(parsed))
    BY <2>2, <2>3, FS_Union
  <2>5. IsFiniteSet((Intended(lines) \cup ToSet(parsed)) \cup known)
    BY <2>4, FS_Union
  <2>6. IsFiniteSet(((Intended(lines) \cup ToSet(parsed)) \cup known) \cup ToSet(earlier))
    BY <2>3, <2>5, FS_Union
  <2> QED
    BY <2>6
<1>2. IsParsed(lines, i, parsed[i])
  BY DEF PartIsParsed
<1>3. CASE ~IsHeading(lines[i])
  BY <1>3 DEF GivenId, IsGiven, MaybeId
<1>4. CASE IsHeading(lines[i]) /\ lines[i].id # NoId
  <2>1. GivenId(lines, parsed, known, i, earlier) = lines[i].id
    BY <1>4 DEF GivenId
  <2> QED
    BY <1>4, <2>1, LineFacts DEF IsGiven
<1>5. CASE IsHeading(lines[i]) /\ lines[i].id = NoId /\ KeepsParsed(parsed[i], ToSet(earlier), Intended(lines))
  <2>1. GivenId(lines, parsed, known, i, earlier) = parsed[i]
    BY <1>5 DEF GivenId
  <2>2. parsed[i] \notin ToSet(earlier) /\ parsed[i] \notin Intended(lines)
    BY <1>5 DEF KeepsParsed
  <2>3. parsed[i] \in MaybeId /\ parsed[i] # NoId
    BY <1>2, <1>5 DEF IsParsed
  <2> QED
    BY <1>5, <2>1, <2>2, <2>3 DEF IsGiven
<1>6. CASE IsHeading(lines[i]) /\ lines[i].id = NoId /\ ~KeepsParsed(parsed[i], ToSet(earlier), Intended(lines))
  <2>1. GivenId(lines, parsed, known, i, earlier) = Numbered(Slug[lines[i].text], taken)
    BY <1>6 DEF GivenId
  <2>2. PICK slug \in Ids : slug = Slug[lines[i].text]
    BY <1>6, LineFacts
  <2>3. Intended(lines) \subseteq taken /\ ToSet(earlier) \subseteq taken
    OBVIOUS
  <2> HIDE DEF taken
  <2>4. Numbered(slug, taken) \in Ids /\ Numbered(slug, taken) \notin taken
    BY <1>1, NumberedIsFree
  <2>5. PICK id : id = Numbered(slug, taken)
    OBVIOUS
  <2>6. id \in MaybeId /\ id # NoId /\ id \notin Intended(lines) /\ id \notin ToSet(earlier)
    BY <2>3, <2>4, <2>5 DEF MaybeId, Ids
  <2> QED
    BY <1>6, <2>1, <2>2, <2>5, <2>6 DEF IsGiven
<1> QED
  BY <1>3, <1>4, <1>5, <1>6

GivesTo(lines, parsed, known) ==
    LET given == GivenTo(lines, parsed, known)
    IN  /\ given[0] = <<>>
        /\ \A i \in 1 .. Len(lines) :
              given[i] = Append(given[i - 1], GivenId(lines, parsed, known, i, given[i - 1]))

LEMMA GivenRecursion ==
    ASSUME NEW lines \in Seq(Written), NEW parsed, PartIsParsed(lines, parsed, Len(lines)),
           NEW known, IsFiniteSet(known)
    PROVE  GivesTo(lines, parsed, known)
<1> DEFINE n == Len(lines)
           V == Seq(MaybeId)
           More(i, r) == Append(r, GivenId(lines, parsed, known, i, r))
           G == [z \in (1 .. n) \X V |-> More(z[1], z[2])]
           H(g) == [i \in 0 .. n |-> IF i = 0 THEN <<>> ELSE More(i, g[i - 1])]
           given == CHOOSE g : g = H(g)
<1>1. n \in Nat /\ <<>> \in V
  OBVIOUS
<1>2. \A i \in 1 .. n, r \in V : More(i, r) \in V
  <2> SUFFICES ASSUME NEW i \in 1 .. n, NEW r \in V PROVE More(i, r) \in V
    OBVIOUS
  <2>1. PICK id : id = GivenId(lines, parsed, known, i, r)
    OBVIOUS
  <2>2. id \in MaybeId
    BY <2>1, GivenIdFacts DEF IsGiven
  <2> QED
    BY <2>1, <2>2
<1> HIDE DEF More
<1>3. G \in [(1 .. n) \X V -> V]
  BY <1>2
<1>4. Iterates(n, V, <<>>, G)
  <2> HIDE DEF n, V, G
  <2> QED
    BY <1>1, <1>3, RecursionTo
<1>5. PICK f \in [0 .. n -> V] : f[0] = <<>> /\ \A i \in 1 .. n : f[i] = G[<<i, f[i - 1]>>]
  BY <1>4 DEF Iterates
<1>6. \A i \in 1 .. n : f[i] = More(i, f[i - 1])
  <2> SUFFICES ASSUME NEW i \in 1 .. n PROVE f[i] = More(i, f[i - 1])
    OBVIOUS
  <2>1. i - 1 \in 0 .. n
    BY <1>1
  <2>2. f[i - 1] \in V
    BY <2>1
  <2> HIDE DEF V
  <2> QED
    BY <1>5, <2>2
<1>7. f = H(f)
  <2>1. \A i \in 0 .. n : i = 0 \/ i \in 1 .. n
    OBVIOUS
  <2> HIDE DEF V, n
  <2> QED
    BY <1>5, <1>6, <2>1
<1>8. given = H(given)
  <2> HIDE DEF H
  <2> QED
    BY <1>7, Zenon
<1>9. \A i \in 0 .. n : given[i] = IF i = 0 THEN <<>> ELSE More(i, given[i - 1])
  <2> HIDE DEF n, given
  <2> QED
    BY <1>8
<1>10. given = GivenTo(lines, parsed, known)
  BY Zenon DEF GivenTo, More
<1> HIDE DEF given, G, H
<1>11. 0 \in 0 .. n /\ \A i \in 1 .. n : i \in 0 .. n /\ i # 0
  BY <1>1
<1> HIDE DEF n
<1>12. given[0] = <<>> /\ \A i \in 1 .. n : given[i] = More(i, given[i - 1])
  BY <1>9, <1>11
<1> QED
  BY <1>10, <1>12 DEF GivesTo, More, n

\* The IDs given to the first i lines: no two headings have the same.
PartIsGiven(lines, part, i) ==
    /\ part \in Seq(MaybeId) /\ Len(part) = i
    /\ \A j \in 1 .. i : IsGiven(lines, j, part[j], <<>>)
    /\ \A j, k \in 1 .. i : IsHeading(lines[j]) /\ part[j] = part[k] => j = k

LEMMA PartGrows ==
    ASSUME NEW lines \in Seq(Written), OwnWanted(lines), NEW i \in 1 .. Len(lines),
           NEW part, PartIsGiven(lines, part, i - 1), NEW id, IsGiven(lines, i, id, part)
    PROVE  PartIsGiven(lines, Append(part, id), i)
<1>1. PICK more : more = Append(part, id)
  OBVIOUS
<1>2. part \in Seq(MaybeId) /\ Len(part) = i - 1 /\ id \in MaybeId /\ i \in Nat /\ i <= Len(lines)
  BY DEF PartIsGiven, IsGiven
<1>3. /\ more \in Seq(MaybeId) /\ Len(more) = i /\ more[i] = id
      /\ \A j \in 1 .. i - 1 : more[j] = part[j]
  BY <1>1, <1>2
<1>4. \A j \in 1 .. i : j \in 1 .. i - 1 \/ j = i
  BY <1>2
<1>5. IsGiven(lines, i, id, <<>>)
  <2>1. ToSet(<<>>) = {}
    BY DEF ToSet
  <2> QED
    BY <2>1 DEF IsGiven
<1>6. \A j \in 1 .. i : IsGiven(lines, j, more[j], <<>>)
  BY <1>3, <1>4, <1>5 DEF PartIsGiven
\* The new ID is no earlier line's.
<1>7. ASSUME NEW j \in 1 .. i - 1, part[j] = id, IsHeading(lines[i]) \/ IsHeading(lines[j]) PROVE FALSE
  <2>1. /\ j \in 1 .. Len(lines) /\ j # i /\ i \in 1 .. Len(lines)
        /\ part[j] \in ToSet(part)
    BY <1>2, SequenceIsFinite
  <2>2. IsGiven(lines, j, part[j], <<>>)
    BY DEF PartIsGiven
  <2>3. IsHeading(lines[i]) /\ IsHeading(lines[j])
    BY <1>7, <2>2 DEF IsGiven
  <2>4. i \in Headings(lines) /\ j \in Headings(lines)
    BY <2>1, <2>3 DEF Headings
  <2>5. CASE lines[i].id = NoId
    BY <1>7, <2>1, <2>3, <2>5 DEF IsGiven
  <2>6. CASE lines[i].id # NoId /\ lines[j].id # NoId
    <3>1. id = lines[i].id /\ part[j] = lines[j].id
      BY <2>2, <2>3, <2>6 DEF IsGiven
    <3> QED
      BY <1>7, <2>1, <2>4, <2>6, <3>1 DEF OwnWanted
  <2>7. CASE lines[i].id # NoId /\ lines[j].id = NoId
    <3>1. id = lines[i].id
      BY <2>3, <2>7 DEF IsGiven
    <3>2. id \in Intended(lines)
      BY <2>4, <2>7, <3>1 DEF Intended
    <3>3. part[j] \notin Intended(lines)
      BY <2>2, <2>3, <2>7 DEF IsGiven
    <3> QED
      BY <1>7, <3>2, <3>3
  <2> QED
    BY <2>5, <2>6, <2>7
<1>8. ASSUME NEW j \in 1 .. i, NEW k \in 1 .. i, IsHeading(lines[j]), more[j] = more[k] PROVE j = k
  <2>1. CASE j \in 1 .. i - 1 /\ k \in 1 .. i - 1
    BY <1>3, <1>8, <2>1 DEF PartIsGiven
  <2>2. CASE j \in 1 .. i - 1 /\ k = i
    BY <1>3, <1>7, <1>8, <2>2
  <2>3. CASE j = i /\ k \in 1 .. i - 1
    BY <1>3, <1>7, <1>8, <2>3
  <2> QED
    BY <1>4, <2>1, <2>2, <2>3
<1> QED
  BY <1>1, <1>3, <1>6, <1>8 DEF PartIsGiven

LEMMA GivenFacts ==
    ASSUME NEW lines \in Seq(Written), OwnWanted(lines), NEW known, IsFiniteSet(known)
    PROVE  PartIsGiven(lines, GivenIds(lines, known), Len(lines))
<1> DEFINE n == Len(lines)
           parsed == ParsedIds(lines)
           given == GivenTo(lines, parsed, known)
           T == {i \in 0 .. n : PartIsGiven(lines, given[i], i)}
<1>1. n \in Nat
  OBVIOUS
<1>2. PartIsParsed(lines, parsed, n)
  BY ParsedFacts
<1> HIDE DEF parsed
<1>3. given[0] = <<>> /\ \A i \in 1 .. n : given[i] = Append(given[i - 1], GivenId(lines, parsed, known, i, given[i - 1]))
  BY <1>2, GivenRecursion DEF GivesTo
<1> HIDE DEF given
<1>4. 0 \in T
  <2>1. PartIsGiven(lines, <<>>, 0)
    <3>1. <<>> \in Seq(MaybeId) /\ Len(<<>>) = 0 /\ 1 .. 0 = {}
      OBVIOUS
    <3> QED
      BY <3>1 DEF PartIsGiven
  <2>2. 0 \in 0 .. n
    BY <1>1
  <2> HIDE DEF n
  <2> QED
    BY <1>3, <2>1, <2>2
<1>5. ASSUME NEW i \in 1 .. n, i - 1 \in T PROVE i \in T
  <2>1. i \in 0 .. n
    BY <1>1
  <2>2. PICK part : part = given[i - 1]
    OBVIOUS
  <2>3. PICK id : id = GivenId(lines, parsed, known, i, part)
    OBVIOUS
  <2>4. PartIsGiven(lines, part, i - 1)
    BY <1>5, <2>2
  <2>5. IsGiven(lines, i, id, part)
    <3>1. part \in Seq(MaybeId)
      BY <2>4 DEF PartIsGiven
    <3> QED
      BY <1>2, <2>3, <3>1, GivenIdFacts
  <2>6. given[i] = Append(part, id)
    BY <1>3, <2>2, <2>3
  <2>7. PartIsGiven(lines, Append(part, id), i)
    BY <2>4, <2>5, PartGrows
  <2> HIDE DEF n
  <2> QED
    BY <2>1, <2>6, <2>7
<1>6. \A i \in 0 .. n : i \in T
  <2> HIDE DEF T, n
  <2> QED
    BY <1>1, <1>4, <1>5, InductionTo
<1>7. n \in T
  <2>1. n \in 0 .. n
    BY <1>1
  <2> HIDE DEF n, T
  <2> QED
    BY <1>6, <2>1
<1> QED
  BY <1>7 DEF GivenIds, given, parsed

-----------------------------------------------------------------------------
(***************************************************************************)
(* The attempts.                                                           *)
(***************************************************************************)

\* Lines of which each is to have an ID of its own or none, and spells out no other.
Sound(lines) ==
    /\ lines \in Seq(Written) /\ OwnWanted(lines)
    /\ \A i \in Headings(lines) : lines[i].spelled \in {lines[i].id, NoId}

SoundLines == {lines \in Seq(Written) : Sound(lines)}

SpelledOut(lines) == {i \in Headings(lines) : lines[i].spelled # NoId}

\* Lines of the same blocks, in which headings that were to have an ID still are.
SameHeadings(lines, more) ==
    /\ Len(more) = Len(lines) /\ \A i \in 1 .. Len(lines) : more[i].text = lines[i].text
    /\ \A i \in Headings(lines) : lines[i].id # NoId => more[i].id = lines[i].id

LEMMA AttemptFacts ==
    ASSUME NEW lines, Sound(lines), NEW known, IsFiniteSet(known),
           NEW more, more = Attempt(lines, known)
    PROVE  /\ Sound(more) /\ SameHeadings(lines, more)
           /\ SpelledOut(lines) \subseteq SpelledOut(more)
           /\ more # lines => SpelledOut(more) # SpelledOut(lines)
           /\ more = lines => \A i \in 1 .. Len(lines) : GivenIds(lines, known)[i] = ParsedIds(lines)[i]
<1> DEFINE n == Len(lines)
           parsed == ParsedIds(lines)
           given == GivenIds(lines, known)
           Line(i) == IF given[i] = parsed[i] THEN lines[i]
                      ELSE [lines[i] EXCEPT !.id = given[i], !.spelled = given[i]]
<1>1. lines \in Seq(Written) /\ OwnWanted(lines) /\ n \in Nat
  BY DEF Sound
<1>2. PartIsParsed(lines, parsed, n) /\ PartIsGiven(lines, given, n)
  BY <1>1, ParsedFacts, GivenFacts
<1>3. \A i \in 1 .. n : IsParsed(lines, i, parsed[i]) /\ IsGiven(lines, i, given[i], <<>>)
  BY <1>2 DEF PartIsParsed, PartIsGiven
<1>4. \A j, k \in 1 .. n : IsHeading(lines[j]) /\ given[j] = given[k] => j = k
  BY <1>2 DEF PartIsGiven
<1>5. more = [i \in 1 .. n |-> Line(i)]
  BY DEF Attempt
<1> HIDE DEF parsed, given
\* A line that is rewritten is that of a heading whose ID was not spelled out.
<1>6. ASSUME NEW i \in 1 .. n, given[i] # parsed[i]
      PROVE  IsHeading(lines[i]) /\ lines[i].spelled = NoId /\ given[i] # NoId
  <2>1. IsHeading(lines[i])
    BY <1>3, <1>6 DEF IsParsed, IsGiven
  <2>2. given[i] # NoId
    BY <1>3, <2>1 DEF IsGiven
  <2>3. lines[i].spelled = NoId
    <3> SUFFICES ASSUME lines[i].spelled # NoId PROVE FALSE
      OBVIOUS
    <3>1. i \in Headings(lines)
      BY <2>1 DEF Headings
    <3>2. lines[i].spelled = lines[i].id /\ lines[i].id # NoId
      BY <3>1 DEF Sound
    <3>3. parsed[i] = lines[i].spelled /\ given[i] = lines[i].id
      BY <1>3, <2>1, <3>2 DEF IsParsed, IsGiven
    <3> QED
      BY <1>6, <3>2, <3>3
  <2> QED
    BY <2>1, <2>2, <2>3
<1>7. ASSUME NEW i \in 1 .. n
      PROVE  /\ Line(i) \in Written /\ Line(i).text = lines[i].text
             /\ given[i] # parsed[i] => Line(i).id = given[i] /\ Line(i).spelled = given[i]
             /\ given[i] = parsed[i] => Line(i) = lines[i]
  <2>1. lines[i] \in Written /\ given[i] \in MaybeId
    BY <1>1, <1>3 DEF IsGiven
  <2>2. PICK line \in Written, id \in MaybeId : line = lines[i] /\ id = given[i]
    BY <2>1
  <2>3. PICK rewritten : rewritten = [line EXCEPT !.id = id, !.spelled = id]
    OBVIOUS
  <2>4. rewritten \in Written /\ rewritten.text = line.text /\ rewritten.id = id /\ rewritten.spelled = id
    BY <2>3 DEF Written
  <2> QED
    BY <2>1, <2>2, <2>3, <2>4
<1> HIDE DEF Line
<1>8. more \in Seq(Written) /\ Len(more) = n /\ \A i \in 1 .. n : more[i] = Line(i)
  BY <1>1, <1>5, <1>7
<1>9. Headings(more) = Headings(lines) /\ Headings(lines) \subseteq 1 .. n
  BY <1>7, <1>8 DEF Headings, IsHeading
<1>10. \A i \in 1 .. n : /\ given[i] # parsed[i] => more[i].id = given[i] /\ more[i].spelled = given[i]
                         /\ given[i] = parsed[i] => more[i] = lines[i]
  BY <1>7, <1>8
<1>11. \A i \in Headings(lines) : lines[i].id # NoId => given[i] = lines[i].id
  <2>1. \A i \in Headings(lines) : IsHeading(lines[i]) /\ i \in 1 .. n
    BY DEF Headings
  <2> QED
    BY <1>3, <2>1 DEF IsGiven
<1>12. \A i \in Headings(lines) : more[i].id \in {given[i], NoId}
  BY <1>9, <1>10, <1>11
<1>13. OwnWanted(more)
  <2> SUFFICES ASSUME NEW i \in Headings(lines), NEW j \in Headings(lines), more[i].id = more[j].id, more[i].id # NoId
               PROVE  i = j
    BY <1>9 DEF OwnWanted
  <2>1. given[i] = given[j]
    BY <1>12
  <2>2. IsHeading(lines[i]) /\ i \in 1 .. n /\ j \in 1 .. n
    BY DEF Headings
  <2> QED
    BY <1>4, <2>1, <2>2
<1>14. \A i \in Headings(lines) : more[i].spelled \in {more[i].id, NoId}
  BY <1>9, <1>10 DEF Sound
<1>15. Sound(more)
  BY <1>8, <1>9, <1>13, <1>14 DEF Sound
<1>16. SameHeadings(lines, more)
  <2>1. \A i \in 1 .. n : more[i].text = lines[i].text
    BY <1>7, <1>8
  <2>2. \A i \in Headings(lines) : lines[i].id # NoId => more[i].id = lines[i].id
    BY <1>9, <1>10, <1>11
  <2> QED
    BY <1>8, <2>1, <2>2 DEF SameHeadings
<1>17. SpelledOut(lines) \subseteq SpelledOut(more)
  BY <1>6, <1>9, <1>10 DEF SpelledOut
<1>18. ASSUME NEW i \in 1 .. n, given[i] # parsed[i] PROVE i \in SpelledOut(more) /\ i \notin SpelledOut(lines)
  <2>1. IsHeading(lines[i]) /\ lines[i].spelled = NoId /\ given[i] # NoId
    BY <1>6, <1>18
  <2>2. more[i].spelled = given[i]
    BY <1>10, <1>18
  <2>3. i \in Headings(more)
    BY <1>9, <2>1 DEF Headings
  <2> QED
    BY <2>1, <2>2, <2>3 DEF SpelledOut
<1>19. (\A i \in 1 .. n : given[i] = parsed[i]) => more = lines
  <2> SUFFICES ASSUME \A i \in 1 .. n : given[i] = parsed[i] PROVE more = lines
    OBVIOUS
  <2>1. \A i \in 1 .. n : more[i] = lines[i]
    BY <1>10
  <2> HIDE DEF n
  <2>2. more \in Seq(Written) /\ lines \in Seq(Written) /\ Len(more) = n /\ Len(lines) = n
    BY <1>1, <1>8 DEF n
  <2> QED
    BY <2>1, <2>2
<1>20. more = lines => \A i \in 1 .. n : given[i] = parsed[i]
  BY <1>18
<1> QED
  BY <1>15, <1>16, <1>17, <1>18, <1>19, <1>20 DEF given, parsed

AttemptsFollow(lines, known) ==
    LET after == Attempts(lines, known)
    IN  /\ after[0] = lines
        /\ \A n \in 1 .. MaxAttempts : after[n] = Attempt(after[n - 1], known)

LEMMA AttemptsRecursion ==
    ASSUME NEW lines, Sound(lines), NEW known, IsFiniteSet(known)
    PROVE  AttemptsFollow(lines, known)
<1> DEFINE max == MaxAttempts
           V == SoundLines
           More(r) == Attempt(r, known)
           G == [z \in (1 .. max) \X V |-> More(z[2])]
           H(g) == [n \in 0 .. max |-> IF n = 0 THEN lines ELSE More(g[n - 1])]
           after == CHOOSE g : g = H(g)
<1>1. max \in Nat /\ lines \in V
  BY LiveHeadingsAssumption DEF SoundLines, Sound
<1>2. \A r \in V : More(r) \in V
  <2> SUFFICES ASSUME NEW r \in V PROVE More(r) \in V
    OBVIOUS
  <2>1. PICK more : more = Attempt(r, known)
    OBVIOUS
  <2>2. Sound(r)
    BY DEF SoundLines
  <2>3. Sound(more)
    BY <2>1, <2>2, AttemptFacts
  <2> QED
    BY <2>1, <2>3 DEF SoundLines, Sound
<1> HIDE DEF More, V
<1>3. G \in [(1 .. max) \X V -> V]
  BY <1>2
<1>4. Iterates(max, V, lines, G)
  <2> HIDE DEF max, G
  <2> QED
    BY <1>1, <1>3, RecursionTo
<1>5. PICK f \in [0 .. max -> V] : f[0] = lines /\ \A n \in 1 .. max : f[n] = G[<<n, f[n - 1]>>]
  BY <1>4 DEF Iterates
<1>6. \A n \in 1 .. max : f[n] = More(f[n - 1])
  <2> SUFFICES ASSUME NEW n \in 1 .. max PROVE f[n] = More(f[n - 1])
    OBVIOUS
  <2>1. n - 1 \in 0 .. max
    BY <1>1
  <2>2. f[n - 1] \in V
    BY <2>1
  <2> QED
    BY <1>5, <2>2
<1>7. f = H(f)
  <2>1. \A n \in 0 .. max : n = 0 \/ n \in 1 .. max
    BY <1>1
  <2> HIDE DEF max
  <2> QED
    BY <1>5, <1>6, <2>1
<1>8. after = H(after)
  <2> HIDE DEF H
  <2> QED
    BY <1>7, Zenon
<1>9. \A n \in 0 .. max : after[n] = IF n = 0 THEN lines ELSE More(after[n - 1])
  <2> HIDE DEF max, after
  <2> QED
    BY <1>8
<1>10. after = Attempts(lines, known)
  BY Zenon DEF Attempts, More
<1> HIDE DEF after, G, H
<1>11. 0 \in 0 .. max /\ \A n \in 1 .. max : n \in 0 .. max /\ n # 0
  BY <1>1
<1> HIDE DEF max
<1>12. after[0] = lines /\ \A n \in 1 .. max : after[n] = More(after[n - 1])
  BY <1>9, <1>11
<1> QED
  BY <1>10, <1>12 DEF AttemptsFollow, More, max

\* After n attempts: another would change nothing, or n headings have their IDs spelled out.
Progressed(lines, known, more, n) ==
    /\ Sound(more) /\ SameHeadings(lines, more)
    /\ Attempt(more, known) = more \/ Cardinality(SpelledOut(more)) >= n

LEMMA SpelledIsFinite ==
    ASSUME NEW lines, Sound(lines)
    PROVE  /\ IsFiniteSet(Headings(lines)) /\ Cardinality(Headings(lines)) \in Nat
           /\ IsFiniteSet(SpelledOut(lines)) /\ Cardinality(SpelledOut(lines)) \in Nat
           /\ Cardinality(SpelledOut(lines)) <= Cardinality(Headings(lines))
<1>1. Len(lines) \in Nat /\ Headings(lines) \in SUBSET (1 .. Len(lines))
  BY DEF Sound, Headings
<1>2. IsFiniteSet(1 .. Len(lines))
  BY <1>1, FS_Interval
<1>3. IsFiniteSet(Headings(lines))
  BY <1>1, <1>2, FS_Subset
<1>4. SpelledOut(lines) \in SUBSET Headings(lines)
  BY DEF SpelledOut
<1> QED
  BY <1>3, <1>4, FS_Subset, FS_CardinalityType

\* An attempt that changes something spells out another heading's ID.
LEMMA AttemptSpells ==
    ASSUME NEW lines, Sound(lines), NEW known, IsFiniteSet(known),
           NEW more, more = Attempt(lines, known), more # lines
    PROVE  Cardinality(SpelledOut(lines)) + 1 <= Cardinality(SpelledOut(more))
<1>1. SpelledOut(lines) \subseteq SpelledOut(more) /\ SpelledOut(more) # SpelledOut(lines) /\ Sound(more)
  BY AttemptFacts
<1>2. PICK A, B : A = SpelledOut(lines) /\ B = SpelledOut(more)
  OBVIOUS
<1>3. IsFiniteSet(A) /\ IsFiniteSet(B) /\ A \in SUBSET B /\ A # B /\ Cardinality(A) \in Nat /\ Cardinality(B) \in Nat
  BY <1>1, <1>2, SpelledIsFinite
<1>4. Cardinality(A) <= Cardinality(B) /\ Cardinality(A) # Cardinality(B)
  BY <1>3, FS_Subset
<1> QED
  BY <1>2, <1>3, <1>4

LEMMA AttemptsProgress ==
    ASSUME NEW lines, Sound(lines), NEW known, IsFiniteSet(known)
    PROVE  Progressed(lines, known, EnforceHeadingIds(lines, known), MaxAttempts)
<1> DEFINE after == Attempts(lines, known)
           max == MaxAttempts
           T == {n \in 0 .. max : Progressed(lines, known, after[n], n)}
<1>1. max \in Nat
  BY LiveHeadingsAssumption
<1>2. after[0] = lines /\ \A n \in 1 .. max : after[n] = Attempt(after[n - 1], known)
  BY AttemptsRecursion DEF AttemptsFollow
<1> HIDE DEF after
<1>3. 0 \in T
  <2>1. Cardinality(SpelledOut(lines)) >= 0
    BY SpelledIsFinite
  <2>2. SameHeadings(lines, lines)
    BY DEF SameHeadings
  <2>3. 0 \in 0 .. max
    BY <1>1
  <2> HIDE DEF max
  <2> QED
    BY <1>2, <2>1, <2>2, <2>3 DEF Progressed
<1>4. ASSUME NEW n \in 1 .. max, n - 1 \in T PROVE n \in T
  <2>1. n \in 0 .. max /\ n \in Nat
    BY <1>1
  <2>2. PICK more, next : more = after[n - 1] /\ next = Attempt(more, known) /\ next = after[n]
    BY <1>2
  <2>3. Progressed(lines, known, more, n - 1)
    BY <1>4, <2>2
  <2>4. Sound(more) /\ SameHeadings(lines, more)
    BY <2>3 DEF Progressed
  <2>5. Sound(next) /\ SameHeadings(more, next)
    BY <2>2, <2>4, AttemptFacts
  <2>6. SameHeadings(lines, next)
    BY <2>4, <2>5 DEF SameHeadings, Headings, IsHeading
  <2>7. Attempt(next, known) = next \/ Cardinality(SpelledOut(next)) >= n
    <3>1. CASE next = more
      BY <2>2, <3>1
    <3>2. CASE next # more
      <4>1. Cardinality(SpelledOut(more)) >= n - 1
        BY <2>2, <2>3, <3>2 DEF Progressed
      <4>2. Cardinality(SpelledOut(more)) + 1 <= Cardinality(SpelledOut(next))
        BY <2>2, <2>4, <3>2, AttemptSpells
      <4>3. Cardinality(SpelledOut(more)) \in Nat /\ Cardinality(SpelledOut(next)) \in Nat
        BY <2>4, <2>5, SpelledIsFinite
      <4>4. PICK a \in Nat, b \in Nat : a = Cardinality(SpelledOut(more)) /\ b = Cardinality(SpelledOut(next))
        BY <4>3
      <4>5. b >= n
        BY <2>1, <4>1, <4>2, <4>4
      <4> QED
        BY <4>4, <4>5
    <3> QED
      BY <3>1, <3>2
  <2>8. Progressed(lines, known, after[n], n)
    BY <2>2, <2>5, <2>6, <2>7 DEF Progressed
  <2> HIDE DEF max
  <2> QED
    BY <2>1, <2>8
<1>5. \A n \in 0 .. max : n \in T
  <2> HIDE DEF T, max
  <2> QED
    BY <1>1, <1>3, <1>4, InductionTo
<1>6. max \in T
  <2>1. max \in 0 .. max
    BY <1>1
  <2> HIDE DEF max, T
  <2> QED
    BY <1>5, <2>1
<1> QED
  BY <1>6 DEF EnforceHeadingIds, after, max

\* With no more headings than attempts, the last attempt settles them.
LEMMA FewSettle ==
    ASSUME NEW lines, Sound(lines), NEW known, IsFiniteSet(known),
           Cardinality(Headings(lines)) <= MaxAttempts,
           NEW more, more = EnforceHeadingIds(lines, known)
    PROVE  Attempt(more, known) = more
<1> SUFFICES ASSUME Attempt(more, known) # more PROVE FALSE
  OBVIOUS
<1>1. Sound(more) /\ SameHeadings(lines, more) /\ Cardinality(SpelledOut(more)) >= MaxAttempts
  BY AttemptsProgress DEF Progressed
<1>2. PICK next : next = Attempt(more, known)
  OBVIOUS
<1>3. Sound(next) /\ SameHeadings(more, next)
  BY <1>1, <1>2, AttemptFacts
<1>4. Headings(next) = Headings(lines)
  BY <1>1, <1>3 DEF SameHeadings, Headings, IsHeading
<1>5. Cardinality(SpelledOut(more)) + 1 <= Cardinality(SpelledOut(next))
  BY <1>1, <1>2, AttemptSpells
<1>6. /\ Cardinality(SpelledOut(next)) <= Cardinality(Headings(lines))
      /\ Cardinality(SpelledOut(next)) \in Nat /\ Cardinality(SpelledOut(more)) \in Nat
      /\ Cardinality(Headings(lines)) \in Nat
  BY <1>1, <1>3, <1>4, SpelledIsFinite
<1>7. PICK a \in Nat, b \in Nat, h \in Nat, m \in Nat :
         /\ a = Cardinality(SpelledOut(more)) /\ b = Cardinality(SpelledOut(next))
         /\ h = Cardinality(Headings(lines)) /\ m = MaxAttempts
  BY <1>6, LiveHeadingsAssumption
<1>8. a >= m /\ a + 1 <= b /\ b <= h /\ h <= m
  BY <1>1, <1>5, <1>6, <1>7
<1> QED
  BY <1>7, <1>8

-----------------------------------------------------------------------------
(***************************************************************************)
(* The source that a checkpoint writes.                                    *)
(***************************************************************************)

LEMMA LinesAreSound ==
    ASSUME NEW s \in Seq(Blocks), NEW old \in Seq(Blocks), OwnIds(old),
           NEW lines, lines = Lines(s, old)
    PROVE  /\ Sound(lines) /\ Len(lines) = Len(s) /\ Headings(lines) = Headings(s)
           /\ \A i \in 1 .. Len(s) : lines[i].text = s[i].text
           /\ \A i \in Headings(s) : lines[i].id = Claimed(s, old)[i]
<1> DEFINE c == Claimed(s, old)
<1>1. Claims(s, c)
  BY ClaimedFacts
<1>2. \A i \in 1 .. Len(s) : s[i] \in Blocks /\ s[i].text \in Labels /\ s[i].id \in MaybeId
  <2>1. \A i \in 1 .. Len(s) : s[i] \in Blocks
    OBVIOUS
  <2> QED
    BY <2>1 DEF Blocks
<1>3. \A i \in 1 .. Len(s) : c[i] \in MaybeId
  <2>1. \A i \in 1 .. Len(s) : c[i] = s[i].id \/ c[i] = NoId
    BY DEF Claimed
  <2> HIDE DEF c
  <2> QED
    BY <1>2, <2>1 DEF MaybeId
<1> HIDE DEF c
<1> DEFINE Line(i) == [text |-> s[i].text, id |-> c[i], spelled |-> IF s[i].explicit THEN c[i] ELSE NoId]
<1>4. lines = [i \in 1 .. Len(s) |-> Line(i)]
  BY Zenon DEF Lines, c
<1>5. \A i \in 1 .. Len(s) : /\ Line(i) \in Written /\ Line(i).text = s[i].text /\ Line(i).id = c[i]
                             /\ Line(i).spelled \in {c[i], NoId}
  <2> SUFFICES ASSUME NEW i \in 1 .. Len(s)
               PROVE  /\ Line(i) \in Written /\ Line(i).text = s[i].text /\ Line(i).id = c[i]
                      /\ Line(i).spelled \in {c[i], NoId}
    OBVIOUS
  <2>1. PICK spelled : spelled = IF s[i].explicit THEN c[i] ELSE NoId
    OBVIOUS
  <2>2. spelled \in {c[i], NoId} /\ spelled \in MaybeId
    BY <1>3, <2>1 DEF MaybeId
  <2>3. Line(i) = [text |-> s[i].text, id |-> c[i], spelled |-> spelled]
    BY <2>1
  <2> QED
    BY <1>2, <1>3, <2>2, <2>3 DEF Written
<1> HIDE DEF Line
<1>6. lines \in Seq(Written) /\ Len(lines) = Len(s) /\ \A i \in 1 .. Len(s) : lines[i] = Line(i)
  <2>1. Len(s) \in Nat
    OBVIOUS
  <2> QED
    BY <1>4, <1>5, <2>1
<1>7. \A i \in 1 .. Len(s) : /\ lines[i].text = s[i].text /\ lines[i].id = c[i]
                             /\ lines[i].spelled \in {c[i], NoId}
  BY <1>5, <1>6
<1>8. Headings(lines) = Headings(s) /\ Headings(s) \subseteq 1 .. Len(s)
  BY <1>6, <1>7 DEF Headings, IsHeading
<1>9. Sound(lines)
  BY SMTT(20), <1>1, <1>6, <1>7, <1>8 DEF Sound, OwnWanted, Claims
<1> QED
  BY <1>6, <1>7, <1>8, <1>9 DEF c

\* What the parser makes of the lines.
LEMMA ParsedBlocks ==
    ASSUME NEW lines \in Seq(Written), NEW new, new = Parsed(lines)
    PROVE  /\ new \in Seq(Blocks) /\ Len(new) = Len(lines)
           /\ \A i \in 1 .. Len(lines) : new[i].text = lines[i].text /\ new[i].id = ParsedIds(lines)[i]
<1> DEFINE ids == ParsedIds(lines)
           Block(i) == [text |-> lines[i].text, id |-> ids[i], explicit |-> lines[i].spelled # NoId]
<1>1. \A i \in 1 .. Len(lines) : ids[i] \in MaybeId
  BY ParsedFacts DEF PartIsParsed, IsParsed
<1>2. new = [i \in 1 .. Len(lines) |-> Block(i)]
  BY Zenon DEF Parsed
<1> HIDE DEF ids
<1>3. \A i \in 1 .. Len(lines) : Block(i) \in Blocks /\ Block(i).text = lines[i].text /\ Block(i).id = ids[i]
  <2> SUFFICES ASSUME NEW i \in 1 .. Len(lines)
               PROVE  Block(i) \in Blocks /\ Block(i).text = lines[i].text /\ Block(i).id = ids[i]
    OBVIOUS
  <2>1. lines[i] \in Written
    OBVIOUS
  <2>2. lines[i].text \in Labels /\ ids[i] \in MaybeId /\ (lines[i].spelled # NoId) \in BOOLEAN
    BY <1>1, <2>1 DEF Written
  <2> QED
    BY <2>2 DEF Blocks
<1> HIDE DEF Block
<1>4. Len(lines) \in Nat
  OBVIOUS
<1> QED
  BY <1>2, <1>3, <1>4 DEF ids

\* What a checkpoint writes for any document at all, against a source whose IDs are its
\* headings' own: the blocks in their order and, when no attempt is left to be made, each
\* heading with an ID of its own, and the one it claimed.
LEMMA CheckpointWrites ==
    ASSUME NEW s \in Seq(Blocks), NEW old \in Seq(Blocks), OwnIds(old), Settles(s, old),
           NEW new, new = EditorDocToNoma(s, old)
    PROVE  /\ new \in Seq(Blocks) /\ OnlyHeadingsHaveIds(new) /\ HasIds(new) /\ OwnIds(new)
           /\ OnlyHeadingsHaveIds(s) =>
                 \A i \in Headings(s) : s[i].id # NoId => \E k \in Headings(new) : new[k].id = s[i].id
<1> DEFINE known == KnownIds(s, old)
<1>1. IsFiniteSet(known)
  BY KnownIsFinite
<1>2. PICK first : first = Lines(s, old)
  OBVIOUS
<1>3. /\ Sound(first) /\ Len(first) = Len(s) /\ Headings(first) = Headings(s)
      /\ \A i \in Headings(s) : first[i].id = Claimed(s, old)[i]
  BY <1>2, LinesAreSound
<1>4. PICK lines : lines = Enforced(s, old)
  OBVIOUS
<1>5. lines = EnforceHeadingIds(first, known) /\ Attempt(lines, known) = lines
  BY <1>2, <1>4 DEF Enforced, Settles
<1> HIDE DEF known
<1>6. Sound(lines) /\ SameHeadings(first, lines)
  BY <1>1, <1>3, <1>5, AttemptsProgress DEF Progressed
<1>7. lines \in Seq(Written) /\ OwnWanted(lines)
  BY <1>6 DEF Sound
<1> DEFINE ids == ParsedIds(lines)
           n == Len(lines)
<1>8. PartIsGiven(lines, GivenIds(lines, known), n) /\ PartIsParsed(lines, ids, n)
  BY <1>1, <1>7, GivenFacts, ParsedFacts
<1>9. \A i \in 1 .. n : GivenIds(lines, known)[i] = ids[i]
  BY <1>1, <1>5, <1>6, AttemptFacts
<1>10. /\ \A i \in 1 .. n : IsGiven(lines, i, ids[i], <<>>) /\ IsParsed(lines, i, ids[i])
       /\ \A j, k \in 1 .. n : IsHeading(lines[j]) /\ ids[j] = ids[k] => j = k
  BY <1>8, <1>9 DEF PartIsGiven, PartIsParsed
<1>11. /\ new \in Seq(Blocks) /\ Len(new) = n
       /\ \A i \in 1 .. n : new[i].text = lines[i].text /\ new[i].id = ids[i]
  BY <1>4, <1>7, ParsedBlocks DEF EditorDocToNoma
<1> HIDE DEF ids
<1>12. /\ Headings(new) = Headings(lines) /\ Headings(lines) = Headings(first)
       /\ Headings(new) \subseteq 1 .. n
       /\ \A i \in Headings(new) : IsHeading(lines[i])
       /\ \A i \in 1 .. n : IsHeading(new[i]) <=> IsHeading(lines[i])
  BY <1>6, <1>11 DEF Headings, IsHeading, SameHeadings
<1>13. HasIds(new)
  BY <1>10, <1>11, <1>12 DEF HasIds, IsGiven
<1>14. OwnIds(new)
  BY <1>10, <1>11, <1>12 DEF OwnIds
<1>15. OnlyHeadingsHaveIds(new)
  BY <1>10, <1>11, <1>12 DEF OnlyHeadingsHaveIds, IsGiven
<1>16. ASSUME OnlyHeadingsHaveIds(s), NEW i \in Headings(s), s[i].id # NoId
       PROVE  \E k \in Headings(new) : new[k].id = s[i].id
  <2>1. PICK k \in Headings(s) : Claimed(s, old)[k] = s[i].id
    BY <1>16, EveryIdIsClaimed
  <2>2. k \in Headings(first) /\ first[k].id = s[i].id
    BY <1>3, <2>1
  <2>3. lines[k].id = s[i].id /\ k \in Headings(new) /\ k \in 1 .. n
    BY <1>6, <1>12, <1>16, <2>2 DEF SameHeadings
  <2>4. ids[k] = lines[k].id
    BY <1>10, <1>12, <1>16, <2>3 DEF IsGiven
  <2> QED
    BY <1>11, <2>3, <2>4
<1> QED
  BY <1>11, <1>13, <1>14, <1>15, <1>16

-----------------------------------------------------------------------------
(***************************************************************************)
(* The room.                                                               *)
(***************************************************************************)

\* Blocks of which only headings have IDs.
Nodes == {b \in Blocks : IsHeading(b) \/ b.id = NoId}

\* Every ID of a heading in s is there on a heading in t.
Covers(t, s) == \A i \in Headings(s) : \E j \in Headings(t) : t[j].id = s[i].id

\* Whatever is typed and renamed, the room's blocks are a document; the hub's base is the
\* source, whose headings have IDs, each its own; and these IDs are in the room.
Orderly ==
    /\ doc \in Seq(Nodes) /\ typed \in Seq(Labels)
    /\ source \in Seq(Nodes) /\ base = source
    /\ HasIds(source) /\ OwnIds(source)
    /\ Covers(doc, source)

\* That holds as long as no checkpoint ran out of attempts.
IInv == settled \in BOOLEAN /\ (settled => Orderly)

LEMMA NodesAreBlocks ==
    ASSUME NEW s
    PROVE  s \in Seq(Nodes) <=> s \in Seq(Blocks) /\ OnlyHeadingsHaveIds(s)
<1>1. ASSUME s \in Seq(Nodes) PROVE s \in Seq(Blocks) /\ OnlyHeadingsHaveIds(s)
  <2>1. \A i \in 1 .. Len(s) : s[i] \in Nodes
    BY <1>1
  <2>2. \A i \in 1 .. Len(s) : s[i] \in Blocks /\ (IsHeading(s[i]) \/ s[i].id = NoId)
    BY <2>1 DEF Nodes
  <2>3. s \in Seq(Blocks)
    BY <1>1, <2>2
  <2> QED
    BY <2>2, <2>3 DEF OnlyHeadingsHaveIds
<1>2. ASSUME s \in Seq(Blocks), OnlyHeadingsHaveIds(s) PROVE s \in Seq(Nodes)
  <2>1. \A i \in 1 .. Len(s) : s[i] \in Blocks
    BY <1>2
  <2>2. \A i \in 1 .. Len(s) : s[i] \in Nodes
    BY <1>2, <2>1 DEF Nodes, OnlyHeadingsHaveIds
  <2> QED
    BY <1>2, <2>2
<1> QED
  BY <1>1, <1>2

\* An insertion leaves every element in the sequence.
KeepsAll(s, t) == \A j \in 1 .. Len(s) : \E k \in 1 .. Len(t) : t[k] = s[j]

LEMMA InsertedFacts ==
    ASSUME NEW K, NEW s \in Seq(K), NEW i \in 1 .. Len(s) + 1, NEW e \in K,
           NEW t, t = InsertAt(s, i, e)
    PROVE  t \in Seq(K) /\ KeepsAll(s, t)
<1>1. PICK n \in Nat : n = Len(s)
  OBVIOUS
<1>2. PICK first, last : first = SubSeq(s, 1, i - 1) /\ last = SubSeq(s, i, n)
  OBVIOUS
<1>3. /\ first \in Seq(K) /\ Len(first) = i - 1 /\ \A j \in 1 .. i - 1 : first[j] = s[j]
      /\ last \in Seq(K) /\ Len(last) = n - i + 1 /\ \A j \in 1 .. n - i + 1 : last[j] = s[i + j - 1]
  <2>1. i \in Nat /\ 1 <= i /\ i <= n + 1
    BY <1>1
  <2>2. (\A x \in 1 .. i - 1 : x \in 1 .. n) /\ (\A x \in i .. n : x \in 1 .. n)
    BY <2>1
  <2> QED
    BY <1>1, <1>2, <2>1, <2>2
<1>4. t = (first \o <<e>>) \o last
  BY <1>1, <1>2 DEF InsertAt
<1>5. /\ t \in Seq(K) /\ Len(t) = n + 1
      /\ \A j \in 1 .. i - 1 : t[j] = first[j]
      /\ \A j \in 1 .. n - i + 1 : t[i + j] = last[j]
  BY <1>1, <1>3, <1>4
<1>6. ASSUME NEW j \in 1 .. n PROVE \E k \in 1 .. Len(t) : t[k] = s[j]
  <2>1. CASE j < i
    <3>1. j \in 1 .. i - 1 /\ j \in 1 .. n + 1
      BY <1>1, <2>1
    <3> QED
      BY <1>3, <1>5, <3>1
  <2>2. CASE ~(j < i)
    <3>1. PICK k \in 1 .. n - i + 1 : j = i + k - 1 /\ i + k \in 1 .. n + 1
      <4>1. j - i + 1 \in 1 .. n - i + 1 /\ j = i + (j - i + 1) - 1 /\ i + (j - i + 1) \in 1 .. n + 1
        BY <1>1, <2>2
      <4> QED
        BY <4>1
    <3>2. t[i + k] = last[k] /\ last[k] = s[i + k - 1]
      BY <1>3, <1>5
    <3>3. i + k \in 1 .. Len(t)
      BY <1>5, <3>1
    <3> QED
      BY <3>1, <3>2, <3>3
  <2> QED
    BY <2>1, <2>2
<1> QED
  BY <1>1, <1>5, <1>6 DEF KeepsAll

\* Where a heading stands does not matter to what covers it.
LEMMA CoverFacts ==
    ASSUME NEW s, NEW t, NEW u, Covers(t, s),
           \A j \in Headings(t) : \E k \in 1 .. Len(u) : IsHeading(u[k]) /\ u[k].id = t[j].id
    PROVE  Covers(u, s)
BY DEF Covers, Headings

LEMMA InitIsGood == Init => IInv
<1> SUFFICES ASSUME Init PROVE IInv
  OBVIOUS
<1>1. PICK t \in Titles, p \in Texts : doc = <<Heading(t, Slug[t], FALSE), Paragraph(p)>>
  BY DEF Init
<1>2. base = doc /\ source = doc /\ typed = [i \in 1 .. Len(doc) |-> doc[i].text]
  BY DEF Init
<1>3. t \in Labels /\ p \in Labels /\ p \notin Titles
  BY LiveHeadingsAssumption DEF Labels
<1>9. Slug[t] \in Ids /\ Slug[t] # NoId
  BY LiveHeadingsAssumption DEF Ids
<1>4. Heading(t, Slug[t], FALSE) \in Blocks /\ Paragraph(p) \in Blocks
  BY <1>3, <1>9 DEF Heading, Paragraph, Blocks, MaybeId
<1>5. Heading(t, Slug[t], FALSE) \in Nodes /\ Paragraph(p) \in Nodes
  BY <1>4 DEF Nodes, Heading, Paragraph, IsHeading
<1>6. doc \in Seq(Nodes) /\ Len(doc) = 2
  <2>1. \A x \in Nodes, y \in Nodes : <<x, y>> \in Seq(Nodes) /\ Len(<<x, y>>) = 2
    OBVIOUS
  <2> QED
    BY <1>1, <1>5, <2>1
<1>7. /\ doc[1] = Heading(t, Slug[t], FALSE) /\ doc[1].id = Slug[t]
      /\ doc[2] = Paragraph(p) /\ doc[2].text = p
  BY <1>1 DEF Heading, Paragraph
<1>8. Headings(doc) \subseteq {1}
  <2>1. 2 \notin Headings(doc)
    BY <1>3, <1>7 DEF Headings, IsHeading
  <2>2. Headings(doc) \subseteq {1, 2}
    BY <1>6 DEF Headings
  <2> QED
    BY <2>1, <2>2
<1>10. HasIds(doc) /\ OwnIds(doc)
  BY <1>7, <1>8, <1>9 DEF HasIds, OwnIds
<1>11. typed \in Seq(Labels)
  <2>1. \A i \in 1 .. Len(doc) : doc[i] \in Nodes
    <3>1. ASSUME NEW B, NEW s \in Seq(B) PROVE \A i \in 1 .. Len(s) : s[i] \in B
      OBVIOUS
    <3> QED
      BY <1>6, <3>1, Zenon
  <2>2. \A i \in 1 .. Len(doc) : doc[i].text \in Labels
    BY <2>1 DEF Nodes, Blocks
  <2> QED
    BY <1>2, <1>6, <2>2
<1>12. Covers(doc, doc)
  BY DEF Covers
<1> QED
  BY <1>2, <1>6, <1>10, <1>11, <1>12 DEF IInv, Orderly, Init

\* A block is typed at a place that is in the document and in what was typed.
LEMMA EditIsGood == ASSUME Orderly, Edit PROVE Orderly'
<1>1. PICK i \in 1 .. Min({Len(doc), Len(typed)}) + 1 :
         \/ \E t \in Titles : TypeHeading(i, t)
         \/ \E t \in Texts : TypeParagraph(i, t)
  BY DEF Edit
<1>2. Len(doc) \in Nat /\ Len(typed) \in Nat /\ doc \in Seq(Nodes) /\ typed \in Seq(Labels)
  BY DEF Orderly
<1>3. i \in 1 .. Len(doc) + 1 /\ i \in 1 .. Len(typed) + 1
  BY <1>1, <1>2, SmallerOfTwo
<1>4. PICK t \in Labels, b \in Nodes :
         /\ doc' = InsertAt(doc, i, b) /\ typed' = InsertAt(typed, i, t)
         /\ UNCHANGED <<base, source>>
  <2>1. CASE \E t \in Titles : TypeHeading(i, t)
    <3>1. PICK t \in Titles : TypeHeading(i, t)
      BY <2>1
    <3>2. t \in Labels /\ Heading(t, NoId, FALSE) \in Nodes
      BY DEF Labels, Heading, Blocks, Nodes, MaybeId, IsHeading
    <3> QED
      BY <3>1, <3>2 DEF TypeHeading
  <2>2. CASE \E t \in Texts : TypeParagraph(i, t)
    <3>1. PICK t \in Texts : TypeParagraph(i, t)
      BY <2>2
    <3>2. t \in Labels /\ Paragraph(t) \in Nodes
      BY DEF Labels, Paragraph, Blocks, Nodes, MaybeId, IsHeading
    <3> QED
      BY <3>1, <3>2 DEF TypeParagraph
  <2> QED
    BY <1>1, <2>1, <2>2
<1>5. /\ doc' \in Seq(Nodes) /\ typed' \in Seq(Labels)
      /\ \A j \in 1 .. Len(doc) : \E k \in 1 .. Len(doc') : doc'[k] = doc[j]
  <2>1. PICK d, y : d = InsertAt(doc, i, b) /\ y = InsertAt(typed, i, t)
    OBVIOUS
  <2>2. d \in Seq(Nodes) /\ \A j \in 1 .. Len(doc) : \E k \in 1 .. Len(d) : d[k] = doc[j]
    <3>1. PICK s \in Seq(Nodes) : s = doc
      BY <1>2
    <3>2. i \in 1 .. Len(s) + 1 /\ d = InsertAt(s, i, b)
      BY <1>3, <2>1, <3>1
    <3>3. d \in Seq(Nodes) /\ KeepsAll(s, d)
      BY <3>2, InsertedFacts
    <3> QED
      BY <3>1, <3>3 DEF KeepsAll
  <2>3. y \in Seq(Labels)
    BY <1>2, <1>3, <2>1, InsertedFacts
  <2> QED
    BY <1>4, <2>1, <2>2, <2>3
<1>6. \A j \in Headings(doc) : \E k \in 1 .. Len(doc') : IsHeading(doc'[k]) /\ doc'[k].id = doc[j].id
  BY <1>5 DEF Headings
<1>7. Covers(doc', source)
  BY <1>6, CoverFacts DEF Orderly
<1> QED
  BY <1>4, <1>5, <1>7 DEF Orderly

LEMMA RenameIsGood ==
    ASSUME Orderly, NEW i \in 1 .. Min({Len(doc), Len(typed)}), NEW t \in Titles, Rename(i, t)
    PROVE  Orderly'
<1>1. Len(doc) \in Nat /\ Len(typed) \in Nat /\ doc \in Seq(Nodes) /\ typed \in Seq(Labels)
  BY DEF Orderly
<1>2. i \in 1 .. Len(doc) /\ i \in 1 .. Len(typed)
  BY <1>1, SmallerOfTwo
<1>3. t \in Labels /\ doc[i] \in Nodes
  <2>1. t \in Labels
    BY DEF Labels
  <2> QED
    BY <1>1, <1>2, <2>1
<1>4. PICK b : b = [doc[i] EXCEPT !.text = t]
  OBVIOUS
<1>5. b \in Nodes /\ IsHeading(b) /\ b.id = doc[i].id
  BY <1>3, <1>4 DEF Nodes, Blocks, IsHeading
<1>6. /\ doc' = [doc EXCEPT ![i] = b] /\ typed' = [typed EXCEPT ![i] = t]
      /\ UNCHANGED <<base, source>>
  BY <1>4 DEF Rename
<1>7. \A e \in Nodes : [doc EXCEPT ![i] = e] \in Seq(Nodes)
  BY <1>1, <1>2
<1>8. [typed EXCEPT ![i] = t] \in Seq(Labels)
  BY <1>1, <1>2, <1>3
<1>9. doc' \in Seq(Nodes) /\ typed' \in Seq(Labels)
  BY <1>5, <1>6, <1>7, <1>8
<1>10. Len(doc') = Len(doc) /\ doc'[i] = b /\ \A j \in 1 .. Len(doc) : j # i => doc'[j] = doc[j]
  BY <1>1, <1>2, <1>6
<1>11. \A j \in Headings(doc) : \E k \in 1 .. Len(doc') : IsHeading(doc'[k]) /\ doc'[k].id = doc[j].id
  BY <1>5, <1>10 DEF Headings
<1>12. Covers(doc', source)
  BY <1>11, CoverFacts DEF Orderly
<1> QED
  BY <1>6, <1>9, <1>12 DEF Orderly

\* The old source in the new one: its IDs are in the room, so headings claim them there.
LEMMA CheckpointKeepsIds ==
    ASSUME NEW s \in Seq(Nodes), NEW old \in Seq(Nodes), HasIds(old), OwnIds(old), Covers(s, old),
           Settles(s, old), NEW new, new = EditorDocToNoma(s, old)
    PROVE  /\ new \in Seq(Nodes) /\ HasIds(new) /\ OwnIds(new)
           /\ Covers(new, old)
<1>1. s \in Seq(Blocks) /\ old \in Seq(Blocks) /\ OnlyHeadingsHaveIds(s)
  BY NodesAreBlocks
<1>2. /\ new \in Seq(Blocks) /\ OnlyHeadingsHaveIds(new) /\ HasIds(new) /\ OwnIds(new)
      /\ \A i \in Headings(s) : s[i].id # NoId => \E k \in Headings(new) : new[k].id = s[i].id
  BY <1>1, CheckpointWrites
<1>4. Covers(new, old)
  <2> SUFFICES ASSUME NEW i \in Headings(old) PROVE \E k \in Headings(new) : new[k].id = old[i].id
    BY DEF Covers
  <2>1. PICK j \in Headings(s) : s[j].id = old[i].id
    BY DEF Covers
  <2>2. s[j].id # NoId
    BY <2>1 DEF HasIds
  <2> QED
    BY <1>2, <2>1, <2>2
<1> QED
  BY <1>2, <1>4, NodesAreBlocks

\* What the merge brings back into the room covers what was written: an ID of the written
\* source is old, and then it is in the room, or it is new.
LEMMA MergeKeepsIds ==
    ASSUME NEW s \in Seq(Nodes), NEW old \in Seq(Nodes), OwnIds(old), Covers(s, old),
           NEW new \in Seq(Nodes),
           NEW merged, merged = MergeSourceIntoYFragment(old, new, s)
    PROVE  merged \in Seq(Nodes) /\ Covers(merged, new)
<1>1. merged \in Seq(Nodes)
  <2>1. Blank \in Nodes
    <3>1. "" \in Labels
      BY DEF Labels
    <3> QED
      BY <3>1, BlankAssumption DEF Nodes, Blocks, NoId, MaybeId
  <2> QED
    BY <2>1, MergeIsADocument
<1>2. ASSUME NEW x PROVE (\E i \in Headings(new) : new[i].id = x) => \E j \in Headings(merged) : merged[j].id = x
  <2> SUFFICES ASSUME \E i \in Headings(new) : new[i].id = x
               PROVE  \E j \in Headings(merged) : merged[j].id = x
    OBVIOUS
  <2> DEFINE P == {b \in Nodes : IsHeading(b) /\ b.id = x}
  <2>1. ASSUME NEW t \in Seq(Nodes), NEW i
        PROVE  i \in 1 .. Len(t) /\ t[i] \in P <=> i \in Headings(t) /\ t[i].id = x
    <3>1. i \in 1 .. Len(t) => t[i] \in Nodes
      OBVIOUS
    <3> QED
      BY <3>1 DEF Headings
  <2> HIDE DEF P
  <2>2. OnceAtMost(old, P)
    BY <2>1 DEF OnceAtMost, OwnIds
  <2>3. \E i \in 1 .. Len(new) : new[i] \in P
    BY <2>1
  <2>4. (\E i \in 1 .. Len(old) : old[i] \in P) => \E i \in 1 .. Len(s) : s[i] \in P
    BY <2>1 DEF Covers
  <2>5. \E i \in 1 .. Len(merged) : merged[i] \in P
    BY <2>2, <2>3, <2>4, ClassSurvives
  <2> QED
    BY <1>1, <2>1, <2>5
<1> QED
  BY <1>1, <1>2 DEF Covers

\* IDs are filled in where there is none.
LEMMA BackfillKeepsIds ==
    ASSUME NEW s \in Seq(Nodes), NEW parsed \in Seq(Nodes), HasIds(parsed), Covers(s, parsed),
           NEW filled, filled = EditorIdBackfill(s, parsed)
    PROVE  filled \in Seq(Nodes) /\ Covers(filled, parsed)
<1>1. CASE Len(s) # Len(parsed)
  BY <1>1 DEF EditorIdBackfill
<1>2. CASE Len(s) = Len(parsed)
  <2> DEFINE Filled(i) == IF IsHeading(s[i]) /\ IsHeading(parsed[i]) /\ s[i].id = NoId
                          THEN [s[i] EXCEPT !.id = parsed[i].id] ELSE s[i]
  <2>1. filled = [i \in 1 .. Len(s) |-> Filled(i)]
    BY <1>2 DEF EditorIdBackfill
  <2>2. ASSUME NEW i \in 1 .. Len(s)
        PROVE  /\ Filled(i) \in Nodes /\ (IsHeading(s[i]) => IsHeading(Filled(i)))
               /\ s[i].id # NoId => Filled(i) = s[i]
    <3>1. s[i] \in Nodes /\ parsed[i] \in Nodes
      BY <1>2
    <3>2. CASE IsHeading(s[i]) /\ IsHeading(parsed[i]) /\ s[i].id = NoId
      <4>1. PICK b : b = [s[i] EXCEPT !.id = parsed[i].id]
        OBVIOUS
      <4>2. b \in Nodes /\ IsHeading(b)
        BY <3>1, <3>2, <4>1 DEF Nodes, Blocks, IsHeading
      <4> QED
        BY <3>2, <4>1, <4>2
    <3>3. CASE ~(IsHeading(s[i]) /\ IsHeading(parsed[i]) /\ s[i].id = NoId)
      BY <3>1, <3>3
    <3> QED
      BY <3>2, <3>3
  <2> HIDE DEF Filled
  <2>3. Len(s) \in Nat
    OBVIOUS
  <2>4. filled \in Seq(Nodes) /\ Len(filled) = Len(s) /\ \A i \in 1 .. Len(s) : filled[i] = Filled(i)
    BY <2>1, <2>2, <2>3
  <2>5. Covers(filled, parsed)
    <3> SUFFICES ASSUME NEW i \in Headings(parsed)
                 PROVE  \E j \in Headings(filled) : filled[j].id = parsed[i].id
      BY DEF Covers
    <3>1. PICK j \in Headings(s) : s[j].id = parsed[i].id
      BY DEF Covers
    <3>2. s[j].id # NoId /\ j \in 1 .. Len(s) /\ IsHeading(s[j])
      BY <3>1 DEF HasIds, Headings
    <3>3. filled[j] = s[j]
      BY <2>2, <2>4, <3>2
    <3>4. j \in Headings(filled)
      BY <2>4, <3>2, <3>3 DEF Headings
    <3> QED
      BY <3>1, <3>3, <3>4
  <2> QED
    BY <2>4, <2>5
<1> QED
  BY <1>1, <1>2

LEMMA CheckpointIsGood ==
    ASSUME Orderly, Checkpoint, settled'
    PROVE  Orderly' /\ Covers(source', source)
<1>1. /\ doc \in Seq(Nodes) /\ source \in Seq(Nodes) /\ base = source /\ typed \in Seq(Labels)
      /\ HasIds(source) /\ OwnIds(source) /\ Covers(doc, source)
  BY DEF Orderly
<1>2. PICK written : written = EditorDocToNoma(doc, source)
  OBVIOUS
<1>3. PICK merged : merged = MergeSourceIntoYFragment(source, written, doc)
  OBVIOUS
<1>4. PICK filled : filled = EditorIdBackfill(merged, written)
  OBVIOUS
<1>5. /\ source' = written /\ base' = written /\ typed' = typed /\ doc' = filled
      /\ Settles(doc, source)
  BY <1>1, <1>2, <1>3, <1>4 DEF Checkpoint
<1>6. written \in Seq(Nodes) /\ HasIds(written) /\ OwnIds(written) /\ Covers(written, source)
  BY <1>1, <1>2, <1>5, CheckpointKeepsIds
<1>7. merged \in Seq(Nodes) /\ Covers(merged, written)
  BY <1>1, <1>3, <1>6, MergeKeepsIds
<1>8. filled \in Seq(Nodes) /\ Covers(filled, written)
  BY <1>4, <1>6, <1>7, BackfillKeepsIds
<1> QED
  BY <1>1, <1>5, <1>6, <1>8 DEF Orderly, HasIds, OwnIds, Covers, Headings, IsHeading

LEMMA NextIsGood ==
    ASSUME IInv, [Next]_vars
    PROVE  IInv' /\ (settled' => settled /\ Covers(source', source))
<1>1. source' = source => Covers(source', source)
  BY DEF Covers
<1>2. CASE Edit
  <2>1. source' = source /\ settled' = settled
    BY <1>2 DEF Edit, TypeHeading, TypeParagraph
  <2>2. Orderly => Orderly'
    BY <1>2, EditIsGood
  <2> QED
    BY <1>1, <2>1, <2>2 DEF IInv
<1>3. CASE \E i \in 1 .. Min({Len(doc), Len(typed)}), t \in Titles : Rename(i, t)
  <2>1. source' = source /\ settled' = settled
    BY <1>3 DEF Rename
  <2>2. Orderly => Orderly'
    BY <1>3, RenameIsGood
  <2> QED
    BY <1>1, <2>1, <2>2 DEF IInv
<1>4. CASE Checkpoint
  <2>1. settled' = (settled /\ Settles(doc, base))
    BY <1>4 DEF Checkpoint
  <2>2. settled' \in BOOLEAN /\ (settled' => settled)
    BY <2>1
  <2>3. ASSUME settled' PROVE Orderly' /\ Covers(source', source)
    <3>1. Orderly
      BY <2>2, <2>3 DEF IInv
    <3> QED
      BY <1>4, <2>3, <3>1, CheckpointIsGood
  <2> QED
    BY <2>2, <2>3 DEF IInv
<1>5. CASE UNCHANGED vars
  BY SMTT(20), <1>1, <1>5 DEF vars, IInv, Orderly, HasIds, OwnIds, Covers, Headings, IsHeading
<1> QED
  BY <1>2, <1>3, <1>4, <1>5 DEF Next

\* Whatever is typed, as long as no checkpoint ran out of attempts the room holds a document
\* with the IDs of its source, which are unique.
THEOREM Invariant == Spec => []IInv
<1>1. IInv /\ [Next]_vars => IInv'
  BY NextIsGood
<1> QED
  BY <1>1, InitIsGood, PTL DEF Spec

\* As long as no checkpoint ran out of attempts none gives two headings one ID: whatever was
\* typed again, renamed, or duplicated by an earlier merge, and whatever IDs the parser makes
\* of the titles, editorDocToNoma writes every heading with an ID that no other one has.
THEOREM IdsAreUnique == Spec => []HeadingIdsAreUnique
<1>1. IInv => HeadingIdsAreUnique
  BY DEF IInv, Orderly, OwnIds, HeadingIdsAreUnique
<1> QED
  BY <1>1, Invariant, PTL

\* An ID that a checkpoint published is in every later source, as long as none ran out of
\* attempts: the room never loses it, although the merge may drop or repeat the block that has
\* it, and whoever has it claims it.
THEOREM IdsStay == Spec => StableIdsStay
<1>1. IInv /\ [Next]_vars =>
         [settled' => \A i \in Headings(source) : \E j \in 1 .. Len(source') : source'[j].id = source[i].id]_vars
  <2> SUFFICES ASSUME IInv, [Next]_vars, settled', NEW i \in Headings(source)
               PROVE  \E j \in 1 .. Len(source') : source'[j].id = source[i].id
    OBVIOUS
  <2>1. PICK j \in Headings(source') : source'[j].id = source[i].id
    BY NextIsGood DEF Covers
  <2>2. j \in 1 .. Len(source')
    BY DEF Headings
  <2> QED
    BY <2>1, <2>2
<1> QED
  BY <1>1, Invariant, PTL DEF Spec, StableIdsStay

\* A checkpoint runs out of attempts only when the room has more headings than there are
\* attempts: each attempt that changes anything spells out the ID of one more of them.
THEOREM FewHeadingsSettle ==
    Spec => [][ settled /\ Cardinality(Headings(doc)) <= MaxAttempts => settled' ]_vars
<1>1. ASSUME IInv, Checkpoint, settled, Cardinality(Headings(doc)) <= MaxAttempts PROVE settled'
  <2>1. doc \in Seq(Nodes) /\ base \in Seq(Nodes) /\ base = source /\ OwnIds(source)
    BY <1>1 DEF IInv, Orderly
  <2>2. doc \in Seq(Blocks) /\ base \in Seq(Blocks) /\ OwnIds(base)
    BY <2>1, NodesAreBlocks
  <2>3. PICK s, old : s = doc /\ old = base
    OBVIOUS
  <2>4. PICK lines, known, more :
           /\ lines = Lines(s, old) /\ known = KnownIds(s, old)
           /\ more = EnforceHeadingIds(lines, known)
    OBVIOUS
  <2>5. Sound(lines) /\ Headings(lines) = Headings(s) /\ IsFiniteSet(known)
    BY <2>2, <2>3, <2>4, LinesAreSound, KnownIsFinite
  <2>6. Attempt(more, known) = more
    BY <1>1, <2>3, <2>4, <2>5, FewSettle
  <2>7. Settles(s, old)
    BY <2>4, <2>6 DEF Settles, Enforced
  <2> QED
    BY <1>1, <2>3, <2>7 DEF Checkpoint
<1>2. IInv /\ [Next]_vars => [settled /\ Cardinality(Headings(doc)) <= MaxAttempts => settled']_vars
  <2> SUFFICES ASSUME IInv, Next, settled, Cardinality(Headings(doc)) <= MaxAttempts PROVE settled'
    OBVIOUS
  <2>1. CASE Edit
    BY <2>1 DEF Edit, TypeHeading, TypeParagraph
  <2>2. CASE \E i \in 1 .. Min({Len(doc), Len(typed)}), t \in Titles : Rename(i, t)
    BY <2>2 DEF Rename
  <2>3. CASE Checkpoint
    BY <1>1, <2>3
  <2> QED
    BY <2>1, <2>2, <2>3 DEF Next
<1> QED
  BY <1>2, Invariant, PTL DEF Spec
=============================================================================
