-------------------------- MODULE LiveMerge_proofs --------------------------
(***************************************************************************)
(* Proofs about LiveMerge: what the block merge promises, for every three  *)
(* documents a page can reach.  The facts about lcsPairs, planBlockMerge   *)
(* and the splice are in module BlockMerge_proofs.                         *)
(***************************************************************************)
EXTENDS LiveMerge, BlockMerge_proofs

-----------------------------------------------------------------------------
(***************************************************************************)
(* The three sources of a page are documents.                              *)
(***************************************************************************)

LEMMA DocumentFacts ==
    \A s : s \in Documents <=> s \in Seq(Keys) /\ s # <<>> /\ Len(s) <= MaxLen
<1>1. MaxLen \in Nat
  BY KeysAssumption
<1>2. ASSUME NEW s \in Documents PROVE s \in Seq(Keys) /\ s # <<>> /\ Len(s) <= MaxLen
  <2>1. PICK m \in 0 .. MaxLen : s \in [1 .. m -> Keys]
    BY DEF Documents, BoundedSeq, SeqOf
  <2>2. s \in Seq(Keys) /\ Len(s) = m
    BY <2>1
  <2> QED
    BY <1>1, <2>1, <2>2 DEF Documents
<1>3. ASSUME NEW s, s \in Seq(Keys), s # <<>>, Len(s) <= MaxLen PROVE s \in Documents
  <2>1. Len(s) \in 0 .. MaxLen /\ s \in [1 .. Len(s) -> Keys]
    BY <1>1, <1>3
  <2>2. s \in UNION {[1 .. m -> Keys] : m \in 0 .. MaxLen}
    BY <2>1
  <2> QED
    BY <1>3, <2>2 DEF Documents, BoundedSeq, SeqOf
<1> QED
  BY <1>2, <1>3

Typed == base \in Documents /\ theirs \in Documents /\ current \in Documents

\* Every way a page is written leaves three documents: the record's, the live one and
\* the one they last had in common (mergeSourceIntoYFragment included, whatever it is
\* given).
THEOREM SourcesAreDocuments == Spec => []Typed
<1>1. Init => Typed
  <2> SUFFICES ASSUME Init PROVE Typed
    OBVIOUS
  <2>1. <<Blank>> \in Seq(Keys) /\ <<Blank>> # <<>> /\ Len(<<Blank>>) <= MaxLen
    BY KeysAssumption
  <2>2. <<Blank>> \in Documents
    BY <2>1, DocumentFacts
  <2> QED
    BY <2>2 DEF Init, Typed
<1>2. Typed /\ [Next]_vars => Typed'
  <2> SUFFICES ASSUME Typed, [Next]_vars PROVE Typed'
    OBVIOUS
  <2>1. CASE WriteSource
    BY <2>1 DEF Typed, WriteSource, Edits
  <2>2. CASE Checkpoint
    BY <2>2 DEF Typed, Checkpoint
  <2>3. CASE EditLive
    BY <2>3 DEF Typed, EditLive, Edits
  <2>4. CASE MergeExternal
    <3>1. base \in Seq(Keys) /\ theirs \in Seq(Keys) /\ current \in Seq(Keys) /\ Blank \in Keys
      BY DocumentFacts, KeysAssumption DEF Typed
    <3>2. Merged \in Seq(Keys) /\ Merged # <<>>
      BY <3>1, MergeIsADocument DEF Merged
    <3>3. current' = Merged /\ Len(current') <= MaxLen /\ base' = theirs /\ theirs' = theirs
      BY <2>4 DEF MergeExternal
    <3>4. current' \in Documents
      BY <3>2, <3>3, DocumentFacts
    <3> QED
      BY <3>3, <3>4 DEF Typed
  <2>5. CASE UNCHANGED vars
    BY <2>5 DEF Typed, vars
  <2> QED
    BY <2>1, <2>2, <2>3, <2>4, <2>5 DEF Next
<1> QED
  BY <1>1, <1>2, PTL DEF Spec

LEMMA TypedFacts ==
    ASSUME Typed
    PROVE  /\ base \in Seq(Keys) /\ theirs \in Seq(Keys) /\ current \in Seq(Keys)
           /\ base # <<>> /\ theirs # <<>> /\ current # <<>>
BY DocumentFacts DEF Typed

-----------------------------------------------------------------------------
(***************************************************************************)
(* What the merge promises.                                                *)
(***************************************************************************)

\* lcsPairs, whose parts are the common prefix, the common suffix and between them a
\* table walk or the keys that occur once, gives pairs that go forward on both sides;
\* and no common subsequence is longer, when the middle fits the table.
THEOREM LongestCommonSubsequence == Spec => []LcsIsLongest
<1>1. Typed => LcsIsLongest
  <2> SUFFICES ASSUME Typed PROVE LcsIsLongest
    OBVIOUS
  <2> DEFINE p == CommonPrefix(theirs, current)
             s == CommonSuffix(theirs, current, p)
             pairs == LcsPairs(theirs, current)
  <2>1. theirs \in Seq(Keys) /\ current \in Seq(Keys)
    BY TypedFacts
  <2>2. Alignment(pairs, theirs, current)
    BY <2>1, LcsAligns
  <2>3. ASSUME (Len(theirs) - p - s) * (Len(current) - p - s) <= MaxCells,
               NEW others \in SUBSET ((1 .. Len(theirs)) \X (1 .. Len(current))),
               Alignment(others, theirs, current)
        PROVE  Cardinality(others) <= Cardinality(pairs)
    <3>1. FitsTable(theirs, current)
      <4>1. p = Pre(theirs, current) /\ s = Suf(theirs, current)
        BY DEF Pre, Suf
      <4> DEFINE x == Len(theirs)
                 y == Len(current)
      <4>2. p \in Nat /\ s \in Nat /\ x \in Nat /\ y \in Nat
        BY <2>1, <4>1, PrefixFacts, SuffixFacts
      <4>3. x - p - s = x - s - p /\ y - p - s = y - s - p
        <5> HIDE DEF x, y, p, s
        <5> QED
          BY <4>2
      <4> QED
        BY <2>3, <4>1, <4>3, Zenon DEF FitsTable
    <3>2. others \in SUBSET Pairs(theirs, current)
      BY DEF Pairs
    <3> QED
      BY <2>1, <2>3, <3>1, <3>2, LcsIsLongestOf
  <2> QED
    BY <2>2, <2>3 DEF LcsIsLongest
<1> QED
  BY <1>1, SourcesAreDocuments, PTL

\* mergeSourceIntoYFragment deletes the blocks the plan does not keep, the last first, and
\* then inserts the new ones at running positions: what is left is the plan's blocks in
\* the plan's order, and a paragraph when there are none.
THEOREM SpliceWritesThePlan == Spec => []SpliceFollowsPlan
<1>1. Typed => SpliceFollowsPlan
  <2> SUFFICES ASSUME Typed PROVE SpliceFollowsPlan
    OBVIOUS
  <2> DEFINE steps == PlanBlockMerge(base, theirs, current)
  <2>1. base \in Seq(Keys) /\ theirs \in Seq(Keys) /\ current \in Seq(Keys)
    BY TypedFacts
  <2>2. Merged = NeverEmpty(Said(theirs, current, steps))
    BY <2>1, SpliceSays DEF Merged
  <2> QED
    BY <2>2, Zenon DEF SpliceFollowsPlan, Said, NeverEmpty
<1> QED
  BY <1>1, SourcesAreDocuments, PTL

-----------------------------------------------------------------------------
(***************************************************************************)
(* What both sides wrote survives.                                         *)
(***************************************************************************)

\* In the first f[2] blocks of theirs and f[3] live ones, nothing that is new is lost.
LiveIsKept(f, steps) ==
    \A i \in 1 .. f[3] : current[i] \notin ToSet(base) => Keep(i) \in ToSet(steps)

TheirsIsTaken(f, steps) ==
    \A j \in 1 .. f[2] : theirs[j] \notin ToSet(base) =>
       \/ Insert(j) \in ToSet(steps)
       \/ \E i \in 1 .. f[3] : current[i] = theirs[j] /\ Keep(i) \in ToSet(steps)

LEMMA PlanElements ==
    ASSUME Typed, NEW steps, NEW from, NEW to, OpenGap(base, theirs, current, from, to),
           Within(steps, 0, 0, from[2], from[3])
    PROVE  ToSet(steps \o Gap(base, theirs, current, from, to))
             = ToSet(steps) \cup ToSet(Gap(base, theirs, current, from, to))
<1>1. base \in Seq(Keys) /\ theirs \in Seq(Keys) /\ current \in Seq(Keys)
  BY TypedFacts
<1> DEFINE gap == Gap(base, theirs, current, from, to)
<1>2. Within(gap, from[2], from[3], to[2] - 1, to[3] - 1)
  BY <1>1, GapElements
<1>3. steps \in Seq(Steps) /\ gap \in Seq(Steps)
  BY <1>2 DEF Within
<1> HIDE DEF gap
<1>4. ToSet(steps \o gap) = ToSet(steps) \cup ToSet(gap)
  BY <1>3, JoinedElements
<1> QED
  BY <1>4 DEF gap

\* The same inside one region.
LEMMA RegionSurvives ==
    ASSUME Typed, NEW from, NEW to, OpenGap(base, theirs, current, from, to)
    PROVE  /\ \A i \in from[3] + 1 .. to[3] - 1 :
                 current[i] \notin ToSet(base) => Keep(i) \in ToSet(Gap(base, theirs, current, from, to))
           /\ \A j \in from[2] + 1 .. to[2] - 1 : theirs[j] \notin ToSet(base) =>
                 \/ Insert(j) \in ToSet(Gap(base, theirs, current, from, to))
                 \/ \E i \in from[3] + 1 .. to[3] - 1 :
                       /\ current[i] = theirs[j]
                       /\ Keep(i) \in ToSet(Gap(base, theirs, current, from, to))
<1> DEFINE gap == Gap(base, theirs, current, from, to)
           B == Seg(base, from[1], to[1])
           T == Seg(theirs, from[2], to[2])
           C == Seg(current, from[3], to[3])
<1>1. base \in Seq(Keys) /\ theirs \in Seq(Keys) /\ current \in Seq(Keys)
  BY TypedFacts
<1>2. PICK f1 \in Nat, f2 \in Nat, f3 \in Nat, t1 \in Nat, t2 \in Nat, t3 \in Nat :
         /\ f1 = from[1] /\ f2 = from[2] /\ f3 = from[3] /\ t1 = to[1] /\ t2 = to[2] /\ t3 = to[3]
         /\ f1 < t1 /\ f2 < t2 /\ f3 < t3
         /\ t1 <= Len(base) + 1 /\ t2 <= Len(theirs) + 1 /\ t3 <= Len(current) + 1
  BY DEF OpenGap
<1>3. /\ ToSet(B) = {base[i] : i \in f1 + 1 .. t1 - 1}
      /\ ToSet(T) = {theirs[i] : i \in f2 + 1 .. t2 - 1}
      /\ ToSet(C) = {current[i] : i \in f3 + 1 .. t3 - 1}
  <2>1. B = Seg(base, f1, t1) /\ T = Seg(theirs, f2, t2) /\ C = Seg(current, f3, t3)
    BY <1>2
  <2> HIDE DEF B, T, C, gap
  <2>2. ToSet(Seg(base, f1, t1)) = SegOf(base, f1, t1)
    BY <1>1, <1>2, SegElementsOf
  <2>3. ToSet(Seg(theirs, f2, t2)) = SegOf(theirs, f2, t2)
    BY <1>1, <1>2, SegElementsOf
  <2>4. ToSet(Seg(current, f3, t3)) = SegOf(current, f3, t3)
    BY <1>1, <1>2, SegElementsOf
  <2> QED
    BY <2>1, <2>2, <2>3, <2>4, Zenon DEF SegOf
<1>4. ToSet(B) \subseteq ToSet(base)
  <2>1. ASSUME NEW i \in f1 + 1 .. t1 - 1 PROVE base[i] \in ToSet(base)
    <3>1. i \in 1 .. Len(base)
      <4>1. Len(base) \in Nat /\ f1 \in Nat /\ t1 \in Nat /\ t1 <= Len(base) + 1
        BY <1>1, <1>2
      <4> QED
        BY <4>1
    <3> QED
      BY <1>1, <3>1, ElementsOf
  <2> QED
    BY <1>3, <2>1
<1>5. \A i \in Nat : /\ Keep(i) \in ToSet(gap) <=> GapKeeps(base, theirs, current, from, to, i)
                     /\ Insert(i) \in ToSet(gap) <=> GapInserts(base, theirs, current, from, to, i)
  BY <1>1, GapElements
<1>6. /\ \A i \in f3 + 1 .. t3 - 1 : i \in Nat /\ f3 < i /\ i < t3 /\ current[i] \in ToSet(C)
      /\ \A j \in f2 + 1 .. t2 - 1 : j \in Nat /\ f2 < j /\ j < t2 /\ theirs[j] \in ToSet(T)
  <2>1. ASSUME NEW f \in Nat, NEW t \in Nat, NEW i \in f + 1 .. t - 1 PROVE i \in Nat /\ f < i /\ i < t
    OBVIOUS
  <2> HIDE DEF T, C
  <2> QED
    BY <1>2, <1>3, <2>1
<1>7. \A i \in f3 + 1 .. t3 - 1 :
         T \in {B, C} \/ (B # C /\ current[i] \notin ToSet(B)) => Keep(i) \in ToSet(gap)
  BY <1>2, <1>5, <1>6 DEF GapKeeps
<1>8. \A j \in f2 + 1 .. t2 - 1 :
         T \notin {B, C} /\ (B = C \/ theirs[j] \notin ToSet(B) \cup ToSet(C)) => Insert(j) \in ToSet(gap)
  BY <1>2, <1>5, <1>6 DEF GapInserts
<1>9. \A e \in ToSet(C) : \E i \in f3 + 1 .. t3 - 1 : current[i] = e
  BY <1>3
<1> HIDE DEF gap, B, T, C
<1>10. \A i \in f3 + 1 .. t3 - 1 : current[i] \notin ToSet(base) => Keep(i) \in ToSet(gap)
  BY <1>4, <1>6, <1>7
<1>11. ASSUME NEW j \in f2 + 1 .. t2 - 1, theirs[j] \notin ToSet(base)
       PROVE  \/ Insert(j) \in ToSet(gap)
              \/ \E i \in f3 + 1 .. t3 - 1 : current[i] = theirs[j] /\ Keep(i) \in ToSet(gap)
  <2>1. T # B
    BY <1>4, <1>6, <1>11
  <2>2. CASE theirs[j] \in ToSet(C)
    <3>1. PICK i \in f3 + 1 .. t3 - 1 : current[i] = theirs[j]
      BY <1>9, <2>2
    <3> QED
      BY <1>10, <1>11, <3>1
  <2>3. CASE theirs[j] \notin ToSet(C)
    <3>1. T # C
      BY <1>6, <2>3
    <3> QED
      BY <1>4, <1>8, <1>11, <2>1, <2>3, <3>1
  <2> QED
    BY <2>2, <2>3
<1> QED
  BY <1>2, <1>10, <1>11 DEF gap

\* What is up to e, when a region that starts after f ends before t or with it.
Reaches(f, t, e) ==
    /\ \A i \in 1 .. e : i \in 1 .. f \/ i \in f + 1 .. t - 1 \/ (i = t /\ e = t)
    /\ \A i \in 1 .. f : i \in 1 .. e
    /\ \A i \in f + 1 .. t - 1 : i \in 1 .. e

LEMMA Reach ==
    ASSUME NEW f \in Nat, NEW t \in Nat, f < t, NEW e \in Nat, e \in {t - 1, t}
    PROVE  Reaches(f, t, e)
BY DEF Reaches

\* ... and in the plan up to the end of a region, or up to and with the next anchor.
LEMMA SurvivesOn ==
    ASSUME Typed, NEW steps, NEW from, NEW to, OpenGap(base, theirs, current, from, to),
           LiveIsKept(from, steps), TheirsIsTaken(from, steps),
           NEW m \in Nat, NEW n \in Nat, m \in {to[2] - 1, to[2]}, n \in {to[3] - 1, to[3]},
           m = to[2] => to[2] \in 1 .. Len(theirs) /\ theirs[to[2]] \in ToSet(base),
           NEW next, ToSet(steps) \cup ToSet(Gap(base, theirs, current, from, to)) \subseteq ToSet(next),
           n = to[3] => Keep(to[3]) \in ToSet(next)
    PROVE  LiveIsKept(<<0, m, n>>, next) /\ TheirsIsTaken(<<0, m, n>>, next)
<1> DEFINE gap == Gap(base, theirs, current, from, to)
<1>1. PICK f2 \in Nat, f3 \in Nat, t2 \in Nat, t3 \in Nat :
         /\ f2 = from[2] /\ f3 = from[3] /\ t2 = to[2] /\ t3 = to[3] /\ f2 < t2 /\ f3 < t3
  BY DEF OpenGap
<1>2. /\ \A i \in f3 + 1 .. t3 - 1 : current[i] \notin ToSet(base) => Keep(i) \in ToSet(gap)
      /\ \A j \in f2 + 1 .. t2 - 1 : theirs[j] \notin ToSet(base) =>
            \/ Insert(j) \in ToSet(gap)
            \/ \E i \in f3 + 1 .. t3 - 1 : current[i] = theirs[j] /\ Keep(i) \in ToSet(gap)
  BY <1>1, RegionSurvives
<1>3. ToSet(steps) \subseteq ToSet(next) /\ ToSet(gap) \subseteq ToSet(next)
  OBVIOUS
<1>4. /\ \A i \in 1 .. n : i \in 1 .. f3 \/ i \in f3 + 1 .. t3 - 1 \/ (i = t3 /\ n = t3)
      /\ \A j \in 1 .. m : j \in 1 .. f2 \/ j \in f2 + 1 .. t2 - 1 \/ (j = t2 /\ m = t2)
      /\ \A i \in 1 .. f3 : i \in 1 .. n
      /\ \A i \in f3 + 1 .. t3 - 1 : i \in 1 .. n
  <2>1. m \in {t2 - 1, t2} /\ n \in {t3 - 1, t3}
    BY <1>1
  <2>2. Reaches(f2, t2, m) /\ Reaches(f3, t3, n)
    BY <1>1, <2>1, Reach
  <2> HIDE DEF gap
  <2> QED
    BY <2>2, Zenon DEF Reaches
<1> HIDE DEF gap
<1>5. LiveIsKept(<<0, m, n>>, next)
  <2> SUFFICES ASSUME NEW i \in 1 .. n, current[i] \notin ToSet(base) PROVE Keep(i) \in ToSet(next)
    BY DEF LiveIsKept
  <2>1. CASE i \in 1 .. f3
    BY <1>1, <1>3, <2>1 DEF LiveIsKept
  <2>2. CASE i \in f3 + 1 .. t3 - 1
    BY <1>2, <1>3, <2>2
  <2>3. CASE i = t3 /\ n = t3
    BY <1>1, <2>3
  <2> QED
    BY <1>4, <2>1, <2>2, <2>3
<1>6. TheirsIsTaken(<<0, m, n>>, next)
  <2> SUFFICES ASSUME NEW j \in 1 .. m, theirs[j] \notin ToSet(base)
               PROVE  \/ Insert(j) \in ToSet(next)
                      \/ \E i \in 1 .. n : current[i] = theirs[j] /\ Keep(i) \in ToSet(next)
    BY DEF TheirsIsTaken
  <2>1. CASE j \in 1 .. f2
    <3>1. \/ Insert(j) \in ToSet(steps)
          \/ \E i \in 1 .. f3 : current[i] = theirs[j] /\ Keep(i) \in ToSet(steps)
      BY <1>1, <2>1 DEF TheirsIsTaken
    <3> QED
      BY <1>3, <1>4, <3>1
  <2>2. CASE j \in f2 + 1 .. t2 - 1
    <3>1. \/ Insert(j) \in ToSet(gap)
          \/ \E i \in f3 + 1 .. t3 - 1 : current[i] = theirs[j] /\ Keep(i) \in ToSet(gap)
      BY <1>2, <2>2
    <3> QED
      BY <1>3, <1>4, <3>1
  <2>3. CASE j = t2 /\ m = t2
    BY <1>1, <2>3
  <2> QED
    BY <1>4, <2>1, <2>2, <2>3
<1> QED
  BY <1>5, <1>6

\* So it holds of every part of the plan, and of the whole.
LEMMA PlanSurvives ==
    ASSUME Typed
    PROVE  LET steps == PlanBlockMerge(base, theirs, current)
               ends == <<0, Len(theirs), Len(current)>>
           IN  LiveIsKept(ends, steps) /\ TheirsIsTaken(ends, steps)
<1> DEFINE n == Len(base)
           plan == PlanTo(base, theirs, current)
           Fits(p) == LiveIsKept(p.from, p.steps) /\ TheirsIsTaken(p.from, p.steps)
           T == {b \in 0 .. n : Fits(plan[b])}
<1>1. /\ base \in Seq(Keys) /\ theirs \in Seq(Keys) /\ current \in Seq(Keys)
      /\ n \in Nat /\ Len(theirs) \in Nat /\ Len(current) \in Nat
  BY TypedFacts
<1>2. /\ plan[0] = StartPlan
      /\ \A b \in 1 .. n : plan[b] = PlanStep(base, theirs, current, b, plan[b - 1])
      /\ \A b \in 0 .. n : PlanFits(base, theirs, current, b, plan[b])
  BY <1>1, PlanRecursion DEF PlanGrows
<1> HIDE DEF plan
<1>3. 0 \in T
  <2>1. Fits(StartPlan)
    BY DEF StartPlan, LiveIsKept, TheirsIsTaken
  <2> HIDE DEF Fits
  <2> QED
    BY <1>1, <1>2, <2>1
<1>4. ASSUME NEW b \in 1 .. n, b - 1 \in T PROVE b \in T
  <2> DEFINE prev == plan[b - 1]
             from == prev.from
             to == AnchorOf(base, theirs, current, b)
             next == prev.steps \o Gap(base, theirs, current, from, to) \o <<Keep(to[3])>>
  <2>1. b \in 0 .. n /\ b - 1 \in 0 .. n /\ b \in Nat
    BY <1>1
  <2>2. PlanFits(base, theirs, current, b - 1, prev) /\ plan[b] = PlanStep(base, theirs, current, b, prev)
    BY <1>2, <2>1
  <2>3. Fits(prev)
    BY <1>4
  <2>4. CASE IsAnchor(base, theirs, current, b, from)
    <3>1. /\ AtAnchor(base, theirs, current, from) /\ from[1] < b
          /\ Within(prev.steps, 0, 0, from[2], from[3])
      <4>1. /\ AtAnchor(base, theirs, current, from) /\ from[1] <= b - 1 /\ from[1] \in Nat
            /\ Within(prev.steps, 0, 0, from[2], from[3])
        BY <2>2 DEF PlanFits, AtAnchor
      <4> QED
        BY <2>1, <4>1
    <3>2. /\ OpenGap(base, theirs, current, from, to) /\ AtAnchor(base, theirs, current, to)
          /\ to[2] \in 1 .. Len(theirs) /\ to[3] \in 1 .. Len(current)
      <4> HIDE DEF prev
      <4> QED
        BY <1>1, <2>1, <2>4, <3>1, AnchorOpens
    <3>3. theirs[to[2]] \in ToSet(base)
      <4>1. \E i \in 1 .. Len(base) : theirs[to[2]] = base[i]
        <5> HIDE DEF to
        <5> QED
          BY <1>1, <3>2 DEF AtAnchor
      <4> QED
        BY <1>1, <4>1, ElementsOf
    <3>4. ToSet(next) = ToSet(prev.steps) \cup ToSet(Gap(base, theirs, current, from, to)) \cup {Keep(to[3])}
      <4> HIDE DEF to, prev
      <4> QED
        BY <1>1, <3>1, <3>2, PlanExtends
    <3>5. LiveIsKept(<<0, to[2], to[3]>>, next) /\ TheirsIsTaken(<<0, to[2], to[3]>>, next)
      <4>1. to[2] \in Nat /\ to[3] \in Nat
        BY <3>2 DEF AtAnchor
      <4>2. LiveIsKept(from, prev.steps) /\ TheirsIsTaken(from, prev.steps)
        BY <2>3
      <4> DEFINE steps == prev.steps
                 u == to[2]
                 v == to[3]
      <4>3. /\ ToSet(steps) \cup ToSet(Gap(base, theirs, current, from, to)) \subseteq ToSet(next)
            /\ Keep(to[3]) \in ToSet(next)
        BY <3>4
      <4>4. u \in Nat /\ v \in Nat /\ u \in {to[2] - 1, to[2]} /\ v \in {to[3] - 1, to[3]}
        BY <4>1
      <4>5. u = to[2] => to[2] \in 1 .. Len(theirs) /\ theirs[to[2]] \in ToSet(base)
        BY <3>2, <3>3
      <4>6. v = to[3] => Keep(to[3]) \in ToSet(next)
        BY <4>3
      <4>7. LiveIsKept(from, steps) /\ TheirsIsTaken(from, steps)
        BY <4>2
      <4> HIDE DEF from, to, next, steps, u, v
      <4>8. LiveIsKept(<<0, u, v>>, next) /\ TheirsIsTaken(<<0, u, v>>, next)
        BY <3>2, <4>3, <4>4, <4>5, <4>6, <4>7, SurvivesOn
      <4> QED
        BY <4>8 DEF u, v
    <3>6. plan[b].from = to /\ plan[b].steps = next
      <4>1. plan[b] = [from |-> to, steps |-> next]
        BY <2>2, <2>4, Zenon DEF PlanStep
      <4> HIDE DEF to, next
      <4> QED
        BY <4>1
    <3> HIDE DEF to, next
    <3>7. LiveIsKept(plan[b].from, plan[b].steps) /\ TheirsIsTaken(plan[b].from, plan[b].steps)
      BY <3>5, <3>6 DEF LiveIsKept, TheirsIsTaken
    <3> QED
      BY <2>1, <3>7
  <2>5. CASE ~IsAnchor(base, theirs, current, b, from)
    <3>1. plan[b] = prev
      BY <2>2, <2>5 DEF PlanStep
    <3> HIDE DEF Fits
    <3> QED
      BY <2>1, <2>3, <3>1
  <2> QED
    BY <2>4, <2>5
<1>5. Fits(plan[n])
  <2>1. \A b \in 0 .. n : b \in T
    <3> HIDE DEF T, n
    <3> QED
      BY <1>1, <1>3, <1>4, InductionTo
  <2> HIDE DEF Fits
  <2> QED
    BY <1>1, <2>1
<1> DEFINE from == plan[n].from
           steps == plan[n].steps
           to == EndOf(base, theirs, current)
           whole == steps \o Gap(base, theirs, current, from, to)
<1>6. PlanBlockMerge(base, theirs, current) = whole
  BY Zenon DEF PlanBlockMerge, EndOf, plan
<1>7. AtAnchor(base, theirs, current, from) /\ Within(steps, 0, 0, from[2], from[3])
  <2>1. PlanFits(base, theirs, current, n, plan[n])
    BY <1>1, <1>2
  <2> QED
    BY <2>1 DEF PlanFits
<1>8. LiveIsKept(from, steps) /\ TheirsIsTaken(from, steps)
  BY <1>5
<1>9. to[2] - 1 = Len(theirs) /\ to[3] - 1 = Len(current) /\ to[2] # Len(theirs) /\ to[3] # Len(current)
  BY <1>1 DEF EndOf
<1> HIDE DEF from, steps, to
<1>10. OpenGap(base, theirs, current, from, to)
  BY <1>1, <1>7, PlanEnds DEF to
<1>11. ToSet(whole) = ToSet(steps) \cup ToSet(Gap(base, theirs, current, from, to))
  BY <1>7, <1>10, PlanElements
<1> DEFINE u == Len(theirs)
           v == Len(current)
<1>12. u \in Nat /\ v \in Nat /\ u \in {to[2] - 1, to[2]} /\ v \in {to[3] - 1, to[3]} /\ u # to[2] /\ v # to[3]
  BY <1>1, <1>9
<1>13. ToSet(steps) \cup ToSet(Gap(base, theirs, current, from, to)) \subseteq ToSet(whole)
  BY <1>11
<1> HIDE DEF whole, u, v
<1>14. LiveIsKept(<<0, u, v>>, whole) /\ TheirsIsTaken(<<0, u, v>>, whole)
  BY <1>8, <1>10, <1>12, <1>13, SurvivesOn
<1> QED
  BY <1>6, <1>14 DEF u, v

\* A step of the plan is a block of the merge.
LEMMA MergedSays ==
    ASSUME Typed, NEW steps, steps = PlanBlockMerge(base, theirs, current)
    PROVE  /\ Plans(Keys, theirs, current, steps) /\ Len(Said(theirs, current, steps)) = Len(steps)
           /\ Merged = NeverEmpty(Said(theirs, current, steps)) /\ Merged \in Seq(Keys)
           /\ steps # <<>> => Merged = Said(theirs, current, steps)
<1>1. base \in Seq(Keys) /\ theirs \in Seq(Keys) /\ current \in Seq(Keys) /\ Blank \in Keys
  BY TypedFacts, KeysAssumption
<1>2. Plans(Keys, theirs, current, steps)
  BY <1>1, PlanIsInOrder DEF Plans
<1>3. Merged = NeverEmpty(Said(theirs, current, steps)) /\ Merged \in Seq(Keys)
  BY <1>1, SpliceSays, MergeIsADocument DEF Merged
<1>4. /\ Said(theirs, current, steps) \in Seq(Keys) /\ Len(Said(theirs, current, steps)) = Len(steps)
      /\ steps \in Seq(Steps)
  BY <1>2, PlanFacts
<1>5. steps # <<>> => Said(theirs, current, steps) # <<>>
  <2>1. Len(<<>>) = 0 /\ (Len(steps) = 0 => steps = <<>>)
    BY <1>4
  <2> QED
    BY <1>4, <2>1
<1> QED
  BY <1>2, <1>3, <1>4, <1>5 DEF NeverEmpty

\* Every live copy that is kept has a place of its own in the merge.
LEMMA CopiesSurvive ==
    ASSUME Typed, NEW k, NEW steps, steps = PlanBlockMerge(base, theirs, current),
           \A i \in 1 .. Len(current) : current[i] = k => Keep(i) \in ToSet(steps)
    PROVE  Count(Merged, k) >= Count(current, k)
<1> DEFINE A == {i \in 1 .. Len(current) : current[i] = k}
           M == {x \in 1 .. Len(Merged) : Merged[x] = k}
           said == Said(theirs, current, steps)
<1>1. current \in Seq(Keys) /\ Len(current) \in Nat /\ Merged \in Seq(Keys) /\ Len(Merged) \in Nat
  BY TypedFacts, MergedSays
<1>2. /\ steps \in Seq(Steps) /\ Len(said) = Len(steps)
      /\ \A x \in 1 .. Len(steps) : steps[x].kind = "keep" => said[x] = current[steps[x].index]
  BY MergedSays, PlanFacts
<1>3. IsFiniteSet(M) /\ IsFiniteSet(A) /\ Cardinality(M) \in Nat /\ Cardinality(A) \in Nat
  <2>1. IsFiniteSet(1 .. Len(Merged)) /\ IsFiniteSet(1 .. Len(current))
    BY <1>1, FS_Interval
  <2>2. IsFiniteSet(M) /\ IsFiniteSet(A)
    BY <2>1, FS_Subset
  <2> QED
    BY <2>2, FS_CardinalityType
<1>4. CASE A = {}
  <2>1. Cardinality(A) = 0
    BY <1>4, FS_EmptySet
  <2> HIDE DEF A, M
  <2>2. Cardinality(M) >= Cardinality(A)
    BY <1>3, <2>1
  <2> QED
    BY <2>2, Zenon DEF Count, A, M
<1>5. CASE A # {}
  <2> DEFINE place == [i \in A |-> CHOOSE x \in 1 .. Len(steps) : steps[x] = Keep(i)]
  <2>1. ASSUME NEW i \in A
        PROVE  /\ i \in 1 .. Len(current) /\ i \in Nat /\ current[i] = k
               /\ place[i] \in 1 .. Len(steps) /\ steps[place[i]] = Keep(i)
    <3>1. Keep(i) \in ToSet(steps)
      OBVIOUS
    <3>2. \E x \in 1 .. Len(steps) : steps[x] = Keep(i)
      BY <1>2, <3>1, ElementsOf
    <3>3. place[i] = CHOOSE x \in 1 .. Len(steps) : steps[x] = Keep(i)
      OBVIOUS
    <3>4. place[i] \in 1 .. Len(steps) /\ steps[place[i]] = Keep(i)
      <4> HIDE DEF place
      <4> QED
        BY <3>2, <3>3
    <3> QED
      BY <1>1, <3>4
  <2>2. steps # <<>> /\ Merged = said /\ Len(Merged) = Len(steps)
    <3>1. PICK i : i \in A
      BY <1>5
    <3>2. 1 .. Len(steps) # {}
      BY <2>1, <3>1
    <3>3. Len(<<>>) = 0
      OBVIOUS
    <3>4. steps # <<>>
      BY <3>2, <3>3
    <3> QED
      BY <1>2, <3>4, MergedSays
  <2> HIDE DEF place
  <2>3. ASSUME NEW i \in A PROVE place[i] \in M
    <3>1. steps[place[i]].kind = "keep" /\ steps[place[i]].index = i
      BY <2>1, StepFacts
    <3>2. said[place[i]] = current[i]
      BY <1>2, <2>1, <3>1
    <3> QED
      BY <2>1, <2>2, <3>2
  <2>4. \A i, j \in A : place[i] = place[j] => i = j
    <3> SUFFICES ASSUME NEW i \in A, NEW j \in A, place[i] = place[j] PROVE i = j
      OBVIOUS
    <3>1. Keep(i) = Keep(j) /\ i \in Nat /\ j \in Nat
      BY <2>1
    <3> QED
      BY <3>1, StepFacts
  <2>5. place \in [A -> M]
    <3>1. place = [i \in A |-> place[i]]
      BY DEF place
    <3> HIDE DEF A, M
    <3> QED
      BY <2>3, <3>1
  <2> HIDE DEF A, M
  <2>6. Cardinality(A) <= Cardinality(M)
    BY <1>3, <2>4, <2>5, Injects
  <2>7. Cardinality(M) >= Cardinality(A)
    BY <1>3, <2>6
  <2> QED
    BY <2>7, Zenon DEF Count, A, M
<1> QED
  BY <1>4, <1>5

\* planBlockMerge: whatever both sides did to a region, every copy of a block that was typed
\* live is kept, and a block that is new in theirs is in the merge ("both versions survive so
\* nothing is lost", editor-model.ts:1223).
THEOREM NewBlocksSurvive == Spec => []BothVersionsSurvive
<1>1. Typed => BothVersionsSurvive
  <2> SUFFICES ASSUME Typed, NEW k \in Keys \ ToSet(base)
               PROVE  /\ Count(Merged, k) >= Count(current, k)
                      /\ k \in ToSet(theirs) => k \in ToSet(Merged)
    BY DEF BothVersionsSurvive
  <2> DEFINE steps == PlanBlockMerge(base, theirs, current)
             said == Said(theirs, current, steps)
             ends == <<0, Len(theirs), Len(current)>>
  <2>1. LiveIsKept(ends, steps) /\ TheirsIsTaken(ends, steps)
    BY PlanSurvives
  <2>2. /\ theirs \in Seq(Keys) /\ current \in Seq(Keys)
        /\ Len(theirs) \in Nat /\ Len(current) \in Nat
    BY TypedFacts
  <2>3. /\ \A i \in 1 .. Len(current) : current[i] = k => Keep(i) \in ToSet(steps)
        /\ \A j \in 1 .. Len(theirs) : theirs[j] = k =>
              \/ Insert(j) \in ToSet(steps)
              \/ \E i \in 1 .. Len(current) : current[i] = k /\ Keep(i) \in ToSet(steps)
    <3> HIDE DEF steps
    <3> QED
      BY <2>1 DEF LiveIsKept, TheirsIsTaken
  <2>4. Plans(Keys, theirs, current, steps) /\ (steps # <<>> => Merged = said) /\ Len(said) = Len(steps)
    BY MergedSays
  <2> HIDE DEF steps, said
  <2>5. Count(Merged, k) >= Count(current, k)
    BY <2>3, CopiesSurvive DEF steps
  <2>6. ASSUME NEW x \in 1 .. Len(steps), said[x] = k PROVE k \in ToSet(Merged)
    <3>1. said \in Seq(Keys) /\ steps \in Seq(Steps)
      BY <2>4, PlanFacts DEF said
    <3>2. steps # <<>>
      <4>1. Len(<<>>) = 0
        OBVIOUS
      <4> QED
        BY <2>6, <4>1
    <3>3. said[x] \in ToSet(said)
      BY <2>4, <3>1, ElementsOf
    <3> QED
      BY <2>4, <2>6, <3>2, <3>3
  <2>7. ASSUME k \in ToSet(theirs) PROVE k \in ToSet(Merged)
    <3>1. PICK j \in 1 .. Len(theirs) : theirs[j] = k
      BY <2>2, <2>7, ElementsOf
    <3>2. steps \in Seq(Steps)
      BY <2>4, PlanFacts
    <3>3. CASE Insert(j) \in ToSet(steps)
      <4>1. PICK x \in 1 .. Len(steps) : steps[x] = Insert(j)
        BY <3>2, <3>3, ElementsOf
      <4>2. steps[x].kind = "insert" /\ steps[x].index = j
        BY <2>2, <4>1, StepFacts
      <4>3. said[x] = theirs[j]
        BY <2>4, <4>2, PlanFacts DEF said
      <4> QED
        BY <2>6, <3>1, <4>3
    <3>4. ASSUME NEW i \in 1 .. Len(current), current[i] = k, Keep(i) \in ToSet(steps)
          PROVE  k \in ToSet(Merged)
      <4>1. PICK x \in 1 .. Len(steps) : steps[x] = Keep(i)
        BY <3>2, <3>4, ElementsOf
      <4>2. steps[x].kind = "keep" /\ steps[x].index = i
        BY <2>2, <4>1, StepFacts
      <4>3. said[x] = current[i]
        BY <2>4, <4>2, PlanFacts DEF said
      <4> QED
        BY <2>6, <3>4, <4>3
    <3> QED
      BY <2>3, <3>1, <3>3, <3>4
  <2> QED
    BY <2>5, <2>7
<1> QED
  BY <1>1, SourcesAreDocuments, PTL

-----------------------------------------------------------------------------
(***************************************************************************)
(* When only one side changed.                                             *)
(***************************************************************************)

\* The block that a step stands for.
Says(step) == IF step.kind = "keep" THEN current[step.index] ELSE theirs[step.index]

\* The steps stand for the first m blocks of the document s.
Echo(steps, s, m) ==
    /\ steps \in Seq(Steps) /\ Len(steps) = m
    /\ \A x \in 1 .. m : Says(steps[x]) = s[x]

LEMMA EchoGoesOn ==
    ASSUME NEW s, NEW m \in Nat, NEW r, Echo(r, s, m), NEW k \in Nat, NEW t \in Seq(Steps), Len(t) = k,
           \A i \in 1 .. k : Says(t[i]) = s[m + i]
    PROVE  Echo(r \o t, s, m + k)
<1>1. r \in Seq(Steps) /\ Len(r) = m /\ \A x \in 1 .. m : Says(r[x]) = s[x]
  BY DEF Echo
<1>2. /\ r \o t \in Seq(Steps) /\ Len(r \o t) = m + k
      /\ \A i \in 1 .. m + k : (r \o t)[i] = IF i <= m THEN r[i] ELSE t[i - m]
  BY <1>1, ConcatProperties
<1>3. ASSUME NEW x \in 1 .. m + k PROVE Says((r \o t)[x]) = s[x]
  <2>1. CASE x <= m
    <3>1. x \in 1 .. m /\ (r \o t)[x] = r[x]
      BY <1>2, <2>1
    <3> QED
      BY <1>1, <3>1
  <2>2. CASE ~(x <= m)
    <3>1. x - m \in 1 .. k /\ m + (x - m) = x
      BY <2>2
    <3>2. (r \o t)[x] = t[x - m]
      BY <1>2, <2>2
    <3>3. Says(t[x - m]) = s[m + (x - m)]
      BY <3>1
    <3> QED
      BY <3>1, <3>2, <3>3
  <2> QED
    BY <2>1, <2>2
<1> QED
  BY <1>2, <1>3 DEF Echo

\* Anchors stand at the same place in documents that are equal.
Level(f) ==
    /\ theirs = base => f[1] = f[2]
    /\ theirs = current => f[2] = f[3]
    /\ current = base => f[1] = f[3]

\* The side that the merge has to be, and its coordinate in an anchor.
Result(s, d) ==
    \/ s = current /\ d = 3 /\ (theirs = base \/ theirs = current)
    \/ s = theirs /\ d = 2 /\ current = base

\* A region is what that side has in it.
LEMMA RegionEchoes ==
    ASSUME Typed, NEW s, NEW d, Result(s, d), NEW from, NEW to, Level(from), Level(to),
           OpenGap(base, theirs, current, from, to),
           NEW gap, gap = Gap(base, theirs, current, from, to)
    PROVE  /\ from[d] \in Nat /\ to[d] \in Nat /\ to[d] - 1 - from[d] \in Nat
           /\ gap \in Seq(Steps) /\ Len(gap) = to[d] - 1 - from[d]
           /\ \A i \in 1 .. to[d] - 1 - from[d] : Says(gap[i]) = s[from[d] + i]
<1> DEFINE B == Seg(base, from[1], to[1])
           T == Seg(theirs, from[2], to[2])
           C == Seg(current, from[3], to[3])
<1>1. base \in Seq(Keys) /\ theirs \in Seq(Keys) /\ current \in Seq(Keys)
  BY TypedFacts
<1>2. PICK f2 \in Nat, f3 \in Nat, t2 \in Nat, t3 \in Nat :
         /\ f2 = from[2] /\ f3 = from[3] /\ t2 = to[2] /\ t3 = to[3] /\ f2 < t2 /\ f3 < t3
  BY DEF OpenGap
<1>3. GapIs(base, theirs, current, from, to)
  BY <1>1, GapForm
<1>4. /\ T \in {B, C} => gap = KeepSteps(f3, t3)
      /\ T \notin {B, C} /\ B = C => gap = InsertSteps(f2, t2)
  BY <1>2, <1>3, Zenon DEF GapIs
<1>5. /\ Len(T) = t2 - f2 - 1 /\ \A i \in 1 .. t2 - f2 - 1 : T[i] = theirs[f2 + i]
      /\ Len(C) = t3 - f3 - 1 /\ \A i \in 1 .. t3 - f3 - 1 : C[i] = current[f3 + i]
  <2>1. SegIs(theirs, from[2], to[2]) /\ SegIs(current, from[3], to[3])
    BY <1>1, GapSegs
  <2> QED
    BY <1>2, <2>1, Zenon DEF SegIs
<1>6. /\ theirs = base => T = B
      /\ theirs = current => T = C
      /\ current = base => B = C
  BY DEF Level
<1>7. /\ KeepSteps(f3, t3) \in Seq(Steps) /\ Len(KeepSteps(f3, t3)) = t3 - f3 - 1
      /\ \A i \in 1 .. t3 - f3 - 1 : KeepSteps(f3, t3)[i] = Keep(f3 + i)
      /\ InsertSteps(f2, t2) \in Seq(Steps) /\ Len(InsertSteps(f2, t2)) = t2 - f2 - 1
      /\ \A i \in 1 .. t2 - f2 - 1 : InsertSteps(f2, t2)[i] = Insert(f2 + i)
  BY <1>2, StepRuns
<1>8. /\ t2 - 1 - f2 \in Nat /\ t2 - 1 - f2 = t2 - f2 - 1
      /\ t3 - 1 - f3 \in Nat /\ t3 - 1 - f3 = t3 - f3 - 1
  BY <1>2
<1>9. /\ \A i \in 1 .. t3 - f3 - 1 : Says(Keep(f3 + i)) = current[f3 + i]
      /\ \A i \in 1 .. t2 - f2 - 1 : Says(Insert(f2 + i)) = theirs[f2 + i]
  <2>1. /\ \A i \in 1 .. t3 - f3 - 1 : f3 + i \in Nat
        /\ \A i \in 1 .. t2 - f2 - 1 : f2 + i \in Nat
    BY <1>2
  <2> QED
    BY <2>1, StepFacts DEF Says
<1> HIDE DEF B, T, C
<1>10. CASE s = current /\ d = 3 /\ (theirs = base \/ theirs = current)
  <2>1. gap = KeepSteps(f3, t3)
    BY <1>4, <1>6, <1>10
  <2>2. \A i \in 1 .. t3 - f3 - 1 : Says(gap[i]) = s[f3 + i]
    BY <1>7, <1>9, <1>10, <2>1
  <2>3. gap \in Seq(Steps) /\ Len(gap) = t3 - f3 - 1
    BY <1>7, <2>1
  <2>4. from[d] = f3 /\ to[d] = t3
    BY <1>2, <1>10
  <2> QED
    BY <1>8, <2>2, <2>3, <2>4
<1>11. CASE s = theirs /\ d = 2 /\ current = base
  <2>1. from[d] = f2 /\ to[d] = t2
    BY <1>2, <1>11
  <2>2. CASE T \in {B, C}
    <3>1. gap = KeepSteps(f3, t3) /\ T = C
      BY <1>4, <1>6, <1>11, <2>2
    <3>2. t2 - f2 - 1 = t3 - f3 - 1
      BY <1>5, <3>1
    <3>3. \A i \in 1 .. t2 - f2 - 1 : Says(gap[i]) = s[f2 + i]
      BY <1>5, <1>7, <1>9, <1>11, <3>1, <3>2
    <3>4. gap \in Seq(Steps) /\ Len(gap) = t2 - f2 - 1
      BY <1>7, <3>1, <3>2
    <3> QED
      BY <1>8, <2>1, <3>3, <3>4
  <2>3. CASE T \notin {B, C}
    <3>1. gap = InsertSteps(f2, t2)
      BY <1>4, <1>6, <1>11, <2>3
    <3>2. \A i \in 1 .. t2 - f2 - 1 : Says(gap[i]) = s[f2 + i]
      BY <1>7, <1>9, <1>11, <3>1
    <3>3. gap \in Seq(Steps) /\ Len(gap) = t2 - f2 - 1
      BY <1>7, <3>1
    <3> QED
      BY <1>8, <2>1, <3>2, <3>3
  <2> QED
    BY <2>2, <2>3
<1> QED
  BY <1>10, <1>11 DEF Result

\* Up to the end of a region, and up to and with the next anchor.
LEMMA EchoExtends ==
    ASSUME Typed, NEW s, NEW d, Result(s, d), NEW from, NEW to, Level(from), Level(to),
           OpenGap(base, theirs, current, from, to),
           NEW steps, Echo(steps, s, from[d])
    PROVE  /\ Echo(steps \o Gap(base, theirs, current, from, to), s, to[d] - 1)
           /\ current[to[3]] = s[to[d]] =>
                 Echo(steps \o Gap(base, theirs, current, from, to) \o <<Keep(to[3])>>, s, to[d])
<1> DEFINE gap == Gap(base, theirs, current, from, to)
<1>1. /\ from[d] \in Nat /\ to[d] \in Nat /\ to[d] - 1 - from[d] \in Nat
      /\ gap \in Seq(Steps) /\ Len(gap) = to[d] - 1 - from[d]
      /\ \A i \in 1 .. to[d] - 1 - from[d] : Says(gap[i]) = s[from[d] + i]
  BY RegionEchoes
<1>2. to[3] \in Nat
  BY DEF OpenGap
<1> HIDE DEF gap
<1>3. PICK f \in Nat, t \in Nat, k \in Nat : f = from[d] /\ t = to[d] /\ k = t - 1 - f
  BY <1>1
<1>4. f + k = t - 1 /\ t - 1 \in Nat /\ (t - 1) + 1 = t
  BY <1>3
<1>5. Echo(steps \o gap, s, f + k)
  <2>1. Len(gap) = k /\ \A i \in 1 .. k : Says(gap[i]) = s[f + i]
    BY <1>1, <1>3
  <2>2. Echo(steps, s, f)
    BY <1>3
  <2> QED
    BY <1>1, <2>1, <2>2, EchoGoesOn
<1>6. ASSUME current[to[3]] = s[t] PROVE Echo(steps \o gap \o <<Keep(to[3])>>, s, t)
  <2> DEFINE key == <<Keep(to[3])>>
             r == steps \o gap
             m == t - 1
  <2>1. key \in Seq(Steps) /\ Len(key) = 1 /\ key[1] = Keep(to[3])
    BY <1>2, StepFacts, OneElement
  <2>2. Says(Keep(to[3])) = current[to[3]]
    BY <1>2, StepFacts DEF Says
  <2>3. m \in Nat /\ Echo(r, s, m) /\ m + 1 = t
    BY <1>4, <1>5
  <2>4. \A i \in 1 .. 1 : Says(key[i]) = s[m + i]
    <3> HIDE DEF key, m
    <3> QED
      BY <1>6, <2>1, <2>2, <2>3
  <2> HIDE DEF key, r, m
  <2>5. Echo(r \o key, s, m + 1)
    BY <2>1, <2>3, <2>4, EchoGoesOn
  <2> QED
    BY <2>3, <2>5 DEF r, key
<1> QED
  BY <1>3, <1>4, <1>5, <1>6 DEF gap

LEMMA AnchorsAreLevel ==
    ASSUME Typed, NEW prev, NEW next, NEW to, Extends(base, theirs, current, prev, next, to)
    PROVE  Level(to)
<1>1. base \in Seq(Keys)
  BY TypedFacts
<1>2. /\ IsAligned(LcsPairs(base, theirs), to[1]) /\ to[2] = Partner(LcsPairs(base, theirs), to[1])
      /\ IsAligned(LcsPairs(base, current), to[1]) /\ to[3] = Partner(LcsPairs(base, current), to[1])
  BY DEF Extends
<1> QED
  BY <1>1, <1>2, SelfAligned DEF Level

\* The plan of a one-sided merge is that side, block by block.
LEMMA PlanEchoes ==
    ASSUME Typed, NEW s, NEW d, Result(s, d)
    PROVE  Echo(PlanBlockMerge(base, theirs, current), s, Len(s))
<1> DEFINE n == Len(base)
           plan == PlanTo(base, theirs, current)
           Fits(p) == Level(p.from) /\ Echo(p.steps, s, p.from[d])
           T == {b \in 0 .. n : Fits(plan[b])}
<1>1. base \in Seq(Keys) /\ theirs \in Seq(Keys) /\ current \in Seq(Keys) /\ n \in Nat
  BY TypedFacts
<1>2. ASSUME NEW b \in 1 .. n
      PROVE  \/ plan[b] = plan[b - 1]
             \/ \E to : to[1] = b /\ Extends(base, theirs, current, plan[b - 1], plan[b], to)
  BY <1>1, PlanGoesOn
<1>3. plan[0] = StartPlan
  BY <1>1, PlanRecursion DEF PlanGrows
<1>4. Completes(base, theirs, current, plan[n], PlanBlockMerge(base, theirs, current))
  BY <1>1, PlanStops
<1>5. d \in {2, 3}
  BY DEF Result
<1> HIDE DEF plan
<1>6. 0 \in T
  <2>1. StartPlan.from[d] = 0 /\ Level(StartPlan.from)
    BY <1>5 DEF StartPlan, Level
  <2>2. Echo(StartPlan.steps, s, 0)
    BY NoElements DEF StartPlan, Echo
  <2>3. Fits(plan[0])
    BY <1>3, <2>1, <2>2
  <2> HIDE DEF Fits
  <2> QED
    BY <1>1, <2>3
<1>7. ASSUME NEW b \in 1 .. n, b - 1 \in T PROVE b \in T
  <2>1. Fits(plan[b - 1]) /\ b \in 0 .. n
    BY <1>1, <1>7
  <2>2. CASE plan[b] = plan[b - 1]
    <3> HIDE DEF Fits
    <3> QED
      BY <2>1, <2>2
  <2>3. ASSUME NEW to, Extends(base, theirs, current, plan[b - 1], plan[b], to) PROVE b \in T
    <3> DEFINE prev == plan[b - 1]
               from == prev.from
               steps == prev.steps
               gap == Gap(base, theirs, current, from, to)
    <3>1. /\ OpenGap(base, theirs, current, from, to) /\ AtAnchor(base, theirs, current, to)
          /\ to[1] \in 1 .. Len(base)
          /\ plan[b].from = to /\ plan[b].steps = steps \o gap \o <<Keep(to[3])>>
      BY <2>3 DEF Extends
    <3>2. Level(to)
      BY <2>3, AnchorsAreLevel
    <3>3. current[to[3]] = s[to[d]]
      <4>1. base[to[1]] = theirs[to[2]] /\ base[to[1]] = current[to[3]]
        BY <3>1 DEF AtAnchor
      <4> QED
        BY <4>1 DEF Result
    <3>4. Level(from) /\ Echo(steps, s, from[d])
      BY <2>1
    <3> HIDE DEF prev, from, steps
    <3>5. Echo(steps \o gap \o <<Keep(to[3])>>, s, to[d])
      BY <3>1, <3>2, <3>3, <3>4, EchoExtends
    <3>6. Fits(plan[b])
      BY <3>1, <3>2, <3>5
    <3> HIDE DEF Fits
    <3> QED
      BY <2>1, <3>6
  <2> QED
    BY <1>2, <2>2, <2>3
<1>8. Fits(plan[n])
  <2>1. \A b \in 0 .. n : b \in T
    <3> HIDE DEF T, n
    <3> QED
      BY <1>1, <1>6, <1>7, InductionTo
  <2> HIDE DEF Fits
  <2> QED
    BY <1>1, <2>1
<1> DEFINE last == plan[n]
           from == last.from
           end == EndOf(base, theirs, current)
<1>9. /\ OpenGap(base, theirs, current, from, end)
      /\ PlanBlockMerge(base, theirs, current) = last.steps \o Gap(base, theirs, current, from, end)
  BY <1>4 DEF Completes
<1>10. Level(end) /\ end[d] - 1 = Len(s)
  <2>1. end[1] = Len(base) + 1 /\ end[2] = Len(theirs) + 1 /\ end[3] = Len(current) + 1
    BY DEF EndOf
  <2>2. Len(theirs) \in Nat /\ Len(current) \in Nat
    BY <1>1
  <2> HIDE DEF end
  <2>3. Level(end)
    BY <2>1 DEF Level
  <2>4. end[d] - 1 = Len(s)
    BY <2>1, <2>2 DEF Result
  <2> QED
    BY <2>3, <2>4
<1>11. Level(from) /\ Echo(last.steps, s, from[d])
  BY <1>8
<1> HIDE DEF last, from, end
<1>12. Echo(last.steps \o Gap(base, theirs, current, from, end), s, end[d] - 1)
  BY <1>9, <1>10, <1>11, EchoExtends
<1> QED
  BY <1>9, <1>10, <1>12

LEMMA MergeIsTheSide ==
    ASSUME Typed, NEW s, NEW d, Result(s, d)
    PROVE  Merged = s
<1> DEFINE steps == PlanBlockMerge(base, theirs, current)
           said == Said(theirs, current, steps)
<1>1. s \in Seq(Keys) /\ s # <<>>
  BY TypedFacts DEF Result
<1>2. Echo(steps, s, Len(s))
  BY PlanEchoes
<1>3. /\ Plans(Keys, theirs, current, steps) /\ Len(said) = Len(steps)
      /\ steps # <<>> => Merged = said
  BY MergedSays
<1>4. said \in Seq(Keys)
  <2> HIDE DEF steps
  <2> QED
    BY <1>3, PlanFacts
<1> HIDE DEF steps
<1>5. Len(steps) = Len(s) /\ \A x \in 1 .. Len(s) : said[x] = s[x]
  BY <1>2 DEF Echo, Says, Said
<1> HIDE DEF said
<1>6. said = s
  BY <1>1, <1>3, <1>4, <1>5, SeqEqual
<1>7. steps # <<>>
  <2>1. Len(<<>>) = 0 /\ Len(s) # 0
    BY <1>1
  <2> QED
    BY <1>5, <2>1
<1> QED
  BY <1>3, <1>6, <1>7

\* A merge of two sides of which only one changed is that side, block for block, and one
\* of two equal sides changes nothing: so the hook of a checkpoint, which merges what the room
\* itself has just written (mergeExternal from documentWritten), leaves the room alone.
THEOREM OneSidedMerges == Spec => []OneSidedIsExact
<1>1. Typed => OneSidedIsExact
  <2> SUFFICES ASSUME Typed PROVE OneSidedIsExact
    OBVIOUS
  <2>1. ASSUME current = base PROVE Merged = theirs
    <3>1. Result(theirs, 2)
      BY <2>1 DEF Result
    <3> QED
      BY <3>1, MergeIsTheSide
  <2>2. ASSUME theirs = base \/ theirs = current PROVE Merged = current
    <3>1. Result(current, 3)
      BY <2>2 DEF Result
    <3> QED
      BY <3>1, MergeIsTheSide
  <2> QED
    BY <2>1, <2>2 DEF OneSidedIsExact
<1> QED
  BY <1>1, SourcesAreDocuments, PTL

-----------------------------------------------------------------------------
(***************************************************************************)
(* When no block occurs twice and nobody reorders.                         *)
(***************************************************************************)

Plain ==
    /\ Simple(base) /\ Simple(theirs) /\ Simple(current)
    /\ SameOrder(base, theirs) /\ SameOrder(theirs, base)
    /\ SameOrder(base, current) /\ SameOrder(current, base)
    /\ SameOrder(theirs, current) /\ SameOrder(current, theirs)

\* The merge of sets: a live block stays unless theirs removed it, and theirs adds what is new.
Stays(e) == e \notin ToSet(base) \ ToSet(theirs)
IsNew(e) == e \notin ToSet(base) \cup ToSet(current)

InAll(e) == e \in ToSet(base) /\ e \in ToSet(theirs) /\ e \in ToSet(current)

\* So it is in the first f[2] blocks of theirs and f[3] live ones ...
SetwiseTo(f, steps) ==
    /\ \A i \in 1 .. f[3] : Keep(i) \in ToSet(steps) <=> Stays(current[i])
    /\ \A j \in 1 .. f[2] : Insert(j) \in ToSet(steps) <=> IsNew(theirs[j])

\* ... and in the region up to the next place.
SetwiseIn(from, to, gap) ==
    /\ \A i \in Nat : from[3] < i /\ i < to[3] => (Keep(i) \in ToSet(gap) <=> Stays(current[i]))
    /\ \A j \in Nat : from[2] < j /\ j < to[2] => (Insert(j) \in ToSet(gap) <=> IsNew(theirs[j]))

\* A place where all three documents meet.
MeetAll(f) ==
    Meet(base, theirs, f[1], f[2]) /\ Meet(base, current, f[1], f[3]) /\ Meet(theirs, current, f[2], f[3])
    /\ Meet(theirs, base, f[2], f[1]) /\ Meet(current, base, f[3], f[1]) /\ Meet(current, theirs, f[3], f[2])

LEMMA AnchorsMeet ==
    ASSUME Typed
    PROVE  /\ \A f : AtAnchor(base, theirs, current, f) => MeetAll(f)
           /\ MeetAll(EndOf(base, theirs, current))
<1>1. Len(base) \in Nat /\ Len(theirs) \in Nat /\ Len(current) \in Nat
  BY TypedFacts
<1>2. ASSUME NEW f, AtAnchor(base, theirs, current, f) PROVE MeetAll(f)
  BY <1>2 DEF AtAnchor, MeetAll, Meet
<1>3. MeetAll(EndOf(base, theirs, current))
  BY <1>1 DEF EndOf, MeetAll, Meet
<1> QED
  BY <1>2, <1>3

\* Every block of a region is in another document only if it is in that document's region.
LEMMA RegionIsApart ==
    ASSUME Typed, Plain, NEW from, NEW to, OpenGap(base, theirs, current, from, to),
           MeetAll(from), MeetAll(to)
    PROVE  /\ \A i \in Nat : from[1] < i /\ i < to[1] =>
                 /\ base[i] \in ToSet(theirs) <=> base[i] \in ToSet(Seg(theirs, from[2], to[2]))
                 /\ base[i] \in ToSet(current) <=> base[i] \in ToSet(Seg(current, from[3], to[3]))
           /\ \A i \in Nat : from[2] < i /\ i < to[2] =>
                 /\ theirs[i] \in ToSet(base) <=> theirs[i] \in ToSet(Seg(base, from[1], to[1]))
                 /\ theirs[i] \in ToSet(current) <=> theirs[i] \in ToSet(Seg(current, from[3], to[3]))
           /\ \A i \in Nat : from[3] < i /\ i < to[3] =>
                 /\ current[i] \in ToSet(base) <=> current[i] \in ToSet(Seg(base, from[1], to[1]))
                 /\ current[i] \in ToSet(theirs) <=> current[i] \in ToSet(Seg(theirs, from[2], to[2]))
<1>1. base \in Seq(Keys) /\ theirs \in Seq(Keys) /\ current \in Seq(Keys)
  BY TypedFacts
<1>2. ASSUME NEW s \in Seq(Keys), NEW t \in Seq(Keys), SameOrder(s, t),
             NEW f, NEW g, NEW u, NEW v, Meet(s, t, f, g), Meet(s, t, u, v),
             f < u, u <= Len(s) + 1, g < v, v <= Len(t) + 1
      PROVE  \A i \in Nat : f < i /\ i < u => (s[i] \in ToSet(t) <=> s[i] \in ToSet(Seg(t, g, v)))
  BY <1>2, RegionsMeet
<1>3. /\ from[1] < to[1] /\ to[1] <= Len(base) + 1
      /\ from[2] < to[2] /\ to[2] <= Len(theirs) + 1
      /\ from[3] < to[3] /\ to[3] <= Len(current) + 1
  BY DEF OpenGap
<1>4. /\ SameOrder(base, theirs) /\ SameOrder(theirs, base)
      /\ SameOrder(base, current) /\ SameOrder(current, base)
      /\ SameOrder(theirs, current) /\ SameOrder(current, theirs)
  BY DEF Plain
<1>5. \A i \in Nat : from[1] < i /\ i < to[1] =>
         (base[i] \in ToSet(theirs) <=> base[i] \in ToSet(Seg(theirs, from[2], to[2])))
  <2>1. Meet(base, theirs, from[1], from[2]) /\ Meet(base, theirs, to[1], to[2])
    BY DEF MeetAll
  <2> QED
    BY <1>1, <1>2, <1>3, <1>4, <2>1
<1>6. \A i \in Nat : from[1] < i /\ i < to[1] =>
         (base[i] \in ToSet(current) <=> base[i] \in ToSet(Seg(current, from[3], to[3])))
  <2>1. Meet(base, current, from[1], from[3]) /\ Meet(base, current, to[1], to[3])
    BY DEF MeetAll
  <2> QED
    BY <1>1, <1>2, <1>3, <1>4, <2>1
<1>7. \A i \in Nat : from[2] < i /\ i < to[2] =>
         (theirs[i] \in ToSet(base) <=> theirs[i] \in ToSet(Seg(base, from[1], to[1])))
  <2>1. Meet(theirs, base, from[2], from[1]) /\ Meet(theirs, base, to[2], to[1])
    BY DEF MeetAll
  <2> QED
    BY <1>1, <1>2, <1>3, <1>4, <2>1
<1>8. \A i \in Nat : from[2] < i /\ i < to[2] =>
         (theirs[i] \in ToSet(current) <=> theirs[i] \in ToSet(Seg(current, from[3], to[3])))
  <2>1. Meet(theirs, current, from[2], from[3]) /\ Meet(theirs, current, to[2], to[3])
    BY DEF MeetAll
  <2> QED
    BY <1>1, <1>2, <1>3, <1>4, <2>1
<1>9. \A i \in Nat : from[3] < i /\ i < to[3] =>
         (current[i] \in ToSet(base) <=> current[i] \in ToSet(Seg(base, from[1], to[1])))
  <2>1. Meet(current, base, from[3], from[1]) /\ Meet(current, base, to[3], to[1])
    BY DEF MeetAll
  <2> QED
    BY <1>1, <1>2, <1>3, <1>4, <2>1
<1>10. \A i \in Nat : from[3] < i /\ i < to[3] =>
         (current[i] \in ToSet(theirs) <=> current[i] \in ToSet(Seg(theirs, from[2], to[2])))
  <2>1. Meet(current, theirs, from[3], from[2]) /\ Meet(current, theirs, to[3], to[2])
    BY DEF MeetAll
  <2> QED
    BY <1>1, <1>2, <1>3, <1>4, <2>1
<1> QED
  BY <1>5, <1>6, <1>7, <1>8, <1>9, <1>10

\* A region that has no block of all three documents merges as sets do.
LEMMA RegionIsSetwise ==
    ASSUME Typed, Plain, NEW from, NEW to, OpenGap(base, theirs, current, from, to),
           MeetAll(from), MeetAll(to),
           \A i \in Nat : from[1] < i /\ i < to[1] => ~InAll(base[i])
    PROVE  SetwiseIn(from, to, Gap(base, theirs, current, from, to))
<1> DEFINE gap == Gap(base, theirs, current, from, to)
           B == Seg(base, from[1], to[1])
           T == Seg(theirs, from[2], to[2])
           C == Seg(current, from[3], to[3])
<1>1. base \in Seq(Keys) /\ theirs \in Seq(Keys) /\ current \in Seq(Keys)
  BY TypedFacts
<1>2. \A i \in Nat : /\ Keep(i) \in ToSet(gap) <=>
                           /\ from[3] < i /\ i < to[3]
                           /\ T \in {B, C} \/ (B # C /\ current[i] \notin ToSet(B) \ ToSet(T))
                     /\ Insert(i) \in ToSet(gap) <=>
                           /\ from[2] < i /\ i < to[2] /\ T \notin {B, C}
                           /\ B = C \/ theirs[i] \notin ToSet(B) \cup ToSet(C)
  <2>1. \A i \in Nat : /\ Keep(i) \in ToSet(gap) <=> GapKeeps(base, theirs, current, from, to, i)
                       /\ Insert(i) \in ToSet(gap) <=> GapInserts(base, theirs, current, from, to, i)
    BY <1>1, GapElements
  <2> HIDE DEF gap
  <2> QED
    BY <2>1, Zenon DEF GapKeeps, GapInserts
<1>3. /\ ToSet(B) = {base[i] : i \in from[1] + 1 .. to[1] - 1}
      /\ ToSet(T) = {theirs[i] : i \in from[2] + 1 .. to[2] - 1}
      /\ ToSet(C) = {current[i] : i \in from[3] + 1 .. to[3] - 1}
  <2>1. /\ from[1] \in Nat /\ to[1] \in Nat /\ from[1] < to[1] /\ to[1] <= Len(base) + 1
        /\ from[2] \in Nat /\ to[2] \in Nat /\ from[2] < to[2] /\ to[2] <= Len(theirs) + 1
        /\ from[3] \in Nat /\ to[3] \in Nat /\ from[3] < to[3] /\ to[3] <= Len(current) + 1
    BY DEF OpenGap
  <2>2. ToSet(B) = SegOf(base, from[1], to[1])
    BY <1>1, <2>1, SegElementsOf
  <2>3. ToSet(T) = SegOf(theirs, from[2], to[2])
    BY <1>1, <2>1, SegElementsOf
  <2>4. ToSet(C) = SegOf(current, from[3], to[3])
    BY <1>1, <2>1, SegElementsOf
  <2> HIDE DEF B, T, C
  <2> QED
    BY <2>2, <2>3, <2>4, Zenon DEF SegOf
<1>4. /\ \A i \in Nat : from[2] < i /\ i < to[2] => theirs[i] \in ToSet(T)
      /\ \A i \in Nat : from[3] < i /\ i < to[3] => current[i] \in ToSet(C)
      /\ \A e \in ToSet(B) : \E i \in Nat : from[1] < i /\ i < to[1] /\ e = base[i]
  <2>1. ASSUME NEW f \in Nat, NEW t \in Nat
        PROVE  /\ \A i \in Nat : f < i /\ i < t => i \in f + 1 .. t - 1
               /\ \A i \in f + 1 .. t - 1 : i \in Nat /\ f < i /\ i < t
    OBVIOUS
  <2>2. /\ from[1] \in Nat /\ to[1] \in Nat /\ from[2] \in Nat /\ to[2] \in Nat
        /\ from[3] \in Nat /\ to[3] \in Nat
    BY DEF OpenGap
  <2> HIDE DEF B, T, C
  <2> QED
    BY <1>3, <2>1, <2>2
<1>5. /\ \A i \in Nat : from[1] < i /\ i < to[1] =>
            /\ base[i] \in ToSet(theirs) <=> base[i] \in ToSet(T)
            /\ base[i] \in ToSet(current) <=> base[i] \in ToSet(C)
      /\ \A i \in Nat : from[2] < i /\ i < to[2] =>
            /\ theirs[i] \in ToSet(base) <=> theirs[i] \in ToSet(B)
            /\ theirs[i] \in ToSet(current) <=> theirs[i] \in ToSet(C)
      /\ \A i \in Nat : from[3] < i /\ i < to[3] =>
            /\ current[i] \in ToSet(base) <=> current[i] \in ToSet(B)
            /\ current[i] \in ToSet(theirs) <=> current[i] \in ToSet(T)
  BY RegionIsApart
<1>6. \A e \in ToSet(B) : ~(e \in ToSet(T) /\ e \in ToSet(C))
  <2> SUFFICES ASSUME NEW e \in ToSet(B), e \in ToSet(T), e \in ToSet(C) PROVE FALSE
    OBVIOUS
  <2> HIDE DEF B, T, C
  <2>1. PICK i \in Nat : from[1] < i /\ i < to[1] /\ e = base[i]
    BY <1>4
  <2>2. e \in ToSet(theirs) /\ e \in ToSet(current)
    BY <1>5, <2>1
  <2>3. e \in ToSet(base)
    <3>1. i \in 1 .. Len(base)
      <4>1. from[1] \in Nat /\ to[1] \in Nat /\ to[1] <= Len(base) + 1 /\ Len(base) \in Nat
        BY <1>1 DEF OpenGap
      <4> QED
        BY <2>1, <4>1
    <3> QED
      BY <1>1, <2>1, <3>1, ElementsOf
  <2> QED
    BY <2>1, <2>2, <2>3 DEF InAll
<1> HIDE DEF gap, B, T, C
<1>7. ASSUME NEW i \in Nat, from[3] < i, i < to[3] PROVE Keep(i) \in ToSet(gap) <=> Stays(current[i])
  <2>1. current[i] \in ToSet(C) /\ (Stays(current[i]) <=> current[i] \notin ToSet(B) \ ToSet(T))
    BY <1>4, <1>5, <1>7 DEF Stays
  <2>2. Keep(i) \in ToSet(gap) <=> T \in {B, C} \/ (B # C /\ current[i] \notin ToSet(B) \ ToSet(T))
    BY <1>2, <1>7
  <2> QED
    BY <1>6, <2>1, <2>2
<1>8. ASSUME NEW i \in Nat, from[2] < i, i < to[2] PROVE Insert(i) \in ToSet(gap) <=> IsNew(theirs[i])
  <2>1. theirs[i] \in ToSet(T) /\ (IsNew(theirs[i]) <=> theirs[i] \notin ToSet(B) \cup ToSet(C))
    BY <1>4, <1>5, <1>8 DEF IsNew
  <2>2. Insert(i) \in ToSet(gap) <=>
           T \notin {B, C} /\ (B = C \/ theirs[i] \notin ToSet(B) \cup ToSet(C))
    BY <1>2, <1>8
  <2> QED
    BY <1>6, <2>1, <2>2
<1> QED
  BY <1>7, <1>8 DEF SetwiseIn, gap

\* The plan up to the end of a region, and up to and with the next anchor.
LEMMA SetwiseOn ==
    ASSUME Typed, NEW from, NEW to, OpenGap(base, theirs, current, from, to),
           NEW steps, Within(steps, 0, 0, from[2], from[3]), SetwiseTo(from, steps),
           NEW gap, gap = Gap(base, theirs, current, from, to), SetwiseIn(from, to, gap),
           NEW f, NEW next,
           \/ /\ f[2] = to[2] - 1 /\ f[3] = to[3] - 1
              /\ ToSet(next) = ToSet(steps) \cup ToSet(gap)
           \/ /\ f[2] = to[2] /\ f[3] = to[3] /\ Stays(current[to[3]]) /\ ~IsNew(theirs[to[2]])
              /\ ToSet(next) = ToSet(steps) \cup ToSet(gap) \cup {Keep(to[3])}
    PROVE  SetwiseTo(f, next)
<1>1. PICK f2 \in Nat, f3 \in Nat, t2 \in Nat, t3 \in Nat :
         /\ f2 = from[2] /\ f3 = from[3] /\ t2 = to[2] /\ t3 = to[3] /\ f2 < t2 /\ f3 < t3
  BY DEF OpenGap
<1>2. \A i \in Nat : /\ Keep(i) \in ToSet(gap) => f3 < i /\ i < t3
                     /\ Insert(i) \in ToSet(gap) => f2 < i /\ i < t2
  <2>1. base \in Seq(Keys) /\ theirs \in Seq(Keys) /\ current \in Seq(Keys)
    BY TypedFacts
  <2>2. \A i \in Nat : /\ Keep(i) \in ToSet(gap) <=> GapKeeps(base, theirs, current, from, to, i)
                       /\ Insert(i) \in ToSet(gap) <=> GapInserts(base, theirs, current, from, to, i)
    BY <2>1, GapElements
  <2> QED
    BY <1>1, <2>2 DEF GapKeeps, GapInserts
<1>3. \A i \in Nat : /\ Keep(i) \in ToSet(steps) => i <= f3
                     /\ Insert(i) \in ToSet(steps) => i <= f2
  BY <1>1, StepFacts DEF Within, StepWithin
<1>4. /\ \A i \in Nat : f3 < i /\ i < t3 => (Keep(i) \in ToSet(gap) <=> Stays(current[i]))
      /\ \A j \in Nat : f2 < j /\ j < t2 => (Insert(j) \in ToSet(gap) <=> IsNew(theirs[j]))
  BY <1>1 DEF SetwiseIn
<1>5. /\ \A i \in 1 .. f3 : Keep(i) \in ToSet(steps) <=> Stays(current[i])
      /\ \A j \in 1 .. f2 : Insert(j) \in ToSet(steps) <=> IsNew(theirs[j])
  BY <1>1 DEF SetwiseTo
<1>6. \A i, k \in Nat : Insert(i) # Keep(k) /\ (Keep(i) = Keep(k) => i = k)
  BY StepFacts
<1>7. ASSUME NEW i \in 1 .. f[3] PROVE Keep(i) \in ToSet(next) <=> Stays(current[i])
  <2>1. i \in Nat /\ i >= 1 /\ i <= t3 /\ (i = t3 => f[3] = t3)
    BY <1>1
  <2>2. CASE i <= f3
    <3>1. Keep(i) \notin ToSet(gap) /\ i # t3 /\ i \in 1 .. f3
      BY <1>1, <1>2, <2>1, <2>2
    <3>2. Keep(i) # Keep(t3)
      BY <1>6, <2>1, <3>1
    <3> QED
      BY <1>1, <1>5, <3>1, <3>2
  <2>3. CASE f3 < i /\ i < t3
    <3>1. Keep(i) \notin ToSet(steps)
      BY <1>1, <1>3, <2>1, <2>3
    <3>2. Keep(i) # Keep(t3)
      BY <1>6, <2>1, <2>3
    <3>3. Keep(i) \in ToSet(gap) <=> Stays(current[i])
      BY <1>4, <2>1, <2>3
    <3> QED
      BY <1>1, <3>1, <3>2, <3>3
  <2>4. CASE i = t3
    <3>1. t3 # t3 - 1
      OBVIOUS
    <3> QED
      BY <1>1, <2>1, <2>4, <3>1
  <2> QED
    BY <1>1, <2>1, <2>2, <2>3, <2>4
<1>8. ASSUME NEW j \in 1 .. f[2] PROVE Insert(j) \in ToSet(next) <=> IsNew(theirs[j])
  <2>1. j \in Nat /\ j >= 1 /\ j <= t2 /\ (j = t2 => f[2] = t2)
    BY <1>1
  <2>2. Insert(j) # Keep(t3)
    BY <1>6, <2>1
  <2>3. Insert(j) \in ToSet(next) <=> Insert(j) \in ToSet(steps) \/ Insert(j) \in ToSet(gap)
    BY <1>1, <2>2
  <2>4. CASE j <= f2
    <3>1. Insert(j) \notin ToSet(gap) /\ j \in 1 .. f2
      BY <1>1, <1>2, <2>1, <2>4
    <3> QED
      BY <1>5, <2>3, <3>1
  <2>5. CASE f2 < j /\ j < t2
    <3>1. Insert(j) \notin ToSet(steps)
      BY <1>1, <1>3, <2>1, <2>5
    <3>2. Insert(j) \in ToSet(gap) <=> IsNew(theirs[j])
      BY <1>4, <2>1, <2>5
    <3> QED
      BY <2>3, <3>1, <3>2
  <2>6. CASE j = t2
    <3>1. t2 # t2 - 1
      OBVIOUS
    <3>2. ~IsNew(theirs[j])
      BY <1>1, <2>1, <2>6, <3>1
    <3>3. Insert(j) \notin ToSet(steps) /\ Insert(j) \notin ToSet(gap)
      BY <1>1, <1>2, <1>3, <2>1, <2>6
    <3> QED
      BY <2>3, <3>2, <3>3
  <2> QED
    BY <1>1, <2>1, <2>4, <2>5, <2>6
<1> QED
  BY <1>7, <1>8 DEF SetwiseTo

\* A block of all three documents behind the last anchor is an anchor.
LEMMA CommonIsAnchor ==
    ASSUME Typed, Plain, NEW from, AtAnchor(base, theirs, current, from),
           NEW b \in 1 .. Len(base), from[1] < b, InAll(base[b])
    PROVE  IsAnchor(base, theirs, current, b, from)
<1>1. base \in Seq(Keys) /\ theirs \in Seq(Keys) /\ current \in Seq(Keys)
  BY TypedFacts
<1>2. LcsPairs(base, theirs) = Matches(base, theirs) /\ LcsPairs(base, current) = Matches(base, current)
  BY <1>1, LcsTakesAll DEF Plain
<1>3. ASSUME NEW s \in Seq(Keys), LcsPairs(base, s) = Matches(base, s), SameOrder(base, s),
             base[b] \in ToSet(s), NEW g \in Nat,
             \/ g = 0
             \/ from[1] \in 1 .. Len(base) /\ g \in 1 .. Len(s) /\ base[from[1]] = s[g]
      PROVE  IsAligned(LcsPairs(base, s), b) /\ Partner(LcsPairs(base, s), b) > g
  <2>1. PICK k \in 1 .. Len(s) : base[b] = s[k]
    BY <1>3, ElementsOf
  <2>2. <<b, k>> \in Matches(base, s)
    BY <2>1 DEF Matches, Pairs
  <2>3. IsAligned(LcsPairs(base, s), b)
    BY <1>3, <2>2 DEF IsAligned
  <2> DEFINE j == Partner(LcsPairs(base, s), b)
  <2>4. j \in 1 .. Len(s) /\ base[b] = s[j]
    <3>1. PartnerIs(base, s, b)
      BY <1>1, <2>3, PartnerFacts
    <3> QED
      BY <3>1, Zenon DEF PartnerIs
  <2> HIDE DEF j
  <2>5. j > g
    <3>1. CASE g = 0
      BY <2>4, <3>1
    <3>2. CASE from[1] \in 1 .. Len(base) /\ g \in 1 .. Len(s) /\ base[from[1]] = s[g]
      <4>1. g < j
        BY <1>3, <2>4, <3>2 DEF SameOrder
      <4> QED
        BY <2>4, <4>1
    <3> QED
      BY <1>3, <3>1, <3>2
  <2> QED
    BY <2>3, <2>5 DEF j
<1>4. SameOrder(base, theirs) /\ SameOrder(base, current) /\ base[b] \in ToSet(theirs) /\ base[b] \in ToSet(current)
  BY DEF Plain, InAll
<1>5. IsAligned(LcsPairs(base, theirs), b) /\ Partner(LcsPairs(base, theirs), b) > from[2]
  <2>1. from[2] \in Nat /\ (from[2] = 0 \/ (/\ from[1] \in 1 .. Len(base) /\ from[2] \in 1 .. Len(theirs)
                                            /\ base[from[1]] = theirs[from[2]]))
    BY DEF AtAnchor
  <2> QED
    BY <1>1, <1>2, <1>3, <1>4, <2>1
<1>6. IsAligned(LcsPairs(base, current), b) /\ Partner(LcsPairs(base, current), b) > from[3]
  <2>1. from[3] \in Nat /\ (from[3] = 0 \/ (/\ from[1] \in 1 .. Len(base) /\ from[3] \in 1 .. Len(current)
                                            /\ base[from[1]] = current[from[3]]))
    BY DEF AtAnchor
  <2> QED
    BY <1>1, <1>2, <1>3, <1>4, <2>1
<1> QED
  BY <1>5, <1>6 DEF IsAnchor, AnchorOf

\* So every part of the plan merges as sets do, and leaves no block of all three behind.
PartIsSetwise(b, part) ==
    /\ SetwiseTo(part.from, part.steps)
    /\ \A i \in Nat : part.from[1] < i /\ i <= b => ~InAll(base[i])

LEMMA PartGoesOn ==
    ASSUME Typed, Plain, NEW b \in 1 .. Len(base), NEW prev, NEW next, NEW to, to[1] = b,
           Extends(base, theirs, current, prev, next, to), PartIsSetwise(b - 1, prev)
    PROVE  PartIsSetwise(b, next)
<1> DEFINE from == prev.from
           steps == prev.steps
           gap == Gap(base, theirs, current, from, to)
           whole == steps \o gap \o <<Keep(to[3])>>
<1>1. base \in Seq(Keys) /\ theirs \in Seq(Keys) /\ current \in Seq(Keys)
  BY TypedFacts
<1>2. /\ AtAnchor(base, theirs, current, from) /\ Within(steps, 0, 0, from[2], from[3])
      /\ OpenGap(base, theirs, current, from, to) /\ AtAnchor(base, theirs, current, to)
      /\ to[1] \in 1 .. Len(base) /\ to[2] \in 1 .. Len(theirs) /\ to[3] \in 1 .. Len(current)
      /\ next.from = to /\ next.steps = whole
  BY Zenon DEF Extends
<1>3. SetwiseTo(from, steps) /\ \A i \in Nat : from[1] < i /\ i <= b - 1 => ~InAll(base[i])
  BY DEF PartIsSetwise
<1>4. \A i \in Nat : from[1] < i /\ i < to[1] => ~InAll(base[i])
  <2>1. \A i \in Nat : i < b => i <= b - 1
    OBVIOUS
  <2> HIDE DEF from
  <2> QED
    BY <1>3, <2>1
<1>5. SetwiseIn(from, to, gap)
  <2>1. MeetAll(from) /\ MeetAll(to)
    BY <1>2, AnchorsMeet
  <2> HIDE DEF from
  <2> QED
    BY <1>2, <1>4, <2>1, RegionIsSetwise
<1>6. ToSet(whole) = ToSet(steps) \cup ToSet(gap) \cup {Keep(to[3])}
  <2> HIDE DEF from, steps
  <2> QED
    BY <1>1, <1>2, PlanExtends
<1>7. Stays(current[to[3]]) /\ ~IsNew(theirs[to[2]])
  <2>1. base[to[1]] = theirs[to[2]] /\ base[to[1]] = current[to[3]]
    BY <1>2 DEF AtAnchor
  <2>2. base[to[1]] \in ToSet(base) /\ theirs[to[2]] \in ToSet(theirs)
    BY <1>1, <1>2, ElementsOf
  <2> QED
    BY <2>1, <2>2 DEF Stays, IsNew
<1>8. gap = Gap(base, theirs, current, from, to)
  OBVIOUS
<1> HIDE DEF from, steps, gap, whole
<1>9. SetwiseTo(to, whole)
  BY <1>2, <1>3, <1>5, <1>6, <1>7, <1>8, SetwiseOn
<1>10. \A i \in Nat : ~(to[1] < i /\ i <= b)
  OBVIOUS
<1> QED
  BY <1>2, <1>9, <1>10 DEF PartIsSetwise

LEMMA PlanIsSetwise ==
    ASSUME Typed, Plain
    PROVE  SetwiseTo(<<0, Len(theirs), Len(current)>>, PlanBlockMerge(base, theirs, current))
<1> DEFINE n == Len(base)
           plan == PlanTo(base, theirs, current)
           T == {b \in 0 .. n : PartIsSetwise(b, plan[b])}
<1>1. base \in Seq(Keys) /\ theirs \in Seq(Keys) /\ current \in Seq(Keys) /\ n \in Nat
  BY TypedFacts
<1>2. ASSUME NEW b \in 1 .. n
      PROVE  \/ plan[b] = plan[b - 1] /\ ~IsAnchor(base, theirs, current, b, plan[b - 1].from)
             \/ \E to : to[1] = b /\ Extends(base, theirs, current, plan[b - 1], plan[b], to)
  BY <1>1, PlanGoesOn
<1>3. plan[0] = StartPlan /\ \A b \in 0 .. n : PlanFits(base, theirs, current, b, plan[b])
  BY <1>1, PlanRecursion DEF PlanGrows
<1>4. Completes(base, theirs, current, plan[n], PlanBlockMerge(base, theirs, current))
  BY <1>1, PlanStops
<1> HIDE DEF plan
<1>5. 0 \in T
  <2>1. PartIsSetwise(0, StartPlan)
    BY DEF StartPlan, PartIsSetwise, SetwiseTo
  <2> QED
    BY <1>1, <1>3, <2>1
<1>6. ASSUME NEW b \in 1 .. n, b - 1 \in T PROVE b \in T
  <2>1. PartIsSetwise(b - 1, plan[b - 1]) /\ b \in 0 .. n /\ b - 1 \in 0 .. n
    BY <1>1, <1>6
  <2>2. CASE plan[b] = plan[b - 1] /\ ~IsAnchor(base, theirs, current, b, plan[b - 1].from)
    <3> DEFINE prev == plan[b - 1]
    <3>1. AtAnchor(base, theirs, current, prev.from) /\ prev.from[1] <= b - 1 /\ prev.from[1] \in Nat
      BY <1>3, <2>1 DEF PlanFits, AtAnchor
    <3>2. /\ SetwiseTo(prev.from, prev.steps)
          /\ \A i \in Nat : prev.from[1] < i /\ i <= b - 1 => ~InAll(base[i])
      BY <2>1 DEF PartIsSetwise
    <3> HIDE DEF prev
    <3>3. prev.from[1] < b
      BY <1>1, <3>1
    <3>4. ~InAll(base[b])
      BY <2>2, <3>1, <3>3, CommonIsAnchor DEF prev
    <3>5. \A i \in Nat : i <= b => i <= b - 1 \/ i = b
      BY <1>1
    <3>6. PartIsSetwise(b, prev)
      BY <3>2, <3>4, <3>5 DEF PartIsSetwise
    <3> QED
      BY <2>1, <2>2, <3>6 DEF prev
  <2>3. ASSUME NEW to, to[1] = b, Extends(base, theirs, current, plan[b - 1], plan[b], to) PROVE b \in T
    <3>1. PartIsSetwise(b, plan[b])
      BY <2>1, <2>3, PartGoesOn
    <3> QED
      BY <2>1, <3>1
  <2> QED
    BY <1>2, <2>2, <2>3
<1>7. PartIsSetwise(n, plan[n])
  <2>1. \A b \in 0 .. n : b \in T
    <3> HIDE DEF T, n
    <3> QED
      BY <1>1, <1>5, <1>6, InductionTo
  <2> QED
    BY <1>1, <2>1
<1> DEFINE last == plan[n]
           from == last.from
           end == EndOf(base, theirs, current)
           gap == Gap(base, theirs, current, from, end)
           steps == PlanBlockMerge(base, theirs, current)
<1>8. /\ AtAnchor(base, theirs, current, from) /\ Within(last.steps, 0, 0, from[2], from[3])
      /\ OpenGap(base, theirs, current, from, end)
      /\ steps = last.steps \o gap
  BY <1>4 DEF Completes
<1>9. SetwiseTo(from, last.steps) /\ \A i \in Nat : from[1] < i /\ i <= n => ~InAll(base[i])
  BY <1>7 DEF PartIsSetwise
<1>10. end[1] = n + 1 /\ Len(theirs) = end[2] - 1 /\ Len(current) = end[3] - 1
  <2>1. Len(theirs) \in Nat /\ Len(current) \in Nat
    BY <1>1
  <2> QED
    BY <2>1 DEF EndOf
<1> HIDE DEF last, from, end, steps
<1>11. \A i \in Nat : from[1] < i /\ i < end[1] => ~InAll(base[i])
  <2>1. \A i \in Nat : i < n + 1 => i <= n
    BY <1>1
  <2> QED
    BY <1>9, <1>10, <2>1
<1>12. SetwiseIn(from, end, gap)
  <2>1. MeetAll(from) /\ MeetAll(end)
    BY <1>8, AnchorsMeet DEF end
  <2> QED
    BY <1>8, <1>11, <2>1, RegionIsSetwise
<1>13. ToSet(steps) = ToSet(last.steps) \cup ToSet(gap)
  BY <1>8, PlanElements
<1> DEFINE f == <<0, Len(theirs), Len(current)>>
<1>14. f[2] = end[2] - 1 /\ f[3] = end[3] - 1
  BY <1>10
<1>15. gap = Gap(base, theirs, current, from, end)
  OBVIOUS
<1> HIDE DEF f, gap
<1>16. SetwiseTo(f, steps)
  BY <1>8, <1>9, <1>12, <1>13, <1>14, <1>15, SetwiseOn
<1> QED
  BY <1>16 DEF f, steps

\* The blocks of the merge, and that none of them occurs twice.
LEMMA MergeIsSetwise ==
    ASSUME Typed, Plain, NEW steps, steps = PlanBlockMerge(base, theirs, current),
           NEW said, said = Said(theirs, current, steps)
    PROVE  /\ ToSet(said) = {e \in ToSet(current) : Stays(e)} \cup {e \in ToSet(theirs) : IsNew(e)}
           /\ Simple(said)
<1>1. /\ \A i \in 1 .. Len(current) : Keep(i) \in ToSet(steps) <=> Stays(current[i])
      /\ \A j \in 1 .. Len(theirs) : Insert(j) \in ToSet(steps) <=> IsNew(theirs[j])
  BY PlanIsSetwise DEF SetwiseTo
<1>2. /\ theirs \in Seq(Keys) /\ current \in Seq(Keys) /\ steps \in Seq(Steps) /\ InOrder(steps)
      /\ said \in Seq(Keys) /\ Len(said) = Len(steps)
      /\ \A x \in 1 .. Len(steps) :
            /\ steps[x].kind \in {"keep", "insert"}
            /\ steps[x].kind = "keep" => /\ steps[x].index \in 1 .. Len(current)
                                         /\ steps[x] = Keep(steps[x].index)
                                         /\ said[x] = current[steps[x].index]
            /\ steps[x].kind = "insert" => /\ steps[x].index \in 1 .. Len(theirs)
                                           /\ steps[x] = Insert(steps[x].index)
                                           /\ said[x] = theirs[steps[x].index]
  <2>1. Plans(Keys, theirs, current, steps)
    BY MergedSays
  <2> QED
    BY <2>1, PlanFacts
<1>3. ASSUME NEW x \in 1 .. Len(steps)
      PROVE  /\ steps[x].kind = "keep" => said[x] \in ToSet(current) /\ Stays(said[x])
             /\ steps[x].kind = "insert" => said[x] \in ToSet(theirs) /\ IsNew(said[x])
  <2>1. steps[x] \in ToSet(steps)
    BY <1>2, ElementsOf
  <2>2. CASE steps[x].kind = "keep"
    <3>1. PICK i \in 1 .. Len(current) : steps[x] = Keep(i) /\ said[x] = current[i]
      BY <1>2, <2>2
    <3>2. Stays(said[x])
      BY <1>1, <2>1, <3>1
    <3>3. said[x] \in ToSet(current)
      BY <1>2, <3>1, ElementsOf
    <3> QED
      BY <2>2, <3>2, <3>3
  <2>3. CASE steps[x].kind = "insert"
    <3>1. PICK i \in 1 .. Len(theirs) : steps[x] = Insert(i) /\ said[x] = theirs[i]
      BY <1>2, <2>3
    <3>2. IsNew(said[x])
      BY <1>1, <2>1, <3>1
    <3>3. said[x] \in ToSet(theirs)
      BY <1>2, <3>1, ElementsOf
    <3> QED
      BY <2>3, <3>2, <3>3
  <2> QED
    BY <2>2, <2>3
<1>4. ASSUME NEW e \in ToSet(current), Stays(e) PROVE e \in ToSet(said)
  <2>1. PICK i \in 1 .. Len(current) : current[i] = e
    BY <1>2, ElementsOf
  <2>2. PICK x \in 1 .. Len(steps) : steps[x] = Keep(i)
    BY <1>1, <1>2, <1>4, <2>1, ElementsOf
  <2>3. steps[x].kind = "keep" /\ steps[x].index = i
    BY <1>2, <2>1, <2>2, StepFacts
  <2>4. said[x] = e
    BY <1>2, <2>1, <2>3
  <2> QED
    BY <1>2, <2>4, ElementsOf
<1>5. ASSUME NEW e \in ToSet(theirs), IsNew(e) PROVE e \in ToSet(said)
  <2>1. PICK i \in 1 .. Len(theirs) : theirs[i] = e
    BY <1>2, ElementsOf
  <2>2. PICK x \in 1 .. Len(steps) : steps[x] = Insert(i)
    BY <1>1, <1>2, <1>5, <2>1, ElementsOf
  <2>3. steps[x].kind = "insert" /\ steps[x].index = i
    BY <1>2, <2>1, <2>2, StepFacts
  <2>4. said[x] = e
    BY <1>2, <2>1, <2>3
  <2> QED
    BY <1>2, <2>4, ElementsOf
<1>6. ASSUME NEW e \in ToSet(said)
      PROVE  (e \in ToSet(current) /\ Stays(e)) \/ (e \in ToSet(theirs) /\ IsNew(e))
  <2>1. PICK x \in 1 .. Len(steps) : e = said[x]
    BY <1>2, ElementsOf
  <2>2. steps[x].kind = "keep" \/ steps[x].kind = "insert"
    BY <1>2
  <2> QED
    BY <1>3, <2>1, <2>2
<1>7. Simple(said)
  <2> SUFFICES ASSUME NEW x \in 1 .. Len(steps), NEW y \in 1 .. Len(steps), said[x] = said[y] PROVE x = y
    BY <1>2 DEF Simple
  <2>1. steps[x].kind = steps[y].kind
    BY <1>2, <1>3 DEF IsNew
  <2>2. steps[x].index = steps[y].index
    <3>1. CASE steps[x].kind = "keep"
      <4>0. /\ steps[x].index \in 1 .. Len(current) /\ said[x] = current[steps[x].index]
            /\ steps[y].index \in 1 .. Len(current) /\ said[y] = current[steps[y].index]
        BY <1>2, <2>1, <3>1
      <4>1. PICK i \in 1 .. Len(current), j \in 1 .. Len(current) :
               i = steps[x].index /\ j = steps[y].index /\ current[i] = current[j]
        BY <4>0, Zenon
      <4>2. i = j
        BY <4>1 DEF Plain, Simple
      <4> QED
        BY <4>1, <4>2
    <3>2. CASE steps[x].kind = "insert"
      <4>1. /\ steps[x].index \in 1 .. Len(theirs) /\ said[x] = theirs[steps[x].index]
            /\ steps[y].index \in 1 .. Len(theirs) /\ said[y] = theirs[steps[y].index]
        BY <1>2, <2>1, <3>2
      <4>2. Simple(theirs) /\ said[x] = said[y]
        BY DEF Plain
      <4> QED
        BY <4>1, <4>2 DEF Simple
    <3> QED
      BY <1>2, <3>1, <3>2
  <2>3. steps[x].index \in Nat
    <3>1. steps[x] \in Steps
      BY <1>2
    <3> QED
      BY <3>1, StepFacts
  <2>4. ~(x < y) /\ ~(y < x)
    <3>1. \A i \in Nat : ~(i < i)
      OBVIOUS
    <3> QED
      BY <1>2, <2>1, <2>2, <2>3, <3>1 DEF InOrder
  <2>5. Len(steps) \in Nat
    BY <1>2
  <2> QED
    BY <2>4, <2>5
<1> QED
  BY <1>4, <1>5, <1>6, <1>7

\* What module CloudCollab takes the merge to be (its rooms hold sets of blocks): when no block
\* occurs twice and nobody reorders, mergeSourceIntoYFragment gives the live blocks that theirs
\* did not remove and the blocks that theirs added, each of them once.
THEOREM SetMerge == Spec => []MergeIsSetMerge
<1>1. Typed => MergeIsSetMerge
  <2> DEFINE B == ToSet(base)
             T == ToSet(theirs)
             C == ToSet(current)
             expected == (C \ (B \ T)) \cup (T \ B)
             steps == PlanBlockMerge(base, theirs, current)
             said == Said(theirs, current, steps)
  <2> SUFFICES ASSUME Typed,
                      \A s \in {base, theirs, current} : Cardinality(ToSet(s)) = Len(s),
                      \A s, t \in {base, theirs, current} : Ordered(s, t)
               PROVE  /\ ToSet(Merged) = IF expected = {} THEN {Blank} ELSE expected
                      /\ Cardinality(ToSet(Merged)) = Len(Merged)
    BY Zenon DEF MergeIsSetMerge
  <2>1. base \in Seq(Keys) /\ theirs \in Seq(Keys) /\ current \in Seq(Keys)
    BY TypedFacts
  <2>2. Plain
    <3>1. Simple(base) /\ Simple(theirs) /\ Simple(current)
      BY <2>1, SimpleIsCounted
    <3>2. \A s, t \in {base, theirs, current} : SameOrder(s, t)
      BY DEF Ordered, SameOrder
    <3> QED
      BY <3>1, <3>2 DEF Plain
  <2>3. /\ ToSet(said) = {e \in C : Stays(e)} \cup {e \in T : IsNew(e)}
        /\ Simple(said)
    BY <2>2, MergeIsSetwise
  <2>4. ToSet(said) = expected
    <3> HIDE DEF said
    <3> QED
      BY <2>3 DEF Stays, IsNew
  <2>5. said \in Seq(Keys) /\ Merged = NeverEmpty(said)
    BY MergedSays, PlanFacts
  <2> HIDE DEF said, B, T, C
  <2>6. CASE said = <<>>
    <3>1. Merged = <<Blank>> /\ Blank \in Keys
      BY <2>5, <2>6, KeysAssumption DEF NeverEmpty
    <3>2. ToSet(Merged) = {Blank} /\ Len(Merged) = 1
      BY <3>1, OneElement
    <3>3. expected = {}
      BY <2>4, <2>6, NoElements
    <3> QED
      BY <3>2, <3>3, FS_Singleton
  <2>7. CASE said # <<>>
    <3>1. Merged = said
      BY <2>5, <2>7 DEF NeverEmpty
    <3>2. Cardinality(ToSet(said)) = Len(said)
      BY <2>3, <2>5, SimpleIsCounted
    <3>3. expected # {}
      <4>1. said[1] \in ToSet(said)
        <5>1. 1 \in 1 .. Len(said)
          BY <2>5, <2>7
        <5> QED
          BY <2>5, <5>1, ElementsOf
      <4> QED
        BY <2>4, <4>1
    <3> QED
      BY <2>4, <3>1, <3>2, <3>3
  <2> QED
    BY <2>6, <2>7
<1> QED
  BY <1>1, SourcesAreDocuments, PTL
=============================================================================
