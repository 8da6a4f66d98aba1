----------------------------- MODULE BlockMerge -----------------------------
(***************************************************************************)
(* The block-level three-way merge of the live editor: lcsPairs and        *)
(* planBlockMerge of src/src/editor-model.ts, and the splice               *)
(* mergeSourceIntoYFragment of src/src/editor-yjs.ts makes of the plan.    *)
(*                                                                         *)
(* A document is the sequence of its blocks' keys (editorBlockKey): equal  *)
(* keys are equal blocks.  An alignment of two documents is a set of pairs *)
(* of indices.                                                             *)
(***************************************************************************)
EXTENDS Naturals, Sequences, SequencesExt, FiniteSets, FiniteSetsExt

CONSTANTS
    MaxCells,  \* the largest table lcsDynamic is given, 4 000 000 in the code
    Blank      \* the key of an empty paragraph

ASSUME MaxCellsAssumption == MaxCells \in Nat

-----------------------------------------------------------------------------
\* Alignment

\* Pairs of equal keys that go forward on both sides.
Alignment(pairs, a, b) ==
    /\ \A p \in pairs : a[p[1]] = b[p[2]]
    /\ \A p, q \in pairs : p[1] < q[1] <=> p[2] < q[2]

\* How many first (last) keys two documents share; the suffix stops short of
\* the prefix.
CommonPrefix(a, b) ==
    Max({n \in 0 .. Min({Len(a), Len(b)}) : \A i \in 1 .. n : a[i] = b[i]})

CommonSuffix(a, b, skip) ==
    Max({n \in 0 .. (Min({Len(a), Len(b)}) - skip) :
            \A i \in 0 .. (n - 1) : a[Len(a) - i] = b[Len(b) - i]})

\* lcsDynamic: the table of the lengths of the common subsequences of the
\* remainders, then the walk that prefers to skip in a.
Places(a, b) == (1 .. Len(a) + 1) \X (1 .. Len(b) + 1)

LcsTable(a, b) ==
    LET length[x \in Places(a, b)] ==
            IF x[1] > Len(a) \/ x[2] > Len(b) THEN 0
            ELSE IF a[x[1]] = b[x[2]] THEN length[<<x[1] + 1, x[2] + 1>>] + 1
            ELSE Max({length[<<x[1] + 1, x[2]>>], length[<<x[1], x[2] + 1>>]})
    IN length

\* Mutant: the walk takes the first match it sees.
GreedyWalk(a, b) ==
    LET walk[x \in Places(a, b)] ==
            IF x[1] > Len(a) \/ x[2] > Len(b) THEN {}
            ELSE IF a[x[1]] = b[x[2]] THEN {x} \cup walk[<<x[1] + 1, x[2] + 1>>]
            ELSE walk[<<x[1], x[2] + 1>>]
    IN walk

LcsWalk(a, b) ==
    LET length == LcsTable(a, b)
        walk[x \in Places(a, b)] ==
            IF x[1] > Len(a) \/ x[2] > Len(b) THEN {}
            ELSE IF a[x[1]] = b[x[2]] THEN {x} \cup walk[<<x[1] + 1, x[2] + 1>>]
            ELSE IF length[<<x[1] + 1, x[2]>>] >= length[<<x[1], x[2] + 1>>]
                 THEN walk[<<x[1] + 1, x[2]>>]
                 ELSE walk[<<x[1], x[2] + 1>>]
    IN walk

DynamicAlignment(a, b) == LcsWalk(a, b)[<<1, 1>>]

\* lcsUnique: keys that occur once on each side, as long as they go forward in b.
OnceInBoth(a, b) ==
    LET Once(s, i) == \A j \in 1 .. Len(s) : s[j] = s[i] => j = i
    IN {p \in (1 .. Len(a)) \X (1 .. Len(b)) : a[p[1]] = b[p[2]] /\ Once(a, p[1]) /\ Once(b, p[2])}

UniqueTaken(a, b) ==
    LET taken[i \in 0 .. Len(a)] ==
            IF i = 0 THEN {}
            ELSE taken[i - 1] \cup
                 {p \in OnceInBoth(a, b) : p[1] = i /\ \A q \in taken[i - 1] : q[2] < p[2]}
    IN taken

UniqueAlignment(a, b) == UniqueTaken(a, b)[Len(a)]

\* lcsPairs: prefix, middle, suffix.
LcsPairs(a, b) ==
    LET p == CommonPrefix(a, b)
        s == CommonSuffix(a, b, p)
        n == Len(a) - s - p
        m == Len(b) - s - p
        midA == SubSeq(a, p + 1, p + n)
        midB == SubSeq(b, p + 1, p + m)
        middle == IF n * m <= MaxCells THEN DynamicAlignment(midA, midB)
                                       ELSE UniqueAlignment(midA, midB)
    IN  {<<i, i>> : i \in 1 .. p}
        \cup {<<pair[1] + p, pair[2] + p>> : pair \in middle}
        \cup {<<Len(a) - i, Len(b) - i>> : i \in 0 .. (s - 1)}

-----------------------------------------------------------------------------
\* The plan

Keep(i)   == [kind |-> "keep", index |-> i]
Insert(i) == [kind |-> "insert", index |-> i]

\* In a region both sides changed: the live blocks that theirs did not remove ...
\* (Mutant: theirs' removals are dropped.)
KeepsAllLive(k, baseSeg, theirsSeg) == TRUE
KeepsLive(k, baseSeg, theirsSeg) == k \notin ToSet(baseSeg) \ ToSet(theirsSeg)

\* ... and then the blocks of theirs that are new.
\* (Mutant: live wins the region.)
TakesNone(k, baseSeg, currentSeg) == FALSE
TakesTheirs(k, baseSeg, currentSeg) == k \notin ToSet(baseSeg) \cup ToSet(currentSeg)

\* Mutant: a region is never seen to be untouched live.
NeverUnchanged(baseSeg, currentSeg) == FALSE
LiveUnchanged(baseSeg, currentSeg) == baseSeg = currentSeg

\* The elements of s at the places in S, in order.
Selected(s, S) ==
    LET selected[i \in 0 .. Len(s)] ==
            IF i = 0 THEN <<>>
            ELSE IF i \in S THEN Append(selected[i - 1], s[i]) ELSE selected[i - 1]
    IN selected[Len(s)]

\* The steps for the region between two anchors.
Gap(base, theirs, current, from, to) ==
    LET baseSeg    == SubSeq(base, from[1] + 1, to[1] - 1)
        theirsSeg  == SubSeq(theirs, from[2] + 1, to[2] - 1)
        currentSeg == SubSeq(current, from[3] + 1, to[3] - 1)
        Keeps   == [i \in 1 .. Len(currentSeg) |-> Keep(from[3] + i)]
        Inserts == [i \in 1 .. Len(theirsSeg) |-> Insert(from[2] + i)]
    IN  IF theirsSeg \in {baseSeg, currentSeg} THEN Keeps
        ELSE IF LiveUnchanged(baseSeg, currentSeg) THEN Inserts
        ELSE Selected(Keeps, {i \in DOMAIN Keeps : KeepsLive(currentSeg[i], baseSeg, theirsSeg)})
             \o Selected(Inserts, {i \in DOMAIN Inserts : TakesTheirs(theirsSeg[i], baseSeg, currentSeg)})

\* The block that an alignment pairs with the b-th.
IsAligned(pairs, b) == \E p \in pairs : p[1] = b
Partner(pairs, b) == (CHOOSE p \in pairs : p[1] = b)[2]

\* A block aligned in all three documents is an anchor if it lies behind the last one in
\* each: the plan goes on over the region before it, and keeps it.
Anchored(base, theirs, current, prev, place) ==
    IF place[2] > prev.from[2] /\ place[3] > prev.from[3]
    THEN [from  |-> place,
          steps |-> prev.steps \o Gap(base, theirs, current, prev.from, place) \o <<Keep(place[3])>>]
    ELSE prev

\* The plan for the first b blocks of base.
PlanTo(base, theirs, current) ==
    LET inTheirs  == LcsPairs(base, theirs)
        inCurrent == LcsPairs(base, current)
        plan[b \in 0 .. Len(base)] ==
            IF b = 0 THEN [from |-> <<0, 0, 0>>, steps |-> <<>>]
            ELSE IF IsAligned(inTheirs, b) /\ IsAligned(inCurrent, b)
            THEN Anchored(base, theirs, current, plan[b - 1],
                          <<b, Partner(inTheirs, b), Partner(inCurrent, b)>>)
            ELSE plan[b - 1]
    IN plan

\* planBlockMerge
PlanBlockMerge(base, theirs, current) ==
    LET plan == PlanTo(base, theirs, current)[Len(base)]
        end  == <<Len(base) + 1, Len(theirs) + 1, Len(current) + 1>>
    IN  plan.steps \o Gap(base, theirs, current, plan.from, end)

-----------------------------------------------------------------------------
\* The splice

\* Blocks the plan does not keep are deleted, the last first; then the plan is
\* walked: a kept block is stepped over, a new one inserted at the position.
WithoutUnkept(current, steps) ==
    LET kept == {steps[i].index : i \in {j \in 1 .. Len(steps) : steps[j].kind = "keep"}}
        left[i \in 0 .. Len(current)] ==
            IF i = 0 THEN current
            ELSE LET index == Len(current) - i + 1
                 IN IF index \in kept THEN left[i - 1] ELSE RemoveAt(left[i - 1], index)
    IN left[Len(current)]

\* (Mutant: new blocks go last.)
InsertsAtEnd(position, fragment) == Len(fragment) + 1
InsertPosition(position, fragment) == position

\* An emptied fragment gets a paragraph.
NeverEmpty(blocks) == IF blocks = <<>> THEN <<Blank>> ELSE blocks

Spliced(theirs, current, steps) ==
    LET fragment[i \in 0 .. Len(steps)] ==
            IF i = 0 THEN WithoutUnkept(current, steps)
            ELSE IF steps[i].kind = "keep" THEN fragment[i - 1]
            ELSE InsertAt(fragment[i - 1], InsertPosition(i, fragment[i - 1]), theirs[steps[i].index])
    IN fragment[Len(steps)]

MergeSourceIntoYFragment(base, theirs, current) ==
    NeverEmpty(Spliced(theirs, current, PlanBlockMerge(base, theirs, current)))
=============================================================================
