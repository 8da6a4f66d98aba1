----------------------------- MODULE LiveMerge -----------------------------
(***************************************************************************)
(* A page whose record and live document are edited independently and      *)
(* reconciled by MergeSourceIntoYFragment, with blocks in order and keys   *)
(* that may repeat.  It checks the merge on every triple of short          *)
(* documents, and what module CloudCollab assumes of it.                   *)
(***************************************************************************)
EXTENDS BlockMerge

CONSTANTS
    Keys,     \* block keys
    MaxLen    \* bound on the blocks of a document

ASSUME KeysAssumption == Blank \in Keys /\ MaxLen \in Nat \ {0}

VARIABLES
    base,     \* room.baseSource, as blocks
    theirs,   \* record.source, as blocks
    current   \* room.doc, as blocks

vars == <<base, theirs, current>>

\* A document has at least one block: canonicalEditorDoc gives an empty one a paragraph.
Documents == BoundedSeq(Keys, MaxLen) \ {<<>>}

\* A document with one block inserted, removed or replaced.
Edits(s) ==
    Documents \cap
        ({InsertAt(s, i, k) : i \in 1 .. Len(s) + 1, k \in Keys}
         \cup {RemoveAt(s, i) : i \in 1 .. Len(s)}
         \cup {ReplaceAt(s, i, k) : i \in 1 .. Len(s), k \in Keys})

Init == base = <<Blank>> /\ theirs = base /\ current = base

\* The record is written while no room is open, or by a checkpoint.
WriteSource == theirs' \in Edits(theirs) /\ UNCHANGED <<base, current>>
Checkpoint  == theirs' = current /\ UNCHANGED <<base, current>>

EditLive == current' \in Edits(current) /\ UNCHANGED <<base, theirs>>

\* mergeExternal
Merged == MergeSourceIntoYFragment(base, theirs, current)

MergeExternal ==
    /\ base # theirs
    /\ current' = Merged
    /\ Len(current') <= MaxLen
    /\ base' = theirs
    /\ UNCHANGED theirs

Next == WriteSource \/ Checkpoint \/ EditLive \/ MergeExternal

Spec == Init /\ [][Next]_vars

-----------------------------------------------------------------------------
\* Properties

\* lcsPairs gives a common subsequence as pairs that go forward on both sides, so
\* that no anchor lies behind another; and a longest one, when the part between the
\* common prefix and suffix fits the table.
LcsIsLongest ==
    LET pairs == LcsPairs(theirs, current)
        p == CommonPrefix(theirs, current)
        s == CommonSuffix(theirs, current, p)
    IN  /\ Alignment(pairs, theirs, current)
        /\ (Len(theirs) - p - s) * (Len(current) - p - s) <= MaxCells =>
              \A others \in SUBSET ((1 .. Len(theirs)) \X (1 .. Len(current))) :
                 Alignment(others, theirs, current) => Cardinality(others) <= Cardinality(pairs)

\* When only one side changed, the merge is that side; when both made the same
\* change, as in a checkpoint's own write hook, it changes nothing.
OneSidedIsExact ==
    theirs = base \/ current = base \/ theirs = current =>
        Merged = IF current = base THEN theirs ELSE current

\* The splice over the fragment gives what the plan says.
SpliceFollowsPlan ==
    LET steps == PlanBlockMerge(base, theirs, current)
        said == [i \in 1 .. Len(steps) |->
                    IF steps[i].kind = "keep" THEN current[steps[i].index] ELSE theirs[steps[i].index]]
    IN Merged = IF said = <<>> THEN <<Blank>> ELSE said

Count(s, k) == Cardinality({i \in 1 .. Len(s) : s[i] = k})

\* Whatever both sides did, a block only one of them wrote is in the merge: all
\* the copies that were typed live, and theirs.
BothVersionsSurvive ==
    \A k \in Keys \ ToSet(base) :
        /\ Count(Merged, k) >= Count(current, k)
        /\ k \in ToSet(theirs) => k \in ToSet(Merged)

\* What CloudCollab takes the merge to be: when no block occurs twice and nobody
\* reorders blocks, the merge is the merge of the sets of blocks.
Ordered(s, t) ==
    \A i, j \in 1 .. Len(s), k, l \in 1 .. Len(t) :
        s[i] = t[k] /\ s[j] = t[l] /\ i < j => k < l

MergeIsSetMerge ==
    (/\ \A s \in {base, theirs, current} : Cardinality(ToSet(s)) = Len(s)
     /\ \A s, t \in {base, theirs, current} : Ordered(s, t)) =>
        LET expected == (ToSet(current) \ (ToSet(base) \ ToSet(theirs)))
                        \cup (ToSet(theirs) \ ToSet(base))
        IN  /\ ToSet(Merged) = IF expected = {} THEN {Blank} ELSE expected
            /\ Cardinality(ToSet(Merged)) = Len(Merged)
=============================================================================
