---------------------------- MODULE LiveHeadings ----------------------------
(***************************************************************************)
(* Headings in a live room: what a checkpoint writes for them              *)
(* (editorDocToNoma of src/src/editor-model.ts) and what the checkpoint's  *)
(* own write hook then merges back into the room.                          *)
(*                                                                         *)
(* A heading has a stable ID.  One typed in the editor has none: the parser *)
(* gives it one made from its title, unless its line spells another one    *)
(* out.  An ID is the sequence of its parts: the slug of the title, and    *)
(* the numbers that were appended to it.                                   *)
(***************************************************************************)
EXTENDS BlockMerge

CONSTANTS
    Titles,       \* of headings
    Texts,        \* of paragraphs
    Slug,         \* the slug of each title (headingSlug); one may be another with a number
    MaxAttempts,  \* of enforceHeadingIds, 8 in the code
    MaxLen        \* bound on the blocks of the document

NoId == <<>>
Ids == Seq(Nat) \ {NoId}

ASSUME LiveHeadingsAssumption ==
    /\ Titles \cap Texts = {}
    /\ Slug \in [Titles -> Ids]
    /\ MaxAttempts \in Nat /\ MaxLen \in Nat \ {0}
ASSUME BlankAssumption == Blank = [text |-> "", id |-> <<>>, explicit |-> FALSE]

VARIABLES
    doc,      \* the room's blocks
    base,     \* room.baseSource, as blocks
    source,   \* the record's source, as blocks
    settled,  \* history: no checkpoint ran out of attempts
    typed,    \* history: the texts of the document that people wrote and see
    shown     \* typed, when the last checkpoint was made

vars == <<doc, base, source, settled, typed, shown>>

\* A block as its key: a heading carries its ID and whether its line spells it out.
Paragraph(t) == [text |-> t, id |-> NoId, explicit |-> FALSE]
Heading(t, id, explicit) == [text |-> t, id |-> id, explicit |-> explicit]
IsHeading(b) == b.text \in Titles

Init ==
    /\ \E t \in Titles, p \in Texts :
          doc = <<Heading(t, Slug[t], FALSE), Paragraph(p)>>
    /\ base = doc /\ source = doc
    /\ settled = TRUE
    /\ typed = [i \in 1 .. Len(doc) |-> doc[i].text]
    /\ shown = typed

-----------------------------------------------------------------------------
\* Claims

Headings(s) == {i \in 1 .. Len(s) : IsHeading(s[i])}

\* The headings that are there unchanged in the old source, as emitList aligns them.
Unchanged(s, old) == {i \in Headings(s) : \E pair \in LcsPairs(old, s) : pair[2] = i}

\* The IDs the headings of s claim (claimId).  An unchanged one keeps its ID; of the
\* others the first to ask for an ID gets it, and the rest count as having none.
\* (Mutant: a renamed heading loses its ID.)
ClaimedIfUnchanged(s, old) ==
    LET kept == Unchanged(s, old)
    IN  [i \in 1 .. Len(s) |-> IF i \in kept THEN s[i].id ELSE NoId]

Claimed(s, old) ==
    LET kept == Unchanged(s, old)
    IN  [i \in 1 .. Len(s) |->
            IF i \in kept \/ \A j \in kept \cup 1 .. (i - 1) : s[j].id # s[i].id
            THEN s[i].id ELSE NoId]

\* The lines that emitList leaves: a heading's line spells out its claim when the
\* heading had its ID spelled out; "id" is what recordHeading notes for it.
Lines(s, old) ==
    LET claimed == Claimed(s, old)
    IN  [i \in 1 .. Len(s) |->
            [text    |-> s[i].text,
             id      |-> claimed[i],
             spelled |-> IF s[i].explicit THEN claimed[i] ELSE NoId]]

-----------------------------------------------------------------------------
\* IDs

\* The slug with the first number from 2 on that is free.
Numbered(slug, taken) ==
    Append(slug, Min({n \in 2 .. Cardinality(taken) + 2 : Append(slug, n) \notin taken}))

\* foldSections of the parser: an ID that is not spelled out differs from those
\* before it that are not spelled out either; spelled ones it does not look at.
Implicit(slug, seen) == IF slug \in seen THEN Numbered(slug, seen) ELSE slug

ParsedId(lines, i, earlier) ==
    IF ~IsHeading(lines[i]) THEN NoId
    ELSE IF lines[i].spelled # NoId THEN lines[i].spelled
    ELSE Implicit(Slug[lines[i].text],
                  {earlier[j] : j \in {k \in 1 .. (i - 1) : lines[k].spelled = NoId}})

ParsedTo(lines) ==
    LET ids[i \in 0 .. Len(lines)] ==
            IF i = 0 THEN <<>> ELSE Append(ids[i - 1], ParsedId(lines, i, ids[i - 1]))
    IN ids

ParsedIds(lines) == ParsedTo(lines)[Len(lines)]

\* One attempt of enforceHeadingIds.  A heading that is to have an ID has it; one
\* that is not keeps the parser's, unless an earlier heading has that or any is to
\* have it.  (Mutant: only the earlier headings are looked at.)
KeepsUnlessSeen(id, seen, intended) == id \notin seen
KeepsParsed(id, seen, intended) == id \notin seen \cup intended

Intended(lines) == {lines[i].id : i \in Headings(lines)} \ {NoId}

GivenId(lines, parsed, known, i, earlier) ==
    IF ~IsHeading(lines[i]) THEN NoId
    ELSE IF lines[i].id # NoId THEN lines[i].id
    ELSE IF KeepsParsed(parsed[i], ToSet(earlier), Intended(lines)) THEN parsed[i]
    ELSE Numbered(Slug[lines[i].text],
                  Intended(lines) \cup ToSet(parsed) \cup known \cup ToSet(earlier))

GivenTo(lines, parsed, known) ==
    LET given[i \in 0 .. Len(lines)] ==
            IF i = 0 THEN <<>> ELSE Append(given[i - 1], GivenId(lines, parsed, known, i, given[i - 1]))
    IN given

GivenIds(lines, known) == GivenTo(lines, ParsedIds(lines), known)[Len(lines)]

\* The lines of the headings that the parser gives another ID are rewritten.
Attempt(lines, known) ==
    LET parsed == ParsedIds(lines)
        given  == GivenIds(lines, known)
    IN  [i \in 1 .. Len(lines) |->
            IF given[i] = parsed[i] THEN lines[i]
            ELSE [lines[i] EXCEPT !.id = given[i], !.spelled = given[i]]]

\* enforceHeadingIds; an attempt that changes nothing is the last, and so would
\* be all that follow.
Attempts(lines, known) ==
    LET after[n \in 0 .. MaxAttempts] ==
            IF n = 0 THEN lines ELSE Attempt(after[n - 1], known)
    IN after

EnforceHeadingIds(lines, known) == Attempts(lines, known)[MaxAttempts]

\* The IDs that are in the document or the old source.
KnownIds(s, old) == {s[i].id : i \in Headings(s)} \cup {old[i].id : i \in Headings(old)}

Enforced(s, old) == EnforceHeadingIds(Lines(s, old), KnownIds(s, old))

\* What parsing the written lines gives back.
Parsed(lines) ==
    LET ids == ParsedIds(lines)
    IN  [i \in 1 .. Len(lines) |->
            [text |-> lines[i].text, id |-> ids[i], explicit |-> lines[i].spelled # NoId]]

\* editorDocToNoma, its source as blocks.
EditorDocToNoma(s, old) == Parsed(Enforced(s, old))

\* One more attempt would not change anything.
Settles(s, old) == Attempt(Enforced(s, old), KnownIds(s, old)) = Enforced(s, old)

\* editorIdBackfill and applyYAttrPatches: when the document and the source have
\* the same shape, headings without an ID get the one they have in the source.
EditorIdBackfill(s, parsed) ==
    IF Len(s) # Len(parsed) THEN s
    ELSE [i \in 1 .. Len(s) |->
            IF IsHeading(s[i]) /\ IsHeading(parsed[i]) /\ s[i].id = NoId
            THEN [s[i] EXCEPT !.id = parsed[i].id] ELSE s[i]]

-----------------------------------------------------------------------------
\* Editing, at any place

TypeHeading(i, t) ==
    /\ doc' = InsertAt(doc, i, Heading(t, NoId, FALSE))
    /\ typed' = InsertAt(typed, i, t)
    /\ UNCHANGED <<base, source, settled, shown>>

TypeParagraph(i, t) ==
    /\ doc' = InsertAt(doc, i, Paragraph(t))
    /\ typed' = InsertAt(typed, i, t)
    /\ UNCHANGED <<base, source, settled, shown>>

\* The title changes, the node keeps its ID.
Rename(i, t) ==
    /\ IsHeading(doc[i]) /\ doc[i].text # t
    /\ doc' = [doc EXCEPT ![i].text = t]
    /\ typed' = [typed EXCEPT ![i] = t]
    /\ UNCHANGED <<base, source, settled, shown>>

\* A checkpoint: the revision is written, its write hook merges it into the
\* room it came from, and IDs are filled in.
Checkpoint ==
    LET written == EditorDocToNoma(doc, base)
        merged  == MergeSourceIntoYFragment(base, written, doc)
    IN  /\ written # source
        /\ source' = written
        /\ base' = written
        /\ doc' = EditorIdBackfill(merged, written)
        /\ settled' = (settled /\ Settles(doc, base))
        /\ shown' = typed
        /\ UNCHANGED typed

Edit ==
    /\ Len(doc) < MaxLen
    /\ \E i \in 1 .. Min({Len(doc), Len(typed)}) + 1 :
          \/ \E t \in Titles : TypeHeading(i, t)
          \/ \E t \in Texts : TypeParagraph(i, t)

Next ==
    \/ Edit
    \/ \E i \in 1 .. Min({Len(doc), Len(typed)}), t \in Titles : Rename(i, t)
    \/ Len(doc) <= MaxLen /\ Checkpoint

Spec == Init /\ [][Next]_vars

-----------------------------------------------------------------------------
\* Properties

\* No two headings of a source carry the same ID, as long as enforceHeadingIds has
\* not run out of attempts: a heading typed with a title that is there already, or
\* whose slug is another's numbered one, does not steal an ID.
HeadingIdsAreUnique ==
    settled => \A i, j \in Headings(source) : source[i].id = source[j].id => i = j

\* An ID that was published stays, as long as no checkpoint has run out of attempts:
\* nobody here deletes a heading, and renaming one or inserting others around it
\* leaves the links to it valid.
StableIdsStay ==
    [][ settled' => \A i \in Headings(source) :
                       \E j \in 1 .. Len(source') : source'[j].id = source[i].id ]_vars

\* What a checkpoint publishes is what the editor showed.
PublishedAsTyped == [i \in 1 .. Len(source) |-> source[i].text] = shown
=============================================================================
