--------------------------- MODULE PublishedPage ---------------------------
(***************************************************************************)
(* What live editing promises of one page, without rooms, updates,         *)
(* snapshots or merges: there is one content that everybody edits and one  *)
(* published source, the one a reader or an agent gets.  A live edit       *)
(* changes the content; a write from outside changes both in the same way; *)
(* publishing makes the source equal to the content.                       *)
(***************************************************************************)
CONSTANTS Blocks, Seed

VARIABLES content, published

Init == content = Seed /\ published = Seed

LiveAdd(b) ==
    /\ b \notin content
    /\ content' = content \cup {b}
    /\ UNCHANGED published

LiveRemove(b) ==
    /\ b \in content
    /\ content' = content \ {b}
    /\ UNCHANGED published

WriteAdd(b) ==
    /\ b \notin published
    /\ published' = published \cup {b}
    /\ content' = content \cup {b}

WriteRemove(b) ==
    /\ b \in published
    /\ published' = published \ {b}
    /\ content' = content \ {b}

Publish ==
    /\ published' = content
    /\ UNCHANGED content

Next ==
    \/ \E b \in Blocks : LiveAdd(b) \/ LiveRemove(b) \/ WriteAdd(b) \/ WriteRemove(b)
    \/ Publish

Spec == Init /\ [][Next]_<<content, published>>
=============================================================================
