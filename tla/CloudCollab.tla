---------------------------- MODULE CloudCollab ----------------------------
(***************************************************************************)
(* The live-editing hub of Noma Cloud (src/src/cloud-collab.ts) over the   *)
(* SQLite store (src/src/cloud-db.ts), for one page.                       *)
(*                                                                         *)
(* A page is the set of its blocks.  A block is a token written once: a    *)
(* paragraph typed again, or brought back by a restored version, is a new  *)
(* token.  The source of a page and its hash are identified, so the store's *)
(* hash check compares sets.  A Yjs document is the set of blocks it shows. *)
(*                                                                         *)
(* The server is one Node process over a synchronous database.  An event   *)
(* (a frame, a timer, a request) runs to completion, its promise           *)
(* continuations included, before the next event starts; only a crash cuts *)
(* it, and it can do so between any two committed transactions.  So an     *)
(* event whose handler commits more than once is an action for the part up *)
(* to its first commit, and one action per later commit, taken while pc    *)
(* names what is left to do; every other event waits for pc = "idle".      *)
(***************************************************************************)
EXTENDS Naturals, FiniteSets

CONSTANTS
    Clients,       \* principals that may open a socket, one socket each
    Guests,        \* those of them known only by a share link
    Blocks,        \* the tokens blocks are drawn from
    Seed,          \* the blocks of the page before anything happens; a page is not created empty
    Blocked,       \* blocks the workspace's DLP policy refuses to save
    MaxBody,       \* maxBodyBytes, in blocks
    MaxClients,    \* maxClientsPerRoom
    CompactAfter,  \* compactAfterBytes, in updates
    MaxRoom,       \* maxRoomBytes, in blocks and updates
    MaxStops,      \* bound on crashes and shutdowns
    None           \* "nobody", "no row"

Roles == {"none", "viewer", "editor"}

\* The row of collab_rooms and the rows of collab_updates of a page: the
\* compacted state, what replaying the pending updates on it gives, the source
\* the state was last reconciled with, the number of pending updates, and the
\* last of their authors who is a user (lastCollabActor).
SavedRoom == [state: SUBSET Blocks, replay: SUBSET Blocks, base: SUBSET Blocks,
              updates: Nat, actor: (Clients \ Guests) \cup {None}]

ASSUME ClientsAssumption == Guests \subseteq Clients /\ None \notin Clients
ASSUME BlocksAssumption ==
    /\ Seed \subseteq Blocks
    /\ Seed # {}
    /\ Blocked \subseteq Blocks
    /\ Seed \cap Blocked = {}
    /\ None \notin SavedRoom
ASSUME BoundsAssumption ==
    /\ MaxBody \in Nat
    /\ MaxClients \in Nat \ {0}
    /\ CompactAfter \in Nat
    /\ MaxRoom \in Nat
    /\ MaxStops \in Nat

VARIABLES
    \* The database: it outlives the process.
    source,    \* documents.source
    role,      \* what each principal may do with the page, from every grant it has
    trashed,   \* the page is in the trash
    writable,  \* the page is not confined to archived spaces
    saved,     \* the persisted room, or None
    \* The process.
    status,    \* "up", "closing" (shutdown was called) or "down"
    pc,        \* what is left of the event being handled
    joiner,    \* the client being admitted while its join opens the room
    \* The room, meaningful while live.
    live,      \* the hub holds a room for the page
    doc,       \* the blocks of room.doc
    base,      \* room.baseSource
    dirty,     \* room.dirty
    editor,    \* room.lastEditor, or None
    timer,     \* room.checkpointTimer is set
    clients,   \* room.clients
    access,    \* client.access of each connected client
    \* Bookkeeping of the specification; the code has none of it.
    used,      \* blocks written so far
    intent,    \* the blocks the page must hold: their writing was confirmed, no removal was asked
    removed,   \* the blocks it must not hold: their removal was confirmed
    author,    \* who made the last live edit that no checkpoint has tried to save, or None
    outdated,  \* clients whose rights changed with no write of the page's record
    stops      \* crashes and shutdowns so far

dbVars   == <<source, role, trashed, writable, saved>>
roomVars == <<live, doc, base, dirty, editor, timer, clients, access>>
bookVars == <<used, intent, removed, author, outdated, stops>>
vars     == <<dbVars, status, pc, joiner, roomVars, bookVars>>

Idle == status = "up" /\ pc = "idle"

\* A closing server goes on answering the requests and sockets it has.
Serving == status \in {"up", "closing"} /\ pc = "idle"

\* Three-way merge at block granularity: what theirs removed from or added to
\* the ancestor is removed from or added to current.
\* (Mutants: live edits, or the removals by theirs, are dropped.)
MergeTakesTheirs(ancestor, theirs, current) == theirs
MergeAddsOnly(ancestor, theirs, current) == current \cup (theirs \ ancestor)
Merge(ancestor, theirs, current) == (current \ (ancestor \ theirs)) \cup (theirs \ ancestor)

\* A snapshot row: it subsumes the pending updates, which are deleted with
\* their authors' names.
Row(d, b) == [state |-> d, replay |-> d, base |-> b, updates |-> 0, actor |-> None]

\* lastCollabActor once c, or (None) the system, has appended an update: the last
\* author who is a user.
LastActor(c) == IF c = None \/ c \in Guests THEN saved.actor ELSE c

\* appendCollabUpdate.  (Mutant: the update is acknowledged and not kept.)
AppendForgets(d, c) == [saved EXCEPT !.updates = @ + 1]
AppendUpdate(d, c) ==
    [state |-> saved.state, replay |-> d, base |-> saved.base,
     updates |-> saved.updates + 1, actor |-> LastActor(c)]

\* What the next room opened on the page will show: a function of the database alone.
Recovered == IF saved = None THEN source ELSE Merge(saved.base, source, saved.replay)

-----------------------------------------------------------------------------
Init ==
    /\ source = Seed
    /\ role \in [Clients -> Roles]
    /\ trashed = FALSE
    /\ writable = TRUE
    /\ saved = None
    /\ status = "up" /\ pc = "idle" /\ joiner = None
    /\ live = FALSE /\ doc = {} /\ base = {} /\ dirty = FALSE /\ editor = None /\ timer = FALSE
    /\ clients = {} /\ access = [c \in Clients |-> "none"]
    /\ used = Seed /\ intent = Seed /\ removed = {} /\ author = None /\ outdated = {} /\ stops = 0

\* The room's memory is gone.
DropRoom ==
    /\ live' = FALSE /\ doc' = {} /\ base' = {} /\ dirty' = FALSE /\ editor' = None
    /\ timer' = FALSE /\ clients' = {} /\ access' = [c \in Clients |-> "none"]

\* Whether a recheck keeps a client.  (Mutant: whenever the page is there.)
PageIsThere(c) == ~trashed
StillAllowed(c) == ~trashed /\ role'[c] # "none"

\* The role it then has.  (Mutant: the one it had.)
KeptAccess(c) == access[c]
NewAccess(c) == role'[c]

\* recheck for every client of the room: those without access are dropped, the
\* others get the role they have now.  Dropping the last client does not close
\* the room.
RecheckClients ==
    /\ clients' = {c \in clients : StillAllowed(c)}
    /\ access' = [c \in Clients |-> IF c \in clients' THEN NewAccess(c) ELSE "none"]
    /\ outdated' = {}

\* The user a reopened room's recovered edits are saved as.
RecoveredEditor ==
    IF saved # None /\ saved.updates > 0 /\ saved.actor # None /\ role[saved.actor] = "editor"
    THEN saved.actor ELSE None

-----------------------------------------------------------------------------
\* Sockets

MayJoin(c) == c \notin clients /\ ~trashed /\ role[c] # "none"

\* The source a room being opened was last reconciled with.  (Mutant: the record
\* as it is now.)
OpenBaseIsSource == source
OpenBase == IF saved = None THEN source ELSE saved.base

\* A first client: the room is rebuilt from its persisted state, or seeded
\* from the source, and reconciled with what was written meanwhile.
OpenRoom(c) ==
    /\ Serving /\ ~live /\ MayJoin(c)
    /\ live' = TRUE
    /\ doc' = IF saved = None THEN source ELSE saved.replay
    /\ base' = OpenBase
    /\ dirty' = FALSE /\ timer' = FALSE
    /\ editor' = RecoveredEditor
    /\ joiner' = c
    /\ pc' = IF base' # source THEN "merge-open" ELSE "snapshot-open"
    /\ UNCHANGED <<dbVars, status, clients, access, bookVars>>

\* A client of a room that is already there.
Join(c) ==
    /\ Serving /\ live /\ MayJoin(c)
    /\ Cardinality(clients) < MaxClients
    /\ clients' = clients \cup {c}
    /\ access' = [access EXCEPT ![c] = role[c]]
    /\ outdated' = outdated \ {c}
    /\ UNCHANGED <<dbVars, status, pc, joiner, live, doc, base, dirty, editor, timer,
                   used, intent, removed, author, stops>>

\* When a snapshot is due.  (Mutant: one update late.)
CompactsLate(n) == n > CompactAfter + 1
NeedsCompaction(n) == n > CompactAfter

\* What an accepted update frame does: the update is committed, then applied,
\* broadcast and acknowledged, and a checkpoint is scheduled.  While the server
\* closes there is no timer any more and no acknowledgement gets through.
Accept(c, newDoc) ==
    /\ Serving /\ c \in clients
    /\ access[c] # "viewer"
    /\ Cardinality(saved.state) + saved.updates + 1 <= MaxRoom
    /\ saved' = AppendUpdate(newDoc, c)
    /\ doc' = newDoc
    /\ dirty' = TRUE
    /\ editor' = c
    /\ timer' = (timer \/ status = "up")
    /\ author' = c
    /\ pc' = IF NeedsCompaction(saved'.updates) THEN "compact" ELSE "idle"
    /\ UNCHANGED <<source, role, trashed, writable, status, joiner, live, base,
                   clients, access, outdated, stops>>

AddBlock(c, b) ==
    /\ b \notin used
    /\ Accept(c, doc \cup {b})
    /\ used' = used \cup {b}
    /\ intent' = IF status = "up" THEN intent \cup {b} ELSE intent
    /\ UNCHANGED removed

RemoveBlock(c, b) ==
    /\ b \in doc
    /\ Accept(c, doc \ {b})
    /\ intent' = intent \ {b}
    /\ removed' = IF status = "up" THEN removed \cup {b} ELSE removed
    /\ UNCHANGED used

\* The snapshot that follows an update when too many are pending.
Compact ==
    /\ pc = "compact"
    /\ saved' = Row(doc, base)
    /\ pc' = "idle"
    /\ UNCHANGED <<source, role, trashed, writable, status, joiner, roomVars, bookVars>>

-----------------------------------------------------------------------------
\* Checkpoints

\* How a checkpoint that has something to do ends, in the order of its tests.
\* The record is read and compared within one event, so the store's hash check
\* succeeds; the conflict it can still meet is an archived space (also a 409).
\* An empty source is refused like one that the DLP policy blocks: for good.
CheckpointResult ==
    IF doc = source THEN "clean"
    ELSE IF Cardinality(doc) > MaxBody THEN "too_large"
    ELSE IF editor = None THEN "no_editor"
    ELSE IF ~writable THEN "archived"
    ELSE IF doc = {} THEN "empty"
    ELSE IF doc \cap (Blocked \ source) # {} THEN "blocked"
    ELSE "saved"

\* The checkpoint's revision is committed; its write hook comes next.
CommitRevision ==
    /\ source' = doc
    /\ author' = None
    /\ UNCHANGED <<role, trashed, writable, saved>>

\* The checkpoint timer fires, and there is a revision to save, or not.
CheckpointSaves ==
    /\ Idle /\ live /\ timer /\ dirty /\ CheckpointResult = "saved"
    /\ timer' = FALSE
    /\ CommitRevision
    /\ pc' = "merge"
    /\ UNCHANGED <<status, joiner, live, doc, base, dirty, editor, clients, access,
                   used, intent, removed, outdated, stops>>

\* Whether a checkpoint is tried again by itself.  (Mutant: never.)
NeverRetries(result) == FALSE
Retries(result) == result = "archived"

CheckpointSkips ==
    /\ Idle /\ live /\ timer
    /\ dirty => CheckpointResult # "saved"
    /\ timer' = (dirty /\ Retries(CheckpointResult))
    /\ dirty' = (dirty /\ CheckpointResult # "clean")
    /\ UNCHANGED <<dbVars, status, pc, joiner, live, doc, base, editor, clients, access, bookVars>>

\* A socket closes and others remain, or the server is closing.
Leave(c) ==
    /\ Serving /\ c \in clients
    /\ status = "closing" \/ clients # {c}
    /\ clients' = clients \ {c}
    /\ access' = [access EXCEPT ![c] = "none"]
    /\ UNCHANGED <<dbVars, status, pc, joiner, live, doc, base, dirty, editor, timer, bookVars>>

\* The last socket closes: the timer is cleared and a final checkpoint runs.
LastLeaves(c) ==
    /\ Idle /\ clients = {c}
    /\ clients' = {}
    /\ access' = [access EXCEPT ![c] = "none"]
    /\ timer' = FALSE
    /\ IF CheckpointResult = "saved"
       THEN CommitRevision /\ pc' = "merge-leave" /\ UNCHANGED dirty
       ELSE /\ pc' = "cleanup"
            /\ dirty' = (dirty /\ CheckpointResult # "clean")
            /\ UNCHANGED <<dbVars, author>>
    /\ UNCHANGED <<status, joiner, live, doc, base, editor, used, intent, removed, outdated, stops>>

\* The final checkpoint is over and nobody came: the room is saved and destroyed.
Cleanup ==
    /\ pc = "cleanup"
    /\ saved' = Row(doc, base)
    /\ pc' = "idle"
    /\ DropRoom
    /\ author' = None
    /\ UNCHANGED <<source, role, trashed, writable, status, joiner, used, intent, removed, outdated, stops>>

-----------------------------------------------------------------------------
\* The write hook and the merge of a record written outside the room

\* Mutant of the next definition: a room nobody is in is not told.
DocumentWrittenIfWatched ==
    IF ~live \/ status # "up" \/ clients = {}
    THEN UNCHANGED <<pc, clients, access, outdated>>
    ELSE IF source' # base
         THEN pc' = "merge" /\ UNCHANGED <<clients, access, outdated>>
         ELSE RecheckClients /\ UNCHANGED pc

\* documentWritten, as far as its first commit: every write of the record ends
\* here.  A source the room does not know is merged; otherwise the clients are
\* rechecked at once.  Without a room, or once shutdown was called, nothing.
DocumentWritten ==
    IF ~live \/ status # "up"
    THEN UNCHANGED <<pc, clients, access, outdated>>
    ELSE IF source' # base
         THEN pc' = "merge" /\ UNCHANGED <<clients, access, outdated>>
         ELSE RecheckClients /\ UNCHANGED pc

\* mergeExternal: the merge is one transaction of the Yjs document, persisted
\* as an update by "system"; the base moves to the merged source.
MergeExternal ==
    /\ pc \in {"merge", "merge-leave", "merge-open"}
    /\ doc' = Merge(base, source, doc)
    /\ base' = source
    /\ saved' = IF doc' = doc THEN saved
                ELSE AppendUpdate(doc', None)
    /\ pc' = IF pc = "merge" THEN "snapshot"
             ELSE IF pc = "merge-leave" THEN "snapshot-leave"
             ELSE "snapshot-open"
    /\ UNCHANGED <<source, role, trashed, writable, status, joiner, live, dirty, editor, timer,
                   clients, access, bookVars>>

\* Whether the room shows more than the record after a merge.  (Mutant: never.)
NeverStillDirty == FALSE
StillDirty == doc # source

\* The end of the hook: snapshot, then the room is dirty exactly when it still
\* shows something the record lacks, then every client is rechecked.  For a
\* checkpoint this is also its end; its own snapshot writes the same row.
HookEnds ==
    /\ pc \in {"snapshot", "snapshot-leave"}
    /\ saved' = Row(doc, base)
    /\ dirty' = StillDirty
    /\ timer' = (timer \/ StillDirty)
    /\ pc' = IF pc = "snapshot" THEN "idle" ELSE "cleanup"
    /\ UNCHANGED role
    /\ RecheckClients
    /\ UNCHANGED <<source, trashed, writable, status, joiner, live, doc, base, editor,
                   used, intent, removed, author, stops>>

\* The end of a join that opened the room: snapshot, then the client is admitted.
Admit ==
    /\ pc = "snapshot-open"
    /\ saved' = Row(doc, base)
    /\ dirty' = (doc # source)
    /\ timer' = (status = "up" /\ doc # source)
    /\ clients' = {joiner}
    /\ access' = [access EXCEPT ![joiner] = role[joiner]]
    /\ outdated' = outdated \ {joiner}
    /\ joiner' = None
    /\ pc' = "idle"
    /\ UNCHANGED <<source, role, trashed, writable, status, live, doc, base, editor,
                   used, intent, removed, author, stops>>

-----------------------------------------------------------------------------
\* Writes from outside the room, grants, trash, archive

\* A PUT, an applied patch, a restored version: a request whose precondition
\* holds, so the source it was based on is the source it replaces.  An empty
\* source is refused, and one too large, or that the policy blocks.  The archive
\* is looked at when the record is written, the trash before the body is read,
\* and the page may have gone there meanwhile.
WriteSource(newSource) ==
    /\ Serving /\ writable
    /\ newSource # {}
    /\ Cardinality(newSource) <= MaxBody
    /\ newSource \cap (Blocked \ source) = {}
    /\ source' = newSource
    /\ UNCHANGED <<role, trashed, writable, saved>>
    /\ DocumentWritten
    /\ UNCHANGED <<status, joiner, live, doc, base, dirty, editor, timer, author, stops>>

WriteAdds(b) ==
    /\ b \notin used
    /\ used' = used \cup {b}
    /\ intent' = intent \cup {b}
    /\ UNCHANGED removed
    /\ WriteSource(source \cup {b})

WriteRemoves(b) ==
    /\ b \in source
    /\ intent' = intent \ {b}
    /\ removed' = removed \cup {b}
    /\ UNCHANGED used
    /\ WriteSource(source \ {b})

\* A collaborator or share link of the page changes: the record is written.  Trash
\* and archive are both looked at before the body is read, and not again.
Grant(c, r) ==
    /\ Serving /\ role[c] # r
    /\ role' = [role EXCEPT ![c] = r]
    /\ UNCHANGED <<source, trashed, writable, saved>>
    /\ DocumentWritten
    /\ UNCHANGED <<status, joiner, live, doc, base, dirty, editor, timer, used, intent, removed, author, stops>>

\* Rights change elsewhere (a space or group grant, a session or token revoked):
\* nothing tells the hub.
GrantElsewhere(c, r) ==
    /\ Serving /\ role[c] # r
    /\ role' = [role EXCEPT ![c] = r]
    /\ outdated' = outdated \cup {c}
    /\ UNCHANGED <<source, trashed, writable, saved, status, pc, joiner, roomVars,
                   used, intent, removed, author, stops>>

\* The page goes to the trash, unless it is archived, or comes back.
SetTrashed(t) ==
    /\ Serving /\ trashed # t
    /\ t => writable
    /\ trashed' = t
    /\ outdated' = Clients
    /\ UNCHANGED <<source, role, writable, saved, status, pc, joiner, roomVars,
                   used, intent, removed, author, stops>>

\* The space of the page is archived or unarchived.
SetWritable(w) ==
    /\ Serving /\ writable # w
    /\ writable' = w
    /\ UNCHANGED <<source, role, trashed, saved, status, pc, joiner, roomVars, bookVars>>

\* recheckAll, on its interval.
RecheckAll ==
    /\ Idle /\ live
    /\ UNCHANGED role
    /\ RecheckClients
    /\ UNCHANGED <<source, trashed, writable, saved, status, pc, joiner, live, doc, base, dirty,
                   editor, timer, used, intent, removed, author, stops>>

-----------------------------------------------------------------------------
\* Shutdown, crash, restart

\* shutdown: timers stop, a final checkpoint runs and sockets start to close.
\* The checkpoint's write hook is ignored, the hub being closed.
Shutdown ==
    /\ Idle /\ stops < MaxStops
    /\ status' = "closing"
    /\ stops' = stops + 1
    /\ timer' = FALSE
    /\ pc' = IF live THEN "final" ELSE "idle"
    /\ IF live /\ CheckpointResult = "saved"
       THEN CommitRevision /\ dirty' = (doc # base)
       ELSE UNCHANGED <<dbVars, author>> /\ dirty' = (dirty /\ CheckpointResult # "clean")
    /\ UNCHANGED <<joiner, live, doc, base, editor, clients, access, used, intent, removed, outdated>>

\* The snapshot after the final checkpoint: with the base the room had.
FinalSnapshot ==
    /\ pc = "final"
    /\ saved' = Row(doc, base)
    /\ pc' = "idle"
    /\ UNCHANGED <<source, role, trashed, writable, status, joiner, roomVars, bookVars>>

\* The process ends once the requests it was serving are answered.
Exit ==
    /\ status = "closing" /\ pc = "idle"
    /\ status' = "down"
    /\ DropRoom
    /\ UNCHANGED <<dbVars, pc, joiner, bookVars>>

Crash ==
    /\ status # "down" /\ stops < MaxStops
    /\ status' = "down" /\ pc' = "idle" /\ joiner' = None
    /\ DropRoom
    /\ stops' = stops + 1
    /\ UNCHANGED <<dbVars, used, intent, removed, author, outdated>>

Start ==
    /\ status = "down"
    /\ status' = "up"
    /\ UNCHANGED <<dbVars, pc, joiner, roomVars, bookVars>>

-----------------------------------------------------------------------------
Continue ==
    \/ Compact
    \/ MergeExternal
    \/ HookEnds
    \/ Admit
    \/ Cleanup
    \/ FinalSnapshot

TimerFires == CheckpointSaves \/ CheckpointSkips

Next ==
    \/ \E c \in Clients : OpenRoom(c) \/ Join(c) \/ Leave(c) \/ LastLeaves(c)
    \/ \E c \in Clients, b \in Blocks : AddBlock(c, b) \/ RemoveBlock(c, b)
    \/ TimerFires
    \/ Continue
    \/ \E b \in Blocks : WriteAdds(b) \/ WriteRemoves(b)
    \/ \E c \in Clients, r \in Roles : Grant(c, r) \/ GrantElsewhere(c, r)
    \/ \E t \in BOOLEAN : SetTrashed(t)
    \/ \E w \in BOOLEAN : SetWritable(w)
    \/ RecheckAll
    \/ Shutdown
    \/ Exit
    \/ Crash
    \/ Start

Spec == Init /\ [][Next]_vars

\* A started event runs on, an armed timer fires, the recheck interval ticks
\* and a closing process ends.  Nothing is assumed of people, of crashes or of
\* whoever restarts the server.
Fairness ==
    /\ WF_vars(Continue)
    /\ WF_vars(TimerFires)
    /\ WF_vars(RecheckAll)
    /\ WF_vars(Exit)

FairSpec == Spec /\ Fairness

-----------------------------------------------------------------------------
\* Properties

\* Types, and the shape of the control state.
TypeOK ==
    /\ source \subseteq Blocks
    /\ role \in [Clients -> Roles]
    /\ trashed \in BOOLEAN /\ writable \in BOOLEAN
    /\ saved \in SavedRoom \cup {None}
    /\ status \in {"up", "closing", "down"}
    /\ pc \in {"idle", "compact", "merge", "merge-leave", "merge-open", "snapshot",
               "snapshot-leave", "snapshot-open", "cleanup", "final"}
    /\ joiner \in Clients \cup {None}
    /\ live \in BOOLEAN
    /\ doc \subseteq Blocks /\ base \subseteq Blocks
    /\ dirty \in BOOLEAN /\ timer \in BOOLEAN
    /\ editor \in Clients \cup {None}
    /\ clients \subseteq Clients
    /\ access \in [Clients -> Roles]
    /\ used \subseteq Blocks /\ intent \subseteq Blocks /\ removed \subseteq Blocks
    /\ author \in Clients \cup {None}
    /\ outdated \subseteq Clients
    /\ stops \in Nat

\* Every write that was confirmed, an acknowledged update or an answered
\* request, is in what the database would give back if the process stopped
\* now: no crash point, merge, checkpoint, compaction or closing loses it.
NothingLost == intent \subseteq Recovered

\* And nothing deleted comes back: what the database gives back holds no block
\* whose removal was confirmed.
NothingResurrected == Recovered \cap removed = {}

\* Between events the database holds exactly what the room shows, reconciled
\* with the same source.
RowMatchesRoom ==
    Idle /\ live => saved # None /\ saved.replay = doc /\ saved.base = base

\* Between events the room is reconciled with the record as it is: no write of
\* the record, whoever made it, is unknown to the room when it next checkpoints.
BaseIsSource == Idle /\ live => base = source

\* A room that is not dirty shows nothing that the record lacks, nor lacks
\* anything it has: reporting it clean (roomInfo) hides no unsaved edit.
CleanIsPublished == Idle /\ live /\ ~dirty => doc = source

\* Between events every connected client acts with the rights it has now,
\* except those whose rights changed with no write of the record since the
\* last recheck.
RightsAreCurrent ==
    Idle /\ live =>
        \A c \in clients \ outdated : ~trashed /\ access[c] = role[c] /\ access[c] # "none"

\* Compaction keeps the updates that a restart must replay within the bound.
PendingIsBounded == Idle /\ live => saved.updates <= CompactAfter

\* Opening a room whose last edit no checkpoint has tried to save, made by a user
\* who may still edit, finds that user, so that the edit can be saved as theirs.
RecoveredEditsHaveAnEditor ==
    [][ (~live /\ live') =>
        (/\ author \in Clients \ Guests
         /\ role[author] = "editor"
         /\ Recovered # source
         => editor' = author) ]_vars

\* What a checkpoint of the room would have to leave unsaved.
Unsavable ==
    \/ Cardinality(doc) > MaxBody
    \/ ~writable
    \/ doc = {}
    \/ doc \cap (Blocked \ source) # {}

\* In a room that knows an editor, every block added or removed live is in the
\* end published so, or the edit is undone, unless the server stops or the page
\* cannot be saved: it is too large, archived, emptied or holds a blocked block.
EditsArePublished ==
    \A b \in Blocks :
        (status = "up" /\ live /\ editor # None /\ (b \in doc) # (b \in source))
            ~> ((b \in doc) = (b \in source) \/ status # "up" \/ Unsavable)

\* A connected client that lost its access is disconnected, unless it is given
\* back or the server stops.
RevokedIsDisconnected ==
    \A c \in Clients :
        (c \in clients /\ role[c] = "none") ~> (c \notin clients \/ role[c] # "none")

\* While the server does not stop, the hub implements the published page: the
\* content is what the database gives back, the publication is the record.
Page == INSTANCE PublishedPage WITH content <- Recovered, published <- source
ImplementsPage == Page!Spec

-----------------------------------------------------------------------------
\* The inductive invariant behind the safety properties above.

\* A process that is down has no room; a room being opened has someone at the door
\* whom the record admits; only a closing hub is in its final snapshot.
Control ==
    /\ status = "down" => ~live
    /\ ~live => pc = "idle" /\ clients = {}
    /\ pc = "final" => status = "closing"
    /\ pc \in {"merge-open", "snapshot-open"} =>
          joiner \in Clients /\ ~trashed /\ role[joiner] # "none"

\* The row of a live room replays to the room's document at every step, and has its
\* base except between a merge and the snapshot that ends it.  Only the first
\* opening of the page meets no row.
RowFollowsRoom ==
    live =>
        \/ /\ saved # None
           /\ saved.replay = doc
           /\ pc \notin {"snapshot", "snapshot-leave", "snapshot-open"} => saved.base = base
        \/ saved = None /\ pc = "snapshot-open" /\ doc = source

\* After a merge, and until the next write of the record, the base is the source;
\* a closing hub merges no more.
Reconciled ==
    live =>
        /\ pc \in {"snapshot", "snapshot-leave", "snapshot-open"} => base = source
        /\ status = "up" /\ pc \in {"idle", "compact", "cleanup"} => base = source

\* The snapshot that ends a merge loses nothing: the row's replay is merged already.
SnapshotIsMerged ==
    pc \in {"snapshot", "snapshot-leave", "snapshot-open"} =>
        Recovered = IF saved = None THEN source ELSE saved.replay

\* Every block anywhere was written.
EverythingIsWritten ==
    /\ source \subseteq used /\ doc \subseteq used /\ base \subseteq used
    /\ saved # None => saved.base \subseteq used /\ saved.replay \subseteq used

\* The other properties, where the steps of an event do not suspend them.
CleanWhenRunning ==
    live /\ status = "up" /\ pc \in {"idle", "compact"} /\ ~dirty => doc = source

RightsWhenRunning ==
    live /\ status = "up" /\ pc \in {"idle", "compact"} =>
        \A c \in clients \ outdated : ~trashed /\ access[c] = role[c] /\ access[c] # "none"

PendingWhenRunning == live /\ pc = "idle" => saved.updates <= CompactAfter

\* All of it: what the initial states satisfy and every step preserves.
IInv ==
    /\ TypeOK
    /\ Control
    /\ RowFollowsRoom
    /\ Reconciled
    /\ SnapshotIsMerged
    /\ EverythingIsWritten
    /\ NothingLost
    /\ CleanWhenRunning
    /\ RightsWhenRunning
    /\ PendingWhenRunning

\* What also holds while the server does not stop: between events no block of the
\* record is in the row's document but unknown to its base, for a later removal of
\* such a block from the record would be taken for a live edit that restored it.
Uninterrupted ==
    /\ status = "up"
    /\ removed \subseteq used
    /\ pc = "idle" /\ saved # None => (source \ saved.base) \cap saved.replay = {}
    /\ NothingResurrected
=============================================================================
