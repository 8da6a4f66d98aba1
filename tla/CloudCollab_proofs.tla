------------------------- MODULE CloudCollab_proofs -------------------------
(***************************************************************************)
(* Safety of the live-editing hub, for every number of clients and blocks, *)
(* every bound and any number of crashes and shutdowns.                    *)
(*                                                                         *)
(* The safety properties follow from IInv.  IInv holds initially and every *)
(* action preserves it: one lemma per action, each with one step for the   *)
(* types and the control state, one for the row and the base, one for the  *)
(* content, and one for the rights, the dirty flag and the pending count.  *)
(***************************************************************************)
EXTENDS CloudCollab, TLAPS

-----------------------------------------------------------------------------
\* A merge already made changes nothing when made again; a merge of a source into
\* itself, and of a document into the source it became, gives the document.
LEMMA MergeFacts ==
    ASSUME NEW B, NEW S, NEW D
    PROVE  /\ Merge(B, S, Merge(B, S, D)) = Merge(B, S, D)
           /\ Merge(S, S, D) = D
           /\ Merge(B, D, D) = D
BY DEF Merge

\* A block nobody wrote yet joins a merge whichever side brings it, and a block
\* that is removed takes no other block with it.
LEMMA MergeEdits ==
    ASSUME NEW B, NEW S, NEW D, NEW b
    PROVE  /\ b \notin B => Merge(B, S, D \cup {b}) = Merge(B, S, D) \cup {b}
           /\ b \notin B => Merge(B, S \cup {b}, D) = Merge(B, S, D) \cup {b}
           /\ Merge(B, S, D) \ {b} \subseteq Merge(B, S, D \ {b})
           /\ Merge(B, S, D) \ {b} \subseteq Merge(B, S \ {b}, D)
BY DEF Merge

\* A snapshot row holds what was put in it, and is a row.
LEMMA RowFacts ==
    ASSUME NEW d \in SUBSET Blocks, NEW b \in SUBSET Blocks
    PROVE  /\ Row(d, b) \in SavedRoom /\ Row(d, b) # None
           /\ Row(d, b).replay = d /\ Row(d, b).base = b /\ Row(d, b).updates = 0
BY BlocksAssumption DEF Row, SavedRoom

\* An appended update keeps the base, and the row replays to the document it gives.
LEMMA AppendFacts ==
    ASSUME saved \in SavedRoom, NEW d \in SUBSET Blocks, NEW c \in Clients \cup {None}
    PROVE  /\ AppendUpdate(d, c) \in SavedRoom /\ AppendUpdate(d, c) # None
           /\ AppendUpdate(d, c).replay = d /\ AppendUpdate(d, c).base = saved.base
           /\ AppendUpdate(d, c).updates = saved.updates + 1
BY BlocksAssumption DEF AppendUpdate, LastActor, SavedRoom

\* The invariant holds before anything happens.
LEMMA InitIsGood == Init => IInv
<1> SUFFICES ASSUME Init PROVE IInv
  OBVIOUS
<1> USE DEF Init
<1>1. TypeOK
  BY ClientsAssumption, BlocksAssumption, BoundsAssumption DEF TypeOK, Roles
<1>2. Control /\ RowFollowsRoom /\ Reconciled /\ SnapshotIsMerged
  BY DEF Control, RowFollowsRoom, Reconciled, SnapshotIsMerged
<1>3. EverythingIsWritten /\ NothingLost
  BY DEF EverythingIsWritten, NothingLost, Recovered
<1>4. CleanWhenRunning /\ RightsWhenRunning /\ PendingWhenRunning
  BY DEF CleanWhenRunning, RightsWhenRunning, PendingWhenRunning
<1> QED
  BY <1>1, <1>2, <1>3, <1>4 DEF IInv

-----------------------------------------------------------------------------
\* The invariant survives a room being opened: the row, if there is one, is what it shows.
LEMMA OpenRoomIsGood == ASSUME IInv, NEW c \in Clients, OpenRoom(c) PROVE IInv'
<1> USE DEF OpenRoom, Serving, MayJoin, OpenBase, RecoveredEditor, dbVars, bookVars
<1>1. TypeOK'
  BY ClientsAssumption DEF IInv, TypeOK, SavedRoom, Roles
<1>2. Control'
  BY DEF IInv, TypeOK, Control
<1>3. RowFollowsRoom' /\ Reconciled'
  BY DEF IInv, TypeOK, Control, RowFollowsRoom, Reconciled
<1>4. SnapshotIsMerged'
  BY MergeFacts DEF IInv, TypeOK, Control, RowFollowsRoom, Reconciled, SnapshotIsMerged, Recovered
<1>5. EverythingIsWritten' /\ NothingLost'
  BY MergeFacts, MergeEdits
     DEF IInv, TypeOK, Control, RowFollowsRoom, Reconciled, SnapshotIsMerged,
         EverythingIsWritten, NothingLost, Recovered
<1>6. CleanWhenRunning' /\ RightsWhenRunning' /\ PendingWhenRunning'
  BY DEF IInv, TypeOK, Control, RowFollowsRoom, Reconciled, CleanWhenRunning,
         RightsWhenRunning, PendingWhenRunning
<1> QED
  BY <1>1, <1>2, <1>3, <1>4, <1>5, <1>6 DEF IInv

\* ... a client joining a room that is there, with the rights it has now.
LEMMA JoinIsGood == ASSUME IInv, NEW c \in Clients, Join(c) PROVE IInv'
<1> USE DEF Join, Serving, MayJoin, dbVars
<1>1. TypeOK'
  BY ClientsAssumption DEF IInv, TypeOK, SavedRoom, Roles
<1>2. Control'
  BY DEF IInv, TypeOK, Control
<1>3. RowFollowsRoom' /\ Reconciled'
  BY DEF IInv, TypeOK, Control, RowFollowsRoom, Reconciled
<1>4. SnapshotIsMerged'
  BY MergeFacts DEF IInv, TypeOK, Control, RowFollowsRoom, Reconciled, SnapshotIsMerged, Recovered
<1>5. EverythingIsWritten' /\ NothingLost'
  BY MergeFacts, MergeEdits
     DEF IInv, TypeOK, Control, RowFollowsRoom, Reconciled, SnapshotIsMerged,
         EverythingIsWritten, NothingLost, Recovered
<1>6. CleanWhenRunning' /\ RightsWhenRunning' /\ PendingWhenRunning'
  BY DEF IInv, TypeOK, Control, RowFollowsRoom, Reconciled, CleanWhenRunning,
         RightsWhenRunning, PendingWhenRunning
<1> QED
  BY <1>1, <1>2, <1>3, <1>4, <1>5, <1>6 DEF IInv

\* ... a live edit that writes a block: the merge a restart would make keeps it.
LEMMA AddBlockIsGood ==
    ASSUME IInv, NEW c \in Clients, NEW b \in Blocks, AddBlock(c, b) PROVE IInv'
<1>a. /\ saved \in SavedRoom /\ saved # None /\ live /\ pc = "idle"
      /\ saved.replay = doc /\ saved.base = base
  BY DEF IInv, TypeOK, Control, RowFollowsRoom, AddBlock, Accept, Serving
<1>b. /\ saved' \in SavedRoom /\ saved' # None /\ saved'.replay = doc'
      /\ saved'.base = saved.base /\ saved'.updates = saved.updates + 1
  BY <1>a, AppendFacts DEF IInv, TypeOK, AddBlock, Accept
<1> USE DEF AddBlock, Accept, Serving
<1>1. TypeOK'
  <2>1. /\ source' \subseteq Blocks /\ role' \in [Clients -> Roles]
        /\ trashed' \in BOOLEAN /\ writable' \in BOOLEAN
        /\ saved' \in SavedRoom \cup {None}
    BY <1>b DEF IInv, TypeOK
  <2>2. /\ status' \in {"up", "closing", "down"}
        /\ pc' \in {"idle", "compact", "merge", "merge-leave", "merge-open", "snapshot",
                    "snapshot-leave", "snapshot-open", "cleanup", "final"}
        /\ joiner' \in Clients \cup {None}
    BY DEF IInv, TypeOK
  <2>3. /\ live' \in BOOLEAN /\ doc' \subseteq Blocks /\ base' \subseteq Blocks
        /\ dirty' \in BOOLEAN /\ timer' \in BOOLEAN
        /\ editor' \in Clients \cup {None} /\ clients' \subseteq Clients
    BY DEF IInv, TypeOK
  <2>4. access' \in [Clients -> Roles]
    BY DEF IInv, TypeOK, Roles
  <2>5. /\ used' \subseteq Blocks /\ intent' \subseteq Blocks /\ removed' \subseteq Blocks
        /\ author' \in Clients \cup {None} /\ outdated' \subseteq Clients
    BY DEF IInv, TypeOK
  <2>6. stops' \in Nat
    BY DEF IInv, TypeOK
  <2> QED
    BY <2>1, <2>2, <2>3, <2>4, <2>5, <2>6 DEF TypeOK
<1>2. Control'
  BY DEF IInv, TypeOK, Control
<1>3. RowFollowsRoom' /\ Reconciled'
  BY <1>a, <1>b DEF IInv, RowFollowsRoom, Reconciled
<1>4. SnapshotIsMerged'
  BY DEF SnapshotIsMerged
<1>5. EverythingIsWritten'
  BY <1>a, <1>b DEF IInv, EverythingIsWritten
<1>6. NothingLost'
  <2>1. b \notin saved.base
    BY <1>a DEF IInv, EverythingIsWritten
  <2>2. Recovered = Merge(saved.base, source, doc)
    BY <1>a DEF Recovered
  <2>3. Recovered' = Merge(saved.base, source, doc \cup {b})
    BY <1>b DEF Recovered
  <2>4. Recovered' = Recovered \cup {b}
    BY <2>1, <2>2, <2>3 DEF Merge
  <2> QED
    BY <2>4 DEF IInv, NothingLost
<1>7. CleanWhenRunning' /\ RightsWhenRunning' /\ PendingWhenRunning'
  BY <1>a, <1>b, BoundsAssumption
     DEF IInv, TypeOK, SavedRoom, CleanWhenRunning, RightsWhenRunning, PendingWhenRunning, NeedsCompaction
<1> QED
  BY <1>1, <1>2, <1>3, <1>4, <1>5, <1>6, <1>7 DEF IInv

\* ... a live edit that removes a block, and no other block with it.
LEMMA RemoveBlockIsGood ==
    ASSUME IInv, NEW c \in Clients, NEW b \in Blocks, RemoveBlock(c, b) PROVE IInv'
<1>a. /\ saved \in SavedRoom /\ saved # None /\ live /\ pc = "idle"
      /\ saved.replay = doc /\ saved.base = base
  BY DEF IInv, TypeOK, Control, RowFollowsRoom, RemoveBlock, Accept, Serving
<1>b. /\ saved' \in SavedRoom /\ saved' # None /\ saved'.replay = doc'
      /\ saved'.base = saved.base /\ saved'.updates = saved.updates + 1
  BY <1>a, AppendFacts DEF IInv, TypeOK, RemoveBlock, Accept
<1> USE DEF RemoveBlock, Accept, Serving
<1>1. TypeOK'
  <2>1. /\ source' \subseteq Blocks /\ role' \in [Clients -> Roles]
        /\ trashed' \in BOOLEAN /\ writable' \in BOOLEAN
        /\ saved' \in SavedRoom \cup {None}
    BY <1>b DEF IInv, TypeOK
  <2>2. /\ status' \in {"up", "closing", "down"}
        /\ pc' \in {"idle", "compact", "merge", "merge-leave", "merge-open", "snapshot",
                    "snapshot-leave", "snapshot-open", "cleanup", "final"}
        /\ joiner' \in Clients \cup {None}
    BY DEF IInv, TypeOK
  <2>3. /\ live' \in BOOLEAN /\ doc' \subseteq Blocks /\ base' \subseteq Blocks
        /\ dirty' \in BOOLEAN /\ timer' \in BOOLEAN
        /\ editor' \in Clients \cup {None} /\ clients' \subseteq Clients
    BY DEF IInv, TypeOK
  <2>4. access' \in [Clients -> Roles]
    BY DEF IInv, TypeOK, Roles
  <2>5. /\ used' \subseteq Blocks /\ intent' \subseteq Blocks /\ removed' \subseteq Blocks
        /\ author' \in Clients \cup {None} /\ outdated' \subseteq Clients
    BY DEF IInv, TypeOK
  <2>6. stops' \in Nat
    BY DEF IInv, TypeOK
  <2> QED
    BY <2>1, <2>2, <2>3, <2>4, <2>5, <2>6 DEF TypeOK
<1>2. Control'
  BY DEF IInv, TypeOK, Control
<1>3. RowFollowsRoom' /\ Reconciled'
  BY <1>a, <1>b DEF IInv, RowFollowsRoom, Reconciled
<1>4. SnapshotIsMerged'
  BY DEF SnapshotIsMerged
<1>5. EverythingIsWritten'
  BY <1>a, <1>b DEF IInv, EverythingIsWritten
<1>6. NothingLost'
  <2>1. Recovered = Merge(saved.base, source, doc)
    BY <1>a DEF Recovered
  <2>2. Recovered' = Merge(saved.base, source, doc \ {b})
    BY <1>b DEF Recovered
  <2>3. Recovered \ {b} \subseteq Recovered'
    BY <2>1, <2>2, MergeEdits
  <2> QED
    BY <2>3 DEF IInv, NothingLost
<1>7. CleanWhenRunning' /\ RightsWhenRunning' /\ PendingWhenRunning'
  BY <1>a, <1>b, BoundsAssumption
     DEF IInv, TypeOK, SavedRoom, CleanWhenRunning, RightsWhenRunning, PendingWhenRunning, NeedsCompaction
<1> QED
  BY <1>1, <1>2, <1>3, <1>4, <1>5, <1>6, <1>7 DEF IInv

\* ... the compaction of the pending updates: the row replays to the same document.
LEMMA CompactIsGood ==
    ASSUME IInv, Compact PROVE IInv'
<1>a. live /\ doc \subseteq Blocks /\ base \subseteq Blocks
  BY DEF IInv, TypeOK, Control, Compact
<1>b. /\ saved' \in SavedRoom /\ saved' # None /\ saved'.replay = doc
      /\ saved'.base = base /\ saved'.updates = 0
  BY <1>a, RowFacts DEF Compact
<1>c. saved # None /\ saved.replay = doc /\ saved.base = base
  BY <1>a DEF IInv, RowFollowsRoom, Compact
<1>d. Recovered' = Recovered
  BY <1>b, <1>c DEF Recovered, Compact
<1> USE DEF Compact, roomVars, bookVars
<1>1. TypeOK'
  <2>1. /\ source' \subseteq Blocks /\ role' \in [Clients -> Roles]
        /\ trashed' \in BOOLEAN /\ writable' \in BOOLEAN
        /\ saved' \in SavedRoom \cup {None}
    BY <1>b DEF IInv, TypeOK
  <2>2. /\ status' \in {"up", "closing", "down"}
        /\ pc' \in {"idle", "compact", "merge", "merge-leave", "merge-open", "snapshot",
                    "snapshot-leave", "snapshot-open", "cleanup", "final"}
        /\ joiner' \in Clients \cup {None}
    BY DEF IInv, TypeOK
  <2>3. /\ live' \in BOOLEAN /\ doc' \subseteq Blocks /\ base' \subseteq Blocks
        /\ dirty' \in BOOLEAN /\ timer' \in BOOLEAN
        /\ editor' \in Clients \cup {None} /\ clients' \subseteq Clients
    BY DEF IInv, TypeOK
  <2>4. access' \in [Clients -> Roles]
    BY DEF IInv, TypeOK, Roles
  <2>5. /\ used' \subseteq Blocks /\ intent' \subseteq Blocks /\ removed' \subseteq Blocks
        /\ author' \in Clients \cup {None} /\ outdated' \subseteq Clients
    BY DEF IInv, TypeOK
  <2>6. stops' \in Nat
    BY DEF IInv, TypeOK
  <2> QED
    BY <2>1, <2>2, <2>3, <2>4, <2>5, <2>6 DEF TypeOK
<1>2. Control'
  BY DEF IInv, TypeOK, Control
<1>3. RowFollowsRoom' /\ Reconciled'
  BY <1>a, <1>b, <1>c DEF IInv, Control, RowFollowsRoom, Reconciled
<1>4. SnapshotIsMerged'
  BY DEF SnapshotIsMerged
<1>5. EverythingIsWritten'
  BY <1>b DEF IInv, EverythingIsWritten
<1>6. NothingLost'
  BY <1>d DEF IInv, NothingLost
<1>7. CleanWhenRunning' /\ RightsWhenRunning' /\ PendingWhenRunning'
  BY <1>b, BoundsAssumption
     DEF IInv, TypeOK, Control, CleanWhenRunning, RightsWhenRunning, PendingWhenRunning
<1> QED
  BY <1>1, <1>2, <1>3, <1>4, <1>5, <1>6, <1>7 DEF IInv

\* ... a checkpoint's revision, committed before the base moves.
LEMMA CheckpointSavesIsGood ==
    ASSUME IInv, CheckpointSaves PROVE IInv'
<1> USE DEF CheckpointSaves, CommitRevision, Idle
<1>1. TypeOK'
  <2>1. /\ source' \subseteq Blocks /\ role' \in [Clients -> Roles]
        /\ trashed' \in BOOLEAN /\ writable' \in BOOLEAN
        /\ saved' \in SavedRoom \cup {None}
    BY DEF IInv, TypeOK
  <2>2. /\ status' \in {"up", "closing", "down"}
        /\ pc' \in {"idle", "compact", "merge", "merge-leave", "merge-open", "snapshot",
                    "snapshot-leave", "snapshot-open", "cleanup", "final"}
        /\ joiner' \in Clients \cup {None}
    BY DEF IInv, TypeOK
  <2>3. /\ live' \in BOOLEAN /\ doc' \subseteq Blocks /\ base' \subseteq Blocks
        /\ dirty' \in BOOLEAN /\ timer' \in BOOLEAN
        /\ editor' \in Clients \cup {None} /\ clients' \subseteq Clients
    BY DEF IInv, TypeOK
  <2>4. access' \in [Clients -> Roles]
    BY DEF IInv, TypeOK, Roles
  <2>5. /\ used' \subseteq Blocks /\ intent' \subseteq Blocks /\ removed' \subseteq Blocks
        /\ author' \in Clients \cup {None} /\ outdated' \subseteq Clients
    BY DEF IInv, TypeOK
  <2>6. stops' \in Nat
    BY DEF IInv, TypeOK
  <2> QED
    BY <2>1, <2>2, <2>3, <2>4, <2>5, <2>6 DEF TypeOK
<1>2. Control'
  BY DEF IInv, TypeOK, Control
<1>3. RowFollowsRoom' /\ Reconciled'
  BY DEF IInv, TypeOK, Control, RowFollowsRoom, Reconciled
<1>4. SnapshotIsMerged'
  BY DEF IInv, Control, SnapshotIsMerged
<1>5. EverythingIsWritten'
  BY DEF IInv, EverythingIsWritten
<1>6. NothingLost'
  <2>1. /\ saved # None /\ saved.replay = doc /\ saved.base = base /\ base = source
    BY DEF IInv, RowFollowsRoom, Reconciled
  <2>2. Recovered = doc
    BY <2>1, MergeFacts DEF Recovered
  <2>3. Recovered' = doc
    BY <2>1, MergeFacts DEF Recovered
  <2> QED
    BY <2>2, <2>3 DEF IInv, NothingLost
<1>7. CleanWhenRunning' /\ RightsWhenRunning' /\ PendingWhenRunning'
  BY DEF IInv, TypeOK, Control, RowFollowsRoom, CleanWhenRunning, RightsWhenRunning, PendingWhenRunning
<1> QED
  BY <1>1, <1>2, <1>3, <1>4, <1>5, <1>6, <1>7 DEF IInv

\* ... a checkpoint with nothing to save, or that cannot save.
LEMMA CheckpointSkipsIsGood == ASSUME IInv, CheckpointSkips PROVE IInv'
<1> USE DEF CheckpointSkips, CheckpointResult, Idle, dbVars, bookVars
<1>1. TypeOK'
  BY ClientsAssumption DEF IInv, TypeOK, SavedRoom, Roles
<1>2. Control'
  BY DEF IInv, TypeOK, Control
<1>3. RowFollowsRoom' /\ Reconciled'
  BY DEF IInv, TypeOK, Control, RowFollowsRoom, Reconciled
<1>4. SnapshotIsMerged'
  BY MergeFacts DEF IInv, TypeOK, Control, RowFollowsRoom, Reconciled, SnapshotIsMerged, Recovered
<1>5. EverythingIsWritten' /\ NothingLost'
  BY MergeFacts, MergeEdits
     DEF IInv, TypeOK, Control, RowFollowsRoom, Reconciled, SnapshotIsMerged,
         EverythingIsWritten, NothingLost, Recovered
<1>6. CleanWhenRunning' /\ RightsWhenRunning' /\ PendingWhenRunning'
  BY DEF IInv, TypeOK, Control, RowFollowsRoom, Reconciled, CleanWhenRunning,
         RightsWhenRunning, PendingWhenRunning
<1> QED
  BY <1>1, <1>2, <1>3, <1>4, <1>5, <1>6 DEF IInv

\* ... a socket closing while others remain.
LEMMA LeaveIsGood == ASSUME IInv, NEW c \in Clients, Leave(c) PROVE IInv'
<1> USE DEF Leave, Serving, dbVars, bookVars
<1>1. TypeOK'
  BY ClientsAssumption DEF IInv, TypeOK, SavedRoom, Roles
<1>2. Control'
  BY DEF IInv, TypeOK, Control
<1>3. RowFollowsRoom' /\ Reconciled'
  BY DEF IInv, TypeOK, Control, RowFollowsRoom, Reconciled
<1>4. SnapshotIsMerged'
  BY MergeFacts DEF IInv, TypeOK, Control, RowFollowsRoom, Reconciled, SnapshotIsMerged, Recovered
<1>5. EverythingIsWritten' /\ NothingLost'
  BY MergeFacts, MergeEdits
     DEF IInv, TypeOK, Control, RowFollowsRoom, Reconciled, SnapshotIsMerged,
         EverythingIsWritten, NothingLost, Recovered
<1>6. CleanWhenRunning' /\ RightsWhenRunning' /\ PendingWhenRunning'
  BY DEF IInv, TypeOK, Control, RowFollowsRoom, Reconciled, CleanWhenRunning,
         RightsWhenRunning, PendingWhenRunning
<1> QED
  BY <1>1, <1>2, <1>3, <1>4, <1>5, <1>6 DEF IInv

\* ... the last socket closing, with its final checkpoint.
LEMMA LastLeavesIsGood == ASSUME IInv, NEW c \in Clients, LastLeaves(c) PROVE IInv'
<1> USE DEF LastLeaves, CommitRevision, Idle, dbVars
<1>1. TypeOK'
  BY ClientsAssumption DEF IInv, TypeOK, SavedRoom, Roles
<1>2. Control'
  BY DEF IInv, TypeOK, Control
<1>3. RowFollowsRoom' /\ Reconciled'
  BY DEF IInv, TypeOK, Control, RowFollowsRoom, Reconciled
<1>4. SnapshotIsMerged'
  BY MergeFacts DEF IInv, TypeOK, Control, RowFollowsRoom, Reconciled, SnapshotIsMerged, Recovered
<1>5. EverythingIsWritten' /\ NothingLost'
  BY MergeFacts, MergeEdits
     DEF IInv, TypeOK, Control, RowFollowsRoom, Reconciled, SnapshotIsMerged,
         EverythingIsWritten, NothingLost, Recovered
<1>6. CleanWhenRunning' /\ RightsWhenRunning' /\ PendingWhenRunning'
  BY DEF IInv, TypeOK, Control, RowFollowsRoom, Reconciled, CleanWhenRunning,
         RightsWhenRunning, PendingWhenRunning
<1> QED
  BY <1>1, <1>2, <1>3, <1>4, <1>5, <1>6 DEF IInv

\* ... the room being saved and destroyed.
LEMMA CleanupIsGood ==
    ASSUME IInv, Cleanup PROVE IInv'
<1>a. live /\ doc \subseteq Blocks /\ base \subseteq Blocks
  BY DEF IInv, TypeOK, Control, Cleanup
<1>b. /\ saved' \in SavedRoom /\ saved' # None /\ saved'.replay = doc
      /\ saved'.base = base /\ saved'.updates = 0
  BY <1>a, RowFacts DEF Cleanup
<1>c. saved # None /\ saved.replay = doc /\ saved.base = base
  BY <1>a DEF IInv, RowFollowsRoom, Cleanup
<1>d. Recovered' = Recovered
  BY <1>b, <1>c DEF Recovered, Cleanup
<1> USE DEF Cleanup, DropRoom
<1>1. TypeOK'
  <2>1. /\ source' \subseteq Blocks /\ role' \in [Clients -> Roles]
        /\ trashed' \in BOOLEAN /\ writable' \in BOOLEAN
        /\ saved' \in SavedRoom \cup {None}
    BY <1>b DEF IInv, TypeOK
  <2>2. /\ status' \in {"up", "closing", "down"}
        /\ pc' \in {"idle", "compact", "merge", "merge-leave", "merge-open", "snapshot",
                    "snapshot-leave", "snapshot-open", "cleanup", "final"}
        /\ joiner' \in Clients \cup {None}
    BY DEF IInv, TypeOK
  <2>3. /\ live' \in BOOLEAN /\ doc' \subseteq Blocks /\ base' \subseteq Blocks
        /\ dirty' \in BOOLEAN /\ timer' \in BOOLEAN
        /\ editor' \in Clients \cup {None} /\ clients' \subseteq Clients
    BY DEF IInv, TypeOK
  <2>4. access' \in [Clients -> Roles]
    BY DEF IInv, TypeOK, Roles
  <2>5. /\ used' \subseteq Blocks /\ intent' \subseteq Blocks /\ removed' \subseteq Blocks
        /\ author' \in Clients \cup {None} /\ outdated' \subseteq Clients
    BY DEF IInv, TypeOK
  <2>6. stops' \in Nat
    BY DEF IInv, TypeOK
  <2> QED
    BY <2>1, <2>2, <2>3, <2>4, <2>5, <2>6 DEF TypeOK
<1>2. Control'
  BY DEF IInv, TypeOK, Control
<1>3. RowFollowsRoom' /\ Reconciled'
  BY <1>a, <1>b, <1>c DEF IInv, Control, RowFollowsRoom, Reconciled
<1>4. SnapshotIsMerged'
  BY DEF SnapshotIsMerged
<1>5. EverythingIsWritten'
  BY <1>b DEF IInv, EverythingIsWritten
<1>6. NothingLost'
  BY <1>d DEF IInv, NothingLost
<1>7. CleanWhenRunning' /\ RightsWhenRunning' /\ PendingWhenRunning'
  BY <1>b, BoundsAssumption
     DEF IInv, TypeOK, Control, CleanWhenRunning, RightsWhenRunning, PendingWhenRunning
<1> QED
  BY <1>1, <1>2, <1>3, <1>4, <1>5, <1>6, <1>7 DEF IInv

\* ... the merge of the record into the room: it is the merge a restart would make.
LEMMA MergeExternalIsGood ==
    ASSUME IInv, MergeExternal PROVE IInv'
<1>a. /\ saved \in SavedRoom /\ saved # None /\ live
      /\ saved.replay = doc /\ saved.base = base
  BY DEF IInv, TypeOK, Control, RowFollowsRoom, MergeExternal
<1>b. /\ doc' = Merge(base, source, doc) /\ doc' \subseteq Blocks
  BY DEF IInv, TypeOK, Merge, MergeExternal
<1>c. /\ saved' \in SavedRoom /\ saved' # None /\ saved'.replay = doc' /\ saved'.base = base
  BY <1>a, <1>b, AppendFacts DEF MergeExternal
<1>d. Recovered = doc' /\ Recovered' = doc'
  <2>1. Recovered = doc'
    BY <1>a, <1>b DEF Recovered
  <2>2. Recovered' = Merge(base, source, Merge(base, source, doc))
    BY <1>b, <1>c DEF Recovered, MergeExternal
  <2> QED
    BY <2>1, <2>2, <1>b, MergeFacts
<1> USE DEF MergeExternal, bookVars
<1>1. TypeOK'
  BY <1>b, <1>c DEF IInv, TypeOK
<1>2. Control'
  BY <1>a DEF IInv, Control
<1>3. RowFollowsRoom' /\ Reconciled'
  BY <1>a, <1>c DEF IInv, RowFollowsRoom, Reconciled
<1>4. SnapshotIsMerged'
  BY <1>c, <1>d DEF SnapshotIsMerged
<1>5. EverythingIsWritten'
  BY <1>b, <1>c DEF IInv, EverythingIsWritten, Merge
<1>6. NothingLost'
  BY <1>d DEF IInv, NothingLost
<1>7. CleanWhenRunning' /\ RightsWhenRunning' /\ PendingWhenRunning'
  BY DEF CleanWhenRunning, RightsWhenRunning, PendingWhenRunning
<1> QED
  BY <1>1, <1>2, <1>3, <1>4, <1>5, <1>6, <1>7 DEF IInv

\* ... the snapshot that ends the write hook: the row was merged already.
LEMMA HookEndsIsGood ==
    ASSUME IInv, HookEnds PROVE IInv'
<1>a. live /\ doc \subseteq Blocks /\ base \subseteq Blocks
  BY DEF IInv, TypeOK, Control, HookEnds
<1>b. /\ saved' \in SavedRoom /\ saved' # None /\ saved'.replay = doc
      /\ saved'.base = base /\ saved'.updates = 0
  BY <1>a, RowFacts DEF HookEnds
<1>c. base = source /\ Recovered = doc
  BY <1>a DEF IInv, RowFollowsRoom, Reconciled, SnapshotIsMerged, HookEnds
<1>d. Recovered' = Recovered
  BY <1>b, <1>c, MergeFacts DEF Recovered, HookEnds
<1> USE DEF HookEnds, RecheckClients, StillAllowed, NewAccess, StillDirty
<1>1. TypeOK'
  <2>1. /\ source' \subseteq Blocks /\ role' \in [Clients -> Roles]
        /\ trashed' \in BOOLEAN /\ writable' \in BOOLEAN
        /\ saved' \in SavedRoom \cup {None}
    BY <1>b DEF IInv, TypeOK
  <2>2. /\ status' \in {"up", "closing", "down"}
        /\ pc' \in {"idle", "compact", "merge", "merge-leave", "merge-open", "snapshot",
                    "snapshot-leave", "snapshot-open", "cleanup", "final"}
        /\ joiner' \in Clients \cup {None}
    BY DEF IInv, TypeOK
  <2>3. /\ live' \in BOOLEAN /\ doc' \subseteq Blocks /\ base' \subseteq Blocks
        /\ dirty' \in BOOLEAN /\ timer' \in BOOLEAN
        /\ editor' \in Clients \cup {None} /\ clients' \subseteq Clients
    BY DEF IInv, TypeOK
  <2>4. access' \in [Clients -> Roles]
    BY DEF IInv, TypeOK, Roles
  <2>5. /\ used' \subseteq Blocks /\ intent' \subseteq Blocks /\ removed' \subseteq Blocks
        /\ author' \in Clients \cup {None} /\ outdated' \subseteq Clients
    BY DEF IInv, TypeOK
  <2>6. stops' \in Nat
    BY DEF IInv, TypeOK
  <2> QED
    BY <2>1, <2>2, <2>3, <2>4, <2>5, <2>6 DEF TypeOK
<1>2. Control'
  BY DEF IInv, TypeOK, Control
<1>3. RowFollowsRoom' /\ Reconciled'
  BY <1>a, <1>b, <1>c DEF IInv, Control, RowFollowsRoom, Reconciled
<1>4. SnapshotIsMerged'
  BY DEF SnapshotIsMerged
<1>5. EverythingIsWritten'
  BY <1>b DEF IInv, EverythingIsWritten
<1>6. NothingLost'
  BY <1>d DEF IInv, NothingLost
<1>7. CleanWhenRunning' /\ RightsWhenRunning' /\ PendingWhenRunning'
  BY <1>b, BoundsAssumption
     DEF IInv, TypeOK, Control, CleanWhenRunning, RightsWhenRunning, PendingWhenRunning
<1> QED
  BY <1>1, <1>2, <1>3, <1>4, <1>5, <1>6, <1>7 DEF IInv

\* ... the snapshot that ends a join, the first of the page included.
LEMMA AdmitIsGood ==
    ASSUME IInv, Admit PROVE IInv'
<1>a. live /\ doc \subseteq Blocks /\ base \subseteq Blocks
  BY DEF IInv, TypeOK, Control, Admit
<1>b. /\ saved' \in SavedRoom /\ saved' # None /\ saved'.replay = doc
      /\ saved'.base = base /\ saved'.updates = 0
  BY <1>a, RowFacts DEF Admit
<1>c. base = source /\ Recovered = doc
  BY <1>a DEF IInv, RowFollowsRoom, Reconciled, SnapshotIsMerged, Admit
<1>d. Recovered' = Recovered
  BY <1>b, <1>c, MergeFacts DEF Recovered, Admit
<1> USE DEF Admit
<1>1. TypeOK'
  <2>1. /\ source' \subseteq Blocks /\ role' \in [Clients -> Roles]
        /\ trashed' \in BOOLEAN /\ writable' \in BOOLEAN
        /\ saved' \in SavedRoom \cup {None}
    BY <1>b DEF IInv, TypeOK
  <2>2. /\ status' \in {"up", "closing", "down"}
        /\ pc' \in {"idle", "compact", "merge", "merge-leave", "merge-open", "snapshot",
                    "snapshot-leave", "snapshot-open", "cleanup", "final"}
        /\ joiner' \in Clients \cup {None}
    BY DEF IInv, TypeOK
  <2>3. /\ live' \in BOOLEAN /\ doc' \subseteq Blocks /\ base' \subseteq Blocks
        /\ dirty' \in BOOLEAN /\ timer' \in BOOLEAN
        /\ editor' \in Clients \cup {None} /\ clients' \subseteq Clients
    BY DEF IInv, TypeOK, Control
  <2>4. access' \in [Clients -> Roles]
    BY DEF IInv, TypeOK, Roles
  <2>5. /\ used' \subseteq Blocks /\ intent' \subseteq Blocks /\ removed' \subseteq Blocks
        /\ author' \in Clients \cup {None} /\ outdated' \subseteq Clients
    BY DEF IInv, TypeOK
  <2>6. stops' \in Nat
    BY DEF IInv, TypeOK
  <2> QED
    BY <2>1, <2>2, <2>3, <2>4, <2>5, <2>6 DEF TypeOK
<1>2. Control'
  BY DEF IInv, TypeOK, Control
<1>3. RowFollowsRoom' /\ Reconciled'
  BY <1>a, <1>b, <1>c DEF IInv, Control, RowFollowsRoom, Reconciled
<1>4. SnapshotIsMerged'
  BY DEF SnapshotIsMerged
<1>5. EverythingIsWritten'
  BY <1>b DEF IInv, EverythingIsWritten
<1>6. NothingLost'
  BY <1>d DEF IInv, NothingLost
<1>7. CleanWhenRunning' /\ RightsWhenRunning' /\ PendingWhenRunning'
  BY <1>b, BoundsAssumption
     DEF IInv, TypeOK, Control, CleanWhenRunning, RightsWhenRunning, PendingWhenRunning
<1> QED
  BY <1>1, <1>2, <1>3, <1>4, <1>5, <1>6, <1>7 DEF IInv

\* ... a request that adds a block to the record.
LEMMA WriteAddsIsGood ==
    ASSUME IInv, NEW b \in Blocks, WriteAdds(b) PROVE IInv'
<1> USE DEF WriteAdds, WriteSource, DocumentWritten, RecheckClients, StillAllowed, NewAccess, Serving
<1>1. TypeOK'
  BY DEF IInv, TypeOK, Roles
<1>2. Control'
  BY DEF IInv, TypeOK, Control
<1>3. RowFollowsRoom' /\ Reconciled'
  BY DEF IInv, TypeOK, Control, RowFollowsRoom, Reconciled
<1>4. SnapshotIsMerged'
  BY DEF IInv, Control, SnapshotIsMerged
<1>5. EverythingIsWritten'
  BY DEF IInv, EverythingIsWritten
<1>6. NothingLost'
  <2>1. CASE saved = None
    BY <2>1 DEF IInv, NothingLost, Recovered
  <2>2. CASE saved # None
    <3>1. b \notin saved.base
      BY <2>2 DEF IInv, EverythingIsWritten
    <3>2. Recovered' = Recovered \cup {b}
      BY <2>2, <3>1 DEF Recovered, Merge
    <3> QED
      BY <3>2 DEF IInv, NothingLost
  <2> QED
    BY <2>1, <2>2
<1>7. CleanWhenRunning' /\ RightsWhenRunning' /\ PendingWhenRunning'
  BY DEF IInv, TypeOK, Control, RowFollowsRoom, Reconciled, CleanWhenRunning,
     RightsWhenRunning, PendingWhenRunning
<1> QED
  BY <1>1, <1>2, <1>3, <1>4, <1>5, <1>6, <1>7 DEF IInv

\* ... a request that removes a block from the record.
LEMMA WriteRemovesIsGood == ASSUME IInv, NEW b \in Blocks, WriteRemoves(b) PROVE IInv'
<1> USE DEF WriteRemoves, WriteSource, DocumentWritten, RecheckClients, StillAllowed, NewAccess, Serving
<1>1. TypeOK'
  BY ClientsAssumption DEF IInv, TypeOK, SavedRoom, Roles
<1>2. Control'
  BY DEF IInv, TypeOK, Control
<1>3. RowFollowsRoom' /\ Reconciled'
  BY DEF IInv, TypeOK, Control, RowFollowsRoom, Reconciled
<1>4. SnapshotIsMerged'
  BY MergeFacts DEF IInv, TypeOK, Control, RowFollowsRoom, Reconciled, SnapshotIsMerged, Recovered
<1>5. EverythingIsWritten' /\ NothingLost'
  BY MergeFacts, MergeEdits
     DEF IInv, TypeOK, Control, RowFollowsRoom, Reconciled, SnapshotIsMerged,
         EverythingIsWritten, NothingLost, Recovered
<1>6. CleanWhenRunning' /\ RightsWhenRunning' /\ PendingWhenRunning'
  BY DEF IInv, TypeOK, Control, RowFollowsRoom, Reconciled, CleanWhenRunning,
         RightsWhenRunning, PendingWhenRunning
<1> QED
  BY <1>1, <1>2, <1>3, <1>4, <1>5, <1>6 DEF IInv

\* ... a grant on the page, after which the clients are rechecked.
LEMMA GrantIsGood == ASSUME IInv, NEW c \in Clients, NEW r \in Roles, Grant(c, r) PROVE IInv'
<1> USE DEF Grant, DocumentWritten, RecheckClients, StillAllowed, NewAccess, Serving
<1>1. TypeOK'
  BY ClientsAssumption DEF IInv, TypeOK, SavedRoom, Roles
<1>2. Control'
  BY DEF IInv, TypeOK, Control
<1>3. RowFollowsRoom' /\ Reconciled'
  BY DEF IInv, TypeOK, Control, RowFollowsRoom, Reconciled
<1>4. SnapshotIsMerged'
  BY MergeFacts DEF IInv, TypeOK, Control, RowFollowsRoom, Reconciled, SnapshotIsMerged, Recovered
<1>5. EverythingIsWritten' /\ NothingLost'
  BY MergeFacts, MergeEdits
     DEF IInv, TypeOK, Control, RowFollowsRoom, Reconciled, SnapshotIsMerged,
         EverythingIsWritten, NothingLost, Recovered
<1>6. CleanWhenRunning' /\ RightsWhenRunning' /\ PendingWhenRunning'
  BY DEF IInv, TypeOK, Control, RowFollowsRoom, Reconciled, CleanWhenRunning,
         RightsWhenRunning, PendingWhenRunning
<1> QED
  BY <1>1, <1>2, <1>3, <1>4, <1>5, <1>6 DEF IInv

\* ... a grant elsewhere, of which the hub hears nothing.
LEMMA GrantElsewhereIsGood == ASSUME IInv, NEW c \in Clients, NEW r \in Roles, GrantElsewhere(c, r) PROVE IInv'
<1> USE DEF GrantElsewhere, Serving, roomVars
<1>1. TypeOK'
  BY ClientsAssumption DEF IInv, TypeOK, SavedRoom, Roles
<1>2. Control'
  BY DEF IInv, TypeOK, Control
<1>3. RowFollowsRoom' /\ Reconciled'
  BY DEF IInv, TypeOK, Control, RowFollowsRoom, Reconciled
<1>4. SnapshotIsMerged'
  BY MergeFacts DEF IInv, TypeOK, Control, RowFollowsRoom, Reconciled, SnapshotIsMerged, Recovered
<1>5. EverythingIsWritten' /\ NothingLost'
  BY MergeFacts, MergeEdits
     DEF IInv, TypeOK, Control, RowFollowsRoom, Reconciled, SnapshotIsMerged,
         EverythingIsWritten, NothingLost, Recovered
<1>6. CleanWhenRunning' /\ RightsWhenRunning' /\ PendingWhenRunning'
  BY DEF IInv, TypeOK, Control, RowFollowsRoom, Reconciled, CleanWhenRunning,
         RightsWhenRunning, PendingWhenRunning
<1> QED
  BY <1>1, <1>2, <1>3, <1>4, <1>5, <1>6 DEF IInv

\* ... the page being trashed or brought back.
LEMMA SetTrashedIsGood == ASSUME IInv, NEW t \in BOOLEAN, SetTrashed(t) PROVE IInv'
<1> USE DEF SetTrashed, Serving, roomVars
<1>1. TypeOK'
  BY ClientsAssumption DEF IInv, TypeOK, SavedRoom, Roles
<1>2. Control'
  BY DEF IInv, TypeOK, Control
<1>3. RowFollowsRoom' /\ Reconciled'
  BY DEF IInv, TypeOK, Control, RowFollowsRoom, Reconciled
<1>4. SnapshotIsMerged'
  BY MergeFacts DEF IInv, TypeOK, Control, RowFollowsRoom, Reconciled, SnapshotIsMerged, Recovered
<1>5. EverythingIsWritten' /\ NothingLost'
  BY MergeFacts, MergeEdits
     DEF IInv, TypeOK, Control, RowFollowsRoom, Reconciled, SnapshotIsMerged,
         EverythingIsWritten, NothingLost, Recovered
<1>6. CleanWhenRunning' /\ RightsWhenRunning' /\ PendingWhenRunning'
  BY DEF IInv, TypeOK, Control, RowFollowsRoom, Reconciled, CleanWhenRunning,
         RightsWhenRunning, PendingWhenRunning
<1> QED
  BY <1>1, <1>2, <1>3, <1>4, <1>5, <1>6 DEF IInv

\* ... the page's space being archived or unarchived.
LEMMA SetWritableIsGood == ASSUME IInv, NEW w \in BOOLEAN, SetWritable(w) PROVE IInv'
<1> USE DEF SetWritable, Serving, roomVars, bookVars
<1>1. TypeOK'
  BY ClientsAssumption DEF IInv, TypeOK, SavedRoom, Roles
<1>2. Control'
  BY DEF IInv, TypeOK, Control
<1>3. RowFollowsRoom' /\ Reconciled'
  BY DEF IInv, TypeOK, Control, RowFollowsRoom, Reconciled
<1>4. SnapshotIsMerged'
  BY MergeFacts DEF IInv, TypeOK, Control, RowFollowsRoom, Reconciled, SnapshotIsMerged, Recovered
<1>5. EverythingIsWritten' /\ NothingLost'
  BY MergeFacts, MergeEdits
     DEF IInv, TypeOK, Control, RowFollowsRoom, Reconciled, SnapshotIsMerged,
         EverythingIsWritten, NothingLost, Recovered
<1>6. CleanWhenRunning' /\ RightsWhenRunning' /\ PendingWhenRunning'
  BY DEF IInv, TypeOK, Control, RowFollowsRoom, Reconciled, CleanWhenRunning,
         RightsWhenRunning, PendingWhenRunning
<1> QED
  BY <1>1, <1>2, <1>3, <1>4, <1>5, <1>6 DEF IInv

\* ... the periodic recheck.
LEMMA RecheckAllIsGood == ASSUME IInv, RecheckAll PROVE IInv'
<1> USE DEF RecheckAll, RecheckClients, StillAllowed, NewAccess, Idle
<1>1. TypeOK'
  BY ClientsAssumption DEF IInv, TypeOK, SavedRoom, Roles
<1>2. Control'
  BY DEF IInv, TypeOK, Control
<1>3. RowFollowsRoom' /\ Reconciled'
  BY DEF IInv, TypeOK, Control, RowFollowsRoom, Reconciled
<1>4. SnapshotIsMerged'
  BY MergeFacts DEF IInv, TypeOK, Control, RowFollowsRoom, Reconciled, SnapshotIsMerged, Recovered
<1>5. EverythingIsWritten' /\ NothingLost'
  BY MergeFacts, MergeEdits
     DEF IInv, TypeOK, Control, RowFollowsRoom, Reconciled, SnapshotIsMerged,
         EverythingIsWritten, NothingLost, Recovered
<1>6. CleanWhenRunning' /\ RightsWhenRunning' /\ PendingWhenRunning'
  BY DEF IInv, TypeOK, Control, RowFollowsRoom, Reconciled, CleanWhenRunning,
         RightsWhenRunning, PendingWhenRunning
<1> QED
  BY <1>1, <1>2, <1>3, <1>4, <1>5, <1>6 DEF IInv

\* ... the start of a shutdown and its final checkpoint, whose write hook is ignored.
LEMMA ShutdownIsGood ==
    ASSUME IInv, Shutdown PROVE IInv'
<1> USE DEF Shutdown, CommitRevision, Idle, dbVars
<1>1. TypeOK'
  <2>1. /\ source' \subseteq Blocks /\ role' \in [Clients -> Roles]
        /\ trashed' \in BOOLEAN /\ writable' \in BOOLEAN
        /\ saved' \in SavedRoom \cup {None}
    BY DEF IInv, TypeOK
  <2>2. /\ status' \in {"up", "closing", "down"}
        /\ pc' \in {"idle", "compact", "merge", "merge-leave", "merge-open", "snapshot",
                    "snapshot-leave", "snapshot-open", "cleanup", "final"}
        /\ joiner' \in Clients \cup {None}
    BY DEF IInv, TypeOK
  <2>3. /\ live' \in BOOLEAN /\ doc' \subseteq Blocks /\ base' \subseteq Blocks
        /\ dirty' \in BOOLEAN /\ timer' \in BOOLEAN
        /\ editor' \in Clients \cup {None} /\ clients' \subseteq Clients
    BY DEF IInv, TypeOK
  <2>4. access' \in [Clients -> Roles]
    BY DEF IInv, TypeOK, Roles
  <2>5. /\ used' \subseteq Blocks /\ intent' \subseteq Blocks /\ removed' \subseteq Blocks
        /\ author' \in Clients \cup {None} /\ outdated' \subseteq Clients
    BY DEF IInv, TypeOK
  <2>6. stops' \in Nat
    BY DEF IInv, TypeOK
  <2> QED
    BY <2>1, <2>2, <2>3, <2>4, <2>5, <2>6 DEF TypeOK
<1>2. Control'
  BY DEF IInv, TypeOK, Control
<1>3. RowFollowsRoom' /\ Reconciled'
  BY DEF IInv, TypeOK, Control, RowFollowsRoom, Reconciled
<1>4. SnapshotIsMerged'
  BY DEF IInv, Control, SnapshotIsMerged
<1>5. EverythingIsWritten'
  BY DEF IInv, EverythingIsWritten
<1>6. NothingLost'
  <2>1. CASE live /\ CheckpointResult = "saved"
    <3>1. /\ saved # None /\ saved.replay = doc /\ saved.base = base /\ base = source
      BY <2>1 DEF IInv, RowFollowsRoom, Reconciled
    <3>2. Recovered = doc /\ Recovered' = doc
      BY <2>1, <3>1, MergeFacts DEF Recovered
    <3> QED
      BY <3>2 DEF IInv, NothingLost
  <2>2. CASE ~(live /\ CheckpointResult = "saved")
    BY <2>2 DEF IInv, NothingLost, Recovered
  <2> QED
    BY <2>1, <2>2
<1>7. CleanWhenRunning' /\ RightsWhenRunning' /\ PendingWhenRunning'
  BY DEF IInv, TypeOK, Control, RowFollowsRoom, CleanWhenRunning, RightsWhenRunning, PendingWhenRunning
<1> QED
  BY <1>1, <1>2, <1>3, <1>4, <1>5, <1>6, <1>7 DEF IInv

\* ... the snapshot of a closing room, with the base it had.
LEMMA FinalSnapshotIsGood ==
    ASSUME IInv, FinalSnapshot PROVE IInv'
<1>a. live /\ doc \subseteq Blocks /\ base \subseteq Blocks
  BY DEF IInv, TypeOK, Control, FinalSnapshot
<1>b. /\ saved' \in SavedRoom /\ saved' # None /\ saved'.replay = doc
      /\ saved'.base = base /\ saved'.updates = 0
  BY <1>a, RowFacts DEF FinalSnapshot
<1>c. saved # None /\ saved.replay = doc /\ saved.base = base
  BY <1>a DEF IInv, RowFollowsRoom, FinalSnapshot
<1>d. Recovered' = Recovered
  BY <1>b, <1>c DEF Recovered, FinalSnapshot
<1> USE DEF FinalSnapshot, roomVars, bookVars
<1>1. TypeOK'
  <2>1. /\ source' \subseteq Blocks /\ role' \in [Clients -> Roles]
        /\ trashed' \in BOOLEAN /\ writable' \in BOOLEAN
        /\ saved' \in SavedRoom \cup {None}
    BY <1>b DEF IInv, TypeOK
  <2>2. /\ status' \in {"up", "closing", "down"}
        /\ pc' \in {"idle", "compact", "merge", "merge-leave", "merge-open", "snapshot",
                    "snapshot-leave", "snapshot-open", "cleanup", "final"}
        /\ joiner' \in Clients \cup {None}
    BY DEF IInv, TypeOK
  <2>3. /\ live' \in BOOLEAN /\ doc' \subseteq Blocks /\ base' \subseteq Blocks
        /\ dirty' \in BOOLEAN /\ timer' \in BOOLEAN
        /\ editor' \in Clients \cup {None} /\ clients' \subseteq Clients
    BY DEF IInv, TypeOK
  <2>4. access' \in [Clients -> Roles]
    BY DEF IInv, TypeOK, Roles
  <2>5. /\ used' \subseteq Blocks /\ intent' \subseteq Blocks /\ removed' \subseteq Blocks
        /\ author' \in Clients \cup {None} /\ outdated' \subseteq Clients
    BY DEF IInv, TypeOK
  <2>6. stops' \in Nat
    BY DEF IInv, TypeOK
  <2> QED
    BY <2>1, <2>2, <2>3, <2>4, <2>5, <2>6 DEF TypeOK
<1>2. Control'
  BY DEF IInv, TypeOK, Control
<1>3. RowFollowsRoom' /\ Reconciled'
  BY <1>a, <1>b, <1>c DEF IInv, Control, RowFollowsRoom, Reconciled
<1>4. SnapshotIsMerged'
  BY DEF SnapshotIsMerged
<1>5. EverythingIsWritten'
  BY <1>b DEF IInv, EverythingIsWritten
<1>6. NothingLost'
  BY <1>d DEF IInv, NothingLost
<1>7. CleanWhenRunning' /\ RightsWhenRunning' /\ PendingWhenRunning'
  BY <1>b, BoundsAssumption
     DEF IInv, TypeOK, Control, CleanWhenRunning, RightsWhenRunning, PendingWhenRunning
<1> QED
  BY <1>1, <1>2, <1>3, <1>4, <1>5, <1>6, <1>7 DEF IInv

\* ... the process ending.
LEMMA ExitIsGood == ASSUME IInv, Exit PROVE IInv'
<1> USE DEF Exit, DropRoom, dbVars, bookVars
<1>1. TypeOK'
  BY ClientsAssumption DEF IInv, TypeOK, SavedRoom, Roles
<1>2. Control'
  BY DEF IInv, TypeOK, Control
<1>3. RowFollowsRoom' /\ Reconciled'
  BY DEF IInv, TypeOK, Control, RowFollowsRoom, Reconciled
<1>4. SnapshotIsMerged'
  BY MergeFacts DEF IInv, TypeOK, Control, RowFollowsRoom, Reconciled, SnapshotIsMerged, Recovered
<1>5. EverythingIsWritten' /\ NothingLost'
  BY MergeFacts, MergeEdits
     DEF IInv, TypeOK, Control, RowFollowsRoom, Reconciled, SnapshotIsMerged,
         EverythingIsWritten, NothingLost, Recovered
<1>6. CleanWhenRunning' /\ RightsWhenRunning' /\ PendingWhenRunning'
  BY DEF IInv, TypeOK, Control, RowFollowsRoom, Reconciled, CleanWhenRunning,
         RightsWhenRunning, PendingWhenRunning
<1> QED
  BY <1>1, <1>2, <1>3, <1>4, <1>5, <1>6 DEF IInv

\* ... a crash between any two commits.
LEMMA CrashIsGood ==
    ASSUME IInv, Crash PROVE IInv'
<1> USE DEF Crash, DropRoom, dbVars
<1>1. TypeOK'
  <2>1. /\ source' \subseteq Blocks /\ role' \in [Clients -> Roles]
        /\ trashed' \in BOOLEAN /\ writable' \in BOOLEAN
        /\ saved' \in SavedRoom \cup {None}
    BY DEF IInv, TypeOK
  <2>2. /\ status' \in {"up", "closing", "down"}
        /\ pc' \in {"idle", "compact", "merge", "merge-leave", "merge-open", "snapshot",
                    "snapshot-leave", "snapshot-open", "cleanup", "final"}
        /\ joiner' \in Clients \cup {None}
    BY DEF IInv, TypeOK
  <2>3. /\ live' \in BOOLEAN /\ doc' \subseteq Blocks /\ base' \subseteq Blocks
        /\ dirty' \in BOOLEAN /\ timer' \in BOOLEAN
        /\ editor' \in Clients \cup {None} /\ clients' \subseteq Clients
    BY DEF IInv, TypeOK
  <2>4. access' \in [Clients -> Roles]
    BY DEF IInv, TypeOK, Roles
  <2>5. /\ used' \subseteq Blocks /\ intent' \subseteq Blocks /\ removed' \subseteq Blocks
        /\ author' \in Clients \cup {None} /\ outdated' \subseteq Clients
    BY DEF IInv, TypeOK
  <2>6. stops' \in Nat
    BY DEF IInv, TypeOK
  <2> QED
    BY <2>1, <2>2, <2>3, <2>4, <2>5, <2>6 DEF TypeOK
<1>2. Control'
  BY DEF IInv, TypeOK, Control
<1>3. RowFollowsRoom' /\ Reconciled'
  BY DEF IInv, TypeOK, Control, RowFollowsRoom, Reconciled
<1>4. SnapshotIsMerged'
  BY DEF IInv, Control, SnapshotIsMerged
<1>5. EverythingIsWritten'
  BY DEF IInv, EverythingIsWritten
<1>6. NothingLost'
  BY DEF IInv, NothingLost, Recovered
<1>7. CleanWhenRunning' /\ RightsWhenRunning' /\ PendingWhenRunning'
  BY DEF IInv, TypeOK, Control, RowFollowsRoom, CleanWhenRunning, RightsWhenRunning, PendingWhenRunning
<1> QED
  BY <1>1, <1>2, <1>3, <1>4, <1>5, <1>6, <1>7 DEF IInv

\* ... a restart.
LEMMA StartIsGood == ASSUME IInv, Start PROVE IInv'
<1> USE DEF Start, dbVars, roomVars, bookVars
<1>1. TypeOK'
  BY ClientsAssumption DEF IInv, TypeOK, SavedRoom, Roles
<1>2. Control'
  BY DEF IInv, TypeOK, Control
<1>3. RowFollowsRoom' /\ Reconciled'
  BY DEF IInv, TypeOK, Control, RowFollowsRoom, Reconciled
<1>4. SnapshotIsMerged'
  BY MergeFacts DEF IInv, TypeOK, Control, RowFollowsRoom, Reconciled, SnapshotIsMerged, Recovered
<1>5. EverythingIsWritten' /\ NothingLost'
  BY MergeFacts, MergeEdits
     DEF IInv, TypeOK, Control, RowFollowsRoom, Reconciled, SnapshotIsMerged,
         EverythingIsWritten, NothingLost, Recovered
<1>6. CleanWhenRunning' /\ RightsWhenRunning' /\ PendingWhenRunning'
  BY DEF IInv, TypeOK, Control, RowFollowsRoom, Reconciled, CleanWhenRunning,
         RightsWhenRunning, PendingWhenRunning
<1> QED
  BY <1>1, <1>2, <1>3, <1>4, <1>5, <1>6 DEF IInv

-----------------------------------------------------------------------------
\* Every step preserves the invariant.
LEMMA NextIsGood == IInv /\ [Next]_vars => IInv'
<1> SUFFICES ASSUME IInv, [Next]_vars PROVE IInv'
  OBVIOUS
<1>1. CASE \E c \in Clients : OpenRoom(c) \/ Join(c) \/ Leave(c) \/ LastLeaves(c)
  BY <1>1, OpenRoomIsGood, JoinIsGood, LeaveIsGood, LastLeavesIsGood
<1>2. CASE \E c \in Clients, b \in Blocks : AddBlock(c, b) \/ RemoveBlock(c, b)
  BY <1>2, AddBlockIsGood, RemoveBlockIsGood
<1>3. CASE TimerFires
  BY <1>3, CheckpointSavesIsGood, CheckpointSkipsIsGood DEF TimerFires
<1>4. CASE Continue
  BY <1>4, CompactIsGood, MergeExternalIsGood, HookEndsIsGood, AdmitIsGood, CleanupIsGood,
     FinalSnapshotIsGood DEF Continue
<1>5. CASE \E b \in Blocks : WriteAdds(b) \/ WriteRemoves(b)
  BY <1>5, WriteAddsIsGood, WriteRemovesIsGood
<1>6. CASE \E c \in Clients, r \in Roles : Grant(c, r) \/ GrantElsewhere(c, r)
  BY <1>6, GrantIsGood, GrantElsewhereIsGood
<1>7. CASE \/ \E t \in BOOLEAN : SetTrashed(t)
           \/ \E w \in BOOLEAN : SetWritable(w)
           \/ RecheckAll
  BY <1>7, SetTrashedIsGood, SetWritableIsGood, RecheckAllIsGood
<1>8. CASE Shutdown \/ Exit \/ Crash \/ Start
  BY <1>8, ShutdownIsGood, ExitIsGood, CrashIsGood, StartIsGood
<1>9. CASE UNCHANGED vars
  <2> USE <1>9 DEF IInv, vars, dbVars, roomVars, bookVars
  <2>1. TypeOK' /\ Control' /\ RowFollowsRoom' /\ Reconciled'
    BY DEF TypeOK, Control, RowFollowsRoom, Reconciled
  <2>2. SnapshotIsMerged' /\ EverythingIsWritten' /\ NothingLost'
    BY DEF SnapshotIsMerged, EverythingIsWritten, NothingLost, Recovered
  <2>3. CleanWhenRunning' /\ RightsWhenRunning' /\ PendingWhenRunning'
    BY DEF CleanWhenRunning, RightsWhenRunning, PendingWhenRunning
  <2> QED
    BY <2>1, <2>2, <2>3
<1> QED
  BY <1>1, <1>2, <1>3, <1>4, <1>5, <1>6, <1>7, <1>8, <1>9 DEF Next

\* The inductive invariant holds in every state the hub and its database can reach.
THEOREM Invariant == Spec => []IInv
<1>1. IInv /\ [Next]_vars => IInv'
  BY NextIsGood
<1> QED
  BY <1>1, InitIsGood, PTL DEF Spec

\* The state keeps its types and the control state its shape.
THEOREM TypeCorrect == Spec => []TypeOK
<1>1. IInv => TypeOK
  BY DEF IInv, TypeOK
<1> QED
  BY <1>1, Invariant, PTL

\* Every acknowledged live edit (handleMessage) and every answered write of the record is in
\* what the database would give back if the process stopped now, whatever crashes, merges,
\* checkpoints, compactions, shutdowns and restarts came between.
THEOREM ConfirmedWritesSurvive == Spec => []NothingLost
<1>1. IInv => NothingLost
  BY DEF IInv, NothingLost
<1> QED
  BY <1>1, Invariant, PTL

\* Between events the persisted room (collab_rooms and its updates) replays to the document
\* the room shows and has the room's base, so that a restart resumes exactly there.
THEOREM RowIsRoom == Spec => []RowMatchesRoom
<1>1. IInv => RowMatchesRoom
  BY DEF IInv, Idle, RowMatchesRoom, RowFollowsRoom
<1> QED
  BY <1>1, Invariant, PTL

\* Between events the room's base is the record's source (documentWritten, join): no
\* checkpoint can overwrite a revision the room has not merged.
THEOREM RoomKnowsTheRecord == Spec => []BaseIsSource
<1>1. IInv => BaseIsSource
  BY DEF IInv, Idle, BaseIsSource, Reconciled
<1> QED
  BY <1>1, Invariant, PTL

\* A room that says it is clean (room.dirty) shows exactly the record.
THEOREM CleanRoomsArePublished == Spec => []CleanIsPublished
<1>1. IInv => CleanIsPublished
  BY DEF IInv, Idle, CleanIsPublished, CleanWhenRunning
<1> QED
  BY <1>1, Invariant, PTL

\* Between events a connected client acts with the role it has now, unless its rights changed
\* since the last recheck with no write of the record (recheck).
THEOREM RightsFollowGrants == Spec => []RightsAreCurrent
<1>1. IInv => RightsAreCurrent
  BY DEF IInv, Idle, RightsAreCurrent, RightsWhenRunning
<1> QED
  BY <1>1, Invariant, PTL

\* Between events no more than CompactAfter updates wait to be replayed (compactAfterBytes).
THEOREM ReplayIsBounded == Spec => []PendingIsBounded
<1>1. IInv => PendingIsBounded
  BY DEF IInv, Idle, PendingIsBounded, PendingWhenRunning
<1> QED
  BY <1>1, Invariant, PTL

-----------------------------------------------------------------------------
(***************************************************************************)
(* While the server neither crashes nor shuts down, the hub implements     *)
(* PublishedPage: rooms, updates, snapshots, merges and checkpoints never  *)
(* show in what the page holds (Recovered) and what it publishes (source). *)
(*                                                                         *)
(* Every action is one of four kinds.  Quiet actions touch neither the row *)
(* nor the source; snapshots and merges change the row and not what it     *)
(* gives back; edits and requests add or remove one block; checkpoints     *)
(* publish.                                                                *)
(***************************************************************************)

Inv == IInv /\ Uninterrupted

\* What the refinement asks of a step.
Simulates == [Page!Next]_<<Recovered, source>>

\* A step that changes neither the content nor the record, and removes no block, is a
\* stutter of the page and resurrects nothing.
LEMMA StutterIsGood ==
    ASSUME Inv, Recovered' = Recovered, source' = source, removed' = removed, used' = used,
           status' = "up",
           pc' = "idle" /\ saved' # None => (source' \ saved'.base) \cap saved'.replay = {}
    PROVE  Uninterrupted' /\ Simulates
BY DEF Inv, Uninterrupted, NothingResurrected, Simulates

\* What the database gives back while a room is open and no merge is under way is what
\* the room shows.
LEMMA ContentIsDoc ==
    ASSUME Inv, live, pc \in {"idle", "compact", "cleanup"}
    PROVE  saved # None /\ saved.replay = doc /\ saved.base = source /\ base = source /\ Recovered = doc
<1>1. /\ saved # None /\ saved.replay = doc /\ saved.base = base /\ base = source
  BY DEF Inv, IInv, Uninterrupted, RowFollowsRoom, Reconciled
<1> QED
  BY <1>1, MergeFacts DEF Recovered

-----------------------------------------------------------------------------
\* A step that leaves the database's content and the record alone: an opening, a join, a
\* leave, a skipped checkpoint, a grant, the trash, the archive, a recheck.
LEMMA QuietIsGood ==
    ASSUME Inv, UNCHANGED <<saved, source, removed, used, status>>, pc' = "idle" => pc = "idle"
    PROVE  Uninterrupted' /\ Simulates
<1>1. Recovered' = Recovered
  BY DEF Recovered
<1> QED
  BY <1>1, StutterIsGood DEF Inv, Uninterrupted

\* A block typed live joins the content.
LEMMA AddBlockSimulates ==
    ASSUME Inv, NEW c \in Clients, NEW b \in Blocks, AddBlock(c, b)
    PROVE  Uninterrupted' /\ Simulates
<1>1. live /\ pc = "idle" /\ saved \in SavedRoom /\ doc \subseteq Blocks
  <2>1. live /\ pc = "idle"
    BY DEF Inv, IInv, Control, AddBlock, Accept, Serving
  <2> QED
    BY <2>1, ContentIsDoc DEF Inv, IInv, TypeOK
<1>2. saved # None /\ saved.replay = doc /\ saved.base = source /\ Recovered = doc
  BY <1>1, ContentIsDoc
<1>3. /\ saved' # None /\ saved'.replay = doc \cup {b} /\ saved'.base = source /\ source' = source
  BY <1>1, <1>2, AppendFacts DEF AddBlock, Accept
<1>4. Recovered' = Recovered \cup {b}
  BY <1>2, <1>3, MergeFacts DEF Recovered
<1>5. b \notin Recovered /\ b \notin removed
  BY <1>2 DEF Inv, IInv, EverythingIsWritten, Uninterrupted, AddBlock
<1>6. Simulates
  BY <1>3, <1>4, <1>5 DEF Simulates, Page!Next, Page!LiveAdd
<1>7. Uninterrupted'
  BY <1>3, <1>4, <1>5 DEF Inv, Uninterrupted, NothingResurrected, AddBlock, Accept
<1> QED
  BY <1>6, <1>7

\* A block removed live leaves it.
LEMMA RemoveBlockSimulates ==
    ASSUME Inv, NEW c \in Clients, NEW b \in Blocks, RemoveBlock(c, b)
    PROVE  Uninterrupted' /\ Simulates
<1>1. live /\ pc = "idle" /\ saved \in SavedRoom /\ doc \subseteq Blocks
  <2>1. live /\ pc = "idle"
    BY DEF Inv, IInv, Control, RemoveBlock, Accept, Serving
  <2> QED
    BY <2>1, ContentIsDoc DEF Inv, IInv, TypeOK
<1>2. saved # None /\ saved.replay = doc /\ saved.base = source /\ Recovered = doc
  BY <1>1, ContentIsDoc
<1>3. /\ saved' # None /\ saved'.replay = doc \ {b} /\ saved'.base = source /\ source' = source
  BY <1>1, <1>2, AppendFacts DEF RemoveBlock, Accept
<1>4. Recovered' = Recovered \ {b} /\ b \in Recovered
  BY <1>2, <1>3, MergeFacts DEF Recovered, RemoveBlock
<1>5. Simulates
  BY <1>3, <1>4 DEF Simulates, Page!Next, Page!LiveRemove
<1>6. Uninterrupted'
  BY <1>2, <1>3, <1>4
     DEF Inv, IInv, EverythingIsWritten, Uninterrupted, NothingResurrected, RemoveBlock, Accept
<1> QED
  BY <1>5, <1>6

\* A checkpoint, the last one of a room included, publishes the content or, when the last
\* client leaves and there is nothing to save, does nothing.
LEMMA CheckpointSimulates ==
    ASSUME Inv, CheckpointSaves \/ \E c \in Clients : LastLeaves(c)
    PROVE  Uninterrupted' /\ Simulates
<1>1. /\ pc = "idle" /\ pc' # "idle" /\ saved' = saved /\ removed' = removed /\ used' = used
      /\ status' = "up"
      /\ source' = source \/ source' = doc
  BY DEF CheckpointSaves, LastLeaves, CommitRevision, Idle, dbVars
<1>2. live
  BY DEF CheckpointSaves, LastLeaves, Inv, IInv, Control
<1>3. saved # None /\ saved.replay = doc /\ saved.base = source /\ Recovered = doc
  BY <1>1, <1>2, ContentIsDoc
<1>4. Recovered' = Recovered
  BY <1>1, <1>3, MergeFacts DEF Recovered
<1>5. Simulates
  BY <1>1, <1>3, <1>4 DEF Simulates, Page!Next, Page!Publish
<1>6. Uninterrupted'
  BY <1>1, <1>4 DEF Inv, Uninterrupted, NothingResurrected
<1> QED
  BY <1>5, <1>6

\* The rest of an event: its merge and its snapshots.
LEMMA ContinueSimulates ==
    ASSUME Inv, Compact \/ MergeExternal \/ HookEnds \/ Admit \/ Cleanup \/ FinalSnapshot
    PROVE  Uninterrupted' /\ Simulates
<1>1. /\ source' = source /\ removed' = removed /\ used' = used /\ status' = status
  BY DEF Compact, MergeExternal, HookEnds, Admit, Cleanup, FinalSnapshot, bookVars
<1>2. live /\ status = "up" /\ doc \subseteq Blocks /\ base \subseteq Blocks
  BY DEF Inv, IInv, Uninterrupted, Control, TypeOK, Compact, MergeExternal, HookEnds, Admit, Cleanup,
         FinalSnapshot
<1>3. CASE Compact \/ Cleanup
  <2>1. Recovered = doc /\ base = source
    BY <1>2, <1>3, ContentIsDoc DEF Compact, Cleanup
  <2>2. saved' # None /\ saved'.replay = doc /\ saved'.base = source
    BY <1>2, <1>3, <2>1, RowFacts DEF Compact, Cleanup
  <2>3. Recovered' = Recovered
    BY <1>1, <2>1, <2>2, MergeFacts DEF Recovered
  <2> QED
    BY <1>1, <1>2, <2>2, <2>3, StutterIsGood
<1>4. CASE HookEnds \/ Admit
  <2>1. Recovered = doc /\ base = source
    BY <1>2, <1>4 DEF Inv, IInv, RowFollowsRoom, Reconciled, SnapshotIsMerged, HookEnds, Admit
  <2>2. saved' # None /\ saved'.replay = doc /\ saved'.base = source
    <3>1. saved' = Row(doc, base)
      BY <1>4 DEF HookEnds, Admit
    <3> QED
      BY <1>2, <2>1, <3>1, RowFacts
  <2>3. Recovered' = Recovered
    BY <1>1, <2>1, <2>2, MergeFacts DEF Recovered
  <2> QED
    BY <1>1, <1>2, <2>2, <2>3, StutterIsGood
<1>5. CASE MergeExternal
  <2>1. saved \in SavedRoom /\ saved # None /\ saved.replay = doc /\ saved.base = base
    BY <1>2, <1>5 DEF Inv, IInv, TypeOK, RowFollowsRoom, MergeExternal
  <2>2. doc' = Merge(base, source, doc) /\ doc' \subseteq Blocks
    BY <1>2, <1>5 DEF Inv, IInv, TypeOK, Merge, MergeExternal
  <2>3. saved' # None /\ saved'.replay = doc' /\ saved'.base = base
    BY <1>5, <2>1, <2>2, AppendFacts DEF MergeExternal
  <2>4. Recovered = Merge(base, source, doc)
    BY <2>1 DEF Recovered
  <2>5. Recovered' = Merge(base, source, Merge(base, source, doc))
    BY <1>1, <2>2, <2>3 DEF Recovered
  <2>6. Recovered' = Recovered
    BY <2>4, <2>5, MergeFacts
  <2>7. pc' # "idle"
    BY <1>5 DEF MergeExternal
  <2> QED
    BY <1>1, <1>2, <2>6, <2>7, StutterIsGood
<1>6. CASE FinalSnapshot
  BY <1>6 DEF FinalSnapshot, Inv, IInv, Control, Uninterrupted
<1> QED
  BY <1>3, <1>4, <1>5, <1>6

\* A request that adds a block adds it to both sides.
LEMMA WriteAddsSimulates ==
    ASSUME Inv, NEW b \in Blocks, WriteAdds(b)
    PROVE  Uninterrupted' /\ Simulates
<1>1. /\ saved' = saved /\ source' = source \cup {b} /\ removed' = removed /\ used' = used \cup {b}
      /\ status' = status /\ pc = "idle" /\ b \notin used
  BY DEF WriteAdds, WriteSource, Serving
<1>2. b \notin source /\ b \notin removed /\ (saved # None => b \notin saved.base /\ b \notin saved.replay)
  BY <1>1 DEF Inv, IInv, EverythingIsWritten, Uninterrupted
<1>3. Recovered' = Recovered \cup {b}
  BY <1>1, <1>2 DEF Recovered, Merge
<1>4. Simulates
  BY <1>1, <1>2, <1>3 DEF Simulates, Page!Next, Page!WriteAdd
<1>5. Uninterrupted'
  BY <1>1, <1>2, <1>3 DEF Inv, Uninterrupted, NothingResurrected
<1> QED
  BY <1>4, <1>5

\* A request that removes a block removes it from both sides: the room, or the row when
\* there is none, does not bring it back.
LEMMA WriteRemovesSimulates ==
    ASSUME Inv, NEW b \in Blocks, WriteRemoves(b)
    PROVE  Uninterrupted' /\ Simulates
<1>1. /\ saved' = saved /\ source' = source \ {b} /\ removed' = removed \cup {b} /\ used' = used
      /\ status' = status /\ pc = "idle" /\ b \in source
  BY DEF WriteRemoves, WriteSource, Serving
<1>2. saved # None => (source \ saved.base) \cap saved.replay = {}
  BY <1>1 DEF Inv, Uninterrupted
<1>3. Recovered' = Recovered \ {b}
  BY <1>1, <1>2 DEF Recovered, Merge
<1>4. Simulates
  BY <1>1, <1>3 DEF Simulates, Page!Next, Page!WriteRemove
<1>5. Uninterrupted'
  <2>1. removed' \subseteq used'
    BY <1>1 DEF Inv, IInv, EverythingIsWritten, Uninterrupted
  <2> QED
    BY <1>1, <1>2, <1>3, <2>1 DEF Inv, Uninterrupted, NothingResurrected
<1> QED
  BY <1>4, <1>5

-----------------------------------------------------------------------------
\* A server that is not stopped keeps the stronger invariant, and its steps are the page's.
LEMMA StepSimulates ==
    ASSUME MaxStops = 0, Inv, [Next]_vars
    PROVE  Inv' /\ Simulates
<1>0. IInv'
  BY NextIsGood DEF Inv
<1> SUFFICES Uninterrupted' /\ Simulates
  BY <1>0 DEF Inv
<1>1. CASE \E c \in Clients : OpenRoom(c) \/ Join(c) \/ Leave(c)
  BY <1>1, QuietIsGood DEF OpenRoom, Join, Leave, Serving, dbVars, bookVars
<1>2. CASE \E c \in Clients, r \in Roles : Grant(c, r) \/ GrantElsewhere(c, r)
  BY <1>2, QuietIsGood DEF Grant, GrantElsewhere, Serving
<1>3. CASE CheckpointSkips \/ RecheckAll \/ \E x \in BOOLEAN : SetTrashed(x) \/ SetWritable(x)
  BY <1>3, QuietIsGood
     DEF CheckpointSkips, SetTrashed, SetWritable, RecheckAll, dbVars, roomVars, bookVars
<1>4. CASE \E c \in Clients, b \in Blocks : AddBlock(c, b) \/ RemoveBlock(c, b)
  BY <1>4, AddBlockSimulates, RemoveBlockSimulates
<1>5. CASE CheckpointSaves \/ \E c \in Clients : LastLeaves(c)
  BY <1>5, CheckpointSimulates
<1>6. CASE Continue
  BY <1>6, ContinueSimulates DEF Continue
<1>7. CASE \E b \in Blocks : WriteAdds(b) \/ WriteRemoves(b)
  BY <1>7, WriteAddsSimulates, WriteRemovesSimulates
<1>8. CASE Shutdown \/ Exit \/ Crash \/ Start
  <2>1. status = "up" /\ stops \in Nat
    BY DEF Inv, IInv, TypeOK, Uninterrupted
  <2> QED
    BY <1>8, <2>1 DEF Shutdown, Exit, Crash, Start
<1>9. CASE UNCHANGED vars
  BY <1>9, QuietIsGood DEF vars, dbVars, bookVars
<1> QED
  BY <1>1, <1>2, <1>3, <1>4, <1>5, <1>6, <1>7, <1>8, <1>9 DEF Next, TimerFires

\* The stronger invariant holds before anything happens, and the page starts with it.
LEMMA InitSimulates == Init => Inv /\ Page!Init
<1> SUFFICES ASSUME Init PROVE Inv /\ Page!Init
  OBVIOUS
<1>1. Recovered = Seed /\ source = Seed
  BY DEF Init, Recovered
<1>2. Uninterrupted
  BY <1>1 DEF Init, Uninterrupted, NothingResurrected
<1> QED
  BY <1>1, <1>2, InitIsGood DEF Inv, Page!Init

\* A server that is not stopped never brings back a block whose removal was confirmed,
\* whether it was removed in a room (handleMessage) or by a request (writeDocument).
THEOREM RemovedStaysRemoved == MaxStops = 0 => (Spec => []NothingResurrected)
<1> SUFFICES ASSUME MaxStops = 0 PROVE Spec => []NothingResurrected
  OBVIOUS
<1>1. Init => Inv
  BY InitSimulates
<1>2. Inv /\ [Next]_vars => Inv'
  BY StepSimulates
<1>3. Inv => NothingResurrected
  BY DEF Inv, Uninterrupted
<1> QED
  BY <1>1, <1>2, <1>3, PTL DEF Spec

\* A server that is not stopped is, to whoever reads or writes the page, one content that
\* is edited and a source that publishing makes equal to it.
THEOREM HubImplementsPage == MaxStops = 0 => (Spec => ImplementsPage)
<1> SUFFICES ASSUME MaxStops = 0 PROVE Spec => ImplementsPage
  OBVIOUS
<1>1. Init => Inv /\ Page!Init
  BY InitSimulates
<1>2. Inv /\ [Next]_vars => Inv' /\ Simulates
  BY StepSimulates
<1> QED
  BY <1>1, <1>2, PTL DEF Spec, ImplementsPage, Page!Spec, Simulates
=============================================================================
