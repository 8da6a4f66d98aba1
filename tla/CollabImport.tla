---------------------------- MODULE CollabImport ----------------------------
(***************************************************************************)
(* The live-editing hub together with POST /api/knowledge/backup/import    *)
(* (src/src/cloud/routes-knowledge.ts), which writes records through the   *)
(* store itself, inside one transaction, and not through writeDocument of  *)
(* cloud/context.ts: the write hook the hub relies on is not called.       *)
(***************************************************************************)
EXTENDS CloudCollab

\* A backup whose file for the page has one block more is applied.  The
\* archive and the DLP policy are not consulted.
ImportUpdate(b) ==
    /\ Serving /\ ~trashed
    /\ b \notin used
    /\ source' = source \cup {b}
    /\ used' = used \cup {b}
    /\ intent' = intent \cup {b}
    /\ UNCHANGED <<role, trashed, writable, saved, status, pc, joiner, roomVars,
                   removed, author, outdated, stops>>

ImportNext == Next \/ \E b \in Blocks : ImportUpdate(b)

ImportSpec == Init /\ [][ImportNext]_vars
=============================================================================
