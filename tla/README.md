# Verification of Noma Cloud

TLA+ models of Noma (`src/`), with TLC runs on small instances and TLAPS proofs for
every value of the constants. Noma is a document language with a parser, renderers, a
patch engine and a command line, and *Noma Cloud*, a server where people and agents work
on the same pages. The hard part is the server: one page is edited live by several
sockets, written by HTTP requests, patched by agents, trashed, archived and shared; agents
propose what people decide on; providers build and deploy; queues are drained by several
processes; and any process may die at any moment. That is what this project is about.

Paths below are relative to `src/src/` unless they begin with `src/`.

## 1. The system

| Component | State it keeps | Operations | What makes it correct |
|---|---|---|---|
| Live-editing hub (`cloud-collab.ts`) | one room per open page: Yjs document, base source, dirty flag, last editor, timer, clients with their access | join, update, compaction, checkpoint, write hook, recheck, leave, shutdown, reopening | nothing confirmed is lost, nothing removed comes back, base, row and record agree between events, rights are current |
| Record store (`cloud-db.ts`, `cloud/context.ts`, `cloud/records.ts`) | records with hash and permissions, revisions, `collab_rooms`, `collab_updates` | compare-and-set write, snapshot, append, trash, archive test | a write replaces what it was based on and the hub hears of it |
| Block merge (`editor-model.ts`, `editor-yjs.ts`) | none | `lcsPairs`, `planBlockMerge`, `mergeSourceIntoYFragment` | a one-sided change is exact, a two-sided one keeps both versions |
| Visual editor model (`editor-model.ts`) | none | `editorDocToNoma`, `enforceHeadingIds`, `editorIdBackfill` | stable IDs are unique and stay |
| Dev loop (`cloud/devloop.ts`, `cloud-devloop.ts`, `cloud/run-provider.ts`) | runs with status, minutes and provider handle; the repository link with its limits | request, decide, start, poll, settle, stop, close | every run ends, once, within its limits, and an agent's only as approved |
| Patch proposals, approvals (`cloud/routes-patch.ts`, `cloud/routes-ai.ts`, `cloud/routes-approvals.ts`, `cloud-governance.ts`, `cloud/governance.ts`) | proposals, append-only decision log, trust tiers | propose, review, apply, decide | nothing happens without somebody else's approval of exactly that, and once per approval |
| Webhook and mail queues (`cloud/webhooks.ts`, `cloud/mail.ts`, `cloud/queue.ts`) | deliveries with status, attempts, next attempt; digest marks | enqueue, claim with a lease, complete, prune, digest | every delivery is settled, none is sent twice at once or given up early |
| Backup import (`cloud/routes-knowledge.ts`) | none | plan, import in one transaction | imported revisions survive |
| Grants, groups, spaces, trash (`cloud/routes-access.ts`, `cloud/spaces.ts`, ...) | permissions, share links, restrictions | grant, revoke, archive, trash | a revoked right ends |
| Hosted agents and jobs (`cloud/agent-runner.ts`, `cloud-agent-ops.ts`, `cloud/routes-agent-ops.ts`) | jobs, schedules, kill switch, budget | mention, run now, pass over the queue, requeue stale, change a schedule, pause | each job is answered once and ends, nothing runs when paused, the budget holds |
| Web live client (`src/web/cloud/visual-collab.ts`) | unacknowledged updates, connection state | connect, send, resend, reconnect | an edit shown as saved is saved |
| Parser, patch engine, renderers, importers, CLI, DOCX sync, PaperDOM | none, or files | pure text conversion | byte-stable round trips |

**Interaction.** Sockets call the hub's handlers; HTTP routes write records through
`writeDocument` of `cloud/context.ts`, which calls the hub's write hook
(`config.onDocumentWritten`) in the same event; the hub's checkpoint is itself such a
write, so it triggers its own hook; grants, trash and archive change what a socket may do
without telling it (a grant on the page's own record does, through the hook), and an
interval rechecks. Agents ask for runs and propose patches through the same routes as people,
and everything they may do only with an approval passes one gate
(`cloud/governance.ts`) over one decision log. A write fires an event, an event queues
webhook deliveries and kicks their drain; a timer drains all queues and polls the runs of the
dev loop, in the server or in a worker process of its own. The database outlives the
processes.

**Hard behaviours.** Interleaved edits, requests and timers; one event with several
commits, any of which may be the last before a crash; state kept in three places (room,
collab row, record) that are only reconciled at some moments; rights cached per socket;
an orderly shutdown that takes different paths than either a leave or a crash; records
read before a request's body or a provider's answer is awaited and used, or written back,
after it; answers that come late, twice or never; leases that lapse while the work goes on.
The full list, with lines, is `hazards` in `PROJECT.json`.

## 2. Modules

| Module | Models |
|---|---|
| `CloudCollab` | the hub over the store, for one page |
| `PublishedPage` | what live editing promises: one content, one published source |
| `CloudCollab_proofs` | the inductive invariant, the safety theorems, and that the hub implements `PublishedPage` while the server does not stop |
| `CollabImport` | the hub composed with the backup import |
| `BlockMerge`, `BlockMerge_proofs` | `lcsPairs`, `planBlockMerge` and the splice, on sequences of block keys (operators and the lemmas about them) |
| `LiveMerge`, `LiveMerge_proofs` | record and live document edited independently and merged: every input of the merge |
| `LiveHeadings`, `LiveHeadings_proofs` | headings in a room: typed, renamed, written by checkpoints, merged back |
| `AgentGate` | what governance promises of anything an agent asks for: people decide in a log that only grows, and only what the last decision approves takes effect |
| `DevRuns`, `DevRuns_proofs` | the dev loop's runs against the provider, and their reviews; it implements `AgentGate` |
| `AgentProposals`, `AgentProposals_proofs` | patches, drafted pages and bright-line actions; it implements `AgentGate` |
| `DeliveryQueues`, `DeliveryQueues_proofs` | webhook deliveries, the mail outbox and digests, drained by server, kick and worker |
| `AgentJobs`, `AgentJobs_proofs` | the queue, schedule, budget and kill switch of a hosted agent that works unattended |
| `MC...` | instances for TLC |

### CloudCollab: state and actions

The database is `source` (the record, identified with its hash), `role` (what each
principal may do, from all its grants), `trashed`, `writable` (no archived space), and
`saved` (the collab row: state, what it replays to, base, number of pending updates, last
author who is a user). The process has `status` and, while `live`, the fields of
`CollabRoom`: `doc`, `base`, `dirty`, `editor`, `timer`, `clients`, `access`.
Six variables are bookkeeping of the specification: `used`, `intent`, `removed`, `author`,
`outdated`, `stops`.

A page is the *set* of its blocks, each a token written once: a paragraph typed again is a
new token. That separates "lost" from "removed on purpose". Order, repeated keys and
the alignment are the subject of `BlockMerge`; `LiveMerge!MergeIsSetMerge` checks that the
set merge used here is what `planBlockMerge` does when blocks are neither repeated nor
reordered.

**Events.** The server is one Node process and `better-sqlite3` is synchronous: no promise
awaited in the hub or in `updateDocument` waits for I/O, so a handler with all its
continuations runs before the next socket frame, timer or request. Only a crash
cuts it, between two commits. Hence an event with several commits is an action up to its
first commit plus one per further commit, chained by `pc`, and every other event requires
`pc = "idle"`. One consequence: the record cannot change between a checkpoint's
read and its compare-and-set, and the only 409 a checkpoint meets is an archived space.

| Action | Code |
|---|---|
| `OpenRoom`, `MergeExternal`, `Admit`, `Join` | `join`, `room`: the first client rebuilds the room and merges what was written meanwhile |
| `AddBlock`, `RemoveBlock`, `Compact` | `handleMessage` with an update: commit, apply, acknowledge, schedule, compact |
| `CheckpointSaves`, `CheckpointSkips`, `MergeExternal`, `HookEnds` | the timer and `checkpoint`, with every early return, and its own write hook |
| `WriteAdds`, `WriteRemoves` | a PUT, an applied patch, a restored version |
| `Grant`, `GrantElsewhere`, `SetTrashed`, `SetWritable`, `RecheckAll` | rights and page state, with and without a write of the record |
| `Leave`, `LastLeaves`, `Cleanup` | `leave` with its final checkpoint and the `finally` block |
| `Shutdown`, `FinalSnapshot`, `Exit` | `shutdown` behind `server.close`; requests in flight are still served |
| `Crash`, `Start` | the process dies, is started again |

Details of the code that the model keeps although one might not expect them:
`updateDocument` does not check the editor's rights again, and trashed pages are still
written, by checkpoints and by requests that looked at the trash before they waited for
their body. While the server closes, an update is stored but its acknowledgement cannot be
sent, so it is not counted as confirmed. A page is never empty: creating one, a PUT and a checkpoint
all refuse an empty source (`cloud/records.ts:177-181`). When everything is removed live, the checkpoint
ends in `checkpoint_failed`, the room stays dirty, and the next attempt is that of the next edit or leave.

### BlockMerge, LiveMerge, LiveHeadings

`BlockMerge` translates the alignment (`CommonPrefix`, `CommonSuffix`, the dynamic table `LcsTable`
with the walk `LcsWalk` through it, and the unique-key fallback `UniqueTaken` for large middles),
the plan with its gaps between anchors (`Gap`, `Anchored`, `PlanTo`), and the splice over the
fragment, deletions from the back and then insertions (`Spliced`). Each loop of the code is
a recursive function whose argument counts its steps, so that it can be proved about as well as
evaluated. `LiveMerge` lets record and document drift
apart by any edits, so that TLC meets every triple (base, theirs, current) within the bound,
including the repeated and reordered keys `CloudCollab` leaves out.

`LiveHeadings` keeps of a heading its title, its ID, and whether the ID is spelled out, which
is what block keys tell apart. An ID is the sequence of its parts: the slug of a title and the
numbers appended to it, so that the slug of one title ("Notes 2") may be the numbered slug of another
("Notes"). A checkpoint writes `EditorDocToNoma`, merges that into the room it came from as its
own hook does, and fills in IDs with `EditorIdBackfill`. People only insert and
rename here, so `typed` is exactly what they see.

`EditorDocToNoma` follows the code in its two halves. `Claimed` and `Lines` are what `emitList` leaves:
each heading's line, the ID the heading claims, and whether the line spells it out.
`EnforceHeadingIds` then makes at most `MaxAttempts` attempts (eight in the code). Each parses the lines
(`ParsedIds`: the parser itself numbers repeated titles, looking only at IDs that are not spelled out),
decides for each heading in turn (`GivenId`: the claimed ID, the parser's if it is free, or a new number)
and rewrites the lines whose parsed ID differs. What the parser makes of the last lines is the
source, so an ID the parser gives by itself stays implicit. `settled` records whether another
attempt would have changed nothing, for every checkpoint so far.

### AgentGate: what governance promises

State: who asked (`asker`), the `log` of decisions per subject, and the `effects`, pairs of a
subject and the payload that took effect. Three steps: somebody asks, a person decides
(approving only what others asked for), and a subject takes effect if the last decision of its log
approves that payload. The two implementations differ where the code does: for a run the
payload is the repository link as it is when the start is sent, which may have changed since
it was asked for; for a proposal the payload is fixed and only its target moves.

### DevRuns: state and actions

The unit of atomicity here is not the event but the stretch between two awaits of the
network: a handler that waits for its body or for the provider is an entry of `handlers`
with what it had read, and anything may happen before it goes on. The database is `runs`,
`decisions`, `repo`, `tier`, `paused`, `newest`; the provider is `apps` (what each app
builds), `latest` (its last deploy) and `builds`. Previews share one app, each test run has
its own.

| Action | Code |
|---|---|
| `RequestRun` | `requestRun`: limits, governance, insert, and the start unless a person must approve |
| `ProviderAccepts`, `StartAnswers`, `StartFails` | `startRun` across `provider.start`: the call, its answer, or its failure with the teardown of the app it made |
| `Refresh`, `RefreshOpen`, `RefreshSettles`, `RefreshTooLate`, `PostTest` | `refreshRun` by poll or by reading, `settleRun`, the teardown of a test's app before its outcome is posted |
| `Stop`, `ClosePull`, `TornDown`, `TeardownFails` | `stopRun`, a closed pull request, `retireRun` |
| `Review`, `Approve`, `Reject`, `RefuseReview` | `decideRun`: read, await the body, record, pass the gate, start |
| `Build`, `Age` | the provider works; six hours pass |
| `Edit`, `Crash` | the link, the tier, the kill switch; the process dies, possibly between a decision and its consequence, or between settling and announcing |

Bookkeeping: `asked` (runs that had to be approved), `started` (what was sent), `outcomes`
(how many outcomes were posted), `late` (runs whose start was answered after they had left
`queued`), `old`, `lowered`, `edits`, `crashes`. Of a payload it only matters whether it is
still the same, so it is the revision of the link, its one part that can change.

### AgentProposals: state and actions

`Propose`/`Proposed` and `Review`/`Decide` are the two halves of routes that read before
they await their body; `Apply` waits for nothing. A patch or a drafted page is *written back
as it was read* when its review ends, an action is moved only out of `pending`; both
are kept. `page` is the content a patch was drafted for, and an edit may bring
an old content, and so an old hash, back. The gate looks at the tier for what an agent drafted, not
for a patch a person proposes (`OfPeople`). The run has such a patch, which may do all that an agent's
may and more; the proofs are for any mixture.

### DeliveryQueues: state and actions

A pass of a process (`phase`) claims what is due under a lease, keeps a copy of the number of attempts
(`copies`), sends (`sending`) with no lock held, and writes each result by id
from its copy. Webhooks of a batch are sent together, mails one after the other, and digests are queued
in between. `Tick` is the timer, in the server or the worker; `RunKick` the drain after
an event (the code drops a kick that finds a pass running; the model may also run it
later, which allows more). `Lapse` ends a lease while its holder may be at work, `BecomesDue` a
backoff; `DeleteHook`, `EndWebhooks` and `EndMails` remove rows other passes may still hold. Time is
only whether a row is due and a lease has lapsed. Bookkeeping: `tries`, `refused`,
`digests`, `lapses`, `crashes`.

### AgentJobs: state and actions

One agent with one schedule. The database is `jobs`, `schedule`, `paused` (the kill
switch of the workspace) and `spent`; the process is `passes` (a pass has the queued jobs
it read, and the one it has claimed), `patching` with the schedule as it was `read`, and
the `clock`. The unit is the stretch between two awaits: the code search of a mention, the
call of the model, and what a posted command starts. Passes overlap, because the timer, a
mention and "run now" each start one.

| Action | Code |
|---|---|
| `Mention`, `RunNow` | `enqueueMention`, the route that runs a schedule at once |
| `StartPass`, `Claim`, `EndPass` | `runAgentJobs`: `requeueStale`, `dueSchedules` and `enqueueSchedule`, the queue, `claimJob` |
| `Skip`, `Call`, `CallRefused`, `CallFails` | `runJob` and `runAiCompletion` up to the answer: message, schedule or agent gone, kill switch, budget, errors |
| `Answers`, `PostEnds` | the call is charged, `postAsAgent` asks for the kill switch again, `finishJob` writes the outcome by id |
| `ReadSchedule`, `WriteSchedule`, `DropPatch`, `DeleteSchedule` | the routes that change a schedule; a PATCH reads before its body and writes back after it |
| `SetPaused`, `Tick`, `Age`, `Crash` | the kill switch; time; a job becomes older than the stale limit, perhaps while a pass works on it; the process dies between two commits |

Whether the agent is active, hosted and still in the channel may change at any time, so a
claimed job may be skipped at any time (`Skip`). A call costs one, which is also the worst
case the budget check assumes; time is counted in slots of the schedule. Bookkeeping:
`posted`, `requeued`, `digests`, `overtaken`, `edits`, `faults`.

## 3. Runs

| Run | Question | Bounds |
|---|---|---|
| `collab_safety` | content and rights, whatever stops the process | a user and a guest, 2 blocks, bodies of 2, compaction after 1 update, 2 stops |
| `collab_page` | the hub implements the published page, edits are published, revoked clients leave | 1 client, 4 blocks, one of them refused by DLP, no stop, `FairSpec` |
| `dev_run_reviews` | decisions, outcomes and the end of a run | 1 run, 2 handlers, 2 people, 1 edit of the settings, 1 crash, `FairSpec` |
| `agent_proposals` | proposals under concurrent reviews | one proposal of each kind, 2 people, 2 handlers, 3 decisions, 1 edit, 1 crash |
| `delivery_queues` | leases, attempts, digests | 1 webhook and 1 mail row, 3 passes (server, kick, worker), 2 attempts, 2 lapses during an attempt, 1 period, 1 crash, `FairSpec` |
| `agent_jobs` | the queue, schedule, budget and kill switch under overlapping passes | 2 jobs, 1 message, 2 passes, budget 1, 2 slots, 1 change of settings, 1 fault (a crash, or a job that goes stale while worked on), `FairSpec` |
| `live_merge` | the merge against reference definitions | documents of up to 3 blocks over 4 keys, the fallback above a 2 x 2 middle |
| `heading_ids` | heading IDs | 2 titles, the slug of one being the other's with a number, 1 text, up to 5 blocks, 2 attempts |
| `collab_shutdown`, `collab_recovery`, `collab_import`, `heading_twice` | disagreements, section 5 | the smallest that show them |

**Why these bounds.** `MaxStops = 2` covers a crash in the recovery from a crash; a user and a
guest are the two kinds of author; `collab_page` has enough blocks for one that was added,
one that was removed, one untouched and one that cannot be saved. One run of the dev loop
is enough for what is said of each run, with two handlers to race. Two
reviewers race with two handlers, three decisions allow a late one after an
apply. Three passes are every drainer of the deployment, two lapses let a third
drainer in. Two passes over two jobs compete for a claim, for the budget and for a slot that is
due, and a job of a message waits beside one of the schedule. The safety properties and action properties do not rest on these bounds: all are also
proved for every value of the constants (section 4). `MaxCells = 4` makes the
large-middle fallback happen in documents of three blocks (a middle of 3 x 2). With eight attempts
the limit of `enforceHeadingIds` would need ten headings; with two, documents of five blocks reach it, and
the source of such a checkpoint may indeed hold an ID twice: without `settled` in it,
`HeadingIdsAreUnique` fails there. `heading_twice` has the eight of the code.

**Deadlock** is checked, except in `dev_run_reviews`, `delivery_queues`, `agent_proposals`
and `agent_jobs`, where a finite supply of runs, rows, decisions or jobs is used up in the end.

**Fairness** (`FairSpec`), and why the code justifies it:

- `CloudCollab`: a started event runs on (`Continue`: nothing in it waits), an armed timer
  fires (`setTimeout`), the recheck interval ticks (`setInterval`), a closing process ends.
- `DevRuns`: a wait ends (`run-provider.ts` gives every call an `AbortSignal.timeout`, a
  request ends with its connection); the poller comes back to each active run, when a handler is
  free for it (strong fairness: it is not always free); time passes (`Age`). No fairness for `ProviderAccepts` or
  `Build`: the provider may never do anything.
- `DeliveryQueues`: a pass goes on, an attempt ends (every send has a timeout), leases and
  backoffs run out. No fairness for the kick, nor for any favourable answer.
- `AgentJobs`: a pass goes on, since every call of the model ends (its attempts are counted and
  have a timeout each), and the timer starts passes again; a running job that nobody
  finishes grows stale (`Age`). No fairness for a mention, for "run now" or for time in slots.
- Nothing is assumed of people, requests, crashes or restarts. Poller, drains and agent jobs share the tick of
  `cloud/queue.ts`, in which a throw of an earlier step skips the later ones: the fairness
  assumes that this does not happen on every tick.

What the runs show, by property:

- `NothingLost`: every acknowledged edit and answered request is in what the database would
  give back if the process stopped now, at every commit.
- `NothingResurrected`, `ImplementsPage`: as long as the server does not
  stop, no removed block returns, and every step is an edit, a write, or a publication of the
  whole content. With shutdowns this fails (section 5).
- `RowMatchesRoom`, `BaseIsSource`, `CleanIsPublished`, `PendingIsBounded`: between events
  the row replays to the room, the room has merged the record, "not dirty" means published,
  and compaction keeps its bound.
- `RightsAreCurrent`: a connected client acts with its present rights, except where they
  changed with no write of the record since the last recheck. `RevokedIsDisconnected`: the
  recheck ends that too.
- `EditsArePublished`: a live change in a room that knows an editor is in the end published
  or undone, unless the server stops or the page cannot be saved: it is too large, archived, has a
  block that DLP refuses, or was emptied (`updateDocument` refuses an empty source, and the
  checkpoint is not tried again).
- `ImplementsGate` (twice): what an agent asks for takes effect only as somebody else last
  approved it, although reviewers decide on what they read before an await, the link and
  the tier change, and decisions race.
- `OneDecisionPerRun`, `DecidedRunsMove`: two reviewers of a run do not both decide, and a decided run
  leaves the queue of approvals unless the process died or the space lowered its trust.
- `OverStaysOver`, `OutcomesArePosted`: a run that is over stays over, and its outcome is
  posted once: not twice, up to the one exception the code has (section 5), and not never, unless the
  process died between settling the run and posting.
- `ActiveRunsEnd`: every active run ends, whatever the provider does and whoever crashes.
- `OncePerApproval`, `StatusFollowsLog`, `ActionsAreSettledOnce`: although a late review writes
  back over `applied`, each effect has an approval of its own (a crash between
  effect and mark may repeat one); status and log agree in whatever order reviews end; a
  bright-line action is settled by the first decision.
- `OneDrainerPerLease`, `RepeatsAreBounded`, `NothingIsGivenUpEarly`, `FinishedIsFinal`: what a lease
  guarantees when it is kept, and exactly how much each lapse may cost. `DigestsAreQueued`:
  a digest marked as sent is in the outbox. `RowsAreSettled`: every row is settled, also when
  its drainer died.
- `AnswersAreBounded`, `OutcomesAreTrue`, `OverStaysOver` (of `AgentJobs`): however passes
  overlap, a job is answered once, a job shown as failed or skipped was not answered, and an
  outcome stays; each up to what a job taken for stale may repeat (section 5).
- `OneDigestPerSlot`: a slot that is due queues one job, though several passes see it.
- `NothingWhilePaused`: the kill switch also stops passes that are on their way.
- `BudgetHolds`: how far overlapping calls may exceed the budget, and no further, provided that no
  call costs more than the estimate it was checked with. That is an assumption: the estimate counts three characters
  to a token (`cloud-llm.ts:78-82`), and the charge is at the price of the model that
  answered (`cloud/ai-runtime.ts:119`).
- `JobsEnd`: every job ends, unless agents are paused, also when its process died.
- `LcsIsLongest`, `OneSidedIsExact`, `SpliceFollowsPlan`, `BothVersionsSurvive`,
  `MergeIsSetMerge`: the merge.
- `HeadingIdsAreUnique`, `StableIdsStay`: links to headings stay valid and unambiguous, as long as
  `enforceHeadingIds` has not run out of attempts (section 5).

The limits of the dev loop (`CapsHold`) and the type invariants of `CloudCollab`, `DevRuns`,
`AgentProposals`, `DeliveryQueues` and `AgentJobs` are in no run: they are proved (section 4).
Each property of a run has a mutant of the code in `PROJECT.json` that breaks it; the mutated forms
stand before the definitions they replace.

## 4. Proofs

Everything here holds for every value of the constants that meets the module's named
`ASSUME`s (sets of the right kind are disjoint, bounds are naturals, `None` is nothing
else); no bound on crashes, edits or lapses is needed.

| Module | Proved | Obligations |
|---|---|---|
| `CloudCollab_proofs` | `TypeOK`, `NothingLost`, `RowMatchesRoom`, `BaseIsSource`, `CleanIsPublished`, `RightsAreCurrent`, `PendingIsBounded`; with `MaxStops = 0`: `NothingResurrected`, `ImplementsPage` | 1100 |
| `DevRuns_proofs` | `TypeOK`, `OneDecisionPerRun`, `DecidedRunsMove`, `OverStaysOver`, `OutcomesArePosted`, `CapsHold`, `ImplementsGate` | 2594 |
| `AgentProposals_proofs` | `TypeOK`, `OncePerApproval`, `StatusFollowsLog`, `ActionsAreSettledOnce`, `ImplementsGate` | 733 |
| `DeliveryQueues_proofs` | `TypeOK`, `OneDrainerPerLease`, `RepeatsAreBounded`, `NothingIsGivenUpEarly`, `DigestsAreQueued`, `FinishedIsFinal` | 1863 |
| `AgentJobs_proofs` | `TypeOK`, `AnswersAreBounded`, `OutcomesAreTrue`, `BudgetHolds`, `OneDigestPerSlot`, `OverStaysOver`, `NothingWhilePaused` | 1427 |
| `BlockMerge_proofs` | lemmas: the alignment, its length, the plan, the splice, what a class of keys keeps | 4220 |
| `LiveMerge_proofs` | `Typed`, `LcsIsLongest`, `SpliceFollowsPlan`, `BothVersionsSurvive`, `OneSidedIsExact`, `MergeIsSetMerge` | 1561 |
| `LiveHeadings_proofs` | `HeadingIdsAreUnique`, `StableIdsStay`, `FewHeadingsSettle` | 1482 |

In each module an invariant is proved by the three facts Init => Inv,
Inv /\ [Next]_vars => Inv', Inv => property, combined by PTL, with one lemma per
action or group of actions.

**CloudCollab.** None of the properties is inductive, because each is stated for the moments
between events and is broken and restored inside one. `IInv` says what holds at every step:

- `Control`: which `pc` values go with which status;
- `RowFollowsRoom`: the row *always* replays to the room's document, and has its base except
  between a merge and the snapshot that ends it;
- `Reconciled`: where in an event the base is the source again;
- `SnapshotIsMerged`: between merge and snapshot, merging again would change nothing, so
  replacing the base in the row loses nothing;
- `EverythingIsWritten`: no block is anywhere that nobody wrote, which is why a fresh token
  cannot be taken for an old one;
- `NothingLost`, and the other properties with their conditions widened to the steps at which
  they still hold.

The second half of the module proves that `Uninterrupted` is invariant
(relative to `IInv`), hence `NothingResurrected`, and that `Spec => ImplementsPage`: live edits
map to `LiveAdd`/`LiveRemove`, requests to `WriteAdd`/`WriteRemove`, the commit of a checkpoint
to `Publish`, everything else to a stutter. Its key is in `Uninterrupted`: no block of the record
is in the row's document but unknown to its base.

**DevRuns.** The invariant says of each run (`RunFits`) how status, decisions and
bookkeeping go together, of each handler (`HandlerFits`) what is still true of what it
read, and that one start of a run at most is under way (`StartsApart`). Two properties get an invariant of
their own on top of it. `CapsHold` is inductive relative to `Inv`. The outcome is the hard one: it
is posted by a handler *after* the run was settled, possibly long after. `Tally(r)` counts the
outcomes posted, the handlers on their way to post one, and the one still to come while the
run is not over, and says that the sum is at most one plus what a late answer costs. `Told(r)` is
the other half: a run that succeeded or failed has an outcome posted, or a handler that is about
to, or the process died; a handler leaves the second case only through the first. The
refinement maps `asked`, `decisions` and `started` to the gate's variables.

**AgentProposals.** The invariant relates each handler's copy to the proposal it read (a
proposal's author and kind never change) and strengthens `OncePerApproval` to count, with the
effects so far, the one a proposal in status `approved` is still good for.

**DeliveryQueues.** `LeaseFits` bounds the passes at work on a row by its lapsed leases
plus the present one; `CountFits` says that a row's attempts, and each copy of them, were really
tried; `DigestFits` that a pass about to mark a digest has queued it; `PassFits`
ties phase, copies and attempts under way together. `RepeatsAreBounded` is the hard one: a late
answer writes back an old number of attempts, so a row may *regain* attempts. `RepeatsFit`
counts, with the tries so far, the attempts the row has left and those each pass can still
give back, and bounds the sum by `MaxAttempts` for the row and `MaxAttempts` more per lapsed
lease. A sum over passes is a cardinality here: of a set of pairs (pass, attempt), so that
no induction over passes is needed.

**The merge.** `BlockMerge_proofs` first shows that the recursive functions exist: a function
that satisfies its equation up to n is built for every n, by taking the least n for which there
is none. Induction over a number is done the same way, so that it stays within the prover's
reach; the library's induction theorems are not needed. Then:

- *Alignment.* `lcsPairs` returns matches in increasing order on both sides: of the prefix, of the
  suffix, and of the walk or the unique keys between them.
- *Longest.* The table holds at each place the length of a longest alignment of the two rests, since
  an alignment there begins with the match, or leaves out one of the two first blocks;
  the walk collects as many pairs as the table says; and an exchange argument shows that some
  longest alignment matches the common prefix and suffix block for block. Hence
  `LcsIsLongest`, whenever the middle fits the table.
- *Plan.* Anchors (blocks aligned with both sides) cut the three documents into regions in
  order. What holds of the plan up to a region is an invariant of the loop over the regions:
  live blocks are kept in their order and at most once, and of new blocks in the
  region none is left out: `BothVersionsSurvive`. If one side changed nothing, each region is
  one-sided, and the plan is the other side: `OneSidedIsExact`.
- *Splice.* After i steps the fragment is the first i blocks the plan says, followed by the kept
  blocks not yet stepped over: `SpliceFollowsPlan`.
- *Sets.* If blocks are distinct and common ones keep their order, the only longest alignment is
  the set of all matches; then a block of all three documents is an anchor, no region
  has one, and the plan of a region is its set merge: `MergeIsSetMerge`, which
  is what `CloudCollab` assumes of the merge.

`Typed` (a merge of documents is a non-empty document) is the invariant that carries these to every
reachable state.

**LiveHeadings.** Uniqueness needs nothing of what was typed and nothing of the merge
but that it returns a document: whatever duplicates it has left in the room, two headings
never *claim* one ID, because of unchanged headings there is one per heading of the old
source (the alignment is injective, and the old source had unique IDs, the inductive part)
and the first of the others takes it. An attempt of `enforceHeadingIds` keeps that (`Sound`): within
one (`PartIsGiven`), every heading so far has the ID it is to have, or one that no heading is to have and no
earlier one has; that a free number exists is the pigeonhole principle on the IDs in use. When an
attempt changes nothing, what it gives is what the parser reads, so the source has unique IDs
(`CheckpointWrites`). This needs that the attempts did not run out, which `settled` says and both
theorems assume. `FewHeadingsSettle` says when they suffice: an attempt that
changes anything spells out the ID of at least one more heading (`AttemptSpells`), so a room with no more
headings than attempts always settles.

`StableIdsStay` needs more of the merge, since a checkpoint's own hook may drop or repeat the block
that carries an ID (`heading_twice`). Its invariant is `Covers`: every ID of the source is on
some heading in the room. A checkpoint keeps it by a general lemma on the merge
(`ClassSurvives` of `BlockMerge_proofs`): if a class of keys, here the headings with one ID, has at
most one block in base, has one in theirs, and is live if it was in base, then the merge has one.
The induction over regions behind it (`Excused`) says what a plan that keeps none of the class can have
passed over: only what base has, and never in both other documents.

**Only model-checked:** the liveness properties (`EditsArePublished`, `RevokedIsDisconnected`,
`ActiveRunsEnd`, `RowsAreSettled`, `JobsEnd`), because fairness and ENABLED are outside the prover's
reach.

## 5. Where code and documentation disagree

Shown by runs that expect a violation:

- `collab_shutdown`: the final checkpoint of `shutdown()` commits a revision whose write hook
  returns because the hub is closed, and the last snapshot keeps the old base. After a
  restart and a request that removed a block, reopening takes the block for a live addition.
- `collab_recovery`: a snapshot deletes the pending updates together with the only trace of
  their author; a crash after it leaves edits no checkpoint can save until somebody edits.
- `collab_import`: the backup import writes past `writeDocument`, so an open room overwrites it.
- `heading_twice`: a heading typed or renamed live has another block key in the room than in the
  source its checkpoint writes; the checkpoint's own hook inserts it again.

Kept in the models as explicit exceptions of their properties:

- `enforceHeadingIds` gives up after eight attempts (`editor-model.ts:1087`), and each may settle just one
  heading: when nine new headings of one title are typed above an existing one, the ninth is left with
  the ID of the existing one, although `src/test/editor-model.test.ts:236` is named "inserted
  heading that collides with an existing slug does not steal its id". Up to eight headings always settle
  (`FewHeadingsSettle`); beyond that `settled` may be false, and the properties of headings promise nothing.
- `startRun` writes the provider's answer over whatever the run has become
  (`cloud/devloop.ts:162`): a run that was stopped, or settled by a poll, while its start
  was pending is `running` again, is polled, and may post a second outcome and exceed
  the limits, although `cloud-devloop.ts:337-340` says that only one may post it. `late` counts
  exactly these runs; without a late answer `OverStaysOver`, `OutcomesArePosted` and
  `CapsHold` have no exception.
- A run that was approved but could not start, because the tier was lowered or the process died in
  between, stays in `pending_approval`, where the first-decision rule lets nobody decide
  again; only stopping it helps (`DecidedRunsMove`).
- A result of a delivery is written by id without its lease (`cloud/webhooks.ts:168`), so that
  after a lapse a late failure turns a delivered row into a pending one
  (`FinishedIsFinal` holds only while no lease has lapsed).
- A change of a schedule writes back the next run it read before its body
  (`cloud/routes-agent-ops.ts:105`): a slot that was served meanwhile is served again, and a schedule
  that was deleted meanwhile is there again. `overtaken` counts these.
- The budget of an agent is checked before a call and charged after it, without a reservation
  (`cloud/ai-runtime.ts:188`): calls of overlapping passes may exceed it by one each (`BudgetHolds`).
- A job older than the stale limit is queued again although a pass may still work on it, and
  `finishJob` writes by id: it may be answered twice, and the later outcome
  stands. `requeued` counts these.

## 6. Not modelled

In the hub: presence and awareness frames, the frame rate limit, the hello handshake and its
timeout, duplicate client ids (nothing persistent depends on them); purging and re-creating a
page; the fallback that replaces a fragment whose elements are not all known; and a timer armed by
the hook of a final checkpoint after `leave` has cleared it (the model drops the timer with
the room; with sets of blocks that hook never leaves the room dirty, but with the headings of
`heading_twice` it does, and the destroyed room would be checkpointed).
`flush` is only called by tests.

In the dev loop: issues that a pull request or a failed test moves or opens, results a CI
sends, the blast radius report; the provider's cost model is one minute per run. In the queues:
the limit of a claim, the contents of a mail or a payload, the choice of a digest's items, and
the integration outbox, which other code drains. In proposals: what a patch does to a page, the blocks
it may touch, and the trust ladder that moves the tier.

In hosted agents: creating a schedule, the hosting settings, issues assigned to an agent, the budget of
the user who owns it, and providers, keys and policies, which only decide whether a call is refused.

Git synchronisation, attachments, chat, authentication, the AI
runtime, the enterprise workspace and the SDKs are not modelled (`components` in
`PROJECT.json` says why for each). Pure text processing (parser, renderers, importers, patch
operations, DOCX, PaperDOM), which is most of the repository's lines, has no state to
interleave: its correctness is that of functions over text, which a model that abstracts
text cannot say anything about.

## 7. What is left

1. `DocumentRecord`: the record with permissions apart from the source; permission changes
   computed from a record read before an await (`cloud/routes-access.ts`). Compose with the
   hub's write hook.
2. `LiveClient`: the browser's unacknowledged updates against the hub, with disconnects;
   headings together with leaving (the timer of section 6).
3. Blob collection, git synchronisation.
4. Hazards of `PROJECT.json` without a property: a page purged while its room closes, one
   tick of `cloud/queue.ts` over all queues, permissions written from an old read.
