----------------------------- MODULE AgentJobs -----------------------------
(***************************************************************************)
(* A hosted agent that works unattended (src/src/cloud/agent-runner.ts     *)
(* over src/src/cloud-agent-ops.ts): it answers mentions and posts the     *)
(* digests of a schedule, from a queue of jobs, within a budget, unless a  *)
(* workspace admin has paused all agents.                                  *)
(*                                                                         *)
(* A pass over the queue is started by the server's timer, by a mention,   *)
(* or by "run now"; passes overlap.  A pass waits for the language model,  *)
(* for the code search of a mention before that, and for what a posted     *)
(* command starts; between two waits it is one stretch of the only         *)
(* process.  (That it reads the queue and claims its first job is two      *)
(* steps here; the claim looks at everything it depends on again.)  A      *)
(* crash may fall between two commits of a stretch.  A job older than the  *)
(* stale limit is queued again, whether or not a pass still works on it.   *)
(*                                                                         *)
(* A call of the model costs one, which is also its worst case.  Time is   *)
(* counted in slots of the schedule.  Whether the agent is active, hosted, *)
(* and still allowed in the channel may change at any time.                *)
(***************************************************************************)
EXTENDS Naturals, FiniteSets

CONSTANTS
    Jobs,        \* the jobs that may be queued
    Messages,    \* messages that mention the agent
    Passes,      \* passes in progress at a time
    Budget,      \* calls the agent may make
    MaxSlots,    \* bound on time
    MaxEdits,    \* bound on changes of settings
    MaxFaults,   \* bound on crashes, and on jobs that go stale while a pass works on them
    None

ASSUME AgentJobsAssumption ==
    /\ None \notin Jobs \cup Messages
    /\ IsFiniteSet(Passes) /\ Passes # {}
    /\ Budget \in Nat /\ MaxSlots \in Nat /\ MaxEdits \in Nat
    /\ MaxFaults \in Nat

Over  == {"done", "failed", "skipped"}

\* A job, of a message or (None) of the schedule; old, that it has been running for
\* longer than STALE_RUNNING_MS.
Job   == [status: {"absent", "queued", "running"} \cup Over, message: Messages \cup {None}, old: BOOLEAN]
NoJob == [status |-> "absent", message |-> None, old |-> FALSE]

\* The schedule: the slot it runs next.
Slots    == 0..MaxSlots + 1
Schedule == [state: {"on", "off", "gone"}, next: Slots]

\* A pass: the queued jobs it has read and not come to yet, the job it has claimed.
\* Working are the phases in which the job may still be answered.
Working == {"claimed", "calling"}
Pass    == [phase: {"idle", "loop", "posted"} \cup Working, list: SUBSET Jobs, job: Jobs \cup {None}]
NoPass  == [phase |-> "idle", list |-> {}, job |-> None]

\* A request to change the schedule, with the schedule as it was read before the body.
NoPatch == [state |-> "gone", next |-> 0]

VARIABLES
    \* The database.
    jobs,       \* agent_jobs
    schedule,   \* the row of agent_schedules
    paused,     \* the kill switch
    spent,      \* spentUsd of the agent
    \* The process.
    passes,
    patching, read,  \* a PATCH of the schedule waits for its body, and what it read
    clock,      \* the current slot
    \* Bookkeeping of the specification.
    posted,     \* how many answers of a job were posted
    requeued,   \* how often a job was queued again
    digests,    \* how many jobs were queued because a slot was due
    overtaken,  \* how often a PATCH wrote over a schedule that had changed
    edits, faults

dbVars   == <<jobs, schedule, paused, spent>>
procVars == <<passes, patching, read, clock>>
bookVars == <<posted, requeued, digests, overtaken, edits, faults>>
vars     == <<dbVars, procVars, bookVars>>

Init ==
    /\ jobs = [j \in Jobs |-> NoJob]
    /\ schedule = [state |-> "on", next |-> 1]
    /\ paused = FALSE /\ spent = 0
    /\ passes = [p \in Passes |-> NoPass]
    /\ patching = FALSE /\ read = NoPatch /\ clock = 0
    /\ posted = [j \in Jobs |-> 0] /\ requeued = [j \in Jobs |-> 0]
    /\ digests = [k \in Slots |-> 0] /\ overtaken = 0
    /\ edits = 0 /\ faults = 0

-----------------------------------------------------------------------------
\* The queue.

NewJob(message) == [status |-> "queued", message |-> message, old |-> FALSE]
Unused == {j \in Jobs : jobs[j] = NoJob}
Fresh == CHOOSE j \in Unused : TRUE

\* enqueueMention: once for a message, not while paused.
Mention(m) ==
    /\ ~paused
    /\ \A j \in Jobs : jobs[j].message # m
    /\ Unused # {}
    /\ jobs' = [jobs EXCEPT ![Fresh] = NewJob(m)]
    /\ UNCHANGED <<schedule, paused, spent, procVars, bookVars>>

\* requeueStale.  (Mutant: only jobs that a pass works on.)
StaleWorkedOn == {j \in Jobs : jobs[j].status = "running" /\ jobs[j].old /\ \E p \in Passes : passes[p].job = j}
Stale == {j \in Jobs : jobs[j].status = "running" /\ jobs[j].old}

Requeued == [j \in Jobs |-> IF j \in Stale THEN NewJob(jobs[j].message) ELSE jobs[j]]

CountRequeued == requeued' = [j \in Jobs |-> IF j \in Stale THEN requeued[j] + 1 ELSE requeued[j]]

\* dueSchedules, as long as there is a job left for it.
Due == schedule.state = "on" /\ schedule.next <= clock /\ Unused # {}

\* enqueueSchedule moves the schedule to the slot after now.  (Mutant: to the slot of
\* now.)
MovedToNow == [schedule EXCEPT !.next = clock]
Moved == [schedule EXCEPT !.next = clock + 1]

Queued(queue) == {j \in Jobs : queue[j].status = "queued"}

Reads(p, queue) == passes' = [passes EXCEPT ![p] = [NoPass EXCEPT !.phase = "loop", !.list = Queued(queue)]]

\* runAgentJobs up to its first claim: stale jobs are queued again; unless agents are
\* paused, a job is queued for the schedule if it is due, and the queue is read.
StartPass(p) ==
    /\ passes[p].phase = "idle"
    /\ CountRequeued
    /\ \/ /\ paused
          /\ jobs' = Requeued
          /\ UNCHANGED <<passes, schedule, digests>>
       \/ /\ ~paused /\ ~Due
          /\ jobs' = Requeued
          /\ Reads(p, jobs')
          /\ UNCHANGED <<schedule, digests>>
       \/ /\ ~paused /\ Due
          /\ jobs' = [Requeued EXCEPT ![Fresh] = NewJob(None)]
          /\ schedule' = Moved
          /\ digests' = [digests EXCEPT ![schedule.next] = @ + 1]
          /\ Reads(p, jobs')
    /\ UNCHANGED <<paused, spent, patching, read, clock, posted, overtaken, edits, faults>>

\* "Run now" queues a job whether or not the schedule is due, or on; then comes a pass.
RunNow(p) ==
    /\ passes[p].phase = "idle"
    /\ ~paused /\ schedule.state # "gone" /\ Unused # {}
    /\ CountRequeued
    /\ jobs' = [Requeued EXCEPT ![Fresh] = NewJob(None)]
    /\ schedule' = Moved
    /\ Reads(p, jobs')
    /\ UNCHANGED <<paused, spent, patching, read, clock, posted, digests, overtaken, edits, faults>>

-----------------------------------------------------------------------------
\* A pass.

\* claimJob takes a job that is still queued.  (Mutant: any job of the list.)
MayClaimListed(j) == jobs[j].status # "absent"
MayClaim(j) == jobs[j].status = "queued"

Claim(p, j) ==
    /\ passes[p].phase = "loop" /\ j \in passes[p].list
    /\ ~paused
    /\ IF MayClaim(j)
       THEN /\ jobs' = [jobs EXCEPT ![j].status = "running"]
            /\ passes' = [passes EXCEPT ![p] = [phase |-> "claimed", list |-> @.list \ {j}, job |-> j]]
       ELSE /\ passes' = [passes EXCEPT ![p].list = @ \ {j}]
            /\ UNCHANGED jobs
    /\ UNCHANGED <<schedule, paused, spent, patching, read, clock, bookVars>>

EndPass(p) ==
    /\ passes[p].phase = "loop"
    /\ passes[p].list = {} \/ paused
    /\ passes' = [passes EXCEPT ![p] = NoPass]
    /\ UNCHANGED <<dbVars, patching, read, clock, bookVars>>

\* finishJob writes the outcome by id, over whatever the job has become.
Finish(p, outcome) ==
    /\ jobs' = [jobs EXCEPT ![passes[p].job] = [@ EXCEPT !.status = outcome, !.old = FALSE]]
    /\ passes' = [passes EXCEPT ![p] = [@ EXCEPT !.phase = "loop", !.job = None]]

\* The message or the schedule is gone, the mention a day old, the agent no longer
\* active, hosted or in the channel.
Skip(p) ==
    /\ passes[p].phase = "claimed"
    /\ Finish(p, "skipped")
    /\ UNCHANGED <<schedule, paused, spent, patching, read, clock, bookVars>>

\* The schedule of a digest is still there and on.
IsWanted(j) == jobs[j].message = None => schedule.state = "on"

\* runAiCompletion refuses a call of which the worst case is not left of the budget.
\* (Mutant: it refuses when the budget is exceeded.)
WithinBudgetLate == spent <= Budget
WithinBudget == spent < Budget

Call(p) ==
    /\ passes[p].phase = "claimed"
    /\ IsWanted(passes[p].job)
    /\ ~paused /\ WithinBudget
    /\ passes' = [passes EXCEPT ![p].phase = "calling"]
    /\ UNCHANGED <<dbVars, patching, read, clock, bookVars>>

\* Refused for one of these two reasons, or by a policy.
CallRefused(p) ==
    /\ passes[p].phase = "claimed"
    /\ IsWanted(passes[p].job)
    /\ Finish(p, "failed")
    /\ UNCHANGED <<schedule, paused, spent, patching, read, clock, bookVars>>

CallFails(p) ==
    /\ passes[p].phase = "calling"
    /\ Finish(p, "failed")
    /\ UNCHANGED <<schedule, paused, spent, patching, read, clock, bookVars>>

\* postAsAgent asks for the kill switch again.  (Mutant: it does not.)
MayPostPaused == TRUE
MayPost == ~paused

\* The call is charged, and answered, and the answer posted, if there is one: a pass may
\* have been overtaken by a pause, or the channel be out of reach.
Answers(p) ==
    /\ passes[p].phase = "calling"
    /\ spent' = spent + 1
    /\ \/ /\ MayPost
          /\ posted' = [posted EXCEPT ![passes[p].job] = @ + 1]
          /\ passes' = [passes EXCEPT ![p].phase = "posted"]
          /\ UNCHANGED jobs
       \/ ~MayPost /\ Finish(p, "skipped") /\ UNCHANGED posted
       \/ \E outcome \in {"done", "failed"} : Finish(p, outcome) /\ UNCHANGED posted
    /\ UNCHANGED <<schedule, paused, patching, read, clock, requeued, digests, overtaken, edits, faults>>

\* What the posted command started has been waited for; that it failed is posted, not
\* thrown.  (Mutant: it is thrown.)
PostThrows(p) ==
    /\ passes[p].phase = "posted"
    /\ \E outcome \in {"done", "failed"} : Finish(p, outcome)
    /\ UNCHANGED <<schedule, paused, spent, patching, read, clock, bookVars>>
PostEnds(p) ==
    /\ passes[p].phase = "posted"
    /\ Finish(p, "done")
    /\ UNCHANGED <<schedule, paused, spent, patching, read, clock, bookVars>>

-----------------------------------------------------------------------------
\* The schedule is changed or deleted, agents are paused.

ReadSchedule ==
    /\ ~patching /\ edits < MaxEdits
    /\ schedule.state # "gone"
    /\ patching' = TRUE /\ read' = schedule
    /\ edits' = edits + 1
    /\ UNCHANGED <<dbVars, passes, clock, posted, requeued, digests, overtaken, faults>>

\* The schedule is written back as it was read but for what the request changes: a
\* new timing gives it a new slot.
NextSlot(timing) == IF timing THEN clock + 1 ELSE read.next

WriteSchedule ==
    /\ patching
    /\ \E state \in {"on", "off"}, timing \in BOOLEAN :
          schedule' = [state |-> state, next |-> NextSlot(timing)]
    /\ overtaken' = IF schedule = read THEN overtaken ELSE overtaken + 1
    /\ patching' = FALSE /\ read' = NoPatch
    /\ UNCHANGED <<jobs, paused, spent, passes, clock, posted, requeued, digests, edits, faults>>

DropPatch ==
    /\ patching
    /\ patching' = FALSE /\ read' = NoPatch
    /\ UNCHANGED <<dbVars, passes, clock, bookVars>>

DeleteSchedule ==
    /\ schedule.state # "gone" /\ edits < MaxEdits
    /\ schedule' = [schedule EXCEPT !.state = "gone"]
    /\ edits' = edits + 1
    /\ UNCHANGED <<jobs, paused, spent, procVars, posted, requeued, digests, overtaken, faults>>

SetPaused ==
    /\ edits < MaxEdits
    /\ paused' = ~paused
    /\ edits' = edits + 1
    /\ UNCHANGED <<jobs, schedule, spent, procVars, posted, requeued, digests, overtaken, faults>>

-----------------------------------------------------------------------------
\* Time, and crashes.

Tick ==
    /\ clock < MaxSlots
    /\ clock' = clock + 1
    /\ UNCHANGED <<dbVars, passes, patching, read, bookVars>>

\* A job has been running for longer than STALE_RUNNING_MS.
WorkedOn(j) == \E p \in Passes : passes[p].job = j
Age(j) ==
    /\ jobs[j].status = "running" /\ ~jobs[j].old
    /\ IF WorkedOn(j) THEN faults < MaxFaults /\ faults' = faults + 1 ELSE UNCHANGED faults
    /\ jobs' = [jobs EXCEPT ![j].old = TRUE]
    /\ UNCHANGED <<schedule, paused, spent, procVars, posted, requeued, digests, overtaken, edits>>

\* The process dies, perhaps with the schedule moved and its job not yet queued, or with
\* an answer charged and not posted.
Crash ==
    /\ faults < MaxFaults
    /\ faults' = faults + 1
    /\ passes' = [p \in Passes |-> NoPass]
    /\ patching' = FALSE /\ read' = NoPatch
    /\ \/ UNCHANGED <<schedule, spent>>
       \/ ~paused /\ schedule.state # "gone" /\ schedule' = Moved /\ UNCHANGED spent
       \/ (\E p \in Passes : passes[p].phase = "calling") /\ spent' = spent + 1 /\ UNCHANGED schedule
    /\ UNCHANGED <<jobs, paused, clock, posted, requeued, digests, overtaken, edits>>

Step(p) ==
    \/ StartPass(p)
    \/ \E j \in Jobs : Claim(p, j)
    \/ EndPass(p)
    \/ Skip(p) \/ Call(p) \/ CallRefused(p) \/ CallFails(p) \/ Answers(p)
    \/ PostEnds(p)

Next ==
    \/ \E p \in Passes : Step(p) \/ RunNow(p)
    \/ \E m \in Messages : Mention(m)
    \/ \E j \in Jobs : Age(j)
    \/ ReadSchedule \/ WriteSchedule \/ DropPatch \/ DeleteSchedule \/ SetPaused
    \/ Tick \/ Crash

Spec == Init /\ [][Next]_vars

\* Passes are started again and again, every call of the model ends (its attempts have
\* a timeout each, and are counted), and time passes.
FairSpec ==
    /\ Spec
    /\ \A p \in Passes : WF_vars(Step(p))
    /\ \A j \in Jobs : WF_vars(Age(j))

-----------------------------------------------------------------------------
(***************************************************************************)
(* Properties.                                                             *)
(***************************************************************************)

\* The types of the variables.
TypeOK ==
    /\ jobs \in [Jobs -> Job]
    /\ schedule \in Schedule /\ paused \in BOOLEAN /\ spent \in Nat
    /\ passes \in [Passes -> Pass]
    /\ patching \in BOOLEAN /\ read \in Schedule /\ clock \in 0..MaxSlots
    /\ posted \in [Jobs -> Nat] /\ requeued \in [Jobs -> Nat]
    /\ digests \in [Slots -> Nat] /\ overtaken \in Nat
    /\ edits \in 0..MaxEdits /\ faults \in 0..MaxFaults

\* However many passes overlap, a mention is answered once and a digest posted once,
\* and once more at most for every time the job was taken for stale
\* (cloud-agent-ops.ts:223-239).
AnswersAreBounded == \A j \in Jobs : posted[j] <= 1 + requeued[j]

\* The list of jobs tells the truth ("every hosted and scheduled run with its
\* outcome", docs/noma-cloud.noma:2079-2080): a job that is shown as failed or skipped
\* was not answered, unless it was run twice.
OutcomesAreTrue ==
    \A j \in Jobs : jobs[j].status \in {"failed", "skipped"} => posted[j] = 0 \/ requeued[j] > 0

\* A job that is over is never run again, and keeps its outcome unless it was run twice.
OverStaysOver ==
    [][\A j \in Jobs : jobs[j].status \in Over =>
          /\ jobs'[j].status \in Over
          /\ jobs'[j].status = jobs[j].status \/ requeued[j] > 0]_vars

\* While agents are paused no job is queued anew, none begins, the model is not called
\* and no answer is posted, also by passes that began before the pause
\* (docs/noma-cloud.noma:2096-2107).
NothingWhilePaused ==
    [][paused =>
          /\ posted' = posted
          /\ \A j \in Jobs : jobs[j].status = "absent" => jobs'[j].status = "absent"
          /\ \A j \in Jobs : jobs[j].status = "queued" => jobs'[j].status # "running"
          /\ \A p \in Passes : passes[p].phase # "calling" => passes'[p].phase # "calling"]_vars

\* Calls check the budget and do not reserve it: what overlapping passes spend exceeds
\* it by the other passes' calls at most (ai-runtime.ts:170-190), provided that no call
\* costs more than the estimate the check used (cloud-llm.ts:78-82), which is the unit here.
BudgetHolds ==
    spent + Cardinality({p \in Passes : passes[p].phase = "calling"}) < Budget + Cardinality(Passes)

\* A slot that is due queues one job, however many passes see it, and another only
\* after a change of the schedule was written over a schedule that had moved on since
\* it was read.
OneDigestPerSlot == \A k \in Slots : digests[k] <= 1 + overtaken

\* Unless agents are paused the queue is worked off: every job ends, also when the process
\* that ran it died.
JobsEnd == []<>(paused \/ \A j \in Jobs : jobs[j].status \notin {"queued", "running"})
=============================================================================
