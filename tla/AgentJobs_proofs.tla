-------------------------- MODULE AgentJobs_proofs --------------------------
(***************************************************************************)
(* Safety of the hosted agent's jobs, for any number of jobs, messages,    *)
(* passes and crashes, and any budget.                                     *)
(***************************************************************************)
EXTENDS AgentJobs, FiniteSetTheorems, TLAPS

\* A pass holds a job from its claim to its outcome, and knows only jobs that were
\* queued.
PassFits(p) ==
    /\ passes[p].phase \in {"idle", "loop"} <=> passes[p].job = None
    /\ \A j \in passes[p].list \cup {passes[p].job} : j # None => jobs[j].status # "absent"

\* Who works on a job, and who may still answer it.
Runners(j)   == {p \in Passes : passes[p].job = j}
Answerers(j) == {p \in Passes : passes[p].job = j /\ passes[p].phase \in Working}

\* Being queued lets one pass in.  So a job has one runner, or none once it is over,
\* and one answer, or an answerer, or neither yet, and more only if it was queued again.
Waits(j) == IF jobs[j].status = "queued" THEN 1 ELSE 0
Rests(j) == IF jobs[j].status \in {"queued"} \cup Over THEN 1 ELSE 0
JobFits(j) ==
    /\ Cardinality(Runners(j)) + Rests(j) <= 1 + requeued[j]
    /\ posted[j] + Cardinality(Answerers(j)) + Waits(j) <= 1 + requeued[j]
    /\ jobs[j].status = "absent" => posted[j] = 0
    /\ jobs[j].status \in {"failed", "skipped"} => posted[j] = 0 \/ requeued[j] > 0

\* A slot that the schedule has passed does not come again, but for a PATCH that writes
\* back what it read; only slots that have come were due.
Ahead(k) == IF schedule.next <= k THEN 1 ELSE 0
SlotFits(k) ==
    /\ digests[k] + Ahead(k) <= 1 + overtaken
    /\ digests[k] > 0 => k <= clock

Inv ==
    /\ TypeOK
    /\ \A p \in Passes : PassFits(p)
    /\ \A j \in Jobs : JobFits(j)
    /\ \A k \in Slots : SlotFits(k)
    /\ BudgetHolds

-----------------------------------------------------------------------------
\* Few passes.
LEMMA PassesAreFinite ==
    /\ IsFiniteSet(Passes) /\ Cardinality(Passes) \in Nat /\ Cardinality(Passes) > 0
    /\ \A S \in SUBSET Passes : IsFiniteSet(S) /\ Cardinality(S) \in Nat
<1>1. IsFiniteSet(Passes) /\ Passes # {}
  BY AgentJobsAssumption
<1>2. \A S \in SUBSET Passes : IsFiniteSet(S) /\ Cardinality(S) \in Nat
  BY <1>1, FS_Subset, FS_CardinalityType
<1>3. Cardinality(Passes) \in Nat /\ Cardinality(Passes) # 0
  BY <1>1, FS_CardinalityType, FS_EmptySet
<1> QED
  BY <1>1, <1>2, <1>3

LEMMA FewerPasses ==
    ASSUME NEW S \in SUBSET Passes, NEW T \in SUBSET S
    PROVE  Cardinality(T) <= Cardinality(S)
BY PassesAreFinite, FS_Subset

LEMMA OnePassMore ==
    ASSUME NEW S \in SUBSET Passes, NEW T \in SUBSET Passes, NEW p \in Passes, T \subseteq S \cup {p}
    PROVE  Cardinality(T) <= Cardinality(S) + 1
<1>1. Cardinality(T) <= Cardinality(S \cup {p})
  BY FewerPasses
<1>2. IsFiniteSet(S) /\ Cardinality(S) \in Nat /\ Cardinality(T) \in Nat
  BY PassesAreFinite
<1>3. Cardinality(S \cup {p}) \in {Cardinality(S), Cardinality(S) + 1}
  BY <1>2, FS_AddElement
<1> QED
  BY <1>1, <1>2, <1>3

LEMMA OnePassFewer ==
    ASSUME NEW S \in SUBSET Passes, NEW T \in SUBSET S, NEW p \in S, p \notin T
    PROVE  Cardinality(T) + 1 <= Cardinality(S)
<1>1. Cardinality(T) <= Cardinality(S \ {p})
  BY FewerPasses
<1>2. Cardinality(S \ {p}) = Cardinality(S) - 1
  BY PassesAreFinite, FS_RemoveElement
<1>3. Cardinality(T) \in Nat /\ Cardinality(S) \in Nat /\ Cardinality(S \ {p}) \in Nat
  BY PassesAreFinite
<1> QED
  BY <1>1, <1>2, <1>3

-----------------------------------------------------------------------------
\* What the steps write is of its type.
LEMMA RecordFacts ==
    /\ NoJob \in Job /\ NoPass \in Pass /\ NoPatch \in Schedule
    /\ \A m \in Messages \cup {None} : NewJob(m) \in Job /\ NewJob(m).status = "queued"
    /\ NoPass.phase = "idle" /\ NoPass.list = {} /\ NoPass.job = None
    /\ NoJob.status = "absent"
BY AgentJobsAssumption DEF NoJob, Job, NoPass, Pass, NoPatch, Schedule, Slots, NewJob, Over, Working

LEMMA MovedFacts ==
    ASSUME TypeOK
    PROVE  /\ Moved \in Schedule /\ Moved.next = clock + 1
           /\ schedule.next \in Slots /\ clock + 1 \in Slots /\ Slots \subseteq Nat
<1>1. clock \in Nat /\ clock + 1 \in Slots /\ Slots \subseteq Nat
  BY AgentJobsAssumption DEF TypeOK, Slots
<1>2. schedule \in Schedule
  BY DEF TypeOK
<1> QED
  BY <1>1, <1>2 DEF Moved, Schedule

LEMMA FreshFacts ==
    ASSUME TypeOK, Unused # {}
    PROVE  Fresh \in Jobs /\ jobs[Fresh].status = "absent"
BY RecordFacts DEF Fresh, Unused

LEMMA FinishFacts ==
    ASSUME TypeOK, NEW p \in Passes, passes[p].job \in Jobs, NEW outcome \in Over, Finish(p, outcome)
    PROVE  /\ jobs' \in [Jobs -> Job] /\ passes' \in [Passes -> Pass]
           /\ jobs'[passes[p].job].status = outcome
           /\ \A i \in Jobs : i # passes[p].job => jobs'[i] = jobs[i]
           /\ passes'[p].phase = "loop" /\ passes'[p].job = None /\ passes'[p].list = passes[p].list
           /\ \A q \in Passes : q # p => passes'[q] = passes[q]
<1> DEFINE i == passes[p].job
           x == [jobs[i] EXCEPT !.status = outcome, !.old = FALSE]
           y == [passes[p] EXCEPT !.phase = "loop", !.job = None]
<1>1. jobs \in [Jobs -> Job] /\ passes \in [Passes -> Pass] /\ jobs[i] \in Job /\ passes[p] \in Pass
  BY DEF TypeOK
<1>2. x \in Job /\ x.status = outcome
  BY <1>1 DEF Job, Over
<1>3. y \in Pass /\ y.phase = "loop" /\ y.job = None /\ y.list = passes[p].list
  BY <1>1 DEF Pass, Working
<1>4. jobs' = [jobs EXCEPT ![i] = x] /\ passes' = [passes EXCEPT ![p] = y]
  BY DEF Finish
<1> HIDE DEF x, y
<1> QED
  BY <1>1, <1>2, <1>3, <1>4

LEMMA ClaimFacts ==
    ASSUME TypeOK, NEW p \in Passes, NEW j \in Jobs, Claim(p, j)
    PROVE  /\ jobs' \in [Jobs -> Job] /\ passes' \in [Passes -> Pass]
           /\ \A i \in Jobs : i # j => jobs'[i] = jobs[i]
           /\ \A q \in Passes : q # p => passes'[q] = passes[q]
           /\ passes'[p].list = passes[p].list \ {j} /\ j \in passes[p].list /\ passes[p].phase = "loop"
           /\ \/ /\ jobs[j].status = "queued" /\ jobs'[j].status = "running"
                 /\ passes'[p].phase = "claimed" /\ passes'[p].job = j
              \/ /\ jobs'[j] = jobs[j]
                 /\ passes'[p].phase = "loop" /\ passes'[p].job = passes[p].job
<1> DEFINE x == [jobs[j] EXCEPT !.status = "running"]
           y == [phase |-> "claimed", list |-> passes[p].list \ {j}, job |-> j]
           z == [passes[p] EXCEPT !.list = passes[p].list \ {j}]
<1>1. jobs \in [Jobs -> Job] /\ passes \in [Passes -> Pass] /\ jobs[j] \in Job /\ passes[p] \in Pass
  BY DEF TypeOK
<1>2. x \in Job /\ x.status = "running"
  BY <1>1 DEF Job
<1>3. y \in Pass /\ y.phase = "claimed" /\ y.job = j /\ y.list = passes[p].list \ {j}
  BY <1>1 DEF Pass, Working
<1>4. z \in Pass /\ z.phase = passes[p].phase /\ z.job = passes[p].job /\ z.list = passes[p].list \ {j}
  BY <1>1 DEF Pass
<1>5. \/ jobs[j].status = "queued" /\ jobs' = [jobs EXCEPT ![j] = x] /\ passes' = [passes EXCEPT ![p] = y]
      \/ jobs' = jobs /\ passes' = [passes EXCEPT ![p] = z]
  <2>1. CASE MayClaim(j)
    BY <2>1 DEF Claim, MayClaim
  <2>2. CASE ~MayClaim(j)
    BY <2>2 DEF Claim
  <2> QED
    BY <2>1, <2>2
<1>6. j \in passes[p].list /\ passes[p].phase = "loop"
  BY DEF Claim
<1> HIDE DEF x, y, z
<1> QED
  BY <1>1, <1>2, <1>3, <1>4, <1>5, <1>6

\* A pass goes on to its next phase.
LEMMA PhaseFacts ==
    ASSUME TypeOK, NEW p \in Passes, NEW phase \in {"calling", "posted"}, passes' = [passes EXCEPT ![p].phase = phase]
    PROVE  /\ passes' \in [Passes -> Pass]
           /\ passes'[p].phase = phase /\ passes'[p].job = passes[p].job /\ passes'[p].list = passes[p].list
           /\ \A q \in Passes : q # p => passes'[q] = passes[q]
<1> DEFINE y == [passes[p] EXCEPT !.phase = phase]
<1>1. passes \in [Passes -> Pass] /\ passes[p] \in Pass
  BY DEF TypeOK
<1>2. y \in Pass /\ y.phase = phase /\ y.job = passes[p].job /\ y.list = passes[p].list
  BY <1>1 DEF Pass, Working
<1>3. passes' = [passes EXCEPT ![p] = y]
  OBVIOUS
<1> HIDE DEF y
<1> QED
  BY <1>1, <1>2, <1>3

\* What a pass finds and leaves when it starts.
LEMMA StartFacts ==
    ASSUME TypeOK, NEW p \in Passes, StartPass(p) \/ RunNow(p)
    PROVE  /\ jobs' \in [Jobs -> Job] /\ passes' \in [Passes -> Pass] /\ requeued' \in [Jobs -> Nat]
           /\ passes[p].phase = "idle" /\ passes'[p].job \in {passes[p].job, None}
           /\ passes'[p] = passes[p] \/ (passes'[p].phase = "loop" /\ passes'[p].job = None)
           /\ \A j \in passes'[p].list : j \in passes[p].list \/ jobs'[j].status = "queued"
           /\ \A q \in Passes : q # p => passes'[q] = passes[q]
           /\ \A j \in Jobs :
                 \/ jobs'[j] = jobs[j] /\ requeued'[j] = requeued[j]
                 \/ jobs[j].status = "running" /\ jobs'[j].status = "queued" /\ requeued'[j] = requeued[j] + 1
                 \/ ~paused /\ jobs[j].status = "absent" /\ jobs'[j].status = "queued" /\ requeued'[j] = requeued[j]
<1>1. /\ jobs \in [Jobs -> Job] /\ passes \in [Passes -> Pass] /\ requeued \in [Jobs -> Nat]
      /\ passes[p] \in Pass
  BY DEF TypeOK
<1>2. requeued' = [j \in Jobs |-> IF j \in Stale THEN requeued[j] + 1 ELSE requeued[j]]
  BY DEF StartPass, RunNow, CountRequeued
<1>3. requeued' \in [Jobs -> Nat]
  BY <1>1, <1>2
<1>4. /\ Requeued \in [Jobs -> Job]
      /\ \A j \in Jobs : \/ j \in Stale /\ jobs[j].status = "running" /\ Requeued[j].status = "queued"
                         \/ j \notin Stale /\ Requeued[j] = jobs[j]
  <2>1. \A j \in Jobs : jobs[j].message \in Messages \cup {None}
    BY <1>1 DEF Job
  <2> QED
    BY <1>1, <2>1, RecordFacts DEF Requeued, Stale
<1>5. \/ jobs' = Requeued
      \/ ~paused /\ Unused # {} /\ jobs' = [Requeued EXCEPT ![Fresh] = NewJob(None)]
  BY DEF StartPass, RunNow, Due
<1>6. jobs' \in [Jobs -> Job]
  BY <1>4, <1>5, RecordFacts
<1>7. ASSUME NEW j \in Jobs
      PROVE  \/ jobs'[j] = jobs[j] /\ requeued'[j] = requeued[j]
             \/ jobs[j].status = "running" /\ jobs'[j].status = "queued" /\ requeued'[j] = requeued[j] + 1
             \/ ~paused /\ jobs[j].status = "absent" /\ jobs'[j].status = "queued" /\ requeued'[j] = requeued[j]
  <2>1. CASE jobs'[j] = Requeued[j]
    BY <1>2, <1>4, <2>1
  <2>2. CASE jobs'[j] # Requeued[j]
    <3>1. ~paused /\ Unused # {} /\ j = Fresh /\ jobs'[j] = NewJob(None)
      BY <1>4, <1>5, <2>2
    <3>2. jobs[j].status = "absent" /\ jobs'[j].status = "queued"
      BY <3>1, FreshFacts, RecordFacts
    <3>3. j \notin Stale
      BY <3>2 DEF Stale
    <3> QED
      BY <1>2, <3>1, <3>2, <3>3
  <2> QED
    BY <2>1, <2>2
<1> DEFINE y == [NoPass EXCEPT !.phase = "loop", !.list = Queued(jobs')]
<1>8. y \in Pass /\ y.phase = "loop" /\ y.job = None /\ y.list = Queued(jobs')
  BY DEF NoPass, Pass, Queued, Working
<1>9. passes' = passes \/ passes' = [passes EXCEPT ![p] = y]
  BY DEF StartPass, RunNow, Reads
<1>10. passes[p].phase = "idle"
  BY DEF StartPass, RunNow
<1>11. \A j \in Queued(jobs') : jobs'[j].status = "queued"
  BY DEF Queued
<1> HIDE DEF y
<1>12. /\ passes' \in [Passes -> Pass] /\ \A q \in Passes : q # p => passes'[q] = passes[q]
       /\ passes'[p] = passes[p] \/ passes'[p] = y
  BY <1>1, <1>8, <1>9
<1>13. /\ passes'[p].job \in {passes[p].job, None}
       /\ passes'[p] = passes[p] \/ (passes'[p].phase = "loop" /\ passes'[p].job = None)
       /\ \A j \in passes'[p].list : j \in passes[p].list \/ jobs'[j].status = "queued"
  <2>1. CASE passes'[p] = y
    BY <1>8, <1>11, <2>1
  <2>2. CASE passes'[p] = passes[p]
    BY <2>2
  <2> QED
    BY <1>12, <2>1, <2>2
<1> QED
  BY <1>3, <1>6, <1>7, <1>10, <1>12, <1>13
-----------------------------------------------------------------------------
\* A pass that acts on a job has one.
LEMMA JobIsHeld ==
    ASSUME TypeOK, NEW p \in Passes, PassFits(p), passes[p].phase \notin {"idle", "loop"}
    PROVE  /\ passes[p].job \in Jobs /\ p \in Runners(passes[p].job)
           /\ passes[p].phase \in Working => p \in Answerers(passes[p].job)
<1>1. passes[p].job \in Jobs \cup {None} /\ passes[p].job # None
  BY DEF TypeOK, Pass, PassFits
<1> QED
  BY <1>1 DEF Runners, Answerers

\* The steps of a pass that end its job, and how.
Ends(p, outcome) ==
    \/ Skip(p) /\ outcome = "skipped"
    \/ (CallRefused(p) \/ CallFails(p)) /\ outcome = "failed"
    \/ Answers(p) /\ Finish(p, outcome) /\ UNCHANGED posted
    \/ PostEnds(p) /\ outcome = "done"

LEMMA EndFacts ==
    ASSUME Inv, NEW p \in Passes, NEW outcome \in Over, Ends(p, outcome)
    PROVE  /\ Finish(p, outcome) /\ passes[p].job \in Jobs
           /\ passes[p].phase \notin {"idle", "loop"}
           /\ outcome # "done" => passes[p].phase \in Working
           /\ UNCHANGED <<schedule, paused, patching, read, clock, posted, requeued, digests, overtaken, edits, faults>>
           /\ spent' \in Nat
           /\ \/ spent' = spent
              \/ spent' = spent + 1 /\ passes[p].phase = "calling"
<1>0. TypeOK /\ PassFits(p) /\ spent \in Nat
  BY DEF Inv, TypeOK
<1>1. Finish(p, outcome) /\ passes[p].phase \notin {"idle", "loop"} /\ (outcome # "done" => passes[p].phase \in Working)
  BY DEF Ends, Skip, CallRefused, CallFails, Answers, PostEnds, Working
<1>2. UNCHANGED <<schedule, paused, patching, read, clock, posted, requeued, digests, overtaken, edits, faults>>
  BY DEF Ends, Skip, CallRefused, CallFails, Answers, PostEnds, bookVars
<1>3. spent' = spent \/ (spent' = spent + 1 /\ passes[p].phase = "calling")
  BY DEF Ends, Skip, CallRefused, CallFails, Answers, PostEnds
<1> QED
  BY <1>0, <1>1, <1>2, <1>3, JobIsHeld

\* An answer that is posted.
Posts(p) ==
    /\ Answers(p) /\ MayPost
    /\ posted' = [posted EXCEPT ![passes[p].job] = @ + 1]
    /\ passes' = [passes EXCEPT ![p].phase = "posted"]
    /\ UNCHANGED jobs

LEMMA WorkEndsOrPosts ==
    ASSUME NEW p \in Passes, Skip(p) \/ CallRefused(p) \/ CallFails(p) \/ Answers(p) \/ PostEnds(p)
    PROVE  Posts(p) \/ \E outcome \in Over : Ends(p, outcome)
<1>1. CASE Answers(p)
  <2>1. \/ Posts(p)
        \/ Finish(p, "skipped") /\ UNCHANGED posted
        \/ \E outcome \in {"done", "failed"} : Finish(p, outcome) /\ UNCHANGED posted
    BY <1>1 DEF Answers, Posts
  <2> QED
    BY <1>1, <2>1 DEF Ends, Over
<1>2. CASE Skip(p) \/ CallRefused(p) \/ CallFails(p) \/ PostEnds(p)
  BY <1>2 DEF Ends, Over
<1> QED
  BY <1>1, <1>2

\* Steps that touch no job, no pass and no budget.
Elsewhere == ReadSchedule \/ WriteSchedule \/ DropPatch \/ DeleteSchedule \/ SetPaused \/ Tick

LEMMA ElsewhereFacts == Elsewhere => UNCHANGED <<jobs, passes, posted, requeued, spent, digests>>
BY DEF Elsewhere, ReadSchedule, WriteSchedule, DropPatch, DeleteSchedule, SetPaused, Tick, dbVars, procVars, bookVars

LEMMA NextCases ==
    ASSUME Next
    PROVE  \/ \E p \in Passes : StartPass(p) \/ RunNow(p) \/ EndPass(p) \/ Call(p) \/ Posts(p)
           \/ \E p \in Passes, j \in Jobs : Claim(p, j)
           \/ \E p \in Passes, outcome \in Over : Ends(p, outcome)
           \/ \E m \in Messages : Mention(m)
           \/ \E j \in Jobs : Age(j)
           \/ Elsewhere
           \/ Crash
<1>1. ASSUME NEW p \in Passes, Step(p)
      PROVE  \/ StartPass(p) \/ EndPass(p) \/ Call(p) \/ Posts(p)
             \/ \E j \in Jobs : Claim(p, j)
             \/ \E outcome \in Over : Ends(p, outcome)
  BY <1>1, WorkEndsOrPosts DEF Step
<1>2. CASE \E p \in Passes : Step(p) \/ RunNow(p)
  <2>1. PICK p \in Passes : Step(p) \/ RunNow(p)
    BY <1>2
  <2>2. CASE Step(p)
    BY <1>1, <2>2
  <2>3. CASE RunNow(p)
    BY <2>3
  <2> QED
    BY <2>1, <2>2, <2>3
<1>3. CASE \/ \E m \in Messages : Mention(m)
           \/ \E j \in Jobs : Age(j)
           \/ Elsewhere \/ Crash
  BY <1>3
<1> QED
  BY <1>2, <1>3 DEF Next, Elsewhere

-----------------------------------------------------------------------------
LEMMA InitFits == Init => Inv
<1> SUFFICES ASSUME Init PROVE Inv
  OBVIOUS
<1>1. TypeOK
  <2>1. [state |-> "on", next |-> 1] \in Schedule
    BY AgentJobsAssumption DEF Schedule, Slots
  <2>2. /\ jobs \in [Jobs -> Job] /\ schedule \in Schedule /\ passes \in [Passes -> Pass] /\ read \in Schedule
        /\ posted \in [Jobs -> Nat] /\ requeued \in [Jobs -> Nat] /\ digests \in [Slots -> Nat]
    BY <2>1, RecordFacts DEF Init
  <2>3. paused \in BOOLEAN /\ patching \in BOOLEAN
    BY DEF Init
  <2>4. spent \in Nat /\ clock \in 0..MaxSlots /\ overtaken \in Nat /\ edits \in 0..MaxEdits /\ faults \in 0..MaxFaults
    BY AgentJobsAssumption DEF Init
  <2> QED
    BY <2>2, <2>3, <2>4 DEF TypeOK
<1>2. ASSUME NEW p \in Passes PROVE PassFits(p)
  BY <1>2, RecordFacts DEF Init, PassFits
<1>3. ASSUME NEW j \in Jobs PROVE JobFits(j)
  <2>1. Runners(j) = {} /\ Answerers(j) = {}
    BY RecordFacts, AgentJobsAssumption DEF Init, Runners, Answerers
  <2>2. Cardinality(Runners(j)) = 0 /\ Cardinality(Answerers(j)) = 0
    BY <2>1, FS_EmptySet
  <2>3. jobs[j].status = "absent" /\ posted[j] = 0 /\ requeued[j] = 0
    BY RecordFacts DEF Init
  <2> QED
    BY <2>2, <2>3 DEF JobFits, Waits, Rests, Over
<1>4. \A k \in Slots : SlotFits(k)
  BY MovedFacts, <1>1 DEF Init, SlotFits, Ahead
<1>5. BudgetHolds
  <2>1. {p \in Passes : passes[p].phase = "calling"} = {}
    BY RecordFacts DEF Init
  <2>2. Cardinality({p \in Passes : passes[p].phase = "calling"}) = 0
    BY <2>1, FS_EmptySet
  <2> QED
    BY <2>2, PassesAreFinite, AgentJobsAssumption DEF Init, BudgetHolds
<1> QED
  BY <1>1, <1>2, <1>3, <1>4, <1>5 DEF Inv

LEMMA NextHasTypes == ASSUME Inv, Next PROVE TypeOK'
<1>0. TypeOK
  BY DEF Inv
<1>1. ASSUME NEW p \in Passes, StartPass(p) \/ RunNow(p) PROVE TypeOK'
  <2>1. jobs' \in [Jobs -> Job] /\ passes' \in [Passes -> Pass] /\ requeued' \in [Jobs -> Nat]
    BY <1>0, <1>1, StartFacts
  <2>2. schedule' = schedule \/ schedule' = Moved
    BY <1>1 DEF StartPass, RunNow
  <2>3. digests' \in [Slots -> Nat]
    BY <1>0, <1>1, MovedFacts DEF StartPass, RunNow, TypeOK
  <2>4. UNCHANGED <<paused, spent, patching, read, clock, posted, overtaken, edits, faults>>
    BY <1>1 DEF StartPass, RunNow
  <2>5. schedule' \in Schedule
    BY <1>0, <2>2, MovedFacts DEF TypeOK
  <2> QED
    BY <1>0, <2>1, <2>3, <2>4, <2>5 DEF TypeOK
<1>2. ASSUME NEW p \in Passes, NEW j \in Jobs, Claim(p, j) PROVE TypeOK'
  <2>1. jobs' \in [Jobs -> Job] /\ passes' \in [Passes -> Pass]
    BY <1>0, <1>2, ClaimFacts
  <2>2. UNCHANGED <<schedule, paused, spent, patching, read, clock, bookVars>>
    BY <1>2 DEF Claim
  <2> QED
    BY <1>0, <2>1, <2>2 DEF TypeOK, bookVars
<1>3. ASSUME NEW p \in Passes, EndPass(p) PROVE TypeOK'
  <2>1. passes' \in [Passes -> Pass]
    BY <1>0, <1>3, RecordFacts DEF EndPass, TypeOK
  <2> QED
    BY <1>0, <1>3, <2>1 DEF EndPass, TypeOK, dbVars, bookVars
<1>4. ASSUME NEW p \in Passes, Call(p) PROVE TypeOK'
  <2>1. passes' \in [Passes -> Pass]
    BY <1>0, <1>4, PhaseFacts DEF Call
  <2> QED
    BY <1>0, <1>4, <2>1 DEF Call, TypeOK, dbVars, bookVars
<1>5. ASSUME NEW p \in Passes, Posts(p) PROVE TypeOK'
  <2>1. passes' \in [Passes -> Pass]
    BY <1>0, <1>5, PhaseFacts DEF Posts
  <2>2. passes[p].job \in Jobs
    BY <1>0, <1>5, JobIsHeld DEF Inv, Posts, Answers
  <2>3. posted' \in [Jobs -> Nat] /\ spent' \in Nat
    BY <1>0, <1>5, <2>2 DEF Posts, Answers, TypeOK
  <2> QED
    BY <1>0, <1>5, <2>1, <2>3 DEF Posts, Answers, TypeOK
<1>6. ASSUME NEW p \in Passes, NEW outcome \in Over, Ends(p, outcome) PROVE TypeOK'
  <2>1. /\ spent' \in Nat
        /\ UNCHANGED <<schedule, paused, patching, read, clock, posted, requeued, digests, overtaken, edits, faults>>
    BY <1>6, EndFacts
  <2>2. jobs' \in [Jobs -> Job] /\ passes' \in [Passes -> Pass]
    BY <1>0, <1>6, EndFacts, FinishFacts
  <2> QED
    BY <1>0, <2>1, <2>2 DEF TypeOK
<1>7. ASSUME NEW m \in Messages, Mention(m) PROVE TypeOK'
  <2>1. jobs' \in [Jobs -> Job]
    BY <1>0, <1>7, FreshFacts, RecordFacts DEF Mention, TypeOK
  <2> QED
    BY <1>0, <1>7, <2>1 DEF Mention, TypeOK, procVars, bookVars
<1>8. ASSUME NEW j \in Jobs, Age(j) PROVE TypeOK'
  <2>1. jobs' \in [Jobs -> Job]
    <3>1. [jobs[j] EXCEPT !.old = TRUE] \in Job
      BY <1>0 DEF TypeOK, Job
    <3> QED
      BY <1>0, <1>8, <3>1 DEF Age, TypeOK
  <2>2. faults' \in 0..MaxFaults
    BY <1>0, <1>8, AgentJobsAssumption DEF Age, TypeOK
  <2> QED
    BY <1>0, <1>8, <2>1, <2>2 DEF Age, TypeOK, procVars
<1>9. CASE ReadSchedule \/ WriteSchedule \/ DropPatch
  <2>1. schedule' \in Schedule
    <3>1. read.next \in Slots
      BY <1>0 DEF TypeOK, Schedule
    <3>2. \A state \in {"on", "off"}, timing \in BOOLEAN : [state |-> state, next |-> NextSlot(timing)] \in Schedule
      BY <1>0, <3>1, MovedFacts DEF Schedule, NextSlot
    <3> QED
      BY <1>0, <1>9, <3>2 DEF ReadSchedule, WriteSchedule, DropPatch, TypeOK, dbVars
  <2>2. patching' \in BOOLEAN /\ read' \in Schedule
    BY <1>0, <1>9, RecordFacts DEF ReadSchedule, WriteSchedule, DropPatch, TypeOK
  <2>3. overtaken' \in Nat /\ edits' \in 0..MaxEdits
    BY <1>0, <1>9, AgentJobsAssumption DEF ReadSchedule, WriteSchedule, DropPatch, TypeOK, bookVars
  <2>4. UNCHANGED <<jobs, paused, spent, passes, clock, posted, requeued, digests, faults>>
    BY <1>9 DEF ReadSchedule, WriteSchedule, DropPatch, dbVars, bookVars
  <2> QED
    BY <1>0, <2>1, <2>2, <2>3, <2>4 DEF TypeOK
<1>10. CASE DeleteSchedule \/ SetPaused
  <2>1. schedule' \in Schedule
    BY <1>0, <1>10 DEF DeleteSchedule, SetPaused, TypeOK, Schedule
  <2>2. paused' \in BOOLEAN
    BY <1>0, <1>10 DEF DeleteSchedule, SetPaused, TypeOK
  <2>3. edits' \in 0..MaxEdits
    BY <1>0, <1>10, AgentJobsAssumption DEF DeleteSchedule, SetPaused, TypeOK
  <2>4. UNCHANGED <<jobs, spent, procVars, posted, requeued, digests, overtaken, faults>>
    BY <1>10 DEF DeleteSchedule, SetPaused
  <2> QED
    BY <1>0, <2>1, <2>2, <2>3, <2>4 DEF TypeOK, procVars
<1>11. CASE Tick
  <2>1. clock' \in 0..MaxSlots
    BY <1>0, <1>11, AgentJobsAssumption DEF Tick, TypeOK
  <2> QED
    BY <1>0, <1>11, <2>1 DEF Tick, TypeOK, dbVars, bookVars
<1>12. CASE Crash
  <2>1. passes' \in [Passes -> Pass] /\ read' \in Schedule /\ patching' \in BOOLEAN
    BY <1>12, RecordFacts DEF Crash
  <2>2. schedule' \in Schedule /\ spent' \in Nat
    BY <1>0, <1>12, MovedFacts DEF Crash, TypeOK
  <2>3. faults' \in 0..MaxFaults
    BY <1>0, <1>12, AgentJobsAssumption DEF Crash, TypeOK
  <2> QED
    BY <1>0, <1>12, <2>1, <2>2, <2>3 DEF Crash, TypeOK
<1> QED
  BY <1>1, <1>2, <1>3, <1>4, <1>5, <1>6, <1>7, <1>8, <1>9, <1>10, <1>11, <1>12, NextCases DEF Elsewhere
-----------------------------------------------------------------------------
\* A job that was queued is never absent again.
LEMMA JobsStay ==
    ASSUME Inv, Next, NEW j \in Jobs, jobs[j].status # "absent"
    PROVE  jobs'[j].status # "absent"
<1>0. TypeOK /\ jobs \in [Jobs -> Job]
  BY DEF Inv, TypeOK
<1>1. ASSUME NEW p \in Passes, StartPass(p) \/ RunNow(p) PROVE jobs'[j].status # "absent"
  BY <1>0, <1>1, StartFacts
<1>2. ASSUME NEW p \in Passes, EndPass(p) \/ Call(p) \/ Posts(p) PROVE jobs'[j].status # "absent"
  BY <1>2 DEF EndPass, Call, Posts, dbVars
<1>3. ASSUME NEW p \in Passes, NEW i \in Jobs, Claim(p, i) PROVE jobs'[j].status # "absent"
  BY <1>0, <1>3, ClaimFacts
<1>4. ASSUME NEW p \in Passes, NEW outcome \in Over, Ends(p, outcome) PROVE jobs'[j].status # "absent"
  <2>1. jobs'[j].status = outcome \/ jobs'[j] = jobs[j]
    BY <1>0, <1>4, EndFacts, FinishFacts
  <2> QED
    BY <2>1 DEF Over
<1>5. ASSUME NEW m \in Messages, Mention(m) PROVE jobs'[j].status # "absent"
  BY <1>0, <1>5, FreshFacts, RecordFacts DEF Mention
<1>6. ASSUME NEW i \in Jobs, Age(i) PROVE jobs'[j].status # "absent"
  BY <1>0, <1>6 DEF Age, Job
<1>7. CASE Elsewhere \/ Crash
  BY <1>7, ElsewhereFacts DEF Crash
<1> QED
  BY <1>1, <1>2, <1>3, <1>4, <1>5, <1>6, <1>7, NextCases

LEMMA PassesStayFit == ASSUME Inv, Next, NEW q \in Passes PROVE PassFits(q)'
<1>0. TypeOK /\ PassFits(q) /\ passes[q] \in Pass /\ passes[q].list \subseteq Jobs /\ passes[q].job \in Jobs \cup {None}
  BY DEF Inv, TypeOK, Pass
<1>1. CASE passes'[q] = passes[q]
  BY <1>0, <1>1, JobsStay DEF PassFits
<1>2. CASE passes'[q].job = None /\ passes'[q].phase \in {"idle", "loop"}
           /\ \A j \in passes'[q].list : j \in passes[q].list \/ jobs'[j].status = "queued"
  BY <1>0, <1>2, JobsStay DEF PassFits
<1>3. CASE passes'[q].job = passes[q].job /\ passes'[q].list \subseteq passes[q].list
           /\ (passes'[q].phase \in {"idle", "loop"} <=> passes[q].phase \in {"idle", "loop"})
  BY <1>0, <1>3, JobsStay DEF PassFits
<1>4. ASSUME NEW p \in Passes, StartPass(p) \/ RunNow(p) PROVE PassFits(q)'
  BY <1>0, <1>1, <1>2, <1>4, StartFacts
<1>5. ASSUME NEW p \in Passes, EndPass(p) PROVE PassFits(q)'
  <2>1. passes'[q] = passes[q] \/ passes'[q] = NoPass
    BY <1>0, <1>5 DEF EndPass, TypeOK
  <2> QED
    BY <1>1, <1>2, <2>1, RecordFacts
<1>6. ASSUME NEW p \in Passes, Call(p) \/ Posts(p) PROVE PassFits(q)'
  <2>1. /\ passes[p].phase \in Working
        /\ \E phase \in {"calling", "posted"} : passes' = [passes EXCEPT ![p].phase = phase]
    BY <1>6 DEF Call, Posts, Answers, Working
  <2>2. PICK phase \in {"calling", "posted"} : passes' = [passes EXCEPT ![p].phase = phase]
    BY <2>1
  <2>3. CASE q # p
    BY <1>0, <1>1, <2>2, <2>3, PhaseFacts
  <2>4. CASE q = p
    <3>1. passes'[q].phase = phase /\ passes'[q].job = passes[q].job /\ passes'[q].list = passes[q].list
      BY <1>0, <2>2, <2>4, PhaseFacts
    <3> QED
      BY <1>3, <2>1, <2>4, <3>1 DEF Working
  <2> QED
    BY <2>3, <2>4
<1>7. ASSUME NEW p \in Passes, NEW j \in Jobs, Claim(p, j) PROVE PassFits(q)'
  <2>1. CASE q # p
    BY <1>0, <1>1, <1>7, <2>1, ClaimFacts
  <2>2. CASE q = p /\ passes'[q].phase = "loop"
    BY <1>0, <1>3, <1>7, <2>2, ClaimFacts
  <2>3. CASE q = p /\ passes'[q].phase = "claimed"
    <3>1. passes'[q].job = j /\ passes'[q].list = passes[q].list \ {j} /\ jobs'[j].status = "running"
      BY <1>0, <1>7, <2>3, ClaimFacts
    <3>2. j # None
      BY AgentJobsAssumption
    <3> QED
      BY <1>0, <2>3, <3>1, <3>2, JobsStay, AgentJobsAssumption DEF PassFits
  <2> QED
    BY <1>0, <1>7, <2>1, <2>2, <2>3, ClaimFacts
<1>8. ASSUME NEW p \in Passes, NEW outcome \in Over, Ends(p, outcome) PROVE PassFits(q)'
  <2>1. CASE q # p
    BY <1>0, <1>1, <1>8, <2>1, EndFacts, FinishFacts
  <2>2. CASE q = p
    <3>1. passes'[q].phase = "loop" /\ passes'[q].job = None /\ passes'[q].list = passes[q].list
      BY <1>0, <1>8, <2>2, EndFacts, FinishFacts
    <3> QED
      BY <1>2, <3>1
  <2> QED
    BY <2>1, <2>2
<1>9. ASSUME NEW m \in Messages, Mention(m) PROVE PassFits(q)'
  BY <1>1, <1>9 DEF Mention, procVars
<1>10. ASSUME NEW i \in Jobs, Age(i) PROVE PassFits(q)'
  BY <1>1, <1>10 DEF Age, procVars
<1>11. CASE Elsewhere
  BY <1>1, <1>11, ElsewhereFacts
<1>12. CASE Crash
  <2>1. passes'[q] = NoPass
    BY <1>12 DEF Crash
  <2> QED
    BY <1>2, <2>1, RecordFacts
<1> QED
  BY <1>4, <1>5, <1>6, <1>7, <1>8, <1>9, <1>10, <1>11, <1>12, NextCases
-----------------------------------------------------------------------------
\* What JobFits counts is numbers.
LEMMA Counts ==
    ASSUME Inv, NEW j \in Jobs
    PROVE  /\ Cardinality(Runners(j)) \in Nat /\ Cardinality(Answerers(j)) \in Nat
           /\ Cardinality(Runners(j)') \in Nat /\ Cardinality(Answerers(j)') \in Nat
           /\ posted[j] \in Nat /\ requeued[j] \in Nat /\ jobs[j] \in Job
           /\ Rests(j) \in 0..1 /\ Waits(j) \in 0..1
<1>1. posted[j] \in Nat /\ requeued[j] \in Nat /\ jobs[j] \in Job
  BY DEF Inv, TypeOK
<1>2. /\ Runners(j) \in SUBSET Passes /\ Answerers(j) \in SUBSET Passes
      /\ Runners(j)' \in SUBSET Passes /\ Answerers(j)' \in SUBSET Passes
  BY DEF Runners, Answerers
<1> QED
  BY <1>1, <1>2, PassesAreFinite DEF Rests, Waits

\* A pass that keeps its job or drops it, and does not start to work, counts no more
\* than before.
LEMMA NoNewRunners ==
    ASSUME NEW j \in Jobs,
           \A q \in Passes : passes'[q].job = j =>
              /\ passes[q].job = j
              /\ passes'[q].phase \in Working => passes[q].phase \in Working
    PROVE  /\ Runners(j)' \subseteq Runners(j) /\ Answerers(j)' \subseteq Answerers(j)
           /\ Cardinality(Runners(j)') <= Cardinality(Runners(j))
           /\ Cardinality(Answerers(j)') <= Cardinality(Answerers(j))
<1>1. /\ Runners(j)' \subseteq Runners(j) /\ Answerers(j)' \subseteq Answerers(j)
      /\ Runners(j) \in SUBSET Passes /\ Answerers(j) \in SUBSET Passes
  BY DEF Runners, Answerers
<1>2. Cardinality(Runners(j)') <= Cardinality(Runners(j))
  BY <1>1, FewerPasses
<1>3. Cardinality(Answerers(j)') <= Cardinality(Answerers(j))
  BY <1>1, FewerPasses
<1> QED
  BY <1>1, <1>2, <1>3

LEMMA SameJob ==
    ASSUME Inv, NEW j \in Jobs,
           Cardinality(Runners(j)') <= Cardinality(Runners(j)),
           Cardinality(Answerers(j)') <= Cardinality(Answerers(j)),
           jobs'[j].status = jobs[j].status, posted'[j] = posted[j], requeued'[j] = requeued[j]
    PROVE  JobFits(j)'
<1>1. JobFits(j)
  BY DEF Inv
<1>2. Rests(j)' = Rests(j) /\ Waits(j)' = Waits(j)
  BY DEF Rests, Waits
<1> QED
  BY <1>1, <1>2, Counts DEF JobFits

LEMMA RequeuedJob ==
    ASSUME Inv, NEW j \in Jobs,
           Cardinality(Runners(j)') <= Cardinality(Runners(j)),
           Cardinality(Answerers(j)') <= Cardinality(Answerers(j)),
           jobs[j].status = "running", jobs'[j].status = "queued",
           posted'[j] = posted[j], requeued'[j] = requeued[j] + 1
    PROVE  JobFits(j)'
<1>1. JobFits(j)
  BY DEF Inv
<1>2. Rests(j) = 0 /\ Waits(j) = 0 /\ Rests(j)' = 1 /\ Waits(j)' = 1
  BY DEF Rests, Waits, Over
<1> QED
  BY <1>1, <1>2, Counts DEF JobFits

LEMMA NewlyQueued ==
    ASSUME Inv, NEW j \in Jobs,
           Cardinality(Runners(j)') <= Cardinality(Runners(j)),
           Cardinality(Answerers(j)') <= Cardinality(Answerers(j)),
           jobs[j].status = "absent", jobs'[j].status = "queued",
           posted'[j] = posted[j], requeued'[j] = requeued[j]
    PROVE  JobFits(j)'
<1>1. JobFits(j)
  BY DEF Inv
<1>2. Rests(j)' = 1 /\ Waits(j)' = 1
  BY DEF Rests, Waits
<1>3. Runners(j) = {} /\ Answerers(j) = {}
  <2>1. j # None
    BY AgentJobsAssumption
  <2>2. \A p \in Passes : passes[p].job # j
    BY <2>1 DEF Inv, PassFits
  <2> QED
    BY <2>2 DEF Runners, Answerers
<1>4. Cardinality(Runners(j)) = 0 /\ Cardinality(Answerers(j)) = 0
  BY <1>3, FS_EmptySet
<1> QED
  BY <1>1, <1>2, <1>4, Counts DEF JobFits

LEMMA ClaimedFits == ASSUME Inv, NEW p \in Passes, NEW j \in Jobs, Claim(p, j), NEW i \in Jobs PROVE JobFits(i)'
<1>0. TypeOK /\ UNCHANGED <<posted, requeued>>
  BY DEF Inv, Claim, bookVars
<1>1. \A q \in Passes : q # p => passes'[q] = passes[q]
  BY <1>0, ClaimFacts
<1>2. passes[p].phase = "loop" /\ passes[p].job = None /\ None \notin Jobs
  BY <1>0, ClaimFacts, AgentJobsAssumption DEF Inv, PassFits
<1>3. CASE i # j \/ jobs'[j] = jobs[j]
  <2>1. jobs'[i] = jobs[i]
    BY <1>0, <1>3, ClaimFacts
  <2>2. passes'[p].job # i
    <3>1. jobs[j].status = "queued" /\ jobs'[j].status = "running" => jobs'[j] # jobs[j]
      OBVIOUS
    <3> QED
      BY <1>0, <1>2, <1>3, <3>1, ClaimFacts
  <2>3. /\ Cardinality(Runners(i)') <= Cardinality(Runners(i))
        /\ Cardinality(Answerers(i)') <= Cardinality(Answerers(i))
    BY <1>1, <2>2, NoNewRunners
  <2> QED
    BY <1>0, <2>1, <2>3, SameJob
<1>4. CASE i = j /\ jobs[i].status = "queued" /\ jobs'[i].status = "running"
  <2>1. /\ Runners(i)' \subseteq Runners(i) \cup {p} /\ Answerers(i)' \subseteq Answerers(i) \cup {p}
        /\ Runners(i) \in SUBSET Passes /\ Answerers(i) \in SUBSET Passes
        /\ Runners(i)' \in SUBSET Passes /\ Answerers(i)' \in SUBSET Passes
    BY <1>1 DEF Runners, Answerers
  <2>2. Cardinality(Runners(i)') <= Cardinality(Runners(i)) + 1
    BY <2>1, OnePassMore
  <2>3. Cardinality(Answerers(i)') <= Cardinality(Answerers(i)) + 1
    BY <2>1, OnePassMore
  <2>4. Rests(i) = 1 /\ Waits(i) = 1 /\ Rests(i)' = 0 /\ Waits(i)' = 0
    BY <1>4 DEF Rests, Waits, Over
  <2> QED
    BY <1>0, <1>4, <2>2, <2>3, <2>4, Counts DEF JobFits, Inv
<1> QED
  BY <1>0, <1>3, <1>4, ClaimFacts

LEMMA PostedFits == ASSUME Inv, NEW p \in Passes, Posts(p), NEW i \in Jobs PROVE JobFits(i)'
<1>0. TypeOK /\ PassFits(p) /\ JobFits(i) /\ posted \in [Jobs -> Nat]
  BY DEF Inv, TypeOK
<1>1. /\ passes[p].phase = "calling" /\ passes' = [passes EXCEPT ![p].phase = "posted"]
      /\ posted' = [posted EXCEPT ![passes[p].job] = posted[passes[p].job] + 1]
      /\ UNCHANGED <<jobs, requeued>>
  BY DEF Posts, Answers
<1>2. /\ passes'[p].phase = "posted" /\ passes'[p].job = passes[p].job
      /\ \A q \in Passes : q # p => passes'[q] = passes[q]
  BY <1>0, <1>1, PhaseFacts
<1>3. passes[p].job \in Jobs /\ p \in Runners(passes[p].job) /\ p \in Answerers(passes[p].job)
  BY <1>0, <1>1, JobIsHeld DEF Working
<1>4. /\ Runners(i)' \subseteq Runners(i) /\ Answerers(i)' \subseteq Answerers(i)
      /\ Cardinality(Runners(i)') <= Cardinality(Runners(i))
      /\ Cardinality(Answerers(i)') <= Cardinality(Answerers(i))
  <2>1. \A q \in Passes : passes'[q].job = i =>
           /\ passes[q].job = i
           /\ passes'[q].phase \in Working => passes[q].phase \in Working
    BY <1>1, <1>2 DEF Working
  <2> QED
    BY <2>1, NoNewRunners
<1>5. CASE i # passes[p].job
  <2>1. posted'[i] = posted[i]
    BY <1>0, <1>1, <1>5
  <2> QED
    BY <1>1, <1>4, <2>1, SameJob
<1>6. CASE i = passes[p].job
  <2>1. Rests(i)' = Rests(i) /\ Waits(i)' = Waits(i)
    BY <1>1 DEF Rests, Waits
  <2>2. Cardinality(Answerers(i)') + 1 <= Cardinality(Answerers(i))
    <3>1. p \notin Answerers(i)'
      BY <1>2 DEF Answerers, Working
    <3> QED
      BY <1>3, <1>4, <1>6, <3>1, OnePassFewer DEF Answerers
  <2>3. Cardinality(Runners(i)) >= 1
    <3>1. Runners(i) \in SUBSET Passes /\ {} \subseteq Runners(i) /\ Cardinality({}) = 0
      BY FS_EmptySet DEF Runners
    <3> QED
      BY <1>3, <1>6, <3>1, OnePassFewer
  <2>4. posted'[i] = posted[i] + 1
    BY <1>0, <1>1, <1>6
  <2>5. jobs'[i].status # "absent"
    <3>1. i # None
      BY AgentJobsAssumption
    <3> QED
      BY <1>0, <1>1, <1>6, <3>1 DEF PassFits
  <2>6. jobs'[i].status \in {"failed", "skipped"} => Rests(i) = 1
    BY <1>1 DEF Rests, Over
  <2> QED
    BY <1>0, <1>1, <1>4, <2>1, <2>2, <2>3, <2>4, <2>5, <2>6, Counts DEF JobFits
<1> QED
  BY <1>5, <1>6

LEMMA EndedFits ==
    ASSUME Inv, NEW p \in Passes, NEW outcome \in Over, Ends(p, outcome), NEW i \in Jobs
    PROVE  JobFits(i)'
<1>0. TypeOK /\ PassFits(p) /\ JobFits(i)
  BY DEF Inv
<1>1. /\ Finish(p, outcome) /\ passes[p].job \in Jobs /\ passes[p].phase \notin {"idle", "loop"}
      /\ outcome # "done" => passes[p].phase \in Working
      /\ UNCHANGED <<posted, requeued>>
  BY EndFacts
<1>2. /\ passes'[p].job = None /\ \A q \in Passes : q # p => passes'[q] = passes[q]
      /\ jobs'[passes[p].job].status = outcome
      /\ \A k \in Jobs : k # passes[p].job => jobs'[k] = jobs[k]
  BY <1>0, <1>1, FinishFacts
<1>3. i # None
  BY AgentJobsAssumption
<1>4. /\ Runners(i)' \subseteq Runners(i) /\ Answerers(i)' \subseteq Answerers(i)
      /\ Cardinality(Runners(i)') <= Cardinality(Runners(i))
      /\ Cardinality(Answerers(i)') <= Cardinality(Answerers(i))
  <2>1. \A q \in Passes : passes'[q].job = i =>
           /\ passes[q].job = i
           /\ passes'[q].phase \in Working => passes[q].phase \in Working
    BY <1>2, <1>3
  <2> QED
    BY <2>1, NoNewRunners
<1>5. CASE i # passes[p].job
  BY <1>1, <1>2, <1>4, <1>5, SameJob
<1>6. CASE i = passes[p].job
  <2>1. p \in Runners(i) /\ (outcome # "done" => p \in Answerers(i))
    BY <1>0, <1>1, <1>6, JobIsHeld
  <2>2. p \notin Runners(i)'
    BY <1>2, <1>3 DEF Runners
  <2>3. Cardinality(Runners(i)') + 1 <= Cardinality(Runners(i))
    BY <1>4, <2>1, <2>2, OnePassFewer DEF Runners
  <2>4. outcome # "done" => Cardinality(Answerers(i)) >= 1
    <3>1. Answerers(i) \in SUBSET Passes /\ {} \subseteq Answerers(i) /\ Cardinality({}) = 0
      BY FS_EmptySet DEF Answerers
    <3> QED
      BY <2>1, <3>1, OnePassFewer
  <2>5. Rests(i)' = 1 /\ Waits(i)' = 0 /\ jobs'[i].status = outcome /\ outcome # "absent"
    BY <1>2, <1>6 DEF Rests, Waits, Over
  <2>6. outcome \in {"failed", "skipped"} => outcome # "done"
    OBVIOUS
  <2> QED
    BY <1>0, <1>1, <1>4, <2>3, <2>4, <2>5, <2>6, Counts DEF JobFits
<1> QED
  BY <1>5, <1>6

LEMMA JobsStayFit == ASSUME Inv, Next, NEW i \in Jobs PROVE JobFits(i)'
<1>0. TypeOK /\ i # None
  BY AgentJobsAssumption DEF Inv
<1>1. ASSUME NEW p \in Passes, StartPass(p) \/ RunNow(p) PROVE JobFits(i)'
  <2>1. UNCHANGED posted
    BY <1>1 DEF StartPass, RunNow
  <2>2. \A q \in Passes : passes'[q].job = i =>
           /\ passes[q].job = i
           /\ passes'[q].phase \in Working => passes[q].phase \in Working
    <3>1. passes'[p] = passes[p] \/ passes'[p].job = None
      BY <1>0, <1>1, StartFacts
    <3>2. \A q \in Passes : q # p => passes'[q] = passes[q]
      BY <1>0, <1>1, StartFacts
    <3> QED
      BY <1>0, <3>1, <3>2
  <2>3. /\ Cardinality(Runners(i)') <= Cardinality(Runners(i))
        /\ Cardinality(Answerers(i)') <= Cardinality(Answerers(i))
    BY <2>2, NoNewRunners
  <2>4. \/ jobs'[i] = jobs[i] /\ requeued'[i] = requeued[i]
        \/ jobs[i].status = "running" /\ jobs'[i].status = "queued" /\ requeued'[i] = requeued[i] + 1
        \/ jobs[i].status = "absent" /\ jobs'[i].status = "queued" /\ requeued'[i] = requeued[i]
    BY <1>0, <1>1, StartFacts
  <2> QED
    BY <2>1, <2>3, <2>4, SameJob, RequeuedJob, NewlyQueued
<1>2. CASE /\ \A q \in Passes : passes'[q] = passes[q] \/ passes'[q] = NoPass
           /\ jobs'[i].status = jobs[i].status /\ UNCHANGED <<posted, requeued>>
  <2>1. \A q \in Passes : passes'[q].job = i =>
           /\ passes[q].job = i
           /\ passes'[q].phase \in Working => passes[q].phase \in Working
    BY <1>0, <1>2, RecordFacts
  <2> QED
    BY <1>2, <2>1, NoNewRunners, SameJob
<1>3. ASSUME NEW p \in Passes, EndPass(p) PROVE JobFits(i)'
  BY <1>0, <1>2, <1>3 DEF EndPass, TypeOK, dbVars, bookVars
<1>4. ASSUME NEW p \in Passes, Call(p) PROVE JobFits(i)'
  <2>1. /\ passes[p].phase \in Working /\ passes'[p].job = passes[p].job
        /\ \A q \in Passes : q # p => passes'[q] = passes[q]
        /\ UNCHANGED <<jobs, posted, requeued>>
    BY <1>0, <1>4, PhaseFacts DEF Call, Working, dbVars, bookVars
  <2>2. \A q \in Passes : passes'[q].job = i =>
           /\ passes[q].job = i
           /\ passes'[q].phase \in Working => passes[q].phase \in Working
    BY <2>1
  <2> QED
    BY <2>1, <2>2, NoNewRunners, SameJob
<1>5. ASSUME NEW m \in Messages, Mention(m) PROVE JobFits(i)'
  <2>1. UNCHANGED <<passes, posted, requeued>>
    BY <1>5 DEF Mention, procVars, bookVars
  <2>2. jobs'[i] = jobs[i] \/ (jobs[i].status = "absent" /\ jobs'[i].status = "queued")
    BY <1>0, <1>5, FreshFacts, RecordFacts DEF Mention, TypeOK
  <2>3. /\ Cardinality(Runners(i)') <= Cardinality(Runners(i))
        /\ Cardinality(Answerers(i)') <= Cardinality(Answerers(i))
    BY <2>1, NoNewRunners
  <2> QED
    BY <2>1, <2>2, <2>3, SameJob, NewlyQueued
<1>6. ASSUME NEW j \in Jobs, Age(j) PROVE JobFits(i)'
  <2>1. jobs'[i].status = jobs[i].status
    BY <1>0, <1>6 DEF Age, TypeOK, Job
  <2> QED
    BY <1>2, <1>6, <2>1 DEF Age, procVars
<1>7. CASE Elsewhere
  <2>1. UNCHANGED <<passes, posted, jobs>>
    BY <1>7, ElsewhereFacts
  <2>2. UNCHANGED requeued
    BY <1>7 DEF Elsewhere, ReadSchedule, WriteSchedule, DropPatch, DeleteSchedule, SetPaused, Tick, bookVars
  <2> QED
    BY <1>2, <2>1, <2>2
<1>8. CASE Crash
  BY <1>2, <1>8 DEF Crash
<1> QED
  BY <1>1, <1>3, <1>4, <1>5, <1>6, <1>7, <1>8, NextCases, ClaimedFits, PostedFits, EndedFits
-----------------------------------------------------------------------------
LEMMA MovedFits ==
    ASSUME Inv, NEW k \in Slots, schedule' = Moved, UNCHANGED <<clock, digests, overtaken>>
    PROVE  SlotFits(k)'
<1>1. SlotFits(k) /\ digests[k] \in Nat /\ overtaken \in Nat /\ k \in Nat /\ clock \in Nat
  BY MovedFacts DEF Inv, TypeOK
<1>2. Ahead(k) \in 0..1 /\ Ahead(k)' = IF clock + 1 <= k THEN 1 ELSE 0
  BY MovedFacts DEF Ahead, Inv
<1> QED
  BY <1>1, <1>2 DEF SlotFits

LEMMA SlotsStayFit == ASSUME Inv, Next, NEW k \in Slots PROVE SlotFits(k)'
<1>0. /\ TypeOK /\ SlotFits(k) /\ digests \in [Slots -> Nat] /\ overtaken \in Nat /\ k \in Nat /\ clock \in Nat
      /\ Ahead(k) \in 0..1
  BY MovedFacts DEF Inv, TypeOK, Ahead
<1>1. CASE UNCHANGED <<schedule.next, clock, digests, overtaken>>
  BY <1>0, <1>1 DEF SlotFits, Ahead
<1>2. ASSUME NEW p \in Passes, StartPass(p) PROVE SlotFits(k)'
  <2>1. CASE UNCHANGED <<schedule, digests>>
    BY <1>1, <1>2, <2>1 DEF StartPass
  <2>2. CASE /\ Due /\ schedule' = Moved
             /\ digests' = [digests EXCEPT ![schedule.next] = digests[schedule.next] + 1]
    <3>1. UNCHANGED <<clock, overtaken>>
      BY <1>2 DEF StartPass
    <3>2. Ahead(k)' = IF clock + 1 <= k THEN 1 ELSE 0
      BY <1>0, <2>2, MovedFacts DEF Ahead
    <3>3. CASE k = schedule.next
      <4>1. k <= clock /\ Ahead(k) = 1 /\ digests'[k] = digests[k] + 1
        BY <1>0, <2>2, <3>3 DEF Due, Ahead
      <4> QED
        BY <1>0, <3>1, <3>2, <4>1 DEF SlotFits
    <3>4. CASE k # schedule.next
      <4>1. digests'[k] = digests[k]
        BY <1>0, <2>2, <3>4
      <4> QED
        BY <1>0, <3>1, <3>2, <4>1 DEF SlotFits
    <3> QED
      BY <3>3, <3>4
  <2> QED
    BY <1>2, <2>1, <2>2 DEF StartPass
<1>3. ASSUME NEW p \in Passes, RunNow(p) PROVE SlotFits(k)'
  BY <1>3, MovedFits DEF RunNow
<1>4. CASE ReadSchedule \/ DropPatch
  BY <1>1, <1>4 DEF ReadSchedule, DropPatch, dbVars, bookVars
<1>5. CASE WriteSchedule
  <2>1. PICK state \in {"on", "off"}, timing \in BOOLEAN : schedule' = [state |-> state, next |-> NextSlot(timing)]
    BY <1>5 DEF WriteSchedule
  <2>2. UNCHANGED <<clock, digests>> /\ overtaken' = IF schedule = read THEN overtaken ELSE overtaken + 1
    BY <1>5 DEF WriteSchedule
  <2>3. schedule'.next = (IF timing THEN clock + 1 ELSE read.next) /\ Ahead(k)' \in 0..1
    BY <2>1 DEF NextSlot, Ahead
  <2>4. CASE schedule # read
    BY <1>0, <2>2, <2>3, <2>4 DEF SlotFits
  <2>5. CASE schedule = read /\ timing
    <3>1. Ahead(k)' = IF clock + 1 <= k THEN 1 ELSE 0
      BY <2>3, <2>5 DEF Ahead
    <3> QED
      BY <1>0, <2>2, <2>5, <3>1 DEF SlotFits
  <2>6. CASE schedule = read /\ ~timing
    <3>1. Ahead(k)' = Ahead(k)
      BY <2>3, <2>6 DEF Ahead
    <3> QED
      BY <1>0, <2>2, <2>6, <3>1 DEF SlotFits
  <2> QED
    BY <2>4, <2>5, <2>6
<1>6. CASE DeleteSchedule \/ SetPaused
  <2>1. schedule'.next = schedule.next
    BY <1>0, <1>6 DEF DeleteSchedule, SetPaused, TypeOK, Schedule
  <2> QED
    BY <1>1, <1>6, <2>1 DEF DeleteSchedule, SetPaused, procVars
<1>7. CASE Tick
  <2>1. clock' = clock + 1 /\ UNCHANGED <<schedule, digests, overtaken>>
    BY <1>7 DEF Tick, dbVars, bookVars
  <2> QED
    BY <1>0, <2>1 DEF SlotFits, Ahead
<1>8. CASE Crash
  <2>1. UNCHANGED <<clock, digests, overtaken>> /\ (schedule' = schedule \/ schedule' = Moved)
    BY <1>8 DEF Crash
  <2> QED
    BY <1>1, <2>1, MovedFits
<1>9. ASSUME NEW p \in Passes, EndPass(p) \/ Call(p) \/ Posts(p) PROVE SlotFits(k)'
  BY <1>1, <1>9 DEF EndPass, Call, Posts, Answers, dbVars, bookVars
<1>10. ASSUME NEW p \in Passes, NEW j \in Jobs, Claim(p, j) PROVE SlotFits(k)'
  BY <1>1, <1>10 DEF Claim, bookVars
<1>11. ASSUME NEW p \in Passes, NEW outcome \in Over, Ends(p, outcome) PROVE SlotFits(k)'
  BY <1>1, <1>11, EndFacts
<1>12. ASSUME NEW m \in Messages, Mention(m) PROVE SlotFits(k)'
  BY <1>1, <1>12 DEF Mention, procVars, bookVars
<1>13. ASSUME NEW j \in Jobs, Age(j) PROVE SlotFits(k)'
  BY <1>1, <1>13 DEF Age, procVars
<1> QED
  BY <1>2, <1>3, <1>4, <1>5, <1>6, <1>7, <1>8, <1>9, <1>10, <1>11, <1>12, <1>13, NextCases DEF Elsewhere

-----------------------------------------------------------------------------
Callers == {p \in Passes : passes[p].phase = "calling"}

LEMMA NoNewCallers ==
    ASSUME Inv, spent' = spent, Callers' \subseteq Callers
    PROVE  BudgetHolds'
<1>1. Callers \in SUBSET Passes /\ Callers' \in SUBSET Passes
  BY DEF Callers
<1>2. Cardinality(Callers') <= Cardinality(Callers)
  BY <1>1, FewerPasses
<1>3. Cardinality(Callers) \in Nat /\ Cardinality(Callers') \in Nat
  BY <1>1, PassesAreFinite
<1>4. spent + Cardinality(Callers) < Budget + Cardinality(Passes) /\ spent \in Nat
  BY DEF Inv, BudgetHolds, TypeOK, Callers
<1>5. spent' + Cardinality(Callers') < Budget + Cardinality(Passes)
  BY <1>2, <1>3, <1>4, PassesAreFinite, AgentJobsAssumption
<1> QED
  BY <1>5 DEF BudgetHolds, Callers

LEMMA CallIsCharged ==
    ASSUME Inv, NEW p \in Callers, spent' = spent + 1, Callers' \subseteq Callers \ {p}
    PROVE  BudgetHolds'
<1>1. Callers \in SUBSET Passes /\ Callers' \in SUBSET Passes
  BY DEF Callers
<1>2. Cardinality(Callers') + 1 <= Cardinality(Callers)
  BY <1>1, OnePassFewer
<1>3. Cardinality(Callers) \in Nat /\ Cardinality(Callers') \in Nat
  BY <1>1, PassesAreFinite
<1>4. spent + Cardinality(Callers) < Budget + Cardinality(Passes) /\ spent \in Nat
  BY DEF Inv, BudgetHolds, TypeOK, Callers
<1>5. spent' + Cardinality(Callers') < Budget + Cardinality(Passes)
  BY <1>2, <1>3, <1>4, PassesAreFinite, AgentJobsAssumption
<1> QED
  BY <1>5 DEF BudgetHolds, Callers

LEMMA BudgetStays == ASSUME Inv, Next PROVE BudgetHolds'
<1>0. TypeOK
  BY DEF Inv
<1>1. CASE spent' = spent /\ \A q \in Passes : passes'[q].phase = "calling" => passes[q].phase = "calling"
  BY <1>1, NoNewCallers DEF Callers
<1>2. ASSUME NEW p \in Passes, StartPass(p) \/ RunNow(p) PROVE BudgetHolds'
  <2>1. UNCHANGED spent
    BY <1>2 DEF StartPass, RunNow
  <2>2. passes'[p] = passes[p] \/ passes'[p].phase = "loop"
    BY <1>0, <1>2, StartFacts
  <2>3. \A q \in Passes : q # p => passes'[q] = passes[q]
    BY <1>0, <1>2, StartFacts
  <2> QED
    BY <1>1, <2>1, <2>2, <2>3
<1>3. ASSUME NEW p \in Passes, NEW j \in Jobs, Claim(p, j) PROVE BudgetHolds'
  <2>1. UNCHANGED spent /\ passes'[p].phase \in {"claimed", "loop"} /\ \A q \in Passes : q # p => passes'[q] = passes[q]
    BY <1>0, <1>3, ClaimFacts DEF Claim
  <2> QED
    BY <1>1, <2>1
<1>4. ASSUME NEW p \in Passes, EndPass(p) PROVE BudgetHolds'
  BY <1>0, <1>1, <1>4, RecordFacts DEF EndPass, TypeOK, dbVars
<1>5. ASSUME NEW p \in Passes, Call(p) PROVE BudgetHolds'
  <2>1. Callers' \in SUBSET Passes /\ Passes \in SUBSET Passes
    BY DEF Callers
  <2>2. Cardinality(Callers') <= Cardinality(Passes)
    BY <2>1, FewerPasses
  <2>3. spent' = spent /\ spent < Budget /\ spent \in Nat
    BY <1>0, <1>5 DEF Call, WithinBudget, TypeOK, dbVars
  <2>4. Cardinality(Callers') \in Nat
    BY <2>1, PassesAreFinite
  <2>5. spent' + Cardinality(Callers') < Budget + Cardinality(Passes)
    BY <2>2, <2>3, <2>4, PassesAreFinite, AgentJobsAssumption
  <2> QED
    BY <2>5 DEF BudgetHolds, Callers
<1>6. ASSUME NEW p \in Passes, Posts(p) PROVE BudgetHolds'
  <2>1. p \in Callers /\ spent' = spent + 1
    BY <1>6 DEF Posts, Answers, Callers
  <2>2. passes'[p].phase = "posted" /\ \A q \in Passes : q # p => passes'[q] = passes[q]
    BY <1>0, <1>6, PhaseFacts DEF Posts
  <2>3. Callers' \subseteq Callers \ {p}
    BY <2>2 DEF Callers
  <2> QED
    BY <2>1, <2>3, CallIsCharged
<1>7. ASSUME NEW p \in Passes, NEW outcome \in Over, Ends(p, outcome) PROVE BudgetHolds'
  <2>1. passes'[p].phase = "loop" /\ \A q \in Passes : q # p => passes'[q] = passes[q]
    BY <1>0, <1>7, EndFacts, FinishFacts
  <2>2. Callers' \subseteq Callers \ {p}
    BY <2>1 DEF Callers
  <2>3. spent' = spent \/ (spent' = spent + 1 /\ p \in Callers)
    BY <1>7, EndFacts DEF Callers
  <2> QED
    BY <2>2, <2>3, NoNewCallers, CallIsCharged
<1>8. ASSUME NEW m \in Messages, Mention(m) PROVE BudgetHolds'
  BY <1>1, <1>8 DEF Mention, procVars
<1>9. ASSUME NEW j \in Jobs, Age(j) PROVE BudgetHolds'
  BY <1>1, <1>9 DEF Age, procVars
<1>10. CASE Elsewhere
  BY <1>1, <1>10, ElsewhereFacts
<1>11. CASE Crash
  <2>1. Callers' = {}
    BY <1>11, RecordFacts DEF Crash, Callers
  <2>2. spent' = spent \/ (spent' = spent + 1 /\ \E p \in Passes : p \in Callers)
    BY <1>11 DEF Crash, Callers
  <2> QED
    BY <2>1, <2>2, NoNewCallers, CallIsCharged
<1> QED
  BY <1>2, <1>3, <1>4, <1>5, <1>6, <1>7, <1>8, <1>9, <1>10, <1>11, NextCases
-----------------------------------------------------------------------------
LEMMA StutterFits == ASSUME Inv, UNCHANGED vars PROVE Inv'
<1>1. UNCHANGED <<jobs, schedule, paused, spent, passes, patching, read, clock,
                  posted, requeued, digests, overtaken, edits, faults>>
  BY DEF vars, dbVars, procVars, bookVars
<1>2. TypeOK' /\ BudgetHolds'
  BY <1>1 DEF Inv, TypeOK, BudgetHolds
<1>3. ASSUME NEW p \in Passes PROVE PassFits(p)'
  BY <1>1 DEF Inv, PassFits
<1>4. ASSUME NEW j \in Jobs PROVE JobFits(j)'
  <2>1. Runners(j)' = Runners(j) /\ Answerers(j)' = Answerers(j)
    BY <1>1 DEF Runners, Answerers
  <2> QED
    BY <1>1, <2>1 DEF Inv, JobFits, Rests, Waits
<1>5. ASSUME NEW k \in Slots PROVE SlotFits(k)'
  BY <1>1 DEF Inv, SlotFits, Ahead
<1> QED
  BY <1>2, <1>3, <1>4, <1>5 DEF Inv

\* The inductive invariant holds in every reachable state.
THEOREM Invariant == Spec => []Inv
<1>1. Init => Inv
  BY InitFits
<1>2. Inv /\ [Next]_vars => Inv'
  <2> SUFFICES ASSUME Inv, [Next]_vars PROVE Inv'
    OBVIOUS
  <2>1. CASE Next
    BY <2>1, NextHasTypes, PassesStayFit, JobsStayFit, SlotsStayFit, BudgetStays DEF Inv
  <2>2. CASE UNCHANGED vars
    BY <2>2, StutterFits
  <2> QED
    BY <2>1, <2>2
<1> QED
  BY <1>1, <1>2, PTL DEF Spec

\* The jobs, the schedule and the passes have the types the code gives them.
THEOREM TypeCorrect == Spec => []TypeOK
<1>1. Inv => TypeOK
  BY DEF Inv
<1> QED
  BY <1>1, Invariant, PTL

\* A job is answered once, and once more at most for every time it was taken for stale,
\* however many passes overlap.
THEOREM OneAnswerPerRun == Spec => []AnswersAreBounded
<1>1. Inv => AnswersAreBounded
  BY Counts DEF Inv, JobFits, AnswersAreBounded
<1> QED
  BY <1>1, Invariant, PTL

\* A job that is shown as failed or skipped was not answered, unless it was run twice.
THEOREM OutcomesTellTheTruth == Spec => []OutcomesAreTrue
<1>1. Inv => OutcomesAreTrue
  BY DEF Inv, JobFits, OutcomesAreTrue
<1> QED
  BY <1>1, Invariant, PTL

\* Overlapping passes overspend the budget by the other passes' calls at most.
THEOREM BudgetIsKept == Spec => []BudgetHolds
<1>1. Inv => BudgetHolds
  BY DEF Inv
<1> QED
  BY <1>1, Invariant, PTL

\* A slot queues one digest, and another only after a PATCH wrote over a schedule that
\* had moved on since it was read.
THEOREM SlotsQueueOnce == Spec => []OneDigestPerSlot
<1>1. ASSUME Inv, NEW k \in Slots PROVE digests[k] <= 1 + overtaken
  <2>1. SlotFits(k) /\ digests[k] \in Nat /\ overtaken \in Nat /\ Ahead(k) \in 0..1
    BY <1>1 DEF Inv, TypeOK, Ahead
  <2> QED
    BY <2>1 DEF SlotFits
<1>2. Inv => OneDigestPerSlot
  BY <1>1 DEF OneDigestPerSlot
<1> QED
  BY <1>2, Invariant, PTL

LEMMA OverJobsKeepOutcome ==
    ASSUME Inv, Next, NEW j \in Jobs, jobs[j].status \in Over
    PROVE  jobs'[j].status \in Over /\ (jobs'[j].status = jobs[j].status \/ requeued[j] > 0)
<1>0. TypeOK /\ jobs[j].status \notin {"absent", "queued", "running"}
  BY DEF Inv, Over
<1>1. CASE jobs'[j].status = jobs[j].status
  BY <1>1
<1>2. ASSUME NEW p \in Passes, StartPass(p) \/ RunNow(p) PROVE jobs'[j] = jobs[j]
  BY <1>0, <1>2, StartFacts
<1>3. ASSUME NEW p \in Passes, EndPass(p) \/ Call(p) \/ Posts(p) PROVE jobs'[j] = jobs[j]
  BY <1>3 DEF EndPass, Call, Posts, dbVars
<1>4. ASSUME NEW p \in Passes, NEW i \in Jobs, Claim(p, i) PROVE jobs'[j] = jobs[j]
  BY <1>0, <1>4, ClaimFacts
<1>5. ASSUME NEW p \in Passes, NEW outcome \in Over, Ends(p, outcome)
      PROVE  jobs'[j].status \in Over /\ (jobs'[j].status = jobs[j].status \/ requeued[j] > 0)
  <2>1. CASE j # passes[p].job
    BY <1>0, <1>1, <1>5, <2>1, EndFacts, FinishFacts
  <2>2. CASE j = passes[p].job
    <3>1. jobs'[j].status = outcome
      BY <1>0, <1>5, <2>2, EndFacts, FinishFacts
    <3>2. p \in Runners(j)
      BY <1>0, <1>5, <2>2, EndFacts, JobIsHeld DEF Inv
    <3>3. Cardinality(Runners(j)) >= 1
      <4>1. Runners(j) \in SUBSET Passes /\ {} \subseteq Runners(j) /\ Cardinality({}) = 0
        BY FS_EmptySet DEF Runners
      <4> QED
        BY <3>2, <4>1, OnePassFewer
    <3>4. Rests(j) = 1
      BY DEF Rests
    <3>5. Cardinality(Runners(j)) + Rests(j) <= 1 + requeued[j]
      BY DEF Inv, JobFits
    <3>6. requeued[j] > 0
      BY <3>3, <3>4, <3>5, Counts
    <3> QED
      BY <3>1, <3>6
  <2> QED
    BY <2>1, <2>2
<1>6. ASSUME NEW m \in Messages, Mention(m) PROVE jobs'[j] = jobs[j]
  BY <1>0, <1>6, FreshFacts DEF Mention, TypeOK
<1>7. ASSUME NEW i \in Jobs, Age(i) PROVE jobs'[j] = jobs[j]
  BY <1>0, <1>7 DEF Age, TypeOK
<1>8. CASE Elsewhere \/ Crash
  BY <1>1, <1>8, ElsewhereFacts DEF Crash
<1> QED
  BY <1>1, <1>2, <1>3, <1>4, <1>5, <1>6, <1>7, <1>8, NextCases

\* A job that is over is never run again, and keeps its outcome unless it was run twice.
THEOREM OverJobsStayOver == Spec => OverStaysOver
<1>1. ASSUME Inv, [Next]_vars
      PROVE  [\A j \in Jobs : jobs[j].status \in Over =>
                /\ jobs'[j].status \in Over
                /\ jobs'[j].status = jobs[j].status \/ requeued[j] > 0]_vars
  <2>1. CASE Next
    BY <1>1, <2>1, OverJobsKeepOutcome
  <2>2. CASE UNCHANGED vars
    BY <2>2
  <2> QED
    BY <1>1, <2>1, <2>2
<1> QED
  BY <1>1, Invariant, PTL DEF Spec, OverStaysOver

LEMMA PausedRests ==
    ASSUME Inv, Next, paused
    PROVE  /\ posted' = posted
           /\ \A j \in Jobs : jobs[j].status = "absent" => jobs'[j].status = "absent"
           /\ \A j \in Jobs : jobs[j].status = "queued" => jobs'[j].status # "running"
           /\ \A p \in Passes : passes[p].phase # "calling" => passes'[p].phase # "calling"
<1> DEFINE Rest == /\ posted' = posted
                   /\ \A j \in Jobs : jobs[j].status = "absent" => jobs'[j].status = "absent"
                   /\ \A j \in Jobs : jobs[j].status = "queued" => jobs'[j].status # "running"
                   /\ \A p \in Passes : passes[p].phase # "calling" => passes'[p].phase # "calling"
<1>0. TypeOK
  BY DEF Inv
<1>1. ASSUME NEW p \in Passes, StartPass(p) \/ RunNow(p) PROVE Rest
  <2>1. \A j \in Jobs : jobs'[j] = jobs[j] \/ (jobs[j].status = "running" /\ jobs'[j].status = "queued")
    BY <1>0, <1>1, StartFacts
  <2>2. passes'[p] = passes[p] \/ passes'[p].phase = "loop"
    BY <1>0, <1>1, StartFacts
  <2>3. \A q \in Passes : q # p => passes'[q] = passes[q]
    BY <1>0, <1>1, StartFacts
  <2>4. posted' = posted
    BY <1>1 DEF StartPass, RunNow
  <2> QED
    BY <2>1, <2>2, <2>3, <2>4
<1>2. ASSUME NEW p \in Passes, EndPass(p) PROVE Rest
  BY <1>0, <1>2, RecordFacts DEF EndPass, TypeOK, dbVars, bookVars
<1>3. ASSUME NEW p \in Passes PROVE ~Call(p) /\ ~Posts(p) /\ \A j \in Jobs : ~Claim(p, j)
  BY DEF Call, Posts, MayPost, Claim
<1>4. ASSUME NEW p \in Passes, NEW outcome \in Over, Ends(p, outcome) PROVE Rest
  <2>1. posted' = posted /\ passes[p].job \in Jobs
    BY <1>4, EndFacts
  <2>2. passes'[p].phase = "loop" /\ \A q \in Passes : q # p => passes'[q] = passes[q]
    BY <1>0, <1>4, EndFacts, FinishFacts
  <2>3. jobs'[passes[p].job].status = outcome /\ \A j \in Jobs : j # passes[p].job => jobs'[j] = jobs[j]
    BY <1>0, <1>4, EndFacts, FinishFacts
  <2>4. jobs[passes[p].job].status # "absent"
    <3>1. passes[p].job # None
      BY <2>1, AgentJobsAssumption
    <3> QED
      BY <3>1 DEF Inv, PassFits
  <2>5. outcome # "running"
    BY DEF Over
  <2> QED
    BY <2>1, <2>2, <2>3, <2>4, <2>5
<1>5. ASSUME NEW m \in Messages PROVE ~Mention(m)
  BY DEF Mention
<1>6. ASSUME NEW i \in Jobs, Age(i) PROVE Rest
  <2>1. \A j \in Jobs : jobs'[j].status = jobs[j].status
    BY <1>0, <1>6 DEF Age, TypeOK, Job
  <2> QED
    BY <1>6, <2>1 DEF Age, procVars
<1>7. CASE Elsewhere
  BY <1>7, ElsewhereFacts
<1>8. CASE Crash
  BY <1>8, RecordFacts DEF Crash
<1> QED
  BY <1>1, <1>2, <1>3, <1>4, <1>5, <1>6, <1>7, <1>8, NextCases

\* While agents are paused no job is queued anew, none begins, the model is not called
\* and no answer is posted.
THEOREM PauseHolds == Spec => NothingWhilePaused
<1>1. ASSUME Inv, [Next]_vars
      PROVE  [paused =>
                /\ posted' = posted
                /\ \A j \in Jobs : jobs[j].status = "absent" => jobs'[j].status = "absent"
                /\ \A j \in Jobs : jobs[j].status = "queued" => jobs'[j].status # "running"
                /\ \A p \in Passes : passes[p].phase # "calling" => passes'[p].phase # "calling"]_vars
  <2>1. CASE Next
    BY <1>1, <2>1, PausedRests
  <2>2. CASE UNCHANGED vars
    BY <2>2
  <2> QED
    BY <1>1, <2>1, <2>2
<1> QED
  BY <1>1, Invariant, PTL DEF Spec, NothingWhilePaused
=============================================================================
