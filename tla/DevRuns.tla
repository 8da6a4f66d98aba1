------------------------------ MODULE DevRuns ------------------------------
(***************************************************************************)
(* The dev loop's deploy and test runs (src/src/cloud/devloop.ts over      *)
(* src/src/cloud-devloop.ts), for one project with one branch: people and  *)
(* agents ask for runs, people decide on those of agents, a provider       *)
(* builds them, the poller and every read of a run settle them, and they   *)
(* are stopped by hand or when their pull request closes.                  *)
(*                                                                         *)
(* The server is one Node process over a synchronous database: what a      *)
(* handler does between two awaits of the network is one action.  A        *)
(* handler that waits (for its request body, for the provider) is an entry *)
(* of handlers, with what it read before; anything may happen meanwhile.   *)
(* A crash forgets all of them, and may fall between two commits of one    *)
(* stretch.  A payload is identified with the revision of the repository   *)
(* link in it: its other parts never change.  A billed run costs a minute. *)
(***************************************************************************)
EXTENDS Naturals, FiniteSets, Sequences

CONSTANTS
    Runs,            \* the runs that may be asked for
    Handlers,        \* requests and polls in progress at a time
    People,
    Owners,          \* the people whose agents ask for runs
    MaxConcurrent,   \* maxConcurrent of the repository link
    MonthlyMinutes,  \* monthlyMinutes of the repository link
    MaxEdits,        \* bound on changes of settings
    MaxCrashes,      \* bound on crashes
    None

ASSUME DevRunsAssumption ==
    /\ IsFiniteSet(Runs) /\ IsFiniteSet(Handlers)
    /\ Owners \subseteq People
    /\ None \notin Runs \cup People \cup Nat
    /\ MaxConcurrent \in Nat \ {0}
    /\ MonthlyMinutes \in Nat
    /\ MaxEdits \in Nat
    /\ MaxCrashes \in Nat

Kinds  == {"deploy", "test"}
Active == {"queued", "running"}
Over   == {"success", "failed", "canceled", "rejected", "removed"}
Parked == {"pending_approval"}

\* A run without the parts nothing depends on.  asker is requestedBy of an agent's
\* run, the owner of the agent; ref is providerRef, the run whose deploy the provider
\* is asked about; begun, that startedAt is set.
Run == [status: {"none"} \cup Parked \cup Active \cup Over, kind: Kinds,
        asker: People \cup {None}, ref: Runs \cup {None}, begun: BOOLEAN, minutes: 0..1]
NoRun == [status |-> "none", kind |-> "test", asker |-> None, ref |-> None,
          begun |-> FALSE, minutes |-> 0]

Verdicts  == {"approved", "rejected"}
Revisions == 0..MaxEdits
Hashes    == Revisions \cup {None}

\* A handler that waits, and what it holds: the run as it read it, the reviewer,
\* whether the provider took the start and made the app for it.
Handler == [op: {"idle", "start", "refresh", "settle", "stop", "close", "decide"},
            run: Runs \cup {None}, was: Run, by: People \cup {None},
            sent: BOOLEAN, made: BOOLEAN]
Idle == [op |-> "idle", run |-> None, was |-> NoRun, by |-> None,
         sent |-> FALSE, made |-> FALSE]

VARIABLES
    \* The database.
    runs,        \* dev_runs
    decisions,   \* the rows of agent_decisions about each run
    repo,        \* the repository link: its revision, runsEnabled, agentRunsNeedApproval
    tier,        \* the space's agent trust tier; 0 is like 1 here
    paused,      \* the agents' kill switch
    newest,      \* the deploy asked for last, or None
    \* The process.
    handlers,
    \* The provider: the revision each app builds or None, the last deploy of an
    \* app, and the state of the deploy made for a run.
    apps, latest, builds,
    \* Bookkeeping of the specification.
    asked,       \* runs an agent asked for that had to wait for a person
    started,     \* the revision whose start was sent to the provider, or None
    outcomes,    \* how many outcomes of a run were posted
    late,        \* runs that were over, or running, when the answer to their start was written
    old,         \* runs asked for more than RUN_TIMEOUT_MS ago
    lowered,     \* the tier was below 3 at some time
    edits, crashes

dbVars   == <<runs, decisions, repo, tier, paused, newest>>
extVars  == <<apps, latest, builds>>
bookVars == <<asked, started, outcomes, late, old, lowered, edits, crashes>>
vars     == <<dbVars, handlers, extVars, bookVars>>

Apps == Runs \cup {"preview"}

\* runAppName: one app for the previews of the branch, one for each test run.
App(r) == IF runs[r].kind = "test" THEN r ELSE "preview"

MinTier(kind) == IF kind = "deploy" THEN 3 ELSE 2

-----------------------------------------------------------------------------
Init ==
    /\ runs = [r \in Runs |-> NoRun]
    /\ decisions = [r \in Runs |-> <<>>]
    /\ repo \in [rev: {0}, enabled: {TRUE}, needApproval: BOOLEAN]
    /\ tier = 3 /\ paused = FALSE /\ newest = None
    /\ handlers = [h \in Handlers |-> Idle]
    /\ apps = [a \in Apps |-> None] /\ latest = [a \in Apps |-> None]
    /\ builds = [r \in Runs |-> "none"]
    /\ asked = {} /\ started = [r \in Runs |-> None] /\ outcomes = [r \in Runs |-> 0]
    /\ late = {} /\ old = {} /\ lowered = FALSE /\ edits = 0 /\ crashes = 0

\* activeRunCount and minutesUsed.
ActiveRuns == {r \in Runs : runs[r].status \in Active}
Billed == {r \in Runs : runs[r].minutes > 0}

\* requireRunnable.
RequireRunnable ==
    /\ repo.enabled
    /\ Cardinality(ActiveRuns) < MaxConcurrent
    /\ Cardinality(Billed) < MonthlyMinutes

\* transitionRun moves a run only out of these statuses.  (Mutant: it always does.)
MayMoveAlways(r, from) == runs[r].status # "none"
MayMove(r, from) == runs[r].status \in from

\* What governAgentAction asks of an agent's action.
TierAllows(kind) == tier >= MinTier(kind)

\* The gate before an approved run starts: the tier, and an approval of this very
\* payload as the last decision.
ApprovesPayload(log, rev) ==
    /\ log # <<>>
    /\ log[Len(log)].verdict = "approved"
    /\ log[Len(log)].payload = rev

\* The run starts: startRun sends it to the provider with the repository as it is.
StartCall(r) == [Idle EXCEPT !.op = "start", !.run = r]

\* requestRun, for a person (None) or an agent of u's, whose run waits for a person
\* where the project says so.
RequestRun(h, r, u, kind) ==
    /\ handlers[h] = Idle
    /\ runs[r] = NoRun
    /\ RequireRunnable
    /\ u # None => ~paused /\ TierAllows(kind)
    /\ newest' = IF kind = "deploy" THEN r ELSE newest
    /\ LET parked == u # None /\ repo.needApproval
       IN  /\ runs' = [runs EXCEPT ![r] = [NoRun EXCEPT
                          !.status = IF parked THEN "pending_approval" ELSE "queued",
                          !.kind = kind, !.asker = u]]
           /\ asked' = IF parked THEN asked \cup {r} ELSE asked
           /\ handlers' = IF parked THEN handlers ELSE [handlers EXCEPT ![h] = StartCall(r)]
           /\ started' = IF parked THEN started ELSE [started EXCEPT ![r] = repo.rev]
    /\ UNCHANGED <<decisions, repo, tier, paused, extVars, outcomes, late, old, lowered, edits, crashes>>

-----------------------------------------------------------------------------
\* The provider, and the calls to it.

\* start: the app is made unless it is there already for the same repository, and a
\* deploy of it is taken.
ProviderAccepts(h) ==
    LET r == handlers[h].run
        a == App(r)
    IN  /\ handlers[h].op = "start" /\ ~handlers[h].sent
        /\ apps[a] \in {None, started[r]}
        /\ apps' = [apps EXCEPT ![a] = started[r]]
        /\ latest' = [latest EXCEPT ![a] = r]
        /\ builds' = [builds EXCEPT ![r] = "building"]
        /\ handlers' = [handlers EXCEPT ![h] = [@ EXCEPT !.sent = TRUE, !.made = apps[a] = None]]
        /\ UNCHANGED <<dbVars, bookVars>>

Build(r, result) ==
    /\ builds[r] = "building"
    /\ builds' = [builds EXCEPT ![r] = result]
    /\ UNCHANGED <<dbVars, handlers, apps, latest, bookVars>>

\* teardown: the app and its deploys are gone.
Teardown(a) ==
    /\ apps' = [apps EXCEPT ![a] = None]
    /\ latest' = [latest EXCEPT ![a] = None]
    /\ builds' = [r \in Runs |->
           IF App(r) = a /\ builds[r] # "none" THEN "purged" ELSE builds[r]]

\* Six hours pass; they matter to a run that waits.
Age(r) ==
    /\ runs[r].status \in Parked \cup Active /\ r \notin old
    /\ old' = old \cup {r}
    /\ UNCHANGED <<dbVars, handlers, extVars, asked, started, outcomes, late, lowered, edits, crashes>>

\* The answer to a start is written over whatever the run has become.
Overtaken(r) == late' = IF runs[r].status = "queued" THEN late ELSE late \cup {r}

StartAnswers(h) ==
    LET r == handlers[h].run
    IN  /\ handlers[h].op = "start" /\ handlers[h].sent
        /\ runs' = [runs EXCEPT ![r] = [@ EXCEPT !.status = "running", !.ref = r, !.begun = TRUE]]
        /\ Overtaken(r)
        /\ handlers' = [handlers EXCEPT ![h] = Idle]
        /\ UNCHANGED <<decisions, repo, tier, paused, newest, extVars, asked, started, outcomes,
                       old, lowered, edits, crashes>>

\* The start throws, before or after the provider took it; an app that it made is
\* torn down again, if the provider lets it.
StartFails(h) ==
    LET r == handlers[h].run
    IN  /\ handlers[h].op = "start"
        /\ \/ handlers[h].made /\ Teardown(App(r))
           \/ UNCHANGED extVars
        /\ runs' = [runs EXCEPT ![r].status = "failed"]
        /\ outcomes' = [outcomes EXCEPT ![r] = @ + 1]
        /\ Overtaken(r)
        /\ handlers' = [handlers EXCEPT ![h] = Idle]
        /\ UNCHANGED <<decisions, repo, tier, paused, newest, asked, started, old, lowered, edits, crashes>>

-----------------------------------------------------------------------------
\* refreshRun: by the poller for every active run, or because somebody reads it.

\* listActiveRuns.  (Mutant: a run that never started is not polled.)
PolledWhenRunning(r) == runs[r].status = "running"
Polled(r) == runs[r].status \in Active

Refresh(h, r) ==
    /\ handlers[h] = Idle
    /\ Polled(r)
    /\ handlers' = [handlers EXCEPT ![h] =
           [Idle EXCEPT !.op = "refresh", !.run = r, !.was = [NoRun EXCEPT !.ref = runs[r].ref]]]
    /\ UNCHANGED <<dbVars, extVars, bookVars>>

\* The deploy asked about: the run's own, else the last one of its app.
Deploy(h) ==
    LET r == handlers[h].run
    IN  IF handlers[h].was.ref # None THEN handlers[h].was.ref ELSE latest[App(r)]

\* What status() may give: an error always, "running" while nothing is known.
Answers(h) ==
    LET d == Deploy(h)
    IN  {"error"}
        \cup (IF handlers[h].was.ref = None \/ builds[d] = "building" THEN {"running"} ELSE {})
        \cup (IF d # None /\ builds[d] \in {"success", "failed", "canceled"} THEN {builds[d]} ELSE {})

\* A run without an outcome fails after RUN_TIMEOUT_MS.  (The code reads the clock
\* before the call, which is short against six hours.)
Outcome(r, answer) ==
    IF answer \notin {"error", "running"} THEN answer
    ELSE IF r \in old THEN "failed" ELSE "open"

\* Still open: at most the deploy's handle is kept.
RefreshOpen(h, answer) ==
    LET r == handlers[h].run
    IN  /\ Outcome(r, answer) = "open"
        /\ runs' = IF answer = "running" /\ Deploy(h) # None
                   THEN [runs EXCEPT ![r].ref = Deploy(h)] ELSE runs
        /\ handlers' = [handlers EXCEPT ![h] = Idle]
        /\ UNCHANGED <<decisions, repo, tier, paused, newest, extVars, bookVars>>

\* The run is billed and gets the outcome, and the handle of the deploy that had it.
Handle(h, answer) ==
    IF answer \in {"error", "running"} THEN runs[handlers[h].run].ref ELSE Deploy(h)
Settle(h, answer) ==
    LET r == handlers[h].run
    IN  [runs EXCEPT ![r] = [@ EXCEPT !.status = Outcome(r, answer), !.minutes = 1,
                                      !.ref = Handle(h, answer)]]

\* settleRun of a deploy posts at once; that of a test tears its app down first.
RefreshSettles(h, answer) ==
    LET r == handlers[h].run
        outcome == Outcome(r, answer)
    IN  /\ outcome # "open"
        /\ MayMove(r, Active)
        /\ runs' = Settle(h, answer)
        /\ \/ /\ runs[r].kind = "deploy"
              /\ outcomes' = IF outcome = "canceled" THEN outcomes ELSE [outcomes EXCEPT ![r] = @ + 1]
              /\ handlers' = [handlers EXCEPT ![h] = Idle]
           \/ /\ runs[r].kind = "test"
              /\ handlers' = [handlers EXCEPT ![h] =
                     [Idle EXCEPT !.op = "settle", !.run = r, !.was = [NoRun EXCEPT !.status = outcome]]]
              /\ UNCHANGED outcomes
        /\ UNCHANGED <<decisions, repo, tier, paused, newest, extVars, asked, started, late, old,
                       lowered, edits, crashes>>

RefreshTooLate(h, answer) ==
    /\ Outcome(handlers[h].run, answer) # "open"
    /\ ~MayMove(handlers[h].run, Active)
    /\ handlers' = [handlers EXCEPT ![h] = Idle]
    /\ UNCHANGED <<dbVars, extVars, bookVars>>

\* The rest of settleRun for a test, after the teardown or its failure: the outcome
\* is posted, with a bug when the test failed.
PostTest(h) ==
    LET r == handlers[h].run
    IN  /\ handlers[h].op = "settle"
        /\ Teardown(App(r)) \/ UNCHANGED extVars
        /\ outcomes' = IF handlers[h].was.status = "canceled" THEN outcomes
                       ELSE [outcomes EXCEPT ![r] = @ + 1]
        /\ handlers' = [handlers EXCEPT ![h] = Idle]
        /\ UNCHANGED <<dbVars, asked, started, late, old, lowered, edits, crashes>>

-----------------------------------------------------------------------------
\* Stopping a run, and closing the pull request of a preview.

\* What a stop uses of the run it read.
Held(r) == [NoRun EXCEPT !.status = runs[r].status, !.kind = runs[r].kind, !.begun = runs[r].begun]

\* retireRun, of the run as it was when its app began to be torn down.
Retire(r, was) ==
    runs' = IF was.status = "success" /\ was.kind = "deploy"
            THEN IF MayMove(r, {"success"}) THEN [runs EXCEPT ![r].status = "removed"] ELSE runs
            ELSE IF MayMove(r, Parked \cup Active)
                 THEN [runs EXCEPT ![r] = [@ EXCEPT !.status = "canceled",
                                                    !.minutes = IF was.begun THEN 1 ELSE 0]]
                 ELSE runs

Stop(h, r) ==
    /\ handlers[h] = Idle
    /\ runs[r] # NoRun
    /\ IF runs[r].status \in Parked
       THEN Retire(r, runs[r]) /\ UNCHANGED handlers
       ELSE /\ handlers' = [handlers EXCEPT ![h] = [Idle EXCEPT !.op = "stop", !.run = r, !.was = Held(r)]]
            /\ UNCHANGED runs
    /\ UNCHANGED <<decisions, repo, tier, paused, newest, extVars, bookVars>>

ClosePull(h) ==
    /\ handlers[h] = Idle
    /\ newest # None
    /\ handlers' = [handlers EXCEPT ![h] =
           [Idle EXCEPT !.op = "close", !.run = newest, !.was = Held(newest)]]
    /\ UNCHANGED <<dbVars, extVars, bookVars>>

TornDown(h) ==
    /\ handlers[h].op \in {"stop", "close"}
    /\ Teardown(App(handlers[h].run))
    /\ Retire(handlers[h].run, handlers[h].was)
    /\ handlers' = [handlers EXCEPT ![h] = Idle]
    /\ UNCHANGED <<decisions, repo, tier, paused, newest, bookVars>>

\* A stop gives up when the provider refuses; a closed pull request does not care.
TeardownFails(h) ==
    /\ handlers[h].op \in {"stop", "close"}
    /\ IF handlers[h].op = "close" THEN Retire(handlers[h].run, handlers[h].was) ELSE UNCHANGED runs
    /\ handlers' = [handlers EXCEPT ![h] = Idle]
    /\ UNCHANGED <<decisions, repo, tier, paused, newest, extVars, bookVars>>

-----------------------------------------------------------------------------
\* Deciding on an agent's run.

\* The route reads the run, then waits for the body.
Review(h, r, u) ==
    /\ handlers[h] = Idle
    /\ runs[r].status \in Parked
    /\ handlers' = [handlers EXCEPT ![h] =
           [Idle EXCEPT !.op = "decide", !.run = r, !.by = u,
                        !.was = [NoRun EXCEPT !.asker = runs[r].asker]]]
    /\ UNCHANGED <<dbVars, extVars, bookVars>>

\* appendFirstDecision: no decision yet.  (Mutant: appendDecision.)
UndecidedUnchecked(r) == TRUE
Undecided(r) == \A i \in 1..Len(decisions[r]) : decisions[r][i].verdict \notin Verdicts

\* decideRun up to the log; seen is the hash of the payload the reviewer has seen, if
\* the body names it.  (Mutant: people approve the runs of their own agents.)
MayDecideOwn(h, verdict, seen) ==
    /\ handlers[h].op = "decide"
    /\ verdict = "approved" => RequireRunnable /\ ~paused
    /\ seen \in {None, repo.rev}
    /\ Undecided(handlers[h].run)
MayDecide(h, verdict, seen) ==
    /\ handlers[h].op = "decide"
    /\ verdict = "approved" =>
          handlers[h].was.asker # handlers[h].by /\ RequireRunnable /\ ~paused
    /\ seen \in {None, repo.rev}
    /\ Undecided(handlers[h].run)

\* recordAgentDecision: the decision is bound to the payload as it is now.  (Mutant:
\* to the one the request names.)
RecordedAsNamed(h, verdict, seen) ==
    [decisions EXCEPT ![handlers[h].run] =
        Append(@, [verdict |-> verdict, by |-> handlers[h].by, payload |-> seen])]
Recorded(h, verdict, seen) ==
    [decisions EXCEPT ![handlers[h].run] =
        Append(@, [verdict |-> verdict, by |-> handlers[h].by, payload |-> repo.rev])]

\* The gate and the move out of pending_approval.
MayStart(r) ==
    /\ TierAllows(runs[r].kind)
    /\ ApprovesPayload(decisions'[r], repo.rev)
    /\ MayMove(r, Parked)

Approve(h, seen) ==
    LET r == handlers[h].run
    IN  /\ MayDecide(h, "approved", seen)
        /\ decisions' = Recorded(h, "approved", seen)
        /\ IF MayStart(r)
           THEN /\ runs' = [runs EXCEPT ![r].status = "queued"]
                /\ started' = [started EXCEPT ![r] = repo.rev]
                /\ handlers' = [handlers EXCEPT ![h] = StartCall(r)]
           ELSE /\ handlers' = [handlers EXCEPT ![h] = Idle]
                /\ UNCHANGED <<runs, started>>
        /\ UNCHANGED <<repo, tier, paused, newest, extVars, asked, outcomes, late, old, lowered,
                       edits, crashes>>

Reject(h, seen) ==
    LET r == handlers[h].run
    IN  /\ MayDecide(h, "rejected", seen)
        /\ decisions' = Recorded(h, "rejected", seen)
        /\ runs' = IF MayMove(r, Parked) THEN [runs EXCEPT ![r].status = "rejected"] ELSE runs
        /\ handlers' = [handlers EXCEPT ![h] = Idle]
        /\ UNCHANGED <<repo, tier, paused, newest, extVars, bookVars>>

Decide(h) == \E seen \in Hashes : Approve(h, seen) \/ Reject(h, seen)

\* A refused review, or one whose body never comes.
RefuseReview(h) ==
    /\ handlers[h].op = "decide"
    /\ handlers' = [handlers EXCEPT ![h] = Idle]
    /\ UNCHANGED <<dbVars, extVars, bookVars>>

-----------------------------------------------------------------------------
\* Settings, and crashes.

Edit ==
    /\ edits < MaxEdits
    /\ edits' = edits + 1
    /\ \/ /\ \/ repo' = [repo EXCEPT !.rev = @ + 1]
             \/ repo' = [repo EXCEPT !.enabled = ~@]
             \/ repo' = [repo EXCEPT !.needApproval = ~@]
          /\ UNCHANGED <<tier, paused, lowered>>
       \/ /\ \E t \in 1..3 : tier' = t /\ lowered' = (lowered \/ t < 3)
          /\ UNCHANGED <<repo, paused>>
       \/ paused' = ~paused /\ UNCHANGED <<repo, tier, lowered>>
    /\ UNCHANGED <<runs, decisions, newest, handlers, extVars, asked, started, outcomes, late, old, crashes>>

\* The process dies: between two events, with a decision recorded and not acted
\* upon, or with a deploy settled and not announced.
Crash ==
    /\ crashes < MaxCrashes
    /\ crashes' = crashes + 1
    /\ handlers' = [h \in Handlers |-> Idle]
    /\ \/ UNCHANGED <<runs, decisions>>
       \/ /\ \E h \in Handlers, verdict \in Verdicts, seen \in Hashes :
                MayDecide(h, verdict, seen) /\ decisions' = Recorded(h, verdict, seen)
          /\ UNCHANGED runs
       \/ \E h \in Handlers :
             /\ handlers[h].op = "refresh" /\ MayMove(handlers[h].run, Active)
             /\ \E answer \in Answers(h) :
                   Outcome(handlers[h].run, answer) # "open" /\ runs' = Settle(h, answer)
             /\ UNCHANGED decisions
    /\ UNCHANGED <<repo, tier, paused, newest, extVars, asked, started, outcomes, late, old, lowered, edits>>

AnswerOf(h) ==
    /\ handlers[h].op = "refresh"
    /\ \E answer \in Answers(h) :
          RefreshOpen(h, answer) \/ RefreshSettles(h, answer) \/ RefreshTooLate(h, answer)

\* What ends the wait of a handler.
WaitEnds(h) ==
    \/ StartAnswers(h) \/ StartFails(h)
    \/ AnswerOf(h) \/ PostTest(h)
    \/ TornDown(h) \/ TeardownFails(h)
    \/ Decide(h) \/ RefuseReview(h)

Next ==
    \/ \E h \in Handlers :
          \/ \E r \in Runs :
                \/ \E u \in Owners \cup {None}, kind \in Kinds : RequestRun(h, r, u, kind)
                \/ \E u \in People : Review(h, r, u)
                \/ Refresh(h, r)
                \/ Stop(h, r)
          \/ ProviderAccepts(h) \/ ClosePull(h) \/ WaitEnds(h)
    \/ \E r \in Runs : Age(r) \/ \E result \in {"success", "failed", "canceled"} : Build(r, result)
    \/ Edit
    \/ Crash

Spec == Init /\ [][Next]_vars

\* Every call to the provider ends, at the latest by its timeout, and every request,
\* at the latest when its body does not come; the poller goes through all active runs
\* again and again; time passes.
FairSpec ==
    /\ Spec
    /\ \A h \in Handlers : WF_vars(WaitEnds(h))
    /\ \A r \in Runs : WF_vars(Age(r)) /\ SF_vars(\E h \in Handlers : Refresh(h, r))

-----------------------------------------------------------------------------
(***************************************************************************)
(* Properties.                                                             *)
(***************************************************************************)

DecisionOf == [verdict: Verdicts, by: People, payload: Revisions]

\* The types of the variables.
TypeOK ==
    /\ runs \in [Runs -> Run]
    /\ decisions \in [Runs -> Seq(DecisionOf)]
    /\ repo \in [rev: Revisions, enabled: BOOLEAN, needApproval: BOOLEAN]
    /\ tier \in 1..3 /\ paused \in BOOLEAN /\ newest \in Runs \cup {None}
    /\ handlers \in [Handlers -> Handler]
    /\ apps \in [Apps -> Revisions \cup {None}] /\ latest \in [Apps -> Runs \cup {None}]
    /\ builds \in [Runs -> {"none", "building", "success", "failed", "canceled", "purged"}]
    /\ asked \subseteq Runs /\ started \in [Runs -> Revisions \cup {None}]
    /\ outcomes \in [Runs -> Nat] /\ late \subseteq Runs /\ old \subseteq Runs
    /\ lowered \in BOOLEAN /\ edits \in 0..MaxEdits /\ crashes \in 0..MaxCrashes

\* Reviewers who look at the same run at the same time do not both decide on it,
\* although each read it as undecided before waiting for a body
\* (cloud-governance.ts:133-147).
OneDecisionPerRun == \A r \in Runs : Len(decisions[r]) <= 1

\* A run that an agent asked for under "agent runs need approval" is sent to the
\* provider only when the log of decisions ends in the approval, by somebody other
\* than the agent's owner, of the repository and branch that are sent
\* (devloop.ts:99-139, governance.ts:65-102).
Gate == INSTANCE AgentGate WITH
            Subjects <- Runs,
            Payloads <- Revisions,
            asker <- [r \in asked |-> runs[r].asker],
            log <- decisions,
            effects <- {<<r, started[r]>> : r \in {s \in asked : started[s] # None}}
ImplementsGate == Gate!Spec

\* A run that is over comes back only because the answer to its start was still on
\* its way: no poll, read, stop or review brings it back (cloud-devloop.ts:337-347).
OverStaysOver ==
    [][\A r \in Runs : runs[r].status \in Over /\ runs'[r].status \in Active \cup Parked
                          => r \in late']_vars

\* The handlers that have settled a test run and are about to post its outcome.
Announcing(r) ==
    {h \in Handlers : /\ handlers[h].op = "settle" /\ handlers[h].run = r
                      /\ handlers[h].was.status # "canceled"}

\* "Only one may post the outcome" of a run (cloud-devloop.ts:339), however many polls
\* and reads see it end, and one does: of a run that succeeded or failed the outcome is
\* posted or about to be, unless the process died.  The code posts only once for a run
\* that was still queued when the answer to its start came: any other such answer costs
\* a second outcome, never a third.
OutcomesArePosted ==
    \A r \in Runs :
       /\ outcomes[r] <= 1 + (IF r \in late THEN 1 ELSE 0)
       /\ runs[r].status \in {"success", "failed", "removed"} =>
             outcomes[r] > 0 \/ Announcing(r) # {} \/ crashes > 0

\* No more runs of the project are active than its limit says, and no run starts
\* once the month is used up: what is billed exceeds it by what was active at most.
\* Runs that an answer brought back are not counted (devloop.ts:142-152).
CapsHold ==
    /\ Cardinality(ActiveRuns \ late) <= MaxConcurrent
    /\ Cardinality(Billed \cup ActiveRuns) < MonthlyMinutes + MaxConcurrent + Cardinality(late)

\* A run somebody decided on does not stay in the queue of approvals, where nobody
\* could decide on it again, unless the process died in between or the space trusts
\* its agents less than it did (devloop.ts:121-139).
DecidedRunsMove ==
    \A r \in Runs : decisions[r] # <<>> /\ runs[r].status \in Parked => crashes > 0 \/ lowered

\* Every active run ends: by its outcome, by a stop, or six hours after it was asked
\* for, whatever the provider does and also when the process that started it died
\* (docs/noma-cloud.noma:2275).
ActiveRunsEnd ==
    \A r \in Runs : (runs[r].status \in Active) ~> (runs[r].status \notin Active)
=============================================================================
