--------------------------- MODULE DevRuns_proofs ---------------------------
(***************************************************************************)
(* Safety of the dev loop's runs, for any number of runs, requests, people *)
(* and crashes.                                                            *)
(***************************************************************************)
EXTENDS DevRuns, FiniteSetTheorems, TLAPS

-----------------------------------------------------------------------------
\* What the parts of a run and of a handler are.
LEMMA ShapeFacts ==
    /\ NoRun \in Run /\ Idle \in Handler
    /\ \A r \in Runs : StartCall(r) \in Handler /\ App(r) \in Apps
    /\ \A u \in People : u # None
    /\ \A r \in Runs : r # None
    /\ 0 \in Revisions /\ \A n \in Revisions : n # None
<1>1. NoRun \in Run
  BY DEF NoRun, Run, Kinds
<1>2. Idle \in Handler /\ \A r \in Runs : StartCall(r) \in Handler
  BY <1>1 DEF Idle, Handler, StartCall
<1>3. \A r \in Runs : App(r) \in Apps
  BY DEF App, Apps
<1>4. 0 \in Revisions /\ \A n \in Revisions : n # None
  BY DevRunsAssumption DEF Revisions
<1> QED
  BY <1>1, <1>2, <1>3, <1>4, DevRunsAssumption

\* A run stays a run when fields of it change.
Statuses == {"none"} \cup Parked \cup Active \cup Over

LEMMA StatusesAre ==
    Statuses = {"none", "pending_approval", "queued", "running",
                "success", "failed", "canceled", "rejected", "removed"}
BY DEF Statuses, Parked, Active, Over

LEMMA RunStatus == ASSUME NEW x \in Run, NEW s \in Statuses PROVE [x EXCEPT !.status = s] \in Run
BY DEF Run, Statuses

LEMMA RunRef == ASSUME NEW x \in Run, NEW f \in Runs \cup {None} PROVE [x EXCEPT !.ref = f] \in Run
BY DEF Run

LEMMA RunStarted ==
    ASSUME NEW x \in Run, NEW f \in Runs
    PROVE  [x EXCEPT !.status = "running", !.ref = f, !.begun = TRUE] \in Run
BY DEF Run, Active

LEMMA RunSettled ==
    ASSUME NEW x \in Run, NEW s \in Statuses, NEW f \in Runs \cup {None}
    PROVE  [x EXCEPT !.status = s, !.minutes = 1, !.ref = f] \in Run
<1> DEFINE y == [x EXCEPT !.status = s]
           z == [y EXCEPT !.minutes = 1]
<1>1. y \in Run
  BY RunStatus
<1>2. z \in Run
  <2> HIDE DEF y
  <2> QED
    BY <1>1 DEF Run
<1>3. [z EXCEPT !.ref = f] \in Run
  <2> HIDE DEF z
  <2> QED
    BY <1>2, RunRef
<1> QED
  BY <1>3

LEMMA RunCanceled ==
    ASSUME NEW x \in Run, NEW m \in 0..1
    PROVE  [x EXCEPT !.status = "canceled", !.minutes = m] \in Run
BY DEF Run, Over

\* A handler that waits for a run, with what it has read.
LEMMA HandlerWaits ==
    ASSUME NEW op \in {"refresh", "settle", "stop", "close"}, NEW r \in Runs, NEW w \in Run
    PROVE  [Idle EXCEPT !.op = op, !.run = r, !.was = w] \in Handler
BY DEF Idle, Handler

LEMMA HandlerDecides ==
    ASSUME NEW r \in Runs, NEW w \in Run, NEW u \in People
    PROVE  [Idle EXCEPT !.op = "decide", !.run = r, !.by = u, !.was = w] \in Handler
BY DEF Idle, Handler

\* The answers of the provider, and what they make of a run.
LEMMA OutcomeFacts ==
    ASSUME NEW h, NEW r, NEW answer \in Answers(h)
    PROVE  /\ answer \in {"error", "running", "success", "failed", "canceled"}
           /\ Outcome(r, answer) \in {"open", "success", "failed", "canceled"}
BY DEF Answers, Outcome

LEMMA InitHasTypes == Init => TypeOK
<1> SUFFICES ASSUME Init PROVE TypeOK
  OBVIOUS
<1>1. runs \in [Runs -> Run] /\ handlers \in [Handlers -> Handler]
  BY ShapeFacts DEF Init
<1>2. decisions \in [Runs -> Seq(DecisionOf)] /\ outcomes \in [Runs -> Nat]
  BY DEF Init
<1>3. repo \in [rev : Revisions, enabled : BOOLEAN, needApproval : BOOLEAN]
  BY ShapeFacts DEF Init
<1>4. apps \in [Apps -> Revisions \cup {None}] /\ latest \in [Apps -> Runs \cup {None}]
  BY DEF Init
<1>5. edits \in 0..MaxEdits /\ crashes \in 0..MaxCrashes
  BY DevRunsAssumption DEF Init
<1>6. tier \in 1..3 /\ newest \in Runs \cup {None}
  BY DEF Init
<1>7. paused \in BOOLEAN /\ lowered \in BOOLEAN
  BY DEF Init
<1>8. /\ builds \in [Runs -> {"none", "building", "success", "failed", "canceled", "purged"}]
      /\ started \in [Runs -> Revisions \cup {None}]
  BY DEF Init
<1>9. asked \subseteq Runs /\ late \subseteq Runs /\ old \subseteq Runs
  BY DEF Init
<1> QED
  BY <1>1, <1>2, <1>3, <1>4, <1>5, <1>6, <1>7, <1>8, <1>9 DEF TypeOK

\* The parts of TypeOK that most steps change.
LEMMA TypeParts ==
    ASSUME TypeOK
    PROVE  /\ runs \in [Runs -> Run] /\ handlers \in [Handlers -> Handler]
           /\ outcomes \in [Runs -> Nat] /\ late \subseteq Runs
           /\ \A h \in Handlers : handlers[h].was \in Run /\ handlers[h].run \in Runs \cup {None}
           /\ latest \in [Apps -> Runs \cup {None}]
           /\ \A h \in Handlers : handlers[h].was.ref \in Runs \cup {None}
<1>1. runs \in [Runs -> Run] /\ handlers \in [Handlers -> Handler] /\ latest \in [Apps -> Runs \cup {None}]
  BY DEF TypeOK
<1>2. outcomes \in [Runs -> Nat] /\ late \subseteq Runs
  BY DEF TypeOK
<1>3. \A h \in Handlers : handlers[h].was \in Run /\ handlers[h].run \in Runs \cup {None}
  BY <1>1 DEF Handler
<1>4. \A h \in Handlers : handlers[h].was.ref \in Runs \cup {None}
  BY <1>3 DEF Run
<1> QED
  BY <1>1, <1>2, <1>3, <1>4

\* What a handler keeps of the run it reads.
LEMMA ReadFacts ==
    ASSUME TypeOK, NEW r \in Runs
    PROVE  /\ Held(r) \in Run
           /\ [NoRun EXCEPT !.ref = runs[r].ref] \in Run
           /\ [NoRun EXCEPT !.asker = runs[r].asker] \in Run
<1>1. runs[r] \in Run
  BY TypeParts
<1>2. /\ runs[r].ref \in Runs \cup {None} /\ runs[r].asker \in People \cup {None}
      /\ runs[r].status \in Statuses /\ runs[r].kind \in Kinds /\ runs[r].begun \in BOOLEAN
  BY <1>1 DEF Run, Statuses
<1>3. Held(r) \in Run
  <2>1. PICK b \in BOOLEAN : b = runs[r].begun
    BY <1>2
  <2>2. Held(r) = [NoRun EXCEPT !.status = runs[r].status, !.kind = runs[r].kind, !.begun = b]
    BY <2>1 DEF Held
  <2> QED
    BY <1>2, <2>2, ShapeFacts DEF Run, Statuses
<1>4. [NoRun EXCEPT !.ref = runs[r].ref] \in Run
  BY <1>2, ShapeFacts, RunRef
<1>5. [NoRun EXCEPT !.asker = runs[r].asker] \in Run
  BY <1>2, ShapeFacts DEF Run
<1> QED
  BY <1>3, <1>4, <1>5

\* A run is asked for.
LEMMA RequestHasTypes ==
    ASSUME TypeOK, NEW h \in Handlers, NEW r \in Runs, NEW u \in Owners \cup {None}, NEW kind \in Kinds,
           RequestRun(h, r, u, kind)
    PROVE  TypeOK'
<1>1. u \in People \cup {None} /\ repo.rev \in Revisions
  BY DevRunsAssumption DEF TypeOK
<1>2. runs' \in [Runs -> Run]
  BY <1>1 DEF RequestRun, TypeOK, NoRun, Run, Parked, Active
<1>3. handlers' \in [Handlers -> Handler] /\ started' \in [Runs -> Revisions \cup {None}]
  BY <1>1, ShapeFacts DEF RequestRun, TypeOK
<1> QED
  BY <1>2, <1>3 DEF RequestRun, TypeOK, extVars

\* Tearing an app down, or not.
LEMMA TeardownHasTypes ==
    ASSUME TypeOK, NEW a \in Apps, Teardown(a) \/ UNCHANGED extVars
    PROVE  /\ apps' \in [Apps -> Revisions \cup {None}] /\ latest' \in [Apps -> Runs \cup {None}]
           /\ builds' \in [Runs -> {"none", "building", "success", "failed", "canceled", "purged"}]
<1>1. CASE Teardown(a)
  BY <1>1 DEF TypeOK, Teardown
<1>2. CASE UNCHANGED extVars
  BY <1>2 DEF TypeOK, extVars
<1> QED
  BY <1>1, <1>2

LEMMA ProviderHasTypes ==
    ASSUME TypeOK,
           \/ \E h \in Handlers : ProviderAccepts(h) /\ handlers[h].run \in Runs
           \/ \E r \in Runs, result \in {"success", "failed", "canceled"} : Build(r, result)
           \/ \E r \in Runs : Age(r)
    PROVE  TypeOK'
<1>1. ASSUME NEW h \in Handlers, ProviderAccepts(h), handlers[h].run \in Runs PROVE TypeOK'
  <2>1. App(handlers[h].run) \in Apps
    BY <1>1, ShapeFacts
  <2>2. apps' \in [Apps -> Revisions \cup {None}] /\ latest' \in [Apps -> Runs \cup {None}]
    BY <1>1, <2>1 DEF ProviderAccepts, TypeOK
  <2>3. builds' \in [Runs -> {"none", "building", "success", "failed", "canceled", "purged"}]
    BY <1>1 DEF ProviderAccepts, TypeOK
  <2>4. handlers' \in [Handlers -> Handler]
    <3>1. PICK b \in BOOLEAN : b = (apps[App(handlers[h].run)] = None)
      OBVIOUS
    <3>2. handlers' = [handlers EXCEPT ![h] = [handlers[h] EXCEPT !.sent = TRUE, !.made = b]]
      BY <1>1, <3>1 DEF ProviderAccepts
    <3>3. [handlers[h] EXCEPT !.sent = TRUE, !.made = b] \in Handler
      BY TypeParts DEF Handler
    <3> QED
      BY <3>2, <3>3, TypeParts
  <2> QED
    BY <1>1, <2>2, <2>3, <2>4 DEF ProviderAccepts, TypeOK, dbVars, bookVars
<1>2. ASSUME NEW r \in Runs, NEW result \in {"success", "failed", "canceled"}, Build(r, result) PROVE TypeOK'
  <2>1. builds' \in [Runs -> {"none", "building", "success", "failed", "canceled", "purged"}]
    BY <1>2 DEF Build, TypeOK
  <2> QED
    BY <1>2, <2>1 DEF Build, TypeOK, dbVars, bookVars
<1>3. ASSUME NEW r \in Runs, Age(r) PROVE TypeOK'
  BY <1>3 DEF Age, TypeOK, dbVars, extVars
<1> QED
  BY <1>1, <1>2, <1>3

LEMMA StartHasTypes ==
    ASSUME TypeOK, NEW h \in Handlers, handlers[h].run \in Runs, StartAnswers(h) \/ StartFails(h)
    PROVE  TypeOK'
<1>1. runs' \in [Runs -> Run]
  <2>1. CASE StartAnswers(h)
    BY <2>1, RunStarted, TypeParts DEF StartAnswers
  <2>2. CASE StartFails(h)
    <3>1. runs' = [runs EXCEPT ![handlers[h].run] = [runs[handlers[h].run] EXCEPT !.status = "failed"]]
      BY <2>2 DEF StartFails
    <3> QED
      BY <3>1, RunStatus, StatusesAre, TypeParts
  <2> QED
    BY <2>1, <2>2
<1>2. outcomes' \in [Runs -> Nat] /\ late' \subseteq Runs
  <2>1. CASE StartAnswers(h)
    BY <2>1 DEF StartAnswers, TypeOK, Overtaken
  <2>2. CASE StartFails(h)
    BY <2>2 DEF StartFails, TypeOK, Overtaken
  <2> QED
    BY <2>1, <2>2
<1>3. handlers' \in [Handlers -> Handler]
  <2>1. handlers' = [handlers EXCEPT ![h] = Idle]
    BY DEF StartAnswers, StartFails
  <2> QED
    BY <2>1, ShapeFacts, TypeParts
<1>4. /\ apps' \in [Apps -> Revisions \cup {None}] /\ latest' \in [Apps -> Runs \cup {None}]
      /\ builds' \in [Runs -> {"none", "building", "success", "failed", "canceled", "purged"}]
  <2>1. (\E a \in Apps : Teardown(a)) \/ UNCHANGED extVars
    BY ShapeFacts DEF StartAnswers, StartFails
  <2> QED
    BY <2>1, TeardownHasTypes DEF TypeOK, extVars
<1> QED
  BY <1>1, <1>2, <1>3, <1>4 DEF StartAnswers, StartFails, TypeOK

LEMMA RefreshHasTypes ==
    ASSUME TypeOK, NEW h \in Handlers,
           \/ \E r \in Runs : Refresh(h, r)
           \/ handlers[h].run \in Runs /\ AnswerOf(h)
    PROVE  TypeOK'
<1>1. ASSUME NEW r \in Runs, Refresh(h, r) PROVE TypeOK'
  <2>1. handlers' \in [Handlers -> Handler]
    BY <1>1, ReadFacts, HandlerWaits, TypeParts DEF Refresh
  <2> QED
    BY <1>1, <2>1 DEF Refresh, TypeOK, dbVars, extVars, bookVars
<1>2. ASSUME handlers[h].run \in Runs, NEW answer \in Answers(h),
             RefreshOpen(h, answer) \/ RefreshSettles(h, answer) \/ RefreshTooLate(h, answer)
      PROVE  TypeOK'
  <2>1. Deploy(h) \in Runs \cup {None}
    BY <1>2, ShapeFacts, TypeParts DEF Deploy
  <2>2. CASE RefreshOpen(h, answer)
    <3>1. runs' \in [Runs -> Run]
      <4>1. \/ runs' = runs
            \/ runs' = [runs EXCEPT ![handlers[h].run] = [runs[handlers[h].run] EXCEPT !.ref = Deploy(h)]]
        BY <2>2 DEF RefreshOpen
      <4> QED
        BY <1>2, <2>1, <4>1, RunRef, TypeParts
    <3>2. handlers' \in [Handlers -> Handler]
      BY <2>2, ShapeFacts DEF RefreshOpen, TypeOK
    <3> QED
      BY <2>2, <3>1, <3>2 DEF RefreshOpen, TypeOK, extVars, bookVars
  <2>3. CASE RefreshSettles(h, answer)
    <3>1. Outcome(handlers[h].run, answer) \in {"success", "failed", "canceled"}
      BY <2>3, OutcomeFacts DEF RefreshSettles
    <3>2. runs' \in [Runs -> Run]
      <4>1. PICK r \in Runs : r = handlers[h].run
        BY <1>2
      <4>2. Handle(h, answer) \in Runs \cup {None}
        <5>1. runs[handlers[h].run].ref \in Runs \cup {None}
          BY <1>2, TypeParts DEF Run
        <5> QED
          BY <2>1, <5>1 DEF Handle
      <4>3. runs' = [runs EXCEPT ![r] = [runs[r] EXCEPT
                        !.status = Outcome(r, answer), !.minutes = 1, !.ref = Handle(h, answer)]]
        BY <2>3, <4>1 DEF RefreshSettles, Settle
      <4> QED
        BY <3>1, <4>1, <4>2, <4>3, RunSettled, StatusesAre, TypeParts
    <3>3. handlers' \in [Handlers -> Handler] /\ outcomes' \in [Runs -> Nat]
      <4>1. [Idle EXCEPT !.op = "settle", !.run = handlers[h].run,
                         !.was = [NoRun EXCEPT !.status = Outcome(handlers[h].run, answer)]] \in Handler
        BY <1>2, <3>1, RunStatus, StatusesAre, HandlerWaits, ShapeFacts
      <4>2. CASE runs[handlers[h].run].kind = "deploy"
        BY <1>2, <2>3, <4>2, ShapeFacts, TypeParts DEF RefreshSettles
      <4>3. CASE runs[handlers[h].run].kind = "test"
        BY <1>2, <2>3, <4>1, <4>3, TypeParts DEF RefreshSettles
      <4> QED
        BY <2>3, <4>2, <4>3 DEF RefreshSettles
    <3> QED
      BY <2>3, <3>2, <3>3 DEF RefreshSettles, TypeOK, extVars
  <2>4. CASE RefreshTooLate(h, answer)
    <3>1. handlers' \in [Handlers -> Handler]
      BY <2>4, ShapeFacts DEF RefreshTooLate, TypeOK
    <3> QED
      BY <2>4, <3>1 DEF RefreshTooLate, TypeOK, dbVars, extVars, bookVars
  <2> QED
    BY <1>2, <2>2, <2>3, <2>4
<1> QED
  BY <1>1, <1>2 DEF AnswerOf

LEMMA PostHasTypes ==
    ASSUME TypeOK, NEW h \in Handlers, handlers[h].run \in Runs, PostTest(h)
    PROVE  TypeOK'
<1>1. handlers' \in [Handlers -> Handler] /\ outcomes' \in [Runs -> Nat]
  BY ShapeFacts DEF PostTest, TypeOK
<1>2. /\ apps' \in [Apps -> Revisions \cup {None}] /\ latest' \in [Apps -> Runs \cup {None}]
      /\ builds' \in [Runs -> {"none", "building", "success", "failed", "canceled", "purged"}]
  BY ShapeFacts, TeardownHasTypes DEF PostTest
<1> QED
  BY <1>1, <1>2 DEF PostTest, TypeOK, dbVars

\* A run is stopped, or its pull request closed.
LEMMA RetireHasTypes ==
    ASSUME TypeOK, NEW r \in Runs, NEW was, Retire(r, was)
    PROVE  runs' \in [Runs -> Run]
<1>1. CASE was.status = "success" /\ was.kind = "deploy"
  BY <1>1, RunStatus, StatusesAre, TypeParts DEF Retire
<1>2. CASE ~(was.status = "success" /\ was.kind = "deploy")
  <2>1. PICK m \in 0..1 : m = IF was.begun THEN 1 ELSE 0
    OBVIOUS
  <2> QED
    BY <1>2, <2>1, RunCanceled, TypeParts DEF Retire
<1> QED
  BY <1>1, <1>2

LEMMA StopHasTypes ==
    ASSUME TypeOK, NEW h \in Handlers,
           \/ (\E r \in Runs : Stop(h, r)) \/ ClosePull(h)
           \/ handlers[h].run \in Runs /\ (TornDown(h) \/ TeardownFails(h))
    PROVE  TypeOK'
<1>1. \A r \in Runs, op \in {"stop", "close"} :
          [Idle EXCEPT !.op = op, !.run = r, !.was = Held(r)] \in Handler
  BY ReadFacts, HandlerWaits
<1>2. ASSUME NEW r \in Runs, Stop(h, r) PROVE TypeOK'
  <2>1. runs' \in [Runs -> Run] /\ handlers' \in [Handlers -> Handler]
    BY <1>1, <1>2, RetireHasTypes, TypeParts DEF Stop
  <2> QED
    BY <1>2, <2>1 DEF Stop, TypeOK, extVars, bookVars
<1>3. CASE ClosePull(h)
  <2>1. handlers' \in [Handlers -> Handler]
    BY <1>1, <1>3 DEF ClosePull, TypeOK
  <2> QED
    BY <1>3, <2>1 DEF ClosePull, TypeOK, dbVars, extVars, bookVars
<1>4. ASSUME handlers[h].run \in Runs, TornDown(h) \/ TeardownFails(h) PROVE TypeOK'
  <2>1. runs' \in [Runs -> Run] /\ handlers' \in [Handlers -> Handler]
    <3>1. runs' = runs \/ Retire(handlers[h].run, handlers[h].was)
      BY <1>4 DEF TornDown, TeardownFails
    <3>2. runs' \in [Runs -> Run]
      <4>1. PICK r \in Runs, was \in Run : r = handlers[h].run /\ was = handlers[h].was
        BY <1>4, TypeParts
      <4> QED
        BY <3>1, <4>1, RetireHasTypes, TypeParts
    <3> QED
      BY <1>4, <3>2, ShapeFacts, TypeParts DEF TornDown, TeardownFails
  <2>2. /\ apps' \in [Apps -> Revisions \cup {None}] /\ latest' \in [Apps -> Runs \cup {None}]
        /\ builds' \in [Runs -> {"none", "building", "success", "failed", "canceled", "purged"}]
    BY <1>4, ShapeFacts, TeardownHasTypes DEF TornDown, TeardownFails
  <2> QED
    BY <1>4, <2>1, <2>2 DEF TornDown, TeardownFails, TypeOK, bookVars
<1> QED
  BY <1>2, <1>3, <1>4

\* A decision is recorded.
LEMMA RecordedHasTypes ==
    ASSUME TypeOK, NEW h \in Handlers, handlers[h].run \in Runs, handlers[h].by \in People,
           NEW verdict \in Verdicts, NEW seen
    PROVE  Recorded(h, verdict, seen) \in [Runs -> Seq(DecisionOf)]
<1>1. repo.rev \in Revisions /\ decisions \in [Runs -> Seq(DecisionOf)]
  BY DEF TypeOK
<1>2. [verdict |-> verdict, by |-> handlers[h].by, payload |-> repo.rev] \in DecisionOf
  BY <1>1 DEF DecisionOf
<1> QED
  BY <1>1, <1>2 DEF Recorded

\* People decide, or do not.
LEMMA DecideHasTypes ==
    ASSUME TypeOK, NEW h \in Handlers,
           \/ \E r \in Runs, u \in People : Review(h, r, u)
           \/ handlers[h].run \in Runs /\ handlers[h].by \in People /\ Decide(h)
           \/ RefuseReview(h)
    PROVE  TypeOK'
<1>1. ASSUME NEW r \in Runs, NEW u \in People, Review(h, r, u) PROVE TypeOK'
  <2>1. handlers' \in [Handlers -> Handler]
    BY <1>1, ReadFacts, HandlerDecides, TypeParts DEF Review
  <2> QED
    BY <1>1, <2>1 DEF Review, TypeOK, dbVars, extVars, bookVars
<1>2. CASE RefuseReview(h)
  <2>1. handlers' \in [Handlers -> Handler]
    BY <1>2, ShapeFacts, TypeParts DEF RefuseReview
  <2> QED
    BY <1>2, <2>1 DEF RefuseReview, TypeOK, dbVars, extVars, bookVars
<1>3. ASSUME handlers[h].run \in Runs, handlers[h].by \in People,
             NEW seen \in Hashes, Approve(h, seen) \/ Reject(h, seen)
      PROVE  TypeOK'
  <2>1. PICK verdict \in Verdicts : decisions' = Recorded(h, verdict, seen)
    BY <1>3 DEF Approve, Reject, Verdicts
  <2>2. decisions' \in [Runs -> Seq(DecisionOf)]
    BY <1>3, <2>1, RecordedHasTypes
  <2>3. PICK r \in Runs : r = handlers[h].run
    BY <1>3
  <2>4. /\ \/ runs' = runs
           \/ runs' = [runs EXCEPT ![r] = [runs[r] EXCEPT !.status = "queued"]]
           \/ runs' = [runs EXCEPT ![r] = [runs[r] EXCEPT !.status = "rejected"]]
        /\ started' = started \/ started' = [started EXCEPT ![r] = repo.rev]
        /\ handlers' = [handlers EXCEPT ![h] = StartCall(r)] \/ handlers' = [handlers EXCEPT ![h] = Idle]
    BY <1>3, <2>3 DEF Approve, Reject, bookVars
  <2>5. runs' \in [Runs -> Run]
    <3>1. [runs[r] EXCEPT !.status = "queued"] \in Run /\ [runs[r] EXCEPT !.status = "rejected"] \in Run
      <4>1. runs[r] \in Run
        BY TypeParts
      <4> QED
        BY <4>1, RunStatus, StatusesAre
    <3> QED
      BY <2>4, <3>1, TypeParts
  <2>6. handlers' \in [Handlers -> Handler]
    BY <2>4, ShapeFacts, TypeParts
  <2>7. started' \in [Runs -> Revisions \cup {None}]
    BY <2>4 DEF TypeOK
  <2> QED
    BY <1>3, <2>2, <2>5, <2>6, <2>7 DEF Approve, Reject, TypeOK, extVars, bookVars
<1> QED
  BY <1>1, <1>2, <1>3 DEF Decide

\* Settings change.  The revision of the link counts edits.
LEMMA EditHasTypes ==
    ASSUME TypeOK, repo.rev <= edits, Edit
    PROVE  TypeOK' /\ repo'.rev <= edits'
<1>1. edits' \in 0..MaxEdits /\ edits' = edits + 1
  BY DevRunsAssumption DEF Edit, TypeOK
<1>2. /\ repo \in [rev : Revisions, enabled : BOOLEAN, needApproval : BOOLEAN]
      /\ edits \in 0..MaxEdits
  BY DEF TypeOK
<1>3. repo' \in [rev : Revisions, enabled : BOOLEAN, needApproval : BOOLEAN] /\ repo'.rev <= edits'
  <2>1. CASE repo' = [repo EXCEPT !.rev = @ + 1]
    BY <1>1, <1>2, <2>1, DevRunsAssumption DEF Revisions
  <2>2. CASE repo' = [repo EXCEPT !.enabled = ~@]
    <3>1. PICK b \in BOOLEAN : b = ~repo.enabled
      OBVIOUS
    <3>2. repo' = [repo EXCEPT !.enabled = b]
      BY <2>2, <3>1
    <3> QED
      BY <1>1, <1>2, <3>2 DEF Revisions
  <2>3. CASE repo' = [repo EXCEPT !.needApproval = ~@]
    <3>1. PICK b \in BOOLEAN : b = ~repo.needApproval
      OBVIOUS
    <3>2. repo' = [repo EXCEPT !.needApproval = b]
      BY <2>3, <3>1
    <3> QED
      BY <1>1, <1>2, <3>2 DEF Revisions
  <2>4. CASE repo' = repo
    BY <1>1, <1>2, <2>4 DEF Revisions
  <2> QED
    BY <2>1, <2>2, <2>3, <2>4 DEF Edit
<1>4. tier' \in 1..3
  BY DEF Edit, TypeOK
<1>5. paused' \in BOOLEAN /\ lowered' \in BOOLEAN
  BY ZenonT(30) DEF Edit, TypeOK
<1> QED
  BY <1>1, <1>3, <1>4, <1>5 DEF Edit, TypeOK, extVars

\* A handler that waits has a run, and a review a reviewer.
HandlersHold ==
    \A h \in Handlers :
        /\ handlers[h].op # "idle" => handlers[h].run \in Runs
        /\ handlers[h].op = "decide" => handlers[h].by \in People

LEMMA CrashHasTypes ==
    ASSUME TypeOK, Crash, HandlersHold
    PROVE  TypeOK'
<1>1. handlers' \in [Handlers -> Handler]
  BY ShapeFacts DEF Crash
<1>2. runs' \in [Runs -> Run]
  <2>1. ASSUME NEW h \in Handlers, handlers[h].op = "refresh", NEW answer \in Answers(h),
               Outcome(handlers[h].run, answer) # "open"
        PROVE  Settle(h, answer) \in [Runs -> Run]
    <3>0. handlers[h].run \in Runs
      BY <2>1 DEF HandlersHold
    <3>1. PICK r \in Runs : r = handlers[h].run
      BY <3>0
    <3>2. Outcome(r, answer) \in Statuses
      BY <2>1, <3>1, OutcomeFacts, StatusesAre
    <3>3. Handle(h, answer) \in Runs \cup {None}
      <4>1. runs[r].ref \in Runs \cup {None}
        BY TypeParts DEF Run
      <4>2. Deploy(h) \in Runs \cup {None}
        BY <3>1, ShapeFacts, TypeParts DEF Deploy
      <4> QED
        BY <3>1, <4>1, <4>2 DEF Handle
    <3>4. Settle(h, answer) = [runs EXCEPT ![r] = [runs[r] EXCEPT
                  !.status = Outcome(r, answer), !.minutes = 1, !.ref = Handle(h, answer)]]
      BY <3>1 DEF Settle
    <3>5. [runs[r] EXCEPT !.status = Outcome(r, answer), !.minutes = 1, !.ref = Handle(h, answer)] \in Run
      BY <3>2, <3>3, RunSettled, TypeParts
    <3> QED
      BY <3>4, <3>5, TypeParts
  <2> QED
    BY <2>1, TypeParts DEF Crash
<1>3. decisions' \in [Runs -> Seq(DecisionOf)]
  <2>1. ASSUME NEW h \in Handlers, NEW verdict \in Verdicts, NEW seen \in Hashes,
               MayDecide(h, verdict, seen)
        PROVE  Recorded(h, verdict, seen) \in [Runs -> Seq(DecisionOf)]
    <3>1. handlers[h].run \in Runs /\ handlers[h].by \in People
      BY <2>1 DEF MayDecide, HandlersHold
    <3> QED
      BY <3>1, RecordedHasTypes
  <2>2. decisions \in [Runs -> Seq(DecisionOf)]
    BY DEF TypeOK
  <2> QED
    BY <2>1, <2>2 DEF Crash
<1>4. crashes' \in 0..MaxCrashes
  BY DevRunsAssumption DEF Crash, TypeOK
<1> QED
  BY <1>1, <1>2, <1>3, <1>4 DEF Crash, TypeOK, extVars

-----------------------------------------------------------------------------
(***************************************************************************)
(* The inductive invariant.                                                *)
(***************************************************************************)

Waits(r) == runs[r].status \in Parked

\* What holds of a run: nothing before it is asked for; while it waits for a person it
\* is of an agent and was not sent; and the properties that are about one run.
RunFits(r) ==
    /\ runs[r].status = "none" =>
          /\ runs[r] = NoRun /\ decisions[r] = <<>>
          /\ started[r] = None /\ r \notin asked /\ r \notin late /\ outcomes[r] = 0
    /\ Waits(r) => r \in asked /\ r \notin late /\ started[r] = None /\ ~runs[r].begun
    /\ r \in asked => runs[r].asker \in People
    /\ Len(decisions[r]) <= 1
    /\ decisions[r] # <<>> /\ Waits(r) => crashes > 0 \/ lowered

\* What holds of a handler that waits.  A run that was left alone, or that has begun,
\* does not come to wait for a person, so what a handler read of it stays true.
HandlerFits(h) ==
    LET r == handlers[h].run
    IN  /\ handlers[h].op # "idle" => r \in Runs /\ runs[r].status # "none"
        /\ handlers[h].op = "start" => ~Waits(r) /\ r \notin late
        /\ handlers[h].op \in {"stop", "close"} /\ handlers[h].was.begun => ~Waits(r)
        /\ handlers[h].op = "decide" =>
              /\ r \in asked
              /\ handlers[h].by \in People /\ handlers[h].was.asker = runs[r].asker

\* One start of a run is under way at most.
StartsApart ==
    \A g, h \in Handlers :
        handlers[g].op = "start" /\ handlers[h].op = "start" /\ handlers[g].run = handlers[h].run => g = h

BookFits ==
    /\ repo.rev <= edits
    /\ tier < 3 => lowered
    /\ newest # None => runs[newest].status # "none"

Inv ==
    /\ TypeOK
    /\ BookFits
    /\ StartsApart
    /\ \A r \in Runs : RunFits(r)
    /\ \A h \in Handlers : HandlerFits(h)

LEMMA InitFits == Init => Inv
<1> SUFFICES ASSUME Init PROVE Inv
  OBVIOUS
<1>1. TypeOK
  BY InitHasTypes
<1>2. BookFits /\ StartsApart
  BY DevRunsAssumption DEF Init, BookFits, StartsApart, Idle
<1>3. \A r \in Runs : RunFits(r)
  BY DEF Init, RunFits, Waits, NoRun, Parked
<1>4. \A h \in Handlers : HandlerFits(h)
  BY DEF Init, HandlerFits, Idle
<1> QED
  BY <1>1, <1>2, <1>3, <1>4 DEF Inv

\* A handler that waits has a run and, a review, a reviewer.
LEMMA WaitingHasRun ==
    ASSUME Inv
    PROVE  HandlersHold
BY DEF Inv, HandlerFits, HandlersHold

LEMMA NextHasTypes == ASSUME Inv, Next PROVE TypeOK'
<1> USE DEF HandlersHold
<1>1. TypeOK /\ HandlersHold /\ repo.rev <= edits
  BY WaitingHasRun DEF Inv, BookFits
<1>2. ASSUME NEW h \in Handlers, NEW r \in Runs,
             \/ \E u \in Owners \cup {None}, kind \in Kinds : RequestRun(h, r, u, kind)
             \/ \E u \in People : Review(h, r, u)
             \/ Refresh(h, r)
             \/ Stop(h, r)
      PROVE  TypeOK'
  BY <1>1, <1>2, RequestHasTypes, DecideHasTypes, RefreshHasTypes, StopHasTypes
<1>3. ASSUME NEW h \in Handlers, ProviderAccepts(h) \/ ClosePull(h) PROVE TypeOK'
  BY <1>1, <1>3, ProviderHasTypes, StopHasTypes DEF ProviderAccepts
<1>4. ASSUME NEW h \in Handlers, StartAnswers(h) \/ StartFails(h) PROVE TypeOK'
  BY <1>1, <1>4, StartHasTypes DEF StartAnswers, StartFails
<1>5. ASSUME NEW h \in Handlers, AnswerOf(h) PROVE TypeOK'
  BY <1>1, <1>5, RefreshHasTypes DEF AnswerOf
<1>6. ASSUME NEW h \in Handlers, PostTest(h) PROVE TypeOK'
  BY <1>1, <1>6, PostHasTypes DEF PostTest
<1>7. ASSUME NEW h \in Handlers, TornDown(h) \/ TeardownFails(h) PROVE TypeOK'
  BY <1>1, <1>7, StopHasTypes DEF TornDown, TeardownFails
<1>8. ASSUME NEW h \in Handlers, Decide(h) \/ RefuseReview(h) PROVE TypeOK'
  <2>1. handlers[h].op = "decide"
    BY <1>8 DEF Decide, Approve, Reject, MayDecide, RefuseReview
  <2> QED
    BY <1>1, <1>8, <2>1, DecideHasTypes
<1>9. ASSUME NEW r \in Runs, Age(r) \/ \E result \in {"success", "failed", "canceled"} : Build(r, result)
      PROVE  TypeOK'
  BY <1>1, <1>9, ProviderHasTypes
<1>10. CASE Edit \/ Crash
  BY <1>1, <1>10, EditHasTypes, CrashHasTypes
<1> QED
  BY <1>2, <1>3, <1>4, <1>5, <1>6, <1>7, <1>8, <1>9, <1>10 DEF Next, WaitEnds

-----------------------------------------------------------------------------
(***************************************************************************)
(* What a step does to a run.                                              *)
(***************************************************************************)

\* Nothing that RunFits looks at changes.
Keeps(r) ==
    /\ runs'[r].status = runs[r].status /\ runs'[r].asker = runs[r].asker
    /\ runs'[r].begun = runs[r].begun
    /\ runs[r].status = "none" => runs'[r] = runs[r] /\ outcomes'[r] = outcomes[r]
    /\ decisions'[r] = decisions[r] /\ started'[r] = started[r]
    /\ (r \in asked') = (r \in asked) /\ (r \in late') = (r \in late)

\* The run is no longer, or still not, one that waits for a person.
Moves(r) ==
    /\ runs'[r].status \notin Parked \cup {"none"} /\ runs'[r].asker = runs[r].asker
    /\ Len(decisions'[r]) <= 1
    /\ (r \in asked') = (r \in asked)

\* The run is decided on and stays where it is.
Rests(r) ==
    /\ runs'[r] = runs[r] /\ runs[r].status # "none"
    /\ Len(decisions'[r]) <= 1
    /\ started'[r] = started[r] /\ (r \in asked') = (r \in asked) /\ (r \in late') = (r \in late)
    /\ Waits(r) => crashes' > 0 \/ lowered'

Later == (crashes > 0 => crashes' > 0) /\ (lowered => lowered')

LEMMA RunsFit ==
    ASSUME NEW r \in Runs, RunFits(r), Later, Keeps(r) \/ Moves(r) \/ Rests(r)
    PROVE  RunFits(r)'
<1>1. CASE Keeps(r)
  BY <1>1 DEF RunFits, Keeps, Later, Waits
<1>2. CASE Moves(r)
  BY <1>2 DEF RunFits, Moves, Waits
<1>3. CASE Rests(r)
  BY <1>3 DEF RunFits, Rests, Waits
<1> QED
  BY <1>1, <1>2, <1>3

\* What handlers rely on.
Stays(r) ==
    /\ runs[r].status # "none" => /\ runs'[r].status # "none" /\ runs'[r].asker = runs[r].asker
                                  /\ ~Waits(r) => runs'[r].status \notin Parked
    /\ r \in asked => r \in asked'

LEMMA RunsStay ==
    ASSUME NEW r \in Runs, Keeps(r) \/ Moves(r) \/ Rests(r)
    PROVE  Stays(r)
BY DEF Keeps, Moves, Rests, Stays, Waits

LEMMA OtherFits ==
    ASSUME NEW g \in Handlers, HandlerFits(g), \A r \in Runs : Stays(r),
           handlers'[g].op = handlers[g].op, handlers'[g].run = handlers[g].run,
           handlers'[g].was = handlers[g].was, handlers'[g].by = handlers[g].by,
           handlers[g].op = "start" => handlers[g].run \notin late'
    PROVE  HandlerFits(g)'
<1>1. handlers[g].op # "idle" => handlers[g].run \in Runs /\ Stays(handlers[g].run)
  BY DEF HandlerFits
<1>2. CASE handlers[g].op = "idle"
  BY <1>2 DEF HandlerFits
<1>3. CASE handlers[g].op # "idle"
  <2>1. PICK r \in Runs : r = handlers[g].run
    BY <1>1, <1>3
  <2> QED
    BY <1>1, <1>3, <2>1 DEF HandlerFits, Stays, Waits
<1> QED
  BY <1>2, <1>3

\* No run changes its status or is billed.
Still ==
    /\ \A r \in Runs : runs'[r].status = runs[r].status /\ runs'[r].minutes = runs[r].minutes
    /\ late' = late

\* One run does.  It comes back only by an answer that overtook it, becomes active only
\* so or under the limits, and is billed only when it was active.
Alone(q) ==
    /\ \A r \in Runs \ {q} : runs'[r].status = runs[r].status /\ runs'[r].minutes = runs[r].minutes
    /\ late \subseteq late'
    /\ runs[q].status \in Over /\ runs'[q].status \in Active \cup Parked => q \in late' \ late
    /\ runs'[q].status \in Active => runs[q].status \in Active \/ RequireRunnable \/ q \in late' \ late
    /\ runs'[q].minutes > 0 => runs[q].minutes > 0 \/ runs[q].status \in Active

StepIsSafe == (\A r \in Runs : Stays(r)) /\ (Still \/ \E q \in Runs : Alone(q))

LEMMA StatusFacts ==
    /\ Parked \cap Active = {} /\ Parked \cap Over = {} /\ Active \cap Over = {}
    /\ "none" \notin Parked \cup Active \cup Over
    /\ "pending_approval" \in Parked /\ {"queued", "running"} = Active
    /\ {"success", "failed", "canceled", "rejected", "removed"} = Over
BY DEF Parked, Active, Over

\* A step of one handler.
LEMMA StepFits ==
    ASSUME Inv, TypeOK', NEW h \in Handlers, Later,
           UNCHANGED <<repo, tier, newest, lowered, edits>>,
           \A r \in Runs : Keeps(r) \/ Moves(r) \/ Rests(r),
           \A g \in Handlers \ {h} : handlers'[g] = handlers[g],
           HandlerFits(h)',
           \A r \in late' \ late : handlers[h].op = "start" /\ handlers[h].run = r,
           handlers'[h].op = "start" =>
              \/ handlers[h].op = "start" /\ handlers'[h].run = handlers[h].run
              \/ \A g \in Handlers : handlers[g].op = "start" => handlers[g].run # handlers'[h].run,
           Still \/ \E q \in Runs : Alone(q)
    PROVE  Inv' /\ StepIsSafe
<1>1. \A r \in Runs : RunFits(r)'
  BY RunsFit DEF Inv
<1>2. \A r \in Runs : Stays(r)
  BY RunsStay
<1>3. ASSUME NEW g \in Handlers \ {h} PROVE HandlerFits(g)'
  <2>1. HandlerFits(g) /\ handlers'[g] = handlers[g]
    BY DEF Inv
  <2>2. handlers[g].op = "start" => handlers[g].run \notin late'
    BY DEF Inv, StartsApart, HandlerFits
  <2> QED
    BY <1>2, <2>1, <2>2, OtherFits
<1>4. StartsApart'
  BY DEF Inv, StartsApart
<1>5. BookFits'
  BY <1>2 DEF Inv, BookFits, Stays, TypeOK
<1> QED
  BY <1>1, <1>2, <1>3, <1>4, <1>5 DEF Inv, StepIsSafe

LEMMA IdleFits ==
    ASSUME NEW h \in Handlers, handlers'[h] = Idle
    PROVE  HandlerFits(h)' /\ handlers'[h].op # "start"
BY DEF HandlerFits, Idle

\* Steps that leave all that RunFits looks at alone: a handler starts to wait, is
\* answered, or gives up; the provider works; time passes.
LEMMA QuietFits ==
    ASSUME Inv, TypeOK', NEW h \in Handlers,
           \/ ProviderAccepts(h) \/ ClosePull(h) \/ PostTest(h) \/ RefuseReview(h)
           \/ \E r \in Runs : Refresh(h, r) \/ \E u \in People : Review(h, r, u)
           \/ \E answer \in Answers(h) : RefreshTooLate(h, answer) /\ handlers[h].op = "refresh"
    PROVE  Inv' /\ StepIsSafe
<1>0. TypeOK
  BY DEF Inv
<1>1. UNCHANGED <<repo, tier, newest, lowered, edits, crashes, runs, decisions, started, asked, late>>
  BY DEF ProviderAccepts, ClosePull, PostTest, RefuseReview, Refresh, Review, RefreshTooLate,
         dbVars, bookVars
<1>2. \A r \in Runs : Keeps(r) \/ Moves(r) \/ Rests(r)
  <2> SUFFICES ASSUME NEW r \in Runs PROVE Keeps(r)
    OBVIOUS
  <2>1. outcomes'[r] = outcomes[r] \/ (handlers[h].op # "idle" /\ handlers[h].run = r)
    <3>1. CASE PostTest(h)
      <4>1. outcomes \in [Runs -> Nat]
        BY <1>0, TypeParts
      <4>2. /\ handlers[h].op = "settle"
            /\ \/ outcomes' = outcomes
               \/ outcomes' = [outcomes EXCEPT ![handlers[h].run] = outcomes[handlers[h].run] + 1]
        BY <3>1 DEF PostTest
      <4> QED
        BY <4>1, <4>2
    <3>2. CASE ~PostTest(h)
      <4>1. outcomes' = outcomes
        BY <3>2 DEF ProviderAccepts, ClosePull, RefuseReview, Refresh, Review, RefreshTooLate, bookVars
      <4> QED
        BY <4>1
    <3> QED
      BY <3>1, <3>2
  <2>2. runs[r].status = "none" => outcomes'[r] = outcomes[r]
    BY <2>1 DEF Inv, HandlerFits
  <2> QED
    BY <1>1, <2>2 DEF Keeps
<1>3. \A g \in Handlers \ {h} : handlers'[g] = handlers[g]
  BY <1>0, TypeParts DEF ProviderAccepts, ClosePull, PostTest, RefuseReview, Refresh, Review, RefreshTooLate
<1>4. /\ HandlerFits(h)'
      /\ handlers'[h].op = "start" => handlers[h].op = "start" /\ handlers'[h].run = handlers[h].run
  <2>1. CASE ProviderAccepts(h)
    <3>1. /\ handlers'[h].op = handlers[h].op /\ handlers'[h].run = handlers[h].run
          /\ handlers'[h].was = handlers[h].was /\ handlers'[h].by = handlers[h].by
      BY <2>1, TypeParts DEF ProviderAccepts, Handler
    <3>2. HandlerFits(h) /\ \A r \in Runs : Stays(r)
      BY <1>2, RunsStay DEF Inv
    <3>3. handlers[h].op = "start" => handlers[h].run \notin late'
      BY <1>1, <3>2 DEF HandlerFits
    <3> QED
      BY <3>1, <3>2, <3>3, OtherFits
  <2>2. CASE ClosePull(h)
    <3>1. newest \in Runs /\ runs[newest].status # "none" /\ RunFits(newest)
      BY <2>2 DEF ClosePull, Inv, BookFits, TypeOK
    <3>2. PICK w \in Run : w = Held(newest) /\ w.begun = runs[newest].begun
      BY <3>1, ReadFacts, ShapeFacts DEF Held, Inv, Run
    <3>3. handlers'[h] = [Idle EXCEPT !.op = "close", !.run = newest, !.was = w]
      BY <2>2, <3>2, TypeParts DEF ClosePull, Inv
    <3>4. handlers'[h].op = "close" /\ handlers'[h].run = newest /\ handlers'[h].was = w
      BY <3>3 DEF Idle
    <3> QED
      BY <1>1, <3>1, <3>2, <3>4 DEF HandlerFits, RunFits, Waits
  <2>3. CASE PostTest(h) \/ RefuseReview(h) \/ \E answer \in Answers(h) : RefreshTooLate(h, answer)
    <3>1. handlers'[h] = Idle
      BY <2>3, TypeParts DEF PostTest, RefuseReview, RefreshTooLate, Inv
    <3> QED
      BY <3>1, IdleFits
  <2>4. ASSUME NEW r \in Runs, Refresh(h, r) PROVE HandlerFits(h)' /\ handlers'[h].op # "start"
    <3>1. handlers'[h] = [Idle EXCEPT !.op = "refresh", !.run = r, !.was = [NoRun EXCEPT !.ref = runs[r].ref]]
      BY <2>4, TypeParts DEF Refresh, Inv
    <3>2. handlers'[h].op = "refresh" /\ handlers'[h].run = r
      BY <3>1 DEF Idle
    <3>3. runs'[r].status # "none"
      BY <1>1, <2>4 DEF Refresh, Polled, Active
    <3> QED
      BY <3>2, <3>3 DEF HandlerFits
  <2>5. ASSUME NEW r \in Runs, NEW u \in People, Review(h, r, u) PROVE HandlerFits(h)' /\ handlers'[h].op # "start"
    <3>1. PICK w \in Run : w = [NoRun EXCEPT !.asker = runs[r].asker] /\ w.asker = runs[r].asker
      BY ReadFacts DEF Inv, NoRun
    <3>2. handlers'[h] = [Idle EXCEPT !.op = "decide", !.run = r, !.by = u, !.was = w]
      BY <2>5, <3>1, TypeParts DEF Review, Inv
    <3>3. handlers'[h].op = "decide" /\ handlers'[h].run = r /\ handlers'[h].by = u /\ handlers'[h].was = w
      BY <3>2 DEF Idle
    <3>4. Waits(r) /\ RunFits(r)
      BY <2>5 DEF Review, Waits, Inv
    <3> QED
      BY <1>1, <3>1, <3>3, <3>4 DEF HandlerFits, RunFits, Waits, Parked
  <2> QED
    BY <2>1, <2>2, <2>3, <2>4, <2>5
<1>5. Later /\ late' \ late = {} /\ Still
  BY <1>1 DEF Later, Still
<1> QED
  BY <1>1, <1>2, <1>3, <1>4, <1>5, StepFits

\* The answer to a start is written.
LEMMA StartFits ==
    ASSUME Inv, TypeOK', NEW h \in Handlers, StartAnswers(h) \/ StartFails(h)
    PROVE  Inv' /\ StepIsSafe
<1>1. /\ UNCHANGED <<repo, tier, newest, lowered, edits, crashes, decisions, started, asked>>
      /\ late' \subseteq late \cup {handlers[h].run} /\ late \subseteq late'
  BY DEF StartAnswers, StartFails, Overtaken
<1>2. TypeOK /\ handlers[h].op = "start"
  BY DEF Inv, StartAnswers, StartFails
<1>3. PICK q \in Runs : q = handlers[h].run
  BY <1>2 DEF Inv, HandlerFits
<1>4. /\ runs'[q].status \in {"running", "failed"} /\ runs'[q].asker = runs[q].asker
      /\ runs'[q].minutes = runs[q].minutes
      /\ \A r \in Runs \ {q} : runs'[r] = runs[r]
  <2>1. runs[q] \in Run /\ runs \in [Runs -> Run]
    BY <1>2, TypeParts
  <2>2. CASE StartAnswers(h)
    <3>1. runs' = [runs EXCEPT ![q] = [runs[q] EXCEPT !.status = "running", !.ref = q, !.begun = TRUE]]
      BY <1>3, <2>2 DEF StartAnswers
    <3> QED
      BY <2>1, <3>1 DEF Run
  <2>3. CASE StartFails(h)
    <3>1. runs' = [runs EXCEPT ![q] = [runs[q] EXCEPT !.status = "failed"]]
      BY <1>3, <2>3 DEF StartFails
    <3> QED
      BY <2>1, <3>1 DEF Run
  <2> QED
    BY <2>2, <2>3
<1>5. \A r \in Runs \ {q} : outcomes'[r] = outcomes[r]
  <2>1. outcomes \in [Runs -> Nat]
    BY <1>2, TypeParts
  <2> QED
    BY <1>3, <2>1 DEF StartAnswers, StartFails
<1>6. \A r \in Runs : Keeps(r) \/ Moves(r) \/ Rests(r)
  <2>1. Moves(q)
    BY <1>1, <1>4 DEF Moves, Inv, RunFits, Parked
  <2>2. ASSUME NEW r \in Runs \ {q} PROVE Keeps(r)
    BY <1>1, <1>3, <1>4, <1>5 DEF Keeps
  <2> QED
    BY <2>1, <2>2
<1>7. handlers'[h] = Idle /\ \A g \in Handlers \ {h} : handlers'[g] = handlers[g]
  BY <1>2, TypeParts DEF StartAnswers, StartFails
<1>8. Later /\ \A r \in late' \ late : handlers[h].op = "start" /\ handlers[h].run = r
  BY <1>1, <1>2 DEF Later
<1>9. Alone(q)
  <2>1. q \notin late
    BY <1>2, <1>3 DEF Inv, HandlerFits
  <2>2. runs[q].status = "queued" \/ q \in late'
    BY <1>3 DEF StartAnswers, StartFails, Overtaken
  <2> QED
    BY <1>1, <1>4, <2>1, <2>2, StatusFacts DEF Alone
<1> QED
  BY <1>1, <1>6, <1>7, <1>8, <1>9, IdleFits, StepFits

\* A run is settled.
LEMMA SettleMoves ==
    ASSUME Inv, NEW h \in Handlers, handlers[h].op = "refresh",
           NEW answer \in Answers(h), Outcome(handlers[h].run, answer) # "open",
           runs' = Settle(h, answer)
    PROVE  \E q \in Runs :
              /\ q = handlers[h].run
              /\ runs'[q].status = Outcome(q, answer) /\ runs'[q].status \in {"success", "failed", "canceled"}
              /\ runs'[q].asker = runs[q].asker /\ runs'[q].minutes = 1
              /\ \A r \in Runs \ {q} : runs'[r] = runs[r]
<1>1. PICK q \in Runs : q = handlers[h].run
  BY DEF Inv, HandlerFits
<1>2. runs[q] \in Run /\ runs \in [Runs -> Run]
  BY TypeParts DEF Inv
<1>3. runs' = [runs EXCEPT ![q] = [runs[q] EXCEPT
                  !.status = Outcome(q, answer), !.minutes = 1, !.ref = Handle(h, answer)]]
  BY <1>1 DEF Settle
<1>4. runs'[q] = [runs[q] EXCEPT !.status = Outcome(q, answer), !.minutes = 1, !.ref = Handle(h, answer)]
  BY <1>2, <1>3
<1>5. runs'[q].status = Outcome(q, answer) /\ runs'[q].asker = runs[q].asker /\ runs'[q].minutes = 1
  BY <1>2, <1>4 DEF Run
<1>6. Outcome(q, answer) \in {"success", "failed", "canceled"}
  BY <1>1, OutcomeFacts
<1>7. \A r \in Runs \ {q} : runs'[r] = runs[r]
  BY <1>2, <1>3
<1> QED
  BY <1>1, <1>5, <1>6, <1>7

LEMMA AnswerFits ==
    ASSUME Inv, TypeOK', NEW h \in Handlers, handlers[h].op = "refresh", NEW answer \in Answers(h),
           RefreshOpen(h, answer) \/ RefreshSettles(h, answer)
    PROVE  Inv' /\ StepIsSafe
<1>0. TypeOK
  BY DEF Inv
<1>1. UNCHANGED <<repo, tier, newest, lowered, edits, crashes, decisions, started, asked, late>>
  BY DEF RefreshOpen, RefreshSettles, bookVars
<1>2. CASE RefreshOpen(h, answer)
  <2>1. PICK q \in Runs : q = handlers[h].run /\ runs[q].status # "none"
    BY DEF Inv, HandlerFits
  <2>2. /\ runs'[q].status = runs[q].status /\ runs'[q].asker = runs[q].asker
        /\ runs'[q].begun = runs[q].begun /\ runs'[q].minutes = runs[q].minutes
        /\ \A r \in Runs \ {q} : runs'[r] = runs[r]
    <3>1. runs' = runs \/ runs' = [runs EXCEPT ![q] = [runs[q] EXCEPT !.ref = Deploy(h)]]
      BY <1>2, <2>1 DEF RefreshOpen
    <3>2. runs[q] \in Run /\ runs \in [Runs -> Run]
      BY <1>0, TypeParts
    <3> QED
      BY <3>1, <3>2 DEF Run
  <2>3. outcomes' = outcomes /\ Later
    BY <1>1, <1>2 DEF RefreshOpen, bookVars, Later
  <2>4. \A r \in Runs : Keeps(r)
    BY <1>1, <2>1, <2>2, <2>3 DEF Keeps
  <2>5. handlers'[h] = Idle /\ \A g \in Handlers \ {h} : handlers'[g] = handlers[g]
    BY <1>0, <1>2, TypeParts DEF RefreshOpen
  <2>6. Still /\ late' \ late = {}
    BY <1>1, <2>2 DEF Still
  <2> QED
    BY <1>1, <2>3, <2>4, <2>5, <2>6, IdleFits, StepFits
<1>3. CASE RefreshSettles(h, answer)
  <2>1. PICK q \in Runs :
           /\ q = handlers[h].run
           /\ runs'[q].status \in {"success", "failed", "canceled"} /\ runs'[q].asker = runs[q].asker
           /\ \A r \in Runs \ {q} : runs'[r] = runs[r]
    BY <1>3, SettleMoves DEF RefreshSettles
  <2>2. \A r \in Runs \ {q} : outcomes'[r] = outcomes[r]
    <3>1. outcomes \in [Runs -> Nat]
      BY <1>0, TypeParts
    <3>2. outcomes' = outcomes \/ outcomes' = [outcomes EXCEPT ![q] = outcomes[q] + 1]
      BY <1>3, <2>1 DEF RefreshSettles
    <3> QED
      BY <3>1, <3>2
  <2>3. \A r \in Runs : Keeps(r) \/ Moves(r)
    <3>1. Moves(q)
      BY <1>1, <2>1 DEF Moves, Inv, RunFits, Parked
    <3>2. ASSUME NEW r \in Runs \ {q} PROVE Keeps(r)
      BY <1>1, <2>1, <2>2 DEF Keeps
    <3> QED
      BY <3>1, <3>2
  <2>4. /\ \A g \in Handlers \ {h} : handlers'[g] = handlers[g]
        /\ HandlerFits(h)' /\ handlers'[h].op # "start"
    <3>1. CASE runs[q].kind = "deploy"
      <4>1. handlers' = [handlers EXCEPT ![h] = Idle]
        BY <1>3, <2>1, <3>1 DEF RefreshSettles
      <4> QED
        BY <1>0, <4>1, IdleFits, TypeParts
    <3>2. CASE runs[q].kind = "test"
      <4>1. handlers' = [handlers EXCEPT ![h] = [Idle EXCEPT !.op = "settle", !.run = q,
                           !.was = [NoRun EXCEPT !.status = Outcome(q, answer)]]]
        BY <1>3, <2>1, <3>2 DEF RefreshSettles
      <4>2. /\ handlers'[h].op = "settle" /\ handlers'[h].run = q
            /\ \A g \in Handlers \ {h} : handlers'[g] = handlers[g]
        BY <1>0, <4>1, TypeParts DEF Idle
      <4> QED
        BY <2>1, <4>2 DEF HandlerFits
    <3> QED
      BY <1>3, <2>1, <3>1, <3>2 DEF RefreshSettles
  <2>5. Later /\ late' = late
    BY <1>1 DEF Later
  <2>6. Alone(q)
    <3>1. runs[q].status \in Active
      BY <1>3, <2>1 DEF RefreshSettles, MayMove
    <3> QED
      BY <1>1, <2>1, <3>1, StatusFacts DEF Alone
  <2> QED
    BY <1>1, <2>3, <2>4, <2>5, <2>6, StepFits
<1> QED
  BY <1>2, <1>3

\* A run is retired, by what was read of it.
LEMMA RetireMoves ==
    ASSUME TypeOK, NEW q \in Runs, NEW was, Retire(q, was)
    PROVE  /\ \A r \in Runs \ {q} : runs'[r] = runs[r]
           /\ \/ runs' = runs
              \/ /\ runs[q].status = "success"
                 /\ runs'[q].status = "removed" /\ runs'[q].minutes = runs[q].minutes
                 /\ runs'[q].asker = runs[q].asker
              \/ /\ runs[q].status \in Parked \cup Active
                 /\ runs'[q].status = "canceled" /\ runs'[q].minutes = (IF was.begun THEN 1 ELSE 0)
                 /\ runs'[q].asker = runs[q].asker
<1>1. runs[q] \in Run /\ runs \in [Runs -> Run]
  BY TypeParts
<1>2. \/ runs' = runs
      \/ runs[q].status = "success" /\ runs' = [runs EXCEPT ![q] = [runs[q] EXCEPT !.status = "removed"]]
      \/ /\ runs[q].status \in Parked \cup Active
         /\ runs' = [runs EXCEPT ![q] =
               [runs[q] EXCEPT !.status = "canceled", !.minutes = IF was.begun THEN 1 ELSE 0]]
  BY DEF Retire, MayMove
<1>3. \A e, m : \A x \in Run : /\ [x EXCEPT !.status = e].status = e
                             /\ [x EXCEPT !.status = e].minutes = x.minutes
                             /\ [x EXCEPT !.status = e].asker = x.asker
                             /\ [x EXCEPT !.status = e, !.minutes = m].status = e
                             /\ [x EXCEPT !.status = e, !.minutes = m].minutes = m
                             /\ [x EXCEPT !.status = e, !.minutes = m].asker = x.asker
  BY DEF Run
<1>4. CASE runs' = runs
  BY <1>4
<1>5. CASE runs[q].status = "success" /\ runs' = [runs EXCEPT ![q] = [runs[q] EXCEPT !.status = "removed"]]
  <2>1. runs'[q] = [runs[q] EXCEPT !.status = "removed"] /\ \A r \in Runs \ {q} : runs'[r] = runs[r]
    BY <1>1, <1>5
  <2> QED
    BY <1>1, <1>3, <1>5, <2>1
<1>6. CASE /\ runs[q].status \in Parked \cup Active
           /\ runs' = [runs EXCEPT ![q] =
                 [runs[q] EXCEPT !.status = "canceled", !.minutes = IF was.begun THEN 1 ELSE 0]]
  <2>1. /\ runs'[q] = [runs[q] EXCEPT !.status = "canceled", !.minutes = IF was.begun THEN 1 ELSE 0]
        /\ \A r \in Runs \ {q} : runs'[r] = runs[r]
    BY <1>1, <1>6
  <2> QED
    BY <1>1, <1>3, <1>6, <2>1
<1> QED
  BY <1>2, <1>4, <1>5, <1>6

LEMMA StopFits ==
    ASSUME Inv, TypeOK', NEW h \in Handlers,
           (\E r \in Runs : Stop(h, r)) \/ TornDown(h) \/ TeardownFails(h)
    PROVE  Inv' /\ StepIsSafe
<1>0. TypeOK
  BY DEF Inv
<1>1. /\ UNCHANGED <<repo, tier, newest, lowered, edits, crashes, decisions, started, asked, late, outcomes>>
      /\ Later
  <2>1. UNCHANGED <<repo, tier, newest, decisions>> /\ UNCHANGED bookVars
    BY DEF Stop, TornDown, TeardownFails
  <2> QED
    BY <2>1 DEF bookVars, Later
<1>2. ASSUME NEW q \in Runs, NEW was, runs[q].status # "none", runs' = runs \/ Retire(q, was),
             was.begun => ~Waits(q)
      PROVE  (\A r \in Runs : Keeps(r) \/ Moves(r)) /\ (Still \/ Alone(q))
  <2>1. CASE runs' = runs
    BY <1>1, <2>1 DEF Keeps, Still
  <2>2. CASE runs' # runs
    <3>1. /\ \A r \in Runs \ {q} : runs'[r] = runs[r]
          /\ runs'[q].status \in {"removed", "canceled"} /\ runs'[q].asker = runs[q].asker
      BY <1>0, <1>2, <2>2, RetireMoves
    <3>2. Moves(q)
      BY <1>1, <3>1 DEF Moves, Inv, RunFits, Parked
    <3>3. ASSUME NEW r \in Runs \ {q} PROVE Keeps(r)
      BY <1>1, <3>1 DEF Keeps
    <3>4. runs'[q].minutes > 0 => runs[q].minutes > 0 \/ runs[q].status \in Active
      BY <1>0, <1>2, <2>2, RetireMoves DEF Waits
    <3>5. Alone(q)
      BY <1>1, <3>1, <3>4, StatusFacts DEF Alone
    <3> QED
      BY <3>2, <3>3, <3>5
  <2> QED
    BY <2>1, <2>2
<1>3. ASSUME NEW q \in Runs, Stop(h, q) PROVE Inv' /\ StepIsSafe
  <2>1. runs[q].status # "none" /\ RunFits(q)
    BY <1>3 DEF Stop, Inv, RunFits
  <2>2. (\A r \in Runs : Keeps(r) \/ Moves(r)) /\ (Still \/ Alone(q))
    <3>1. PICK was \in Run : was = runs[q]
      BY <1>0, TypeParts
    <3>2. runs' = runs \/ (Retire(q, was) /\ Waits(q))
      BY <1>3, <3>1 DEF Stop, Waits
    <3>3. CASE runs' = runs
      BY <1>1, <3>3 DEF Keeps, Still
    <3>4. CASE Retire(q, was) /\ Waits(q)
      BY <1>2, <2>1, <3>1, <3>4 DEF RunFits
    <3> QED
      BY <3>2, <3>3, <3>4
  <2>3. CASE handlers' = handlers
    <3>1. \A r \in Runs : Stays(r)
      BY <2>2, RunsStay
    <3>2. HandlerFits(h) /\ handlers'[h] = handlers[h]
      BY <2>3 DEF Inv
    <3>3. handlers[h].op = "start" => handlers[h].run \notin late'
      BY <1>1, <3>2 DEF HandlerFits
    <3>4. HandlerFits(h)'
      BY <3>1, <3>2, <3>3, OtherFits
    <3> QED
      BY <1>1, <2>2, <2>3, <3>4, StepFits
  <2>4. CASE handlers' # handlers
    <3>1. /\ handlers' = [handlers EXCEPT ![h] = [Idle EXCEPT !.op = "stop", !.run = q, !.was = Held(q)]]
          /\ runs' = runs /\ ~Waits(q)
      BY <1>3, <2>4 DEF Stop, Waits
    <3>2. /\ handlers'[h].op = "stop" /\ handlers'[h].run = q
          /\ \A g \in Handlers \ {h} : handlers'[g] = handlers[g]
      BY <1>0, <3>1, TypeParts DEF Idle
    <3>3. HandlerFits(h)'
      BY <2>1, <3>1, <3>2 DEF HandlerFits, Waits
    <3> QED
      BY <1>1, <2>2, <3>2, <3>3, StepFits
  <2> QED
    BY <2>3, <2>4
<1>4. CASE TornDown(h) \/ TeardownFails(h)
  <2>1. PICK q \in Runs : q = handlers[h].run /\ runs[q].status # "none"
    BY <1>4 DEF TornDown, TeardownFails, Inv, HandlerFits
  <2>2. PICK was \in Run : was = handlers[h].was
    BY <1>0, TypeParts
  <2>3. runs' = runs \/ Retire(q, was)
    BY <1>4, <2>1, <2>2 DEF TornDown, TeardownFails
  <2>4. handlers'[h] = Idle /\ \A g \in Handlers \ {h} : handlers'[g] = handlers[g]
    BY <1>0, <1>4, TypeParts DEF TornDown, TeardownFails
  <2>5. was.begun => ~Waits(q)
    BY <1>4, <2>1, <2>2 DEF TornDown, TeardownFails, Inv, HandlerFits
  <2>6. (\A r \in Runs : Keeps(r) \/ Moves(r)) /\ (Still \/ Alone(q))
    BY <1>2, <2>1, <2>3, <2>5
  <2> QED
    BY <1>1, <2>4, <2>6, IdleFits, StepFits
<1> QED
  BY <1>3, <1>4

\* A decision is the first on its run.
LEMMA FirstDecision ==
    ASSUME Inv, NEW h \in Handlers, NEW verdict \in Verdicts, NEW seen, MayDecide(h, verdict, seen),
           decisions' = Recorded(h, verdict, seen)
    PROVE  \E q \in Runs, u \in People :
              /\ q = handlers[h].run /\ u = handlers[h].by /\ q \in asked /\ runs[q].status # "none"
              /\ verdict = "approved" => u # runs[q].asker
              /\ decisions[q] = <<>>
              /\ decisions' = [decisions EXCEPT ![q] =
                    Append(<<>>, [verdict |-> verdict, by |-> u, payload |-> repo.rev])]
              /\ Len(decisions'[q]) = 1 /\ decisions'[q][1].verdict = verdict
              /\ decisions'[q][1].payload = repo.rev
              /\ \A r \in Runs \ {q} : decisions'[r] = decisions[r]
<1>1. handlers[h].op = "decide" /\ HandlerFits(h)
  BY DEF MayDecide, Inv
<1>2. PICK q \in Runs, u \in People : q = handlers[h].run /\ u = handlers[h].by
  BY <1>1 DEF HandlerFits
<1>3. q \in asked /\ runs[q].status # "none" /\ handlers[h].was.asker = runs[q].asker
  BY <1>1, <1>2 DEF HandlerFits
<1>4. verdict = "approved" => u # runs[q].asker
  BY <1>2, <1>3 DEF MayDecide
<1>5. decisions \in [Runs -> Seq(DecisionOf)]
  BY DEF Inv, TypeOK
<1>6. decisions[q] = <<>>
  <2>1. decisions[q] \in Seq(DecisionOf)
    BY <1>5
  <2>2. \A i \in 1..Len(decisions[q]) : decisions[q][i].verdict \in Verdicts
    <3>1. \A i \in 1..Len(decisions[q]) : decisions[q][i] \in DecisionOf
      BY <2>1
    <3> QED
      BY <3>1 DEF DecisionOf
  <2>3. Len(decisions[q]) = 0
    BY <1>2, <2>1, <2>2 DEF MayDecide, Undecided
  <2> QED
    BY <2>1, <2>3
<1>7. decisions' = [decisions EXCEPT ![q] = Append(<<>>, [verdict |-> verdict, by |-> u, payload |-> repo.rev])]
  BY <1>2, <1>5, <1>6 DEF Recorded
<1>8. repo.rev \in Revisions
  BY DEF Inv, TypeOK
<1>9. [verdict |-> verdict, by |-> u, payload |-> repo.rev] \in DecisionOf
  BY <1>8 DEF DecisionOf
<1>10. PICK d \in DecisionOf : d = [verdict |-> verdict, by |-> u, payload |-> repo.rev]
  BY <1>9
<1>11. d.verdict = verdict /\ d.payload = repo.rev
  BY <1>10
<1>12. decisions'[q] = <<d>>
  BY <1>5, <1>7, <1>10
<1>13. Len(decisions'[q]) = 1 /\ decisions'[q][1] = d
  BY <1>12
<1>14. \A r \in Runs \ {q} : decisions'[r] = decisions[r]
  BY <1>5, <1>7
<1>15. Len(decisions'[q]) = 1 /\ decisions'[q][1].verdict = verdict /\ decisions'[q][1].payload = repo.rev
  BY <1>11, <1>13
<1> QED
  BY <1>2, <1>3, <1>4, <1>6, <1>7, <1>14, <1>15, Zenon

\* An approved run that does not start is no longer waiting, or its agent is trusted less.
LEMMA HeldBack ==
    ASSUME TypeOK, NEW q \in Runs, ~MayStart(q),
           Len(decisions'[q]) = 1, decisions'[q][1].verdict = "approved", decisions'[q][1].payload = repo.rev,
           tier < 3 => lowered, Waits(q)
    PROVE  lowered
<1>1. ApprovesPayload(decisions'[q], repo.rev)
  BY DEF ApprovesPayload
<1>2. ~TierAllows(runs[q].kind)
  BY <1>1 DEF MayStart, MayMove, Waits
<1>3. tier \in 1..3
  BY DEF TypeOK
<1> QED
  BY <1>2, <1>3 DEF TierAllows, MinTier

LEMMA DecideFits ==
    ASSUME Inv, TypeOK', NEW h \in Handlers, Decide(h)
    PROVE  Inv' /\ StepIsSafe
<1>0. TypeOK
  BY DEF Inv
<1>1. /\ UNCHANGED <<repo, tier, newest, lowered, edits, crashes, asked, late, outcomes>>
      /\ Later
  <2>1. UNCHANGED <<repo, tier, newest, lowered, edits, crashes, asked, late, outcomes>>
    BY DEF Decide, Approve, Reject, bookVars
  <2> QED
    BY <2>1 DEF Later
<1>2. ASSUME NEW seen, Approve(h, seen) PROVE Inv' /\ StepIsSafe
  <2>1. PICK q \in Runs :
           /\ q = handlers[h].run /\ runs[q].status # "none"
           /\ Len(decisions'[q]) = 1 /\ decisions'[q][1].verdict = "approved"
           /\ decisions'[q][1].payload = repo.rev
           /\ \A r \in Runs \ {q} : decisions'[r] = decisions[r]
    BY <1>2, FirstDecision DEF Approve, Verdicts
  <2>0. RequireRunnable
    BY <1>2 DEF Approve, MayDecide
  <2>2. CASE MayStart(q)
    <3>1. /\ Waits(q)
          /\ runs' = [runs EXCEPT ![q] = [runs[q] EXCEPT !.status = "queued"]]
          /\ started' = [started EXCEPT ![q] = repo.rev]
          /\ handlers' = [handlers EXCEPT ![h] = StartCall(q)]
      BY <1>2, <2>1, <2>2 DEF Approve, MayStart, MayMove, Waits
    <3>2. /\ runs'[q].status = "queued" /\ runs'[q].asker = runs[q].asker
          /\ runs'[q].minutes = runs[q].minutes
          /\ \A r \in Runs \ {q} : runs'[r] = runs[r]
      <4>1. runs[q] \in Run /\ runs \in [Runs -> Run]
        BY <1>0, TypeParts
      <4> QED
        BY <3>1, <4>1 DEF Run
    <3>3. \A r \in Runs \ {q} : started'[r] = started[r]
      BY <1>0, <3>1 DEF TypeOK
    <3>4. \A r \in Runs : Keeps(r) \/ Moves(r)
      <4>1. Moves(q)
        BY <1>1, <2>1, <3>2 DEF Moves, Parked
      <4>2. ASSUME NEW r \in Runs \ {q} PROVE Keeps(r)
        BY <1>1, <2>1, <3>2, <3>3 DEF Keeps
      <4> QED
        BY <4>1, <4>2
    <3>5. /\ handlers'[h].op = "start" /\ handlers'[h].run = q
          /\ \A g \in Handlers \ {h} : handlers'[g] = handlers[g]
      BY <1>0, <3>1, TypeParts DEF StartCall, Idle
    <3>6. q \notin late /\ \A g \in Handlers : handlers[g].op = "start" => handlers[g].run # q
      BY <3>1 DEF Inv, RunFits, HandlerFits
    <3>7. HandlerFits(h)'
      BY <1>1, <3>2, <3>5, <3>6 DEF HandlerFits, Waits, Parked
    <3>8. Alone(q)
      BY <1>1, <2>0, <3>1, <3>2, StatusFacts DEF Alone, Waits
    <3> QED
      BY <1>1, <3>4, <3>5, <3>6, <3>7, <3>8, StepFits
  <2>3. CASE ~MayStart(q)
    <3>1. runs' = runs /\ started' = started /\ handlers' = [handlers EXCEPT ![h] = Idle]
      BY <1>2, <2>1, <2>3 DEF Approve
    <3>2. \A r \in Runs : Keeps(r) \/ Rests(r)
      <4>1. Rests(q)
        BY <1>0, <1>1, <2>1, <2>3, <3>1, HeldBack DEF Rests, Inv, BookFits
      <4>2. ASSUME NEW r \in Runs \ {q} PROVE Keeps(r)
        BY <1>1, <2>1, <3>1 DEF Keeps
      <4> QED
        BY <4>1, <4>2
    <3>3. handlers'[h] = Idle /\ \A g \in Handlers \ {h} : handlers'[g] = handlers[g]
      BY <1>0, <3>1, TypeParts
    <3>4. Still
      BY <1>1, <3>1 DEF Still
    <3> QED
      BY <1>1, <3>2, <3>3, <3>4, IdleFits, StepFits
  <2> QED
    BY <2>2, <2>3
<1>3. ASSUME NEW seen, Reject(h, seen) PROVE Inv' /\ StepIsSafe
  <2>1. PICK q \in Runs :
           /\ q = handlers[h].run /\ runs[q].status # "none"
           /\ Len(decisions'[q]) = 1
           /\ \A r \in Runs \ {q} : decisions'[r] = decisions[r]
    BY <1>3, FirstDecision DEF Reject, Verdicts
  <2>2. started' = started /\ handlers' = [handlers EXCEPT ![h] = Idle]
    BY <1>3 DEF Reject, bookVars
  <2>3. /\ runs'[q].asker = runs[q].asker /\ runs'[q].minutes = runs[q].minutes
        /\ \/ ~Waits(q) /\ runs' = runs
           \/ runs'[q].status = "rejected"
        /\ \A r \in Runs \ {q} : runs'[r] = runs[r]
    <3>1. runs[q] \in Run /\ runs \in [Runs -> Run]
      BY <1>0, TypeParts
    <3>2. \/ ~Waits(q) /\ runs' = runs
          \/ runs' = [runs EXCEPT ![q] = [runs[q] EXCEPT !.status = "rejected"]]
      BY <1>3, <2>1 DEF Reject, MayMove, Waits
    <3> QED
      BY <3>1, <3>2 DEF Run
  <2>4. \A r \in Runs : Keeps(r) \/ Moves(r) \/ Rests(r)
    <3>1. Moves(q)
      BY <1>1, <2>1, <2>3 DEF Moves, Parked, Waits
    <3>2. ASSUME NEW r \in Runs \ {q} PROVE Keeps(r)
      BY <1>1, <2>1, <2>2, <2>3 DEF Keeps
    <3> QED
      BY <3>1, <3>2
  <2>5. handlers'[h] = Idle /\ \A g \in Handlers \ {h} : handlers'[g] = handlers[g]
    BY <1>0, <2>2, TypeParts
  <2>6. Still \/ Alone(q)
    BY <1>1, <2>3, StatusFacts DEF Alone, Still
  <2> QED
    BY <1>1, <2>4, <2>5, <2>6, IdleFits, StepFits
<1> QED
  BY <1>2, <1>3 DEF Decide

\* A run is asked for.
LEMMA RequestFits ==
    ASSUME Inv, TypeOK', NEW h \in Handlers, NEW q \in Runs, NEW u \in Owners \cup {None},
           NEW kind \in Kinds, RequestRun(h, q, u, kind)
    PROVE  Inv' /\ StepIsSafe
<1>0. TypeOK /\ runs[q].status = "none" /\ RunFits(q)
  BY DEF Inv, RequestRun, NoRun
<1>1. /\ UNCHANGED <<repo, tier, lowered, edits, crashes, decisions, late, outcomes>>
      /\ newest' \in {newest, q}
      /\ asked' \subseteq asked \cup {q} /\ asked \subseteq asked'
  BY DEF RequestRun
<1>2. Later
  BY <1>1 DEF Later
<1>3. decisions[q] = <<>> /\ q \notin asked /\ q \notin late /\ started[q] = None
  BY <1>0 DEF RunFits
<1>4. handlers \in [Handlers -> Handler]
  BY <1>0, TypeParts
<1>5. /\ runs'[q].asker = u /\ ~runs'[q].begun /\ runs'[q].minutes = 0
      /\ \A r \in Runs \ {q} : runs'[r] = runs[r] /\ started'[r] = started[r]
  BY <1>0 DEF RequestRun, TypeOK, NoRun
<1>6. \/ /\ runs'[q].status = "pending_approval" /\ u \in People /\ asked' = asked \cup {q}
         /\ handlers' = handlers /\ started' = started
      \/ /\ runs'[q].status = "queued" /\ asked' = asked
         /\ handlers' = [handlers EXCEPT ![h] = StartCall(q)]
  <2>1. CASE u # None /\ repo.needApproval
    <3>1. runs' = [runs EXCEPT ![q] = [NoRun EXCEPT !.status = "pending_approval", !.kind = kind, !.asker = u]]
      BY <2>1 DEF RequestRun
    <3>2. runs'[q].status = "pending_approval"
      BY <1>0, <3>1 DEF TypeOK, NoRun
    <3> QED
      BY <2>1, <3>2, DevRunsAssumption DEF RequestRun
  <2>2. CASE ~(u # None /\ repo.needApproval)
    <3>1. runs' = [runs EXCEPT ![q] = [NoRun EXCEPT !.status = "queued", !.kind = kind, !.asker = u]]
      BY <2>2 DEF RequestRun
    <3>2. runs'[q].status = "queued"
      BY <1>0, <3>1 DEF TypeOK, NoRun
    <3> QED
      BY <2>2, <3>2 DEF RequestRun
  <2> QED
    BY <2>1, <2>2
<1>7. ASSUME NEW r \in Runs \ {q} PROVE Keeps(r)
  BY <1>1, <1>5, <1>6 DEF Keeps
<1>8. \A r \in Runs : RunFits(r)'
  <2>1. RunFits(q)'
    BY <1>1, <1>3, <1>5, <1>6 DEF RunFits, Waits, Parked
  <2> QED
    BY <1>2, <1>7, <2>1, RunsFit DEF Inv
<1>9. \A r \in Runs : Stays(r)
  <2>1. Stays(q)
    BY <1>0, <1>1 DEF Stays
  <2> QED
    BY <1>7, <2>1, RunsStay
<1>10. BookFits'
  BY <1>0, <1>1, <1>6, <1>9 DEF Inv, BookFits, Stays, TypeOK
<1>11. ASSUME NEW g \in Handlers, handlers'[g] = handlers[g] PROVE HandlerFits(g)'
  <2>1. HandlerFits(g) /\ (handlers[g].op = "start" => handlers[g].run \notin late')
    BY <1>1 DEF Inv, HandlerFits
  <2> QED
    BY <1>9, <1>11, <2>1, OtherFits
<1>12. StartsApart' /\ \A g \in Handlers : HandlerFits(g)'
  <2>1. CASE handlers' = handlers
    BY <1>11, <2>1 DEF Inv, StartsApart
  <2>2. CASE runs'[q].status = "queued" /\ handlers' = [handlers EXCEPT ![h] = StartCall(q)]
    <3>1. /\ handlers'[h].op = "start" /\ handlers'[h].run = q
          /\ \A g \in Handlers \ {h} : handlers'[g] = handlers[g]
      BY <1>4, <2>2 DEF StartCall, Idle
    <3>2. HandlerFits(h)'
      BY <1>1, <1>3, <2>2, <3>1 DEF HandlerFits, Waits, Parked
    <3>3. \A g \in Handlers : handlers[g].op = "start" => handlers[g].run # q
      BY <1>0 DEF Inv, HandlerFits
    <3>4. StartsApart'
      BY <3>1, <3>3 DEF Inv, StartsApart
    <3> QED
      BY <1>11, <3>1, <3>2, <3>4
  <2> QED
    BY <1>6, <2>1, <2>2
<1>13. Alone(q)
  BY <1>0, <1>1, <1>5, StatusFacts DEF Alone, RequestRun
<1> QED
  BY <1>8, <1>9, <1>10, <1>12, <1>13 DEF Inv, StepIsSafe

\* The trust of the space is remembered.
LEMMA EditRemembers ==
    ASSUME Edit, tier < 3 => lowered
    PROVE  (lowered => lowered') /\ (tier' < 3 => lowered')
<1>1. CASE UNCHANGED <<tier, lowered>>
  BY <1>1
<1>2. ASSUME NEW t \in 1..3, tier' = t, lowered' = (lowered \/ t < 3)
      PROVE  (lowered => lowered') /\ (tier' < 3 => lowered')
  BY <1>2, Zenon
<1> QED
  BY <1>1, <1>2 DEF Edit

\* Settings change, the provider works, time passes.
LEMMA WorldFits ==
    ASSUME Inv, TypeOK', Edit \/ \E r \in Runs : Age(r) \/ \E result : Build(r, result)
    PROVE  Inv' /\ StepIsSafe
<1>1. UNCHANGED <<runs, decisions, newest, handlers, asked, started, outcomes, late, crashes>> /\ Later
  <2>1. CASE Edit
    <3>1. lowered => lowered'
      BY <2>1, EditRemembers DEF Inv, BookFits
    <3> QED
      BY <2>1, <3>1 DEF Edit, Later
  <2>2. ASSUME NEW r \in Runs, Age(r) \/ \E result : Build(r, result)
        PROVE UNCHANGED <<runs, decisions, newest, handlers, asked, started, outcomes, late, crashes>> /\ Later
    BY <2>2 DEF Age, Build, dbVars, bookVars, Later
  <2> QED
    BY <2>1, <2>2
<1>2. BookFits'
  <2>1. CASE Edit
    <3>1. repo'.rev <= edits'
      BY <2>1, EditHasTypes DEF Inv, BookFits
    <3>2. tier' < 3 => lowered'
      BY <2>1, EditRemembers DEF Inv, BookFits
    <3> QED
      BY <1>1, <3>1, <3>2 DEF Inv, BookFits
  <2>2. ASSUME NEW r \in Runs, Age(r) \/ \E result : Build(r, result) PROVE BookFits'
    BY <1>1, <2>2 DEF Age, Build, dbVars, bookVars, Inv, BookFits
  <2> QED
    BY <2>1, <2>2
<1>3. \A r \in Runs : Keeps(r)
  BY <1>1 DEF Keeps
<1>4. \A r \in Runs : RunFits(r)'
  BY <1>1, <1>3, RunsFit DEF Inv
<1>5. ASSUME NEW g \in Handlers PROVE HandlerFits(g)'
  <2>1. HandlerFits(g) /\ (handlers[g].op = "start" => handlers[g].run \notin late')
    BY <1>1 DEF Inv, HandlerFits
  <2>2. \A r \in Runs : Stays(r)
    BY <1>3, RunsStay
  <2> QED
    BY <1>1, <2>1, <2>2, OtherFits
<1>6. StartsApart'
  BY <1>1 DEF Inv, StartsApart
<1>7. Still /\ \A r \in Runs : Stays(r)
  BY <1>1, <1>3, RunsStay DEF Still
<1> QED
  BY <1>2, <1>4, <1>5, <1>6, <1>7 DEF Inv, StepIsSafe

LEMMA CrashFits ==
    ASSUME Inv, TypeOK', Crash
    PROVE  Inv' /\ StepIsSafe
<1>0. crashes \in Nat /\ crashes' = crashes + 1
  BY DEF Inv, TypeOK, Crash
<1>1. UNCHANGED <<repo, tier, newest, lowered, edits, asked, started, late, outcomes>>
  BY DEF Crash
<1>2. crashes' > 0 /\ Later
  BY <1>0, <1>1 DEF Later
<1>3. \A r \in Runs : Keeps(r) \/ Moves(r) \/ Rests(r)
  <2>1. CASE UNCHANGED <<runs, decisions>>
    BY <1>1, <2>1 DEF Keeps
  <2>2. ASSUME NEW h \in Handlers, NEW verdict \in Verdicts, NEW seen, MayDecide(h, verdict, seen),
               decisions' = Recorded(h, verdict, seen), UNCHANGED runs
        PROVE  \A r \in Runs : Keeps(r) \/ Rests(r)
    <3>1. PICK q \in Runs :
             /\ runs[q].status # "none" /\ Len(decisions'[q]) = 1
             /\ \A r \in Runs \ {q} : decisions'[r] = decisions[r]
      BY <2>2, FirstDecision
    <3>2. Rests(q)
      BY <1>1, <1>2, <2>2, <3>1 DEF Rests
    <3>3. ASSUME NEW r \in Runs \ {q} PROVE Keeps(r)
      BY <1>1, <2>2, <3>1 DEF Keeps
    <3> QED
      BY <3>2, <3>3
  <2>3. ASSUME NEW h \in Handlers, handlers[h].op = "refresh", NEW answer \in Answers(h),
               Outcome(handlers[h].run, answer) # "open", runs' = Settle(h, answer), UNCHANGED decisions
        PROVE  \A r \in Runs : Keeps(r) \/ Moves(r)
    <3>1. PICK q \in Runs :
             /\ runs'[q].status \in {"success", "failed", "canceled"} /\ runs'[q].asker = runs[q].asker
             /\ \A r \in Runs \ {q} : runs'[r] = runs[r]
      BY <2>3, SettleMoves
    <3>2. Moves(q)
      BY <1>1, <2>3, <3>1 DEF Moves, Inv, RunFits, Parked
    <3>3. ASSUME NEW r \in Runs \ {q} PROVE Keeps(r)
      BY <1>1, <2>3, <3>1 DEF Keeps
    <3> QED
      BY <3>2, <3>3
  <2> QED
    BY <2>1, <2>2, <2>3 DEF Crash
<1>4. \A r \in Runs : RunFits(r)'
  BY <1>2, <1>3, RunsFit DEF Inv
<1>5. handlers' = [h \in Handlers |-> Idle]
  BY DEF Crash
<1>6. (\A h \in Handlers : HandlerFits(h)') /\ StartsApart'
  BY <1>5 DEF HandlerFits, StartsApart, Idle
<1>7. BookFits'
  <2>1. \A r \in Runs : Stays(r)
    BY <1>3, RunsStay
  <2> QED
    BY <1>1, <2>1 DEF Inv, BookFits, Stays, TypeOK
<1>8. \A r \in Runs : Stays(r)
  BY <1>3, RunsStay
<1>9. Still \/ \E q \in Runs : Alone(q)
  <2>1. CASE UNCHANGED runs
    BY <1>1, <2>1 DEF Still
  <2>2. ASSUME NEW h \in Handlers, handlers[h].op = "refresh", MayMove(handlers[h].run, Active),
               NEW answer \in Answers(h), Outcome(handlers[h].run, answer) # "open", runs' = Settle(h, answer)
        PROVE  \E q \in Runs : Alone(q)
    <3>1. PICK q \in Runs :
             /\ q = handlers[h].run
             /\ runs'[q].status \in {"success", "failed", "canceled"}
             /\ \A r \in Runs \ {q} : runs'[r] = runs[r]
      BY <2>2, SettleMoves
    <3>2. runs[q].status \in Active
      BY <2>2, <3>1 DEF MayMove
    <3>3. Alone(q)
      BY <1>1, <3>1, <3>2, StatusFacts DEF Alone
    <3> QED
      BY <3>3
  <2> QED
    BY <2>1, <2>2 DEF Crash
<1> QED
  BY <1>4, <1>6, <1>7, <1>8, <1>9 DEF Inv, StepIsSafe

LEMMA StutterFits == Inv /\ UNCHANGED vars => Inv' /\ StepIsSafe
BY DEF StepIsSafe, Still, Stays, Inv, TypeOK, BookFits, StartsApart, RunFits, HandlerFits, Waits, ActiveRuns,
       vars, dbVars, extVars, bookVars

\* The invariant is inductive.
LEMMA StepKeepsInv == Inv /\ [Next]_vars => Inv' /\ StepIsSafe
<1>1. ASSUME Inv, Next PROVE Inv' /\ StepIsSafe
  <2>0. TypeOK'
    BY <1>1, NextHasTypes
  <2>1. ASSUME NEW h \in Handlers, NEW r \in Runs,
               \/ \E u \in Owners \cup {None}, kind \in Kinds : RequestRun(h, r, u, kind)
               \/ \E u \in People : Review(h, r, u)
               \/ Refresh(h, r)
               \/ Stop(h, r)
        PROVE  Inv' /\ StepIsSafe
    BY <1>1, <2>0, <2>1, RequestFits, QuietFits, StopFits
  <2>2. ASSUME NEW h \in Handlers, ProviderAccepts(h) \/ ClosePull(h) PROVE Inv' /\ StepIsSafe
    BY <1>1, <2>0, <2>2, QuietFits
  <2>3. ASSUME NEW h \in Handlers, AnswerOf(h) PROVE Inv' /\ StepIsSafe
    BY <1>1, <2>0, <2>3, AnswerFits, QuietFits DEF AnswerOf
  <2>4. ASSUME NEW h \in Handlers, WaitEnds(h), ~AnswerOf(h) PROVE Inv' /\ StepIsSafe
    BY <1>1, <2>0, <2>4, StartFits, QuietFits, StopFits, DecideFits DEF WaitEnds
  <2>5. CASE Edit \/ (\E r \in Runs : Age(r) \/ \E result : Build(r, result))
    BY <1>1, <2>0, <2>5, WorldFits
  <2>6. CASE Crash
    BY <1>1, <2>0, <2>6, CrashFits
  <2> QED
    BY <1>1, <2>1, <2>2, <2>3, <2>4, <2>5, <2>6 DEF Next
<1> QED
  BY <1>1, StutterFits

-----------------------------------------------------------------------------
(***************************************************************************)
(* The properties.                                                         *)
(***************************************************************************)

\* Every reachable state satisfies the invariant.
THEOREM Invariant == Spec => []Inv
<1>1. Inv /\ [Next]_vars => Inv'
  BY StepKeepsInv
<1> QED
  BY <1>1, InitFits, PTL DEF Spec

\* Every variable keeps its type.
THEOREM TypeCorrect == Spec => []TypeOK
<1>1. Inv => TypeOK
  BY DEF Inv
<1> QED
  BY <1>1, Invariant, PTL

\* However many reviewers look at a run at the same time, one decides on it.
THEOREM OneReviewerDecides == Spec => []OneDecisionPerRun
<1>1. Inv => OneDecisionPerRun
  BY DEF Inv, RunFits, OneDecisionPerRun
<1> QED
  BY <1>1, Invariant, PTL

\* A run that was decided on leaves the queue of approvals, unless the process died or
\* the space trusts its agents less.
THEOREM DecisionsTakeEffect == Spec => []DecidedRunsMove
<1>1. Inv => DecidedRunsMove
  BY DEF Inv, RunFits, DecidedRunsMove, Waits
<1> QED
  BY <1>1, Invariant, PTL

\* A run that is over comes back only by the answer to its start.
THEOREM OverRunsStayOver == Spec => OverStaysOver
<1> DEFINE Back == \A r \in Runs : runs[r].status \in Over /\ runs'[r].status \in Active \cup Parked
                                      => r \in late'
<1>1. ASSUME Inv, Next PROVE Back
  <2>1. Still \/ \E q \in Runs : Alone(q)
    BY <1>1, StepKeepsInv DEF StepIsSafe
  <2>2. CASE Still
    BY <2>2, StatusFacts DEF Still
  <2>3. ASSUME NEW q \in Runs, Alone(q) PROVE Back
    BY <2>3, StatusFacts DEF Alone
  <2> QED
    BY <2>1, <2>2, <2>3
<1>2. Inv /\ [Next]_vars => [Back]_vars
  BY <1>1
<1> QED
  BY <1>2, Invariant, PTL DEF Spec, OverStaysOver

-----------------------------------------------------------------------------
\* The sets the limits count are finite.
LEMMA CountsAreFinite ==
    ASSUME NEW S \in SUBSET Runs
    PROVE  IsFiniteSet(S) /\ Cardinality(S) \in Nat
BY DevRunsAssumption, FS_Subset, FS_CardinalityType

LEMMA CountsOfParts ==
    ASSUME NEW S \in SUBSET Runs, NEW T \in SUBSET S
    PROVE  Cardinality(T) <= Cardinality(S)
BY CountsAreFinite, FS_Subset

LEMMA CountsOfUnions ==
    ASSUME NEW S \in SUBSET Runs, NEW T \in SUBSET Runs
    PROVE  Cardinality(S \cup T) <= Cardinality(S) + Cardinality(T)
<1>1. IsFiniteSet(S) /\ IsFiniteSet(T) /\ Cardinality(S \cap T) \in Nat
  BY CountsAreFinite
<1>2. Cardinality(S \cup T) = Cardinality(S) + Cardinality(T) - Cardinality(S \cap T)
  BY <1>1, FS_Union
<1>3. Cardinality(S) \in Nat /\ Cardinality(T) \in Nat
  BY CountsAreFinite
<1> QED
  BY <1>1, <1>2, <1>3

\* One run more counts one more.
LEMMA CountsOneMore ==
    ASSUME NEW S \in SUBSET Runs, NEW T \in SUBSET Runs, NEW q \in Runs, T \subseteq S \cup {q}
    PROVE  Cardinality(T) <= Cardinality(S) + 1
<1>1. Cardinality(T) <= Cardinality(S \cup {q})
  BY CountsOfParts
<1>2. Cardinality(S \cup {q}) <= Cardinality(S) + Cardinality({q})
  BY CountsOfUnions
<1>3. Cardinality({q}) = 1
  BY FS_Singleton
<1>4. /\ Cardinality(T) \in Nat /\ Cardinality(S) \in Nat /\ Cardinality(S \cup {q}) \in Nat
  BY CountsAreFinite
<1> QED
  BY <1>1, <1>2, <1>3, <1>4

LEMMA StepKeepsCaps == Inv /\ CapsHold /\ [Next]_vars => CapsHold'
<1> SUFFICES ASSUME Inv, CapsHold, [Next]_vars PROVE CapsHold'
  OBVIOUS
<1> DEFINE A == ActiveRuns
           B == Billed
           C == B \cup A
<1>1. TypeOK /\ TypeOK'
  BY StepKeepsInv DEF Inv
<1>2. /\ A \in SUBSET Runs /\ A' \in SUBSET Runs /\ B \in SUBSET Runs /\ B' \in SUBSET Runs
      /\ late \in SUBSET Runs /\ late' \in SUBSET Runs
  BY <1>1 DEF ActiveRuns, Billed, TypeOK
<1>3. /\ MaxConcurrent \in Nat /\ MaxConcurrent >= 1 /\ MonthlyMinutes \in Nat
      /\ Cardinality(late) \in Nat /\ Cardinality(late') \in Nat
      /\ Cardinality(A \ late) \in Nat /\ Cardinality((A \ late)') \in Nat
      /\ Cardinality(C) \in Nat /\ Cardinality(C') \in Nat
      /\ Cardinality(A) \in Nat /\ Cardinality(B) \in Nat
  BY <1>2, DevRunsAssumption, CountsAreFinite
<1>4. CASE Still
  <2>1. (A \ late)' = A \ late /\ C' = C /\ late' = late
    BY <1>4 DEF Still, ActiveRuns, Billed
  <2> QED
    BY <2>1 DEF CapsHold
<1>5. ASSUME NEW q \in Runs, Alone(q) PROVE CapsHold'
  <2>1. /\ (A \ late)' \subseteq (A \ late) \cup {q} /\ C' \subseteq C \cup {q}
        /\ q \in (A \ late)' => q \in A \ late \/ RequireRunnable
        /\ q \in C' => q \in C \/ RequireRunnable \/ q \in late' \ late
        /\ late \subseteq late'
    BY <1>5 DEF Alone, ActiveRuns, Billed
  <2>2. RequireRunnable =>
           Cardinality(A) < MaxConcurrent /\ Cardinality(B) < MonthlyMinutes
    BY DEF RequireRunnable
  <2>3. Cardinality(A \ late) <= Cardinality(A) /\ Cardinality(C) <= Cardinality(B) + Cardinality(A)
    BY <1>2, CountsOfParts, CountsOfUnions
  <2>4. Cardinality((A \ late)') <= MaxConcurrent
    <3>1. CASE (A \ late)' \subseteq A \ late
      <4>1. Cardinality((A \ late)') <= Cardinality(A \ late)
        BY <1>2, <3>1, CountsOfParts
      <4> QED
        BY <1>3, <4>1 DEF CapsHold
    <3>2. CASE RequireRunnable
      <4>1. Cardinality((A \ late)') <= Cardinality(A \ late) + 1
        BY <1>2, <2>1, CountsOneMore
      <4> QED
        BY <1>3, <2>2, <2>3, <3>2, <4>1
    <3> QED
      BY <2>1, <3>1, <3>2
  <2>5. Cardinality(C') < MonthlyMinutes + MaxConcurrent + Cardinality(late')
    <3>1. Cardinality(late) <= Cardinality(late')
      BY <1>2, <2>1, CountsOfParts
    <3>2. CASE C' \subseteq C
      <4>1. Cardinality(C') <= Cardinality(C)
        BY <1>2, <3>2, CountsOfParts
      <4> QED
        BY <1>3, <3>1, <4>1 DEF CapsHold
    <3>3. Cardinality(C') <= Cardinality(C) + 1
      BY <1>2, <2>1, CountsOneMore
    <3>4. CASE RequireRunnable
      BY <1>3, <2>2, <2>3, <3>3, <3>4
    <3>5. CASE q \in late' \ late
      <4>1. Cardinality(late) + 1 <= Cardinality(late')
        <5>1. Cardinality(late \cup {q}) <= Cardinality(late')
          BY <1>2, <2>1, <3>5, CountsOfParts
        <5>2. Cardinality(late \cup {q}) = Cardinality(late) + 1
          BY <1>2, <3>5, CountsAreFinite, FS_AddElement
        <5> QED
          BY <5>1, <5>2
      <4> QED
        BY <1>3, <3>3, <4>1 DEF CapsHold
    <3> QED
      BY <2>1, <3>2, <3>4, <3>5
  <2> QED
    BY <2>4, <2>5 DEF CapsHold
<1> QED
  BY <1>4, <1>5, StepKeepsInv DEF StepIsSafe

\* The limits of the repository link hold.
THEOREM LimitsHold == Spec => []CapsHold
<1>1. Init => CapsHold
  <2>1. ASSUME Init PROVE CapsHold
    <3>1. ActiveRuns = {} /\ Billed = {} /\ late = {}
      BY <2>1, StatusFacts DEF Init, ActiveRuns, Billed, NoRun
    <3>2. Cardinality({}) = 0
      BY FS_EmptySet
    <3> QED
      BY <3>1, <3>2, DevRunsAssumption DEF CapsHold
  <2> QED
    BY <2>1
<1> QED
  BY <1>1, StepKeepsCaps, Invariant, PTL DEF Spec

-----------------------------------------------------------------------------
(***************************************************************************)
(* Outcomes.  What was posted of a run, what is about to be, and what may  *)
(* still come of it are one together, or two when an answer was late.      *)
(***************************************************************************)
Settling(r) == {h \in Handlers : handlers[h].op = "settle" /\ handlers[h].run = r}
ToCome(r) == IF runs[r].status \in Over THEN 0 ELSE 1
Spare(r) == IF r \in late THEN 1 ELSE 0

Tally(r) == outcomes[r] + Cardinality(Settling(r)) + ToCome(r) <= 1 + Spare(r)

LEMMA TallyParts ==
    ASSUME TypeOK, NEW r \in Runs
    PROVE  /\ outcomes[r] \in Nat /\ ToCome(r) \in 0..1 /\ Spare(r) \in 0..1
           /\ IsFiniteSet(Settling(r)) /\ Cardinality(Settling(r)) \in Nat
<1>1. IsFiniteSet(Settling(r))
  BY DevRunsAssumption, FS_Subset DEF Settling
<1>2. Cardinality(Settling(r)) \in Nat
  BY <1>1, FS_CardinalityType
<1> QED
  BY <1>1, <1>2 DEF TypeOK, ToCome, Spare

LEMMA TallyPartsAfter ==
    ASSUME TypeOK', NEW r \in Runs
    PROVE  /\ outcomes'[r] \in Nat /\ ToCome(r)' \in 0..1 /\ Spare(r)' \in 0..1
           /\ Cardinality(Settling(r)') \in Nat
<1>1. IsFiniteSet(Settling(r)')
  BY DevRunsAssumption, FS_Subset DEF Settling
<1>2. Cardinality(Settling(r)') \in Nat
  BY <1>1, FS_CardinalityType
<1> QED
  BY <1>1, <1>2 DEF TypeOK, ToCome, Spare

\* Without a late answer a run that is over stays so.
LEMMA OverIsOver ==
    ASSUME Inv, Inv', StepIsSafe, late' = late, NEW r \in Runs
    PROVE  ToCome(r)' <= ToCome(r)
<1>1. runs[r].status \in Over => runs'[r].status \in Over
  <2>1. runs'[r].status \in {"none"} \cup Parked \cup Active \cup Over
    BY TypeParts DEF Inv, TypeOK, Run
  <2>2. runs[r].status \in Over => runs'[r].status # "none"
    BY StatusFacts DEF StepIsSafe, Stays
  <2>3. runs[r].status \in Over => runs'[r].status \notin Active \cup Parked
    BY StatusFacts DEF StepIsSafe, Still, Alone
  <2> QED
    BY <2>1, <2>2, <2>3
<1> QED
  BY <1>1 DEF ToCome

LEMMA TallyStays ==
    ASSUME Inv, Inv', StepIsSafe, late' = late, NEW r \in Runs, Tally(r), outcomes'[r] = outcomes[r],
           Settling(r)' \subseteq Settling(r)
    PROVE  Tally(r)'
<1>1. ToCome(r)' <= ToCome(r)
  BY OverIsOver
<1>2. /\ IsFiniteSet(Settling(r)) /\ Cardinality(Settling(r)) \in Nat /\ Cardinality(Settling(r)') \in Nat
      /\ outcomes[r] \in Nat /\ ToCome(r) \in 0..1 /\ ToCome(r)' \in 0..1
  BY TallyParts, TallyPartsAfter DEF Inv
<1>3. Cardinality(Settling(r)') <= Cardinality(Settling(r))
  BY <1>2, FS_Subset
<1>4. Spare(r)' = Spare(r) /\ Spare(r) \in 0..1
  BY DEF Spare
<1> QED
  BY <1>1, <1>2, <1>3, <1>4 DEF Tally

\* Handlers that do not begin to settle a run.
LEMMA SettlingShrinks ==
    ASSUME NEW r \in Runs,
           \A h \in Handlers : handlers'[h].op = "settle" =>
               handlers[h].op = "settle" /\ handlers'[h].run = handlers[h].run
    PROVE  Settling(r)' \subseteq Settling(r)
BY DEF Settling

\* The answer to a start.
LEMMA StartTallies ==
    ASSUME Inv, Inv', NEW h \in Handlers, StartAnswers(h) \/ StartFails(h), NEW r \in Runs, Tally(r)
    PROVE  Tally(r)'
<1>1. PICK q \in Runs : q = handlers[h].run /\ q \notin late
  BY DEF StartAnswers, StartFails, Inv, HandlerFits
<1>2. TypeOK /\ handlers' = [handlers EXCEPT ![h] = Idle]
  BY DEF Inv, StartAnswers, StartFails
<1>3. Settling(r)' \subseteq Settling(r)
  BY <1>2, SettlingShrinks, TypeParts DEF Idle
<1>4. /\ IsFiniteSet(Settling(r)) /\ Cardinality(Settling(r)) \in Nat /\ Cardinality(Settling(r)') \in Nat
      /\ outcomes[r] \in Nat /\ ToCome(r) \in 0..1 /\ ToCome(r)' \in 0..1 /\ outcomes'[r] \in Nat
  BY TallyParts, TallyPartsAfter DEF Inv
<1>5. Cardinality(Settling(r)') <= Cardinality(Settling(r))
  BY <1>3, <1>4, FS_Subset
<1>6. /\ late' = IF runs[q].status = "queued" THEN late ELSE late \cup {q}
  BY <1>1 DEF StartAnswers, StartFails, Overtaken
<1>7. CASE r # q
  <2>1. runs'[r] = runs[r] /\ outcomes'[r] = outcomes[r]
    BY <1>1, <1>2, <1>7, TypeParts DEF StartAnswers, StartFails
  <2>2. ToCome(r)' = ToCome(r) /\ Spare(r)' = Spare(r) /\ Spare(r) \in 0..1
    BY <1>6, <1>7, <2>1 DEF ToCome, Spare
  <2> QED
    BY <1>4, <1>5, <2>1, <2>2 DEF Tally
<1>8. CASE r = q
  <2>1. Spare(r) = 0 /\ Spare(r)' = IF runs[r].status = "queued" THEN 0 ELSE 1
    BY <1>1, <1>6, <1>8 DEF Spare
  <2>2. CASE StartAnswers(h)
    <3>1. outcomes'[r] = outcomes[r]
      BY <2>2 DEF StartAnswers
    <3>2. runs[r].status = "queued" => ToCome(r) = 1
      BY StatusFacts DEF ToCome
    <3> QED
      BY <1>4, <1>5, <2>1, <3>1, <3>2 DEF Tally
  <2>3. CASE StartFails(h)
    <3>1. outcomes'[r] = outcomes[r] + 1
      <4>1. outcomes' = [outcomes EXCEPT ![r] = outcomes[r] + 1]
        BY <1>1, <1>8, <2>3 DEF StartFails
      <4> QED
        BY <1>2, <4>1, TypeParts
    <3>2. runs'[r].status = "failed"
      <4>1. runs' = [runs EXCEPT ![r] = [runs[r] EXCEPT !.status = "failed"]]
        BY <1>1, <1>8, <2>3 DEF StartFails
      <4>2. runs[r] \in Run /\ runs \in [Runs -> Run]
        BY <1>2, TypeParts
      <4> QED
        BY <4>1, <4>2 DEF Run
    <3>3. ToCome(r)' = 0
      BY <3>2, StatusFacts DEF ToCome
    <3>4. runs[r].status = "queued" => ToCome(r) = 1
      BY StatusFacts DEF ToCome
    <3> QED
      BY <1>4, <1>5, <2>1, <3>1, <3>3, <3>4 DEF Tally
  <2> QED
    BY <2>2, <2>3
<1> QED
  BY <1>7, <1>8

\* A run is settled: posted, or about to be.
LEMMA SettleTallies ==
    ASSUME Inv, Inv', StepIsSafe, NEW h \in Handlers, handlers[h].op = "refresh", NEW answer \in Answers(h),
           RefreshSettles(h, answer), NEW r \in Runs, Tally(r)
    PROVE  Tally(r)'
<1>1. PICK q \in Runs :
         /\ q = handlers[h].run /\ runs'[q].status \in {"success", "failed", "canceled"}
  BY SettleMoves DEF RefreshSettles
<1>2. TypeOK /\ late' = late /\ runs[q].status \in Active
  BY <1>1 DEF Inv, RefreshSettles, MayMove
<1>3. /\ IsFiniteSet(Settling(r)) /\ Cardinality(Settling(r)) \in Nat /\ Cardinality(Settling(r)') \in Nat
      /\ outcomes[r] \in Nat /\ ToCome(r) \in 0..1 /\ ToCome(r)' \in 0..1 /\ outcomes'[r] \in Nat
      /\ Spare(r) \in 0..1
  BY TallyParts, TallyPartsAfter DEF Inv
<1>4. Spare(r)' = Spare(r) /\ ToCome(r)' <= ToCome(r)
  BY <1>2, OverIsOver DEF Spare
<1>5. r = q => ToCome(r) = 1 /\ ToCome(r)' = 0
  BY <1>1, <1>2, StatusFacts DEF ToCome
<1>6. \/ /\ handlers' = [handlers EXCEPT ![h] = Idle]
         /\ outcomes' = outcomes \/ outcomes' = [outcomes EXCEPT ![q] = outcomes[q] + 1]
      \/ /\ handlers' = [handlers EXCEPT ![h] = [Idle EXCEPT !.op = "settle", !.run = q,
                            !.was = [NoRun EXCEPT !.status = Outcome(q, answer)]]]
         /\ outcomes' = outcomes
  BY <1>1 DEF RefreshSettles
<1>7. CASE handlers' = [handlers EXCEPT ![h] = Idle]
  <2>1. Settling(r)' \subseteq Settling(r)
    BY <1>2, <1>7, SettlingShrinks, TypeParts DEF Idle
  <2>2. Cardinality(Settling(r)') <= Cardinality(Settling(r))
    BY <1>3, <2>1, FS_Subset
  <2>3. outcomes'[r] = outcomes[r] \/ (r = q /\ outcomes'[r] = outcomes[r] + 1)
    <3>1. outcomes' = outcomes \/ outcomes' = [outcomes EXCEPT ![q] = outcomes[q] + 1]
      BY <1>6
    <3> QED
      BY <1>2, <3>1, TypeParts
  <2> QED
    BY <1>3, <1>4, <1>5, <2>2, <2>3 DEF Tally
<1>8. CASE handlers' = [handlers EXCEPT ![h] = [Idle EXCEPT !.op = "settle", !.run = q,
                            !.was = [NoRun EXCEPT !.status = Outcome(q, answer)]]]
  <2>1. /\ handlers'[h].op = "settle" /\ handlers'[h].run = q
        /\ \A g \in Handlers \ {h} : handlers'[g] = handlers[g]
    BY <1>2, <1>8, TypeParts DEF Idle
  <2>2. outcomes'[r] = outcomes[r]
    <3>1. handlers'[h] # Idle
      BY <2>1 DEF Idle
    <3>2. handlers' # [handlers EXCEPT ![h] = Idle]
      BY <1>2, <3>1, TypeParts
    <3> QED
      BY <1>6, <3>2
  <2>3. CASE r = q
    <3>1. Settling(r)' = Settling(r) \cup {h} /\ h \notin Settling(r)
      BY <2>1, <2>3 DEF Settling
    <3>2. Cardinality(Settling(r)') = Cardinality(Settling(r)) + 1
      BY <1>3, <3>1, FS_AddElement
    <3> QED
      BY <1>3, <1>4, <1>5, <2>2, <2>3, <3>2 DEF Tally
  <2>4. CASE r # q
    <3>1. Settling(r)' = Settling(r)
      BY <2>1, <2>4 DEF Settling
    <3> QED
      BY <1>3, <1>4, <2>2, <3>1 DEF Tally
  <2> QED
    BY <2>3, <2>4
<1> QED
  BY <1>6, <1>7, <1>8

\* The outcome of a test is posted.
LEMMA PostTallies ==
    ASSUME Inv, Inv', StepIsSafe, NEW h \in Handlers, PostTest(h), NEW r \in Runs, Tally(r)
    PROVE  Tally(r)'
<1>1. PICK q \in Runs : q = handlers[h].run
  BY DEF PostTest, Inv, HandlerFits
<1>2. /\ TypeOK /\ late' = late /\ runs' = runs /\ handlers[h].op = "settle"
      /\ handlers' = [handlers EXCEPT ![h] = Idle]
      /\ outcomes' = outcomes \/ outcomes' = [outcomes EXCEPT ![q] = outcomes[q] + 1]
  BY <1>1 DEF Inv, PostTest, dbVars
<1>3. /\ IsFiniteSet(Settling(r)) /\ Cardinality(Settling(r)) \in Nat /\ Cardinality(Settling(r)') \in Nat
      /\ outcomes[r] \in Nat /\ ToCome(r) \in 0..1 /\ outcomes'[r] \in Nat /\ Spare(r) \in 0..1
  BY TallyParts, TallyPartsAfter DEF Inv
<1>4. Spare(r)' = Spare(r) /\ ToCome(r)' = ToCome(r)
  BY <1>2 DEF Spare, ToCome
<1>5. handlers'[h].op = "idle" /\ \A g \in Handlers \ {h} : handlers'[g] = handlers[g]
  BY <1>2, TypeParts DEF Idle
<1>6. CASE r = q
  <2>1. Settling(r)' = Settling(r) \ {h} /\ h \in Settling(r)
    BY <1>1, <1>2, <1>5, <1>6 DEF Settling
  <2>2. Cardinality(Settling(r)') = Cardinality(Settling(r)) - 1
    BY <1>3, <2>1, FS_RemoveElement
  <2>3. outcomes'[r] <= outcomes[r] + 1
    BY <1>2, <1>3, <1>6, TypeParts
  <2> QED
    BY <1>3, <1>4, <2>2, <2>3 DEF Tally
<1>7. CASE r # q
  <2>1. outcomes'[r] = outcomes[r]
    BY <1>2, <1>7, TypeParts
  <2>2. Settling(r)' \subseteq Settling(r)
    BY <1>5 DEF Settling
  <2> QED
    BY <1>2, <2>1, <2>2, TallyStays
<1> QED
  BY <1>6, <1>7

LEMMA StepKeepsTally ==
    ASSUME Inv, [Next]_vars, NEW r \in Runs, Tally(r)
    PROVE  Tally(r)'
<1>0. Inv' /\ StepIsSafe /\ TypeOK
  BY StepKeepsInv DEF Inv
<1>1. ASSUME late' = late, outcomes' = outcomes,
             \A g \in Handlers : handlers'[g].op = "settle" =>
                 handlers[g].op = "settle" /\ handlers'[g].run = handlers[g].run
      PROVE  Tally(r)'
  BY <1>0, <1>1, SettlingShrinks, TallyStays
<1>2. ASSUME NEW h \in Handlers, StartAnswers(h) \/ StartFails(h) PROVE Tally(r)'
  BY <1>0, <1>2, StartTallies
<1>3. ASSUME NEW h \in Handlers, PostTest(h) PROVE Tally(r)'
  BY <1>0, <1>3, PostTallies
<1>4. ASSUME NEW h \in Handlers, handlers[h].op = "refresh", NEW answer \in Answers(h),
             RefreshSettles(h, answer)
      PROVE  Tally(r)'
  BY <1>0, <1>4, SettleTallies
<1>5. ASSUME NEW h \in Handlers, NEW answer \in Answers(h), RefreshOpen(h, answer) \/ RefreshTooLate(h, answer)
      PROVE  Tally(r)'
  <2>1. late' = late /\ outcomes' = outcomes /\ handlers' = [handlers EXCEPT ![h] = Idle]
    BY <1>5 DEF RefreshOpen, RefreshTooLate, bookVars
  <2> QED
    BY <1>0, <1>1, <2>1, TypeParts DEF Idle
<1>6. CASE UNCHANGED vars \/ Edit \/ Crash \/ \E q \in Runs : Age(q) \/ \E result : Build(q, result)
  <2>1. late' = late /\ outcomes' = outcomes
    BY <1>6 DEF vars, bookVars, Edit, Crash, Age, Build
  <2>2. handlers' = handlers \/ handlers' = [h \in Handlers |-> Idle]
    BY <1>6 DEF vars, Edit, Crash, Age, Build
  <2> QED
    BY <1>1, <2>1, <2>2 DEF Idle
<1>7. ASSUME NEW h \in Handlers,
             \/ ProviderAccepts(h) \/ ClosePull(h) \/ RefuseReview(h) \/ TornDown(h) \/ TeardownFails(h)
      PROVE  Tally(r)'
  <2>1. late' = late /\ outcomes' = outcomes
    BY <1>7 DEF ProviderAccepts, ClosePull, RefuseReview, TornDown, TeardownFails, bookVars
  <2>2. \A g \in Handlers : handlers'[g].op = "settle" =>
            handlers[g].op = "settle" /\ handlers'[g].run = handlers[g].run
    <3>1. /\ \A g \in Handlers \ {h} : handlers'[g] = handlers[g]
          /\ handlers'[h].op = "settle" => FALSE
      <4>1. CASE ProviderAccepts(h)
        <5>1. /\ handlers[h].op = "start" /\ handlers[h] \in Handler
              /\ handlers'[h].op = handlers[h].op /\ \A g \in Handlers \ {h} : handlers'[g] = handlers[g]
          BY <1>0, <4>1, TypeParts DEF ProviderAccepts, Handler
        <5> QED
          BY <5>1
      <4>2. CASE ClosePull(h)
        BY <1>0, <4>2, TypeParts DEF ClosePull, Idle
      <4>3. CASE RefuseReview(h) \/ TornDown(h) \/ TeardownFails(h)
        <5>1. handlers' = [handlers EXCEPT ![h] = Idle]
          BY <4>3 DEF RefuseReview, TornDown, TeardownFails
        <5> QED
          BY <1>0, <5>1, TypeParts DEF Idle
      <4> QED
        BY <1>7, <4>1, <4>2, <4>3
    <3> QED
      BY <3>1
  <2> QED
    BY <1>1, <2>1, <2>2
<1>8. ASSUME NEW h \in Handlers, NEW q \in Runs,
             \/ Refresh(h, q) \/ Stop(h, q) \/ (\E u \in People : Review(h, q, u))
             \/ \E u \in Owners \cup {None}, kind \in Kinds : RequestRun(h, q, u, kind)
      PROVE  Tally(r)'
  <2>1. late' = late /\ outcomes' = outcomes
    BY <1>8 DEF Refresh, Stop, Review, RequestRun, bookVars
  <2>2. \A g \in Handlers : handlers'[g].op = "settle" =>
            handlers[g].op = "settle" /\ handlers'[g].run = handlers[g].run
    <3>1. CASE Refresh(h, q)
      BY <1>0, <3>1, TypeParts DEF Refresh, Idle
    <3>2. CASE Stop(h, q)
      BY <1>0, <3>2, TypeParts DEF Stop, Idle
    <3>3. ASSUME NEW u \in People, Review(h, q, u)
          PROVE  handlers'[h].op # "settle" /\ \A g \in Handlers \ {h} : handlers'[g] = handlers[g]
      BY <1>0, <3>3, TypeParts DEF Review, Idle
    <3>4. ASSUME NEW u, NEW kind, RequestRun(h, q, u, kind)
          PROVE  \/ handlers' = handlers
                 \/ handlers'[h].op # "settle" /\ \A g \in Handlers \ {h} : handlers'[g] = handlers[g]
      <4>1. handlers' = handlers \/ handlers' = [handlers EXCEPT ![h] = StartCall(q)]
        BY <3>4 DEF RequestRun
      <4> QED
        BY <1>0, <4>1, TypeParts DEF StartCall, Idle
    <3> QED
      BY <1>8, <3>1, <3>2, <3>3, <3>4
  <2> QED
    BY <1>1, <2>1, <2>2
<1>9. ASSUME NEW h \in Handlers, NEW seen, Approve(h, seen) \/ Reject(h, seen) PROVE Tally(r)'
  <2>1. late' = late /\ outcomes' = outcomes
    BY <1>9 DEF Approve, Reject, bookVars
  <2>2. handlers' = [handlers EXCEPT ![h] = Idle] \/ \E q : handlers' = [handlers EXCEPT ![h] = StartCall(q)]
    BY <1>9 DEF Approve, Reject
  <2> QED
    <3>1. handlers'[h].op # "settle" /\ \A g \in Handlers \ {h} : handlers'[g] = handlers[g]
      <4>1. CASE handlers' = [handlers EXCEPT ![h] = Idle]
        BY <1>0, <4>1, TypeParts DEF Idle
      <4>2. ASSUME NEW q, handlers' = [handlers EXCEPT ![h] = StartCall(q)]
            PROVE  handlers'[h].op # "settle" /\ \A g \in Handlers \ {h} : handlers'[g] = handlers[g]
        <5>1. StartCall(q).op = "start"
          BY DEF StartCall, Idle
        <5> QED
          BY <1>0, <4>2, <5>1, TypeParts
      <4> QED
        BY <2>2, <4>1, <4>2
    <3> QED
      BY <1>1, <2>1, <3>1
<1> QED
  BY <1>2, <1>3, <1>4, <1>5, <1>6, <1>7, <1>8, <1>9 DEF Next, WaitEnds, AnswerOf, Decide

\* And one is posted: a run does not end with nobody told, or about to tell.
Ended == {"success", "failed", "removed"}
Told(r) == runs[r].status \in Ended => outcomes[r] > 0 \/ Announcing(r) # {} \/ crashes > 0

\* Handlers that settle a run are left alone.
SettlersStay == \A g \in Handlers : handlers[g].op = "settle" => handlers'[g] = handlers[g]

LEMMA ToldStays ==
    ASSUME NEW r \in Runs, Told(r), outcomes'[r] = outcomes[r], crashes' = crashes, SettlersStay,
           runs'[r].status \in Ended => runs[r].status \in Ended
    PROVE  Told(r)'
<1>1. Announcing(r) \subseteq Announcing(r)'
  BY DEF SettlersStay, Announcing
<1> QED
  BY <1>1 DEF Told

LEMMA OneHandlerMoves ==
    ASSUME TypeOK, NEW h \in Handlers, handlers[h].op # "settle",
           NEW x, handlers' = [handlers EXCEPT ![h] = x]
    PROVE  SettlersStay
BY TypeParts DEF SettlersStay

\* A run that is moved by hand has not ended by it, unless it had before.
LEMMA RetireEnds ==
    ASSUME TypeOK, NEW q \in Runs, NEW was, Retire(q, was), NEW r \in Runs
    PROVE  runs'[r].status \in Ended => runs[r].status \in Ended
<1>1. CASE r = q
  BY <1>1, RetireMoves DEF Ended
<1>2. CASE r # q
  BY <1>2, RetireMoves
<1> QED
  BY <1>1, <1>2

\* A run gets a status that is not the end of it.
LEMMA StatusSet ==
    ASSUME TypeOK, NEW q \in Runs, NEW s, s \notin Ended, runs' = [runs EXCEPT ![q].status = s], NEW r \in Runs
    PROVE  runs'[r].status \in Ended => runs[r].status \in Ended
<1>1. runs \in [Runs -> Run] /\ runs[q] \in Run
  BY TypeParts
<1>2. CASE r = q
  <2>1. runs'[r] = [runs[q] EXCEPT !.status = s]
    BY <1>1, <1>2
  <2> QED
    BY <1>1, <2>1 DEF Run
<1>3. CASE r # q
  BY <1>1, <1>3
<1> QED
  BY <1>2, <1>3

\* The answer to a start: a failure is posted.
LEMMA StartTells ==
    ASSUME Inv, NEW h \in Handlers, StartAnswers(h) \/ StartFails(h), NEW r \in Runs, Told(r)
    PROVE  Told(r)'
<1>1. PICK q \in Runs : q = handlers[h].run
  BY DEF StartAnswers, StartFails, Inv, HandlerFits
<1>2. TypeOK /\ handlers' = [handlers EXCEPT ![h] = Idle] /\ handlers[h].op # "settle" /\ crashes' = crashes
  BY DEF Inv, StartAnswers, StartFails
<1>3. SettlersStay
  BY <1>2, OneHandlerMoves
<1>4. runs \in [Runs -> Run] /\ runs[q] \in Run /\ outcomes \in [Runs -> Nat]
  BY <1>2, TypeParts
<1>5. CASE r # q
  <2>1. runs'[r] = runs[r] /\ outcomes'[r] = outcomes[r]
    BY <1>1, <1>4, <1>5 DEF StartAnswers, StartFails
  <2> QED
    BY <1>2, <1>3, <2>1, ToldStays
<1>6. CASE r = q /\ StartAnswers(h)
  <2>1. runs' = [runs EXCEPT ![q] = [runs[q] EXCEPT !.status = "running", !.ref = q, !.begun = TRUE]]
    BY <1>1, <1>6 DEF StartAnswers
  <2>2. runs'[q].status = "running"
    BY <1>4, <2>1 DEF Run
  <2> QED
    BY <1>6, <2>2 DEF Told, Ended
<1>7. CASE r = q /\ StartFails(h)
  <2>1. outcomes' = [outcomes EXCEPT ![r] = outcomes[r] + 1]
    BY <1>1, <1>7 DEF StartFails
  <2>2. outcomes'[r] > 0
    BY <1>4, <2>1
  <2> QED
    BY <2>2 DEF Told
<1> QED
  BY <1>5, <1>6, <1>7

\* A run is settled: its outcome is posted, or its handler is about to.
LEMMA SettleTells ==
    ASSUME Inv, NEW h \in Handlers, handlers[h].op = "refresh", NEW answer \in Answers(h),
           RefreshSettles(h, answer), NEW r \in Runs, Told(r)
    PROVE  Told(r)'
<1>1. PICK q \in Runs : q = handlers[h].run
  BY DEF Inv, HandlerFits
<1>2. TypeOK /\ crashes' = crashes
  BY DEF Inv, RefreshSettles
<1>3. runs \in [Runs -> Run] /\ runs[q] \in Run /\ outcomes \in [Runs -> Nat] /\ handlers \in [Handlers -> Handler]
  BY <1>2, TypeParts
<1> DEFINE outcome == Outcome(q, answer)
           posts == outcomes' = [outcomes EXCEPT ![q] = outcomes[q] + 1]
           holds == [Idle EXCEPT !.op = "settle", !.run = q, !.was = [NoRun EXCEPT !.status = outcome]]
<1>4. /\ runs' = [runs EXCEPT ![q] = [runs[q] EXCEPT !.status = outcome, !.minutes = 1, !.ref = Handle(h, answer)]]
      /\ \/ /\ IF outcome = "canceled" THEN outcomes' = outcomes ELSE posts
            /\ handlers' = [handlers EXCEPT ![h] = Idle]
         \/ outcomes' = outcomes /\ handlers' = [handlers EXCEPT ![h] = holds]
  BY <1>1 DEF RefreshSettles, Settle
<1> HIDE DEF outcome
<1>5. SettlersStay
  <2> HIDE DEF holds
  <2> QED
    BY <1>2, <1>4, OneHandlerMoves
<1>6. CASE r # q
  <2>1. runs'[r] = runs[r] /\ outcomes'[r] = outcomes[r]
    BY <1>3, <1>4, <1>6
  <2> QED
    BY <1>2, <1>5, <2>1, ToldStays
<1>7. CASE r = q
  <2>1. runs'[r].status = outcome
    BY <1>3, <1>4, <1>7 DEF Run
  <2>2. CASE outcome = "canceled"
    BY <2>1, <2>2 DEF Told, Ended
  <2>3. CASE posts
    BY <1>3, <1>7, <2>3 DEF Told
  <2>4. CASE outcome # "canceled" /\ handlers' = [handlers EXCEPT ![h] = holds]
    <3>1. holds.op = "settle" /\ holds.run = q /\ holds.was.status = outcome
      BY DEF Idle, NoRun
    <3>2. handlers'[h] = holds
      BY <1>3, <2>4
    <3> HIDE DEF holds
    <3>3. h \in Announcing(r)'
      BY <1>7, <2>4, <3>1, <3>2 DEF Announcing
    <3> QED
      BY <3>3 DEF Told
  <2> QED
    BY <1>4, <2>2, <2>3, <2>4
<1> QED
  BY <1>6, <1>7

\* The outcome of a test is posted, and nothing is left to post of it.
LEMMA PostTells ==
    ASSUME Inv, NEW h \in Handlers, PostTest(h), NEW r \in Runs, Told(r)
    PROVE  Told(r)'
<1>1. PICK q \in Runs : q = handlers[h].run
  BY DEF PostTest, Inv, HandlerFits
<1>2. /\ TypeOK /\ crashes' = crashes /\ runs' = runs
      /\ handlers' = [handlers EXCEPT ![h] = Idle]
      /\ outcomes' = IF handlers[h].was.status = "canceled" THEN outcomes
                     ELSE [outcomes EXCEPT ![q] = outcomes[q] + 1]
  BY <1>1 DEF Inv, PostTest, dbVars
<1>3. outcomes \in [Runs -> Nat] /\ handlers \in [Handlers -> Handler]
  BY <1>2, TypeParts
<1>4. CASE h \in Announcing(r)
  <2>1. q = r /\ handlers[h].was.status # "canceled"
    BY <1>1, <1>4 DEF Announcing
  <2>2. outcomes'[r] > 0
    BY <1>2, <1>3, <2>1
  <2> QED
    BY <2>2 DEF Told
<1>5. CASE h \notin Announcing(r)
  <2>1. Announcing(r) \subseteq Announcing(r)'
    BY <1>2, <1>3, <1>5 DEF Announcing
  <2>2. outcomes[r] > 0 => outcomes'[r] > 0
    BY <1>2, <1>3
  <2> QED
    BY <1>2, <2>1, <2>2 DEF Told
<1> QED
  BY <1>4, <1>5

LEMMA StepKeepsTold ==
    ASSUME Inv, [Next]_vars, NEW r \in Runs, Told(r)
    PROVE  Told(r)'
<1>0. TypeOK /\ handlers \in [Handlers -> Handler] /\ runs \in [Runs -> Run]
  BY TypeParts DEF Inv
<1>1. ASSUME outcomes' = outcomes, crashes' = crashes, runs' = runs, SettlersStay
      PROVE  Told(r)'
  BY <1>1, ToldStays
<1>2. ASSUME NEW h \in Handlers, StartAnswers(h) \/ StartFails(h) PROVE Told(r)'
  BY <1>2, StartTells
<1>3. ASSUME NEW h \in Handlers, PostTest(h) PROVE Told(r)'
  BY <1>3, PostTells
<1>4. ASSUME NEW h \in Handlers, handlers[h].op = "refresh", NEW answer \in Answers(h),
             RefreshSettles(h, answer)
      PROVE  Told(r)'
  BY <1>4, SettleTells
<1>5. ASSUME NEW h \in Handlers, handlers[h].op = "refresh", NEW answer \in Answers(h),
             RefreshOpen(h, answer) \/ RefreshTooLate(h, answer)
      PROVE  Told(r)'
  <2>1. /\ outcomes' = outcomes /\ crashes' = crashes /\ handlers' = [handlers EXCEPT ![h] = Idle]
        /\ runs' = runs \/ runs' = [runs EXCEPT ![handlers[h].run].ref = Deploy(h)]
    BY <1>5 DEF RefreshOpen, RefreshTooLate, bookVars, dbVars
  <2>2. SettlersStay
    BY <1>0, <1>5, <2>1, OneHandlerMoves
  <2>3. runs'[r].status = runs[r].status
    <3>1. runs[r] \in Run
      BY <1>0
    <3> QED
      BY <1>0, <2>1, <3>1 DEF Run
  <2> QED
    BY <2>1, <2>2, <2>3, ToldStays
<1>6. CASE Crash
  <2>1. crashes' > 0
    BY <1>0, <1>6, DevRunsAssumption DEF Crash, TypeOK
  <2> QED
    BY <2>1 DEF Told
<1>7. CASE UNCHANGED vars \/ Edit \/ \E q \in Runs : Age(q) \/ \E result : Build(q, result)
  <2>1. outcomes' = outcomes /\ crashes' = crashes /\ runs' = runs /\ handlers' = handlers
    BY <1>7 DEF vars, dbVars, bookVars, Edit, Age, Build
  <2> QED
    BY <1>1, <2>1 DEF SettlersStay
<1>8. ASSUME NEW h \in Handlers, ProviderAccepts(h) \/ ClosePull(h) \/ RefuseReview(h) PROVE Told(r)'
  <2>1. /\ outcomes' = outcomes /\ crashes' = crashes /\ runs' = runs /\ handlers[h].op # "settle"
        /\ \E x : handlers' = [handlers EXCEPT ![h] = x]
    BY <1>8 DEF ProviderAccepts, ClosePull, RefuseReview, bookVars, dbVars, Idle
  <2> QED
    BY <1>0, <1>1, <2>1, OneHandlerMoves
<1>9. ASSUME NEW h \in Handlers, TornDown(h) \/ TeardownFails(h) PROVE Told(r)'
  <2>1. /\ outcomes' = outcomes /\ crashes' = crashes /\ handlers[h].op # "settle"
        /\ handlers' = [handlers EXCEPT ![h] = Idle]
        /\ runs' = runs \/ Retire(handlers[h].run, handlers[h].was)
    BY <1>9 DEF TornDown, TeardownFails, bookVars
  <2>2. SettlersStay
    BY <1>0, <2>1, OneHandlerMoves
  <2>3. handlers[h].run \in Runs
    BY <1>9 DEF TornDown, TeardownFails, Inv, HandlerFits
  <2>4. runs'[r].status \in Ended => runs[r].status \in Ended
    BY <1>0, <2>1, <2>3, RetireEnds
  <2> QED
    BY <2>1, <2>2, <2>4, ToldStays
<1>10. ASSUME NEW h \in Handlers, NEW q \in Runs, Refresh(h, q) \/ \E u \in People : Review(h, q, u)
       PROVE  Told(r)'
  <2>1. /\ handlers[h] = Idle
        /\ outcomes' = outcomes /\ crashes' = crashes /\ runs' = runs
    <3>1. CASE Refresh(h, q)
      BY <3>1 DEF Refresh, bookVars, dbVars
    <3>2. ASSUME NEW u \in People, Review(h, q, u)
          PROVE  /\ handlers[h] = Idle
                 /\ outcomes' = outcomes /\ crashes' = crashes /\ runs' = runs
      BY <3>2 DEF Review, bookVars, dbVars
    <3> QED
      BY <1>10, <3>1, <3>2
  <2>2. handlers[h].op # "settle"
    BY <2>1 DEF Idle
  <2>3. ASSUME NEW g \in Handlers \ {h} PROVE handlers'[g] = handlers[g]
    <3>1. CASE Refresh(h, q)
      BY <1>0, <3>1 DEF Refresh
    <3>2. ASSUME NEW u \in People, Review(h, q, u) PROVE handlers'[g] = handlers[g]
      BY <1>0, <3>2 DEF Review
    <3> QED
      BY <1>10, <3>1, <3>2
  <2>4. SettlersStay
    BY <2>2, <2>3 DEF SettlersStay
  <2> QED
    BY <1>1, <2>1, <2>4
<1>11. ASSUME NEW h \in Handlers, NEW q \in Runs, Stop(h, q) PROVE Told(r)'
  <2>1. /\ outcomes' = outcomes /\ crashes' = crashes
        /\ handlers' = handlers
           \/ (handlers[h].op # "settle" /\ \E x : handlers' = [handlers EXCEPT ![h] = x])
        /\ runs' = runs \/ Retire(q, runs[q])
    BY <1>11 DEF Stop, bookVars, Idle
  <2>2. SettlersStay
    BY <1>0, <2>1, OneHandlerMoves DEF SettlersStay
  <2>3. runs'[r].status \in Ended => runs[r].status \in Ended
    BY <1>0, <2>1, RetireEnds
  <2> QED
    BY <2>1, <2>2, <2>3, ToldStays
<1>12. ASSUME NEW h \in Handlers, NEW q \in Runs, NEW u, NEW kind, RequestRun(h, q, u, kind) PROVE Told(r)'
  <2>1. /\ outcomes' = outcomes /\ crashes' = crashes
        /\ handlers[h].op # "settle"
        /\ handlers' = handlers \/ handlers' = [handlers EXCEPT ![h] = StartCall(q)]
    BY <1>12 DEF RequestRun, Idle
  <2>2. SettlersStay
    BY <1>0, <2>1 DEF SettlersStay
  <2> DEFINE first == IF u # None /\ repo.needApproval THEN "pending_approval" ELSE "queued"
  <2>3. runs' = [runs EXCEPT ![q] = [NoRun EXCEPT !.status = first, !.kind = kind, !.asker = u]]
    BY <1>12 DEF RequestRun
  <2>4. first \notin Ended
    BY DEF Ended
  <2> HIDE DEF first
  <2>5. runs'[r] = runs[r] \/ runs'[r].status = first
    BY <1>0, <2>3 DEF NoRun
  <2> QED
    BY <2>1, <2>2, <2>4, <2>5, ToldStays
<1>13. ASSUME NEW h \in Handlers, NEW seen, Approve(h, seen) \/ Reject(h, seen) PROVE Told(r)'
  <2>1. PICK q \in Runs : q = handlers[h].run
    BY <1>13 DEF Approve, Reject, MayDecide, Inv, HandlerFits
  <2>2. /\ outcomes' = outcomes /\ crashes' = crashes /\ handlers[h].op # "settle"
        /\ \E x : handlers' = [handlers EXCEPT ![h] = x]
        /\ \/ runs' = runs
           \/ runs' = [runs EXCEPT ![q].status = "queued"]
           \/ runs' = [runs EXCEPT ![q].status = "rejected"]
    BY <1>13, <2>1 DEF Approve, Reject, MayDecide, bookVars
  <2>3. SettlersStay
    BY <1>0, <2>2, OneHandlerMoves
  <2>4. "queued" \notin Ended /\ "rejected" \notin Ended
    BY DEF Ended
  <2>5. runs'[r].status \in Ended => runs[r].status \in Ended
    BY <1>0, <2>2, <2>4, StatusSet
  <2> QED
    BY <2>2, <2>3, <2>5, ToldStays
<1> QED
  BY <1>2, <1>3, <1>4, <1>5, <1>6, <1>7, <1>8, <1>9, <1>10, <1>11, <1>12, <1>13
     DEF Next, WaitEnds, AnswerOf, Decide

\* One outcome of a run is posted, a second one only when the answer to its start was
\* late, and none only when the process died.
THEOREM OneOutcomePosted == Spec => []OutcomesArePosted
<1> DEFINE Tallies == \A r \in Runs : Tally(r)
           Tells == \A r \in Runs : Told(r)
<1>1. Init => Tallies /\ Tells
  <2> SUFFICES ASSUME Init, NEW r \in Runs PROVE Tally(r) /\ Told(r)
    OBVIOUS
  <2>1. Settling(r) = {}
    BY DEF Init, Settling, Idle
  <2>2. Cardinality(Settling(r)) = 0
    BY <2>1, FS_EmptySet
  <2>3. outcomes[r] = 0 /\ ToCome(r) = 1 /\ Spare(r) = 0
    BY StatusFacts DEF Init, ToCome, Spare, NoRun
  <2>4. Told(r)
    BY DEF Init, Told, Ended, NoRun
  <2> QED
    BY <2>2, <2>3, <2>4 DEF Tally
<1>2. Inv /\ Tallies /\ Tells /\ [Next]_vars => Tallies' /\ Tells'
  BY StepKeepsTally, StepKeepsTold
<1>3. Inv /\ Tallies /\ Tells => OutcomesArePosted
  <2> SUFFICES ASSUME Inv, NEW r \in Runs, Tally(r), Told(r)
               PROVE  /\ outcomes[r] <= 1 + (IF r \in late THEN 1 ELSE 0)
                      /\ runs[r].status \in {"success", "failed", "removed"} =>
                            outcomes[r] > 0 \/ Announcing(r) # {} \/ crashes > 0
    BY DEF OutcomesArePosted
  <2>1. outcomes[r] <= 1 + (IF r \in late THEN 1 ELSE 0)
    BY TallyParts DEF Inv, Tally, Spare
  <2> QED
    BY <2>1 DEF Told, Ended
<1> HIDE DEF Tallies, Tells
<1> QED
  BY <1>1, <1>2, <1>3, Invariant, PTL DEF Spec

-----------------------------------------------------------------------------
(***************************************************************************)
(* The gate.  A run that has to wait asks, a decision decides and may send *)
(* the run off; everything else is a stutter.                              *)
(***************************************************************************)
AskerOf == [r \in asked |-> runs[r].asker]
Effects == {<<r, started[r]>> : r \in {s \in asked : started[s] # None}}

Simulates == Gate!Next \/ UNCHANGED <<AskerOf, decisions, Effects>>

\* The runs that had to wait keep who asked.
LEMMA AskersStay ==
    ASSUME Inv, StepIsSafe
    PROVE  asked \subseteq Runs /\ \A r \in asked : runs'[r].asker = runs[r].asker
<1>1. asked \subseteq Runs
  BY DEF Inv, TypeOK
<1> QED
  BY <1>1 DEF Inv, RunFits, StepIsSafe, Stays

\* A step without a decision, in which no run joins those that had to wait.
LEMMA QuietSimulates ==
    ASSUME Inv, StepIsSafe, UNCHANGED <<decisions, asked>>, \A r \in asked : started'[r] = started[r]
    PROVE  Simulates
<1>1. AskerOf' = AskerOf
  BY AskersStay DEF AskerOf
<1>2. {s \in asked' : started'[s] # None} = {s \in asked : started[s] # None}
  OBVIOUS
<1>3. Effects' = Effects
  BY <1>2 DEF Effects
<1> QED
  BY <1>1, <1>3 DEF Simulates

LEMMA RequestSimulates ==
    ASSUME Inv, StepIsSafe, NEW h \in Handlers, NEW q \in Runs, NEW u \in Owners \cup {None},
           NEW kind \in Kinds, RequestRun(h, q, u, kind)
    PROVE  Simulates
<1>1. q \notin asked /\ started[q] = None /\ asked \subseteq Runs /\ started \in [Runs -> Revisions \cup {None}]
  BY DEF Inv, RunFits, RequestRun, NoRun, TypeOK
<1>2. CASE u # None /\ repo.needApproval
  <2>1. /\ asked' = asked \cup {q} /\ decisions' = decisions /\ started' = started
        /\ runs' = [runs EXCEPT ![q] = [NoRun EXCEPT !.status = "pending_approval", !.kind = kind, !.asker = u]]
    BY <1>2 DEF RequestRun
  <2>2. runs'[q].asker = u
    BY <2>1 DEF Inv, TypeOK, NoRun
  <2>3. u \in People
    BY <1>2, DevRunsAssumption
  <2>4. AskerOf' = [t \in asked \cup {q} |-> IF t = q THEN u ELSE AskerOf[t]]
    BY <1>1, <2>1, <2>2, AskersStay DEF AskerOf
  <2>5. {s \in asked' : started'[s] # None} = {s \in asked : started[s] # None}
    BY <1>1, <2>1
  <2>6. Effects' = Effects
    BY <2>1, <2>5 DEF Effects
  <2>7. DOMAIN AskerOf = asked
    BY DEF AskerOf
  <2>8. Gate!Ask(q, u)
    BY <1>1, <2>1, <2>4, <2>6, <2>7 DEF Gate!Ask, AskerOf, Effects
  <2> QED
    BY <2>3, <2>8 DEF Simulates, Gate!Next
<1>3. CASE ~(u # None /\ repo.needApproval)
  <2>1. asked' = asked /\ decisions' = decisions /\ started' = [started EXCEPT ![q] = repo.rev]
    BY <1>3 DEF RequestRun
  <2>2. \A r \in asked : started'[r] = started[r]
    BY <1>1, <2>1
  <2> QED
    BY <2>1, <2>2, QuietSimulates
<1> QED
  BY <1>2, <1>3

\* A decision, whether the run starts or not, and whether the process survives or not.
LEMMA DecisionSimulates ==
    ASSUME Inv, StepIsSafe, NEW h \in Handlers, NEW verdict \in Verdicts, NEW seen,
           MayDecide(h, verdict, seen), decisions' = Recorded(h, verdict, seen), asked' = asked,
           \/ started' = started
           \/ /\ verdict = "approved" /\ Waits(handlers[h].run)
              /\ started' = [started EXCEPT ![handlers[h].run] = repo.rev]
    PROVE  Simulates
<1>1. PICK q \in Runs, u \in People :
          /\ q = handlers[h].run /\ q \in asked
          /\ verdict = "approved" => u # runs[q].asker
          /\ decisions[q] = <<>>
          /\ decisions' = [decisions EXCEPT ![q] =
                Append(<<>>, [verdict |-> verdict, by |-> u, payload |-> repo.rev])]
  BY FirstDecision
<1>2. PICK n \in Revisions : n = repo.rev
  BY DEF Inv, TypeOK
<1> DEFINE d == [verdict |-> verdict, by |-> u, payload |-> n]
<1>3. d \in Gate!Decision /\ d.verdict = verdict /\ d.by = u /\ d.payload = n
  BY DEF Gate!Decision, Verdicts
<1>4. decisions' = [decisions EXCEPT ![q] = Append(@, d)]
  BY <1>1, <1>2 DEF Inv, TypeOK
<1> HIDE DEF d
<1>5. AskerOf' = AskerOf
  BY AskersStay DEF AskerOf
<1>6. q \in DOMAIN AskerOf /\ (d.verdict = "approved" => d.by # AskerOf[q])
  BY <1>1, <1>3 DEF AskerOf
<1>7. Effects' = Effects \/ (d.verdict = "approved" /\ Effects' = Effects \cup {<<q, d.payload>>})
  <2>1. CASE started' = started
    BY <2>1 DEF Effects
  <2>2. CASE verdict = "approved" /\ Waits(q) /\ started' = [started EXCEPT ![q] = n]
    <3>1. started \in [Runs -> Revisions \cup {None}] /\ asked \subseteq Runs
      BY DEF Inv, TypeOK
    <3>2. started[q] = None /\ n # None
      BY <2>2, ShapeFacts DEF Inv, RunFits
    <3>3. started'[q] = n /\ \A r \in Runs \ {q} : started'[r] = started[r]
      BY <2>2, <3>1
    <3>4. {s \in asked' : started'[s] # None} = {s \in asked : started[s] # None} \cup {q}
      BY <1>1, <3>1, <3>2, <3>3
    <3>5. Effects' = Effects \cup {<<q, n>>}
      BY <3>1, <3>2, <3>3, <3>4 DEF Effects
    <3> QED
      BY <1>3, <2>2, <3>5
  <2> QED
    BY <1>1, <1>2, <2>1, <2>2
<1>8. Gate!Decide(q, d)
  BY <1>4, <1>5, <1>6, <1>7 DEF Gate!Decide, AskerOf, Effects
<1> QED
  BY <1>3, <1>8 DEF Simulates, Gate!Next

LEMMA StepSimulates == ASSUME Inv, [Next]_vars PROVE Simulates
<1>0. StepIsSafe
  BY StepKeepsInv
<1>1. CASE UNCHANGED <<decisions, asked, started>>
  BY <1>0, <1>1, QuietSimulates
<1>2. ASSUME NEW h \in Handlers, NEW r \in Runs, NEW u \in Owners \cup {None}, NEW kind \in Kinds,
             RequestRun(h, r, u, kind)
      PROVE  Simulates
  BY <1>0, <1>2, RequestSimulates
<1>3. ASSUME NEW h \in Handlers, NEW seen, Approve(h, seen) PROVE Simulates
  <2>1. \/ started' = started
        \/ Waits(handlers[h].run) /\ started' = [started EXCEPT ![handlers[h].run] = repo.rev]
    BY <1>3 DEF Approve, MayStart, MayMove, Waits
  <2>2. /\ MayDecide(h, "approved", seen) /\ decisions' = Recorded(h, "approved", seen)
        /\ asked' = asked /\ "approved" \in Verdicts
    BY <1>3 DEF Approve, Verdicts
  <2> QED
    BY <1>0, <2>1, <2>2, DecisionSimulates
<1>4. ASSUME NEW h \in Handlers, NEW seen, Reject(h, seen) PROVE Simulates
  <2>1. /\ MayDecide(h, "rejected", seen) /\ decisions' = Recorded(h, "rejected", seen)
        /\ asked' = asked /\ started' = started /\ "rejected" \in Verdicts
    BY <1>4 DEF Reject, bookVars, Verdicts
  <2> QED
    BY <1>0, <2>1, DecisionSimulates
<1>5. CASE Crash
  <2>1. asked' = asked /\ started' = started
    BY <1>5 DEF Crash
  <2>2. CASE \E h \in Handlers, verdict \in Verdicts, seen \in Hashes :
                MayDecide(h, verdict, seen) /\ decisions' = Recorded(h, verdict, seen)
    BY <1>0, <2>1, <2>2, DecisionSimulates
  <2>3. CASE UNCHANGED decisions
    BY <1>1, <2>1, <2>3
  <2> QED
    BY <1>5, <2>2, <2>3 DEF Crash
<1>6. CASE UNCHANGED vars \/ Edit \/ \E r \in Runs : Age(r) \/ \E result : Build(r, result)
  <2>1. UNCHANGED <<decisions, asked, started>>
    BY <1>6 DEF vars, dbVars, bookVars, Edit, Age, Build
  <2> QED
    BY <1>1, <2>1
<1>7. ASSUME NEW h \in Handlers,
             \/ \E r \in Runs : Refresh(h, r) \/ Stop(h, r) \/ \E u \in People : Review(h, r, u)
             \/ ProviderAccepts(h) \/ ClosePull(h) \/ RefuseReview(h)
      PROVE  Simulates
  <2>1. UNCHANGED <<decisions, asked, started>>
    BY <1>7 DEF Refresh, Stop, Review, ProviderAccepts, ClosePull, RefuseReview, dbVars, bookVars
  <2> QED
    BY <1>1, <2>1
<1>8. ASSUME NEW h \in Handlers,
             \/ StartAnswers(h) \/ StartFails(h) \/ AnswerOf(h) \/ PostTest(h)
             \/ TornDown(h) \/ TeardownFails(h)
      PROVE  Simulates
  <2>1. UNCHANGED <<decisions, asked, started>>
    BY <1>8 DEF StartAnswers, StartFails, AnswerOf, RefreshOpen, RefreshSettles, RefreshTooLate, PostTest,
                TornDown, TeardownFails, dbVars, bookVars
  <2> QED
    BY <1>1, <2>1
<1> QED
  BY <1>2, <1>3, <1>4, <1>5, <1>6, <1>7, <1>8 DEF Next, WaitEnds, Decide

\* The runs implement the gate: nobody approves what their own agent asked for, and a
\* run that had to wait is sent to the provider only upon the approval of what is sent
\* (decideRun, governAgentAction).
THEOREM RunsImplementGate == Spec => ImplementsGate
<1>1. Init => Gate!Init
  <2> SUFFICES ASSUME Init PROVE Gate!Init
    OBVIOUS
  <2>1. asked = {} /\ Effects = {}
    BY DEF Init, Effects
  <2>2. AskerOf = [s \in {} |-> s]
    BY <2>1 DEF AskerOf
  <2> QED
    BY <2>1, <2>2 DEF Init, Gate!Init, AskerOf, Effects
<1>2. Inv /\ [Next]_vars => Simulates
  BY StepSimulates
<1>3. Simulates => [Gate!Next]_(Gate!gateVars)
  BY DEF Simulates, Gate!gateVars, AskerOf, Effects
<1> QED
  BY <1>1, <1>2, <1>3, Invariant, PTL DEF Spec, ImplementsGate, Gate!Spec

=============================================================================
