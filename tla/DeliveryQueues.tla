--------------------------- MODULE DeliveryQueues ---------------------------
(***************************************************************************)
(* Outgoing webhooks, mails and digests (src/src/cloud/webhooks.ts,        *)
(* src/src/cloud/mail.ts): rows of the shared database that several        *)
(* processes drain.  The server drains webhooks after every event (a       *)
(* kick) and everything on its timer, a worker process does a pass of its  *)
(* own.  A pass claims what is due under a lease, sends it with no lock    *)
(* held, and writes each result by id, from the number of attempts it saw  *)
(* when it claimed.  A process may die at any point of a pass, and a lease *)
(* may lapse while an answer is still on its way.                          *)
(*                                                                         *)
(* A claim takes everything due: the instance is smaller than its limit.   *)
(* The time of a row is whether it is due, that of a lease whether it has  *)
(* lapsed; the digests are those of one user who always has something to   *)
(* read, and a period is never shorter than a pass.                        *)
(***************************************************************************)
EXTENDS Naturals, FiniteSets

CONSTANTS
    Hooks,       \* webhook deliveries
    Mails,       \* mails of the outbox
    Processes,   \* processes with a timer, or a worker
    Server,      \* the process that is kicked, one of Processes
    Kick,        \* its pass after an event
    MaxAttempts, \* WEBHOOK_MAX_ATTEMPTS and EMAIL_MAX_ATTEMPTS
    MaxRows,     \* bound on the rows that are queued
    MaxLapses,   \* bound on the leases of a row that lapse during an attempt
    MaxPeriods,  \* bound on the periods of the digest
    MaxCrashes,  \* bound on crashes
    None

ASSUME DeliveryQueuesAssumption ==
    /\ Hooks \cap Mails = {}
    /\ Server \in Processes /\ Kick \notin Processes
    /\ IsFiniteSet(Processes)
    /\ MaxAttempts \in Nat \ {0} /\ None \notin Nat
    /\ MaxRows \in Nat /\ MaxLapses \in Nat /\ MaxPeriods \in Nat /\ MaxCrashes \in Nat

Items  == Hooks \cup Mails
Passes == Processes \cup {Kick}

ProcessOf(p) == IF p = Kick THEN Server ELSE p

Finished == {"delivered", "failed"}

\* A row: absent before it is queued, gone after its webhook was deleted or it was
\* pruned.
Row == [status: {"absent", "pending", "gone"} \cup Finished, attempts: 0..MaxAttempts,
        due: BOOLEAN, lease: {"none", "held", "lapsed"}]
NoRow == [status |-> "absent", attempts |-> 0, due |-> FALSE, lease |-> "none"]

Phases == {"idle", "webhooks", "digests", "digest-queue", "digest-mark", "claim", "mails"}

VARIABLES
    \* The database.
    rows,        \* webhook_deliveries and email_outbox
    lastDigest,  \* the period of last_digest_at
    \* The processes.
    kicked,      \* a kick is scheduled
    phase,       \* what each pass is doing
    copies,      \* the attempts of the rows a pass has claimed, as it read them
    sending,     \* the rows whose attempt is under way
    period,      \* the current period of the digest
    \* Bookkeeping of the specification.
    tries,       \* how many attempts of a row were begun
    refused,     \* rows a receiver refused for good
    digests,     \* how many digest mails were queued for each period
    lapses,      \* how many leases of a row lapsed
    crashes

dbVars   == <<rows, lastDigest>>
procVars == <<kicked, phase, copies, sending>>
bookVars == <<tries, refused, digests, lapses, crashes>>
vars     == <<dbVars, procVars, period, bookVars>>

\* The passes that have claimed a row and not written its result.
Holders(i) == {p \in Passes : copies[p][i] # None}

NoCopies == [i \in Items |-> None]

Init ==
    /\ rows = [i \in Items |-> NoRow] /\ lastDigest = 0
    /\ kicked = FALSE
    /\ phase = [p \in Passes |-> "idle"]
    /\ copies = [p \in Passes |-> NoCopies]
    /\ sending = [p \in Passes |-> {}]
    /\ period = 0
    /\ tries = [i \in Items |-> 0] /\ refused = {}
    /\ digests = [k \in 0..MaxPeriods |-> 0]
    /\ lapses = [i \in Items |-> 0] /\ crashes = 0

-----------------------------------------------------------------------------
\* The rows.

Enqueue(i) ==
    /\ rows[i].status = "absent"
    /\ Cardinality({j \in Items : rows[j].status # "absent"}) < MaxRows
    /\ rows' = [rows EXCEPT ![i].status = "pending", ![i].due = TRUE]
    /\ kicked' = (kicked \/ i \in Hooks)
    /\ UNCHANGED <<lastDigest, phase, copies, sending, period, bookVars>>

\* A webhook is deleted with its deliveries.
DeleteHook ==
    /\ \E i \in Hooks : rows[i].status \notin {"absent", "gone"}
    /\ rows' = [i \in Items |-> IF i \in Hooks /\ rows[i].status # "absent"
                                THEN [NoRow EXCEPT !.status = "gone"] ELSE rows[i]]
    /\ UNCHANGED <<lastDigest, procVars, period, bookVars>>

\* What a claim takes.  (Mutants: leased rows too; rows that were never leased only;
\* rows of any status.)
MayClaimLeased(i) == rows[i].status = "pending" /\ rows[i].due
MayClaimUnleased(i) == rows[i].status = "pending" /\ rows[i].due /\ rows[i].lease = "none"
MayClaimAny(i) == rows[i].status # "absent" /\ rows[i].due /\ rows[i].lease # "held"
MayClaim(i) == rows[i].status = "pending" /\ rows[i].due /\ rows[i].lease # "held"

Claimable(kind) == {i \in kind : MayClaim(i)}

Leased(batch) == [i \in Items |-> IF i \in batch THEN [rows[i] EXCEPT !.lease = "held"] ELSE rows[i]]

\* The copies of a claim.  (Mutant: claiming a row counts as an attempt.)
ClaimedCounted(batch) == [i \in Items |-> IF i \in batch THEN rows[i].attempts + 1 ELSE None]
Claimed(batch) == [i \in Items |-> IF i \in batch THEN rows[i].attempts ELSE None]

\* An attempt is the last one.  (Mutant: one more follows.)
IsLastLate(attempts) == attempts > MaxAttempts
IsLast(attempts) == attempts >= MaxAttempts

\* completeWebhookDelivery and completeEmail: the result of an attempt, by id, over
\* whatever the row has become.
Completed(i, attempts, outcome) ==
    LET status == IF outcome = "ok" THEN "delivered"
                  ELSE IF outcome = "permanent" \/ IsLast(attempts) THEN "failed" ELSE "pending"
    IN  IF rows[i].status = "gone" THEN rows[i]
        ELSE [status |-> status, attempts |-> attempts, due |-> status # "pending", lease |-> "none"]

\* A pass that claimed anything ends by dropping finished rows that are a month old.
Prune(kind) ==
    \E S \in SUBSET {i \in kind : rows[i].status \in Finished} :
        rows' = [i \in Items |-> IF i \in S THEN [NoRow EXCEPT !.status = "gone"] ELSE rows[i]]

-----------------------------------------------------------------------------
\* A pass.

Tried(batch) ==
    /\ tries' = [i \in Items |-> IF i \in batch THEN tries[i] + 1 ELSE tries[i]]
    /\ UNCHANGED <<refused, digests, lapses, crashes>>

\* drainWebhookQueue claims, and sends all at once.
StartWebhooks(p, next) ==
    LET batch == Claimable(Hooks)
    IN  /\ phase[p] = "idle"
        /\ rows' = Leased(batch)
        /\ copies' = [copies EXCEPT ![p] = Claimed(batch)]
        /\ sending' = [sending EXCEPT ![p] = batch]
        /\ phase' = [phase EXCEPT ![p] = IF batch = {} THEN next ELSE "webhooks"]
        /\ Tried(batch)
        /\ UNCHANGED <<lastDigest, period>>

Tick(p) == p \in Processes /\ StartWebhooks(p, "digests") /\ UNCHANGED kicked

\* The code drops a kick that finds its pass still running; here it may also run later.
RunKick == kicked /\ StartWebhooks(Kick, "idle") /\ kicked' = FALSE

EndWebhooks(p) ==
    /\ phase[p] = "webhooks" /\ copies[p] = NoCopies
    /\ Prune(Hooks)
    /\ phase' = [phase EXCEPT ![p] = IF p = Kick THEN "idle" ELSE "digests"]
    /\ UNCHANGED <<lastDigest, kicked, copies, sending, period, bookVars>>

\* buildDueDigests: the users are read first; then a mail is queued for one, and the
\* digest marked as sent.  The mail is one of Mails: what becomes of a mail does not
\* depend on why it was queued.  (Mutant: a digest is marked before its mail is queued.)
ReadDigestsMarks(p) ==
    /\ phase[p] = "digests"
    /\ phase' = [phase EXCEPT ![p] = IF lastDigest < period THEN "digest-queue" ELSE "claim"]
    /\ lastDigest' = period
    /\ UNCHANGED <<rows, kicked, copies, sending, period, bookVars>>
ReadDigests(p) ==
    /\ phase[p] = "digests"
    /\ phase' = [phase EXCEPT ![p] = IF lastDigest < period THEN "digest-queue" ELSE "claim"]
    /\ UNCHANGED <<dbVars, kicked, copies, sending, period, bookVars>>

QueueDigest(p) ==
    /\ phase[p] = "digest-queue"
    /\ phase' = [phase EXCEPT ![p] = "digest-mark"]
    /\ digests' = [digests EXCEPT ![period] = @ + 1]
    /\ UNCHANGED <<dbVars, kicked, copies, sending, period, tries, refused, lapses, crashes>>

MarkDigest(p) ==
    /\ phase[p] = "digest-mark"
    /\ phase' = [phase EXCEPT ![p] = "claim"]
    /\ lastDigest' = period
    /\ UNCHANGED <<rows, kicked, copies, sending, period, bookVars>>

\* drainEmailOutbox claims, and sends one mail after the other.
ClaimMails(p) ==
    LET batch == Claimable(Mails)
    IN  /\ phase[p] = "claim"
        /\ rows' = Leased(batch)
        /\ copies' = [copies EXCEPT ![p] = Claimed(batch)]
        /\ phase' = [phase EXCEPT ![p] = IF batch = {} THEN "idle" ELSE "mails"]
        /\ UNCHANGED <<lastDigest, kicked, sending, period, bookVars>>

SendMail(p, i) ==
    /\ phase[p] = "mails" /\ sending[p] = {} /\ copies[p][i] # None
    /\ sending' = [sending EXCEPT ![p] = {i}]
    /\ Tried({i})
    /\ UNCHANGED <<dbVars, kicked, phase, copies, period>>

EndMails(p) ==
    /\ phase[p] = "mails" /\ copies[p] = NoCopies
    /\ Prune(Mails)
    /\ phase' = [phase EXCEPT ![p] = "idle"]
    /\ UNCHANGED <<lastDigest, kicked, copies, sending, period, bookVars>>

-----------------------------------------------------------------------------
\* An attempt.

\* The answer, or the error that stands for it: a timeout says nothing of whether the
\* receiver was reached.
Answers(p, i, outcome) ==
    /\ i \in sending[p]
    /\ rows' = [rows EXCEPT ![i] = Completed(i, copies[p][i] + 1, outcome)]
    /\ refused' = IF outcome = "permanent" THEN refused \cup {i} ELSE refused
    /\ copies' = [copies EXCEPT ![p][i] = None]
    /\ sending' = [sending EXCEPT ![p] = @ \ {i}]
    /\ UNCHANGED <<lastDigest, kicked, phase, period, tries, digests, lapses, crashes>>

-----------------------------------------------------------------------------
\* Time, and crashes.

\* The backoff of a row is over.
BecomesDue(i) ==
    /\ rows[i].status = "pending" /\ ~rows[i].due
    /\ rows' = [rows EXCEPT ![i].due = TRUE]
    /\ UNCHANGED <<lastDigest, procVars, period, bookVars>>

\* A lease is 60 s for a webhook and 120 s for up to 20 mails of 20 s each.
Lapse(i) ==
    /\ rows[i].lease = "held"
    /\ Holders(i) # {} => lapses[i] < MaxLapses
    /\ rows' = [rows EXCEPT ![i].lease = "lapsed"]
    /\ lapses' = [lapses EXCEPT ![i] = @ + 1]
    /\ UNCHANGED <<lastDigest, procVars, period, tries, refused, digests, crashes>>

NextPeriod ==
    /\ period < MaxPeriods
    /\ \A p \in Passes : phase[p] \notin {"digest-queue", "digest-mark"}
    /\ period' = period + 1
    /\ UNCHANGED <<dbVars, procVars, bookVars>>

\* A process dies with its passes, and starts again.
Crash(q) ==
    /\ crashes < MaxCrashes
    /\ crashes' = crashes + 1
    /\ kicked' = (kicked /\ q # Server)
    /\ phase' = [p \in Passes |-> IF ProcessOf(p) = q THEN "idle" ELSE phase[p]]
    /\ copies' = [p \in Passes |-> IF ProcessOf(p) = q THEN NoCopies ELSE copies[p]]
    /\ sending' = [p \in Passes |-> IF ProcessOf(p) = q THEN {} ELSE sending[p]]
    /\ UNCHANGED <<dbVars, period, tries, refused, digests, lapses>>

Outcomes == {"ok", "error", "permanent"}

Step(p) ==
    \/ Tick(p) \/ EndWebhooks(p)
    \/ ReadDigests(p) \/ QueueDigest(p) \/ MarkDigest(p)
    \/ ClaimMails(p) \/ EndMails(p)
    \/ \E i \in Mails : SendMail(p, i)

Next ==
    \/ \E p \in Passes :
          \/ Step(p)
          \/ \E i \in Items, outcome \in Outcomes : Answers(p, i, outcome)
    \/ RunKick
    \/ \E i \in Items : Enqueue(i) \/ BecomesDue(i) \/ Lapse(i)
    \/ DeleteHook \/ NextPeriod
    \/ \E q \in Processes : Crash(q)

Spec == Init /\ [][Next]_vars

\* Timers keep firing, every attempt ends by its timeout, and backoffs and leases run
\* out.
FairSpec ==
    /\ Spec
    /\ \A p \in Passes :
          /\ WF_vars(Step(p))
          /\ \A i \in Items : WF_vars(\E outcome \in Outcomes : Answers(p, i, outcome))
    /\ \A i \in Items : WF_vars(BecomesDue(i)) /\ WF_vars(Lapse(i))

-----------------------------------------------------------------------------
(***************************************************************************)
(* Properties.                                                             *)
(***************************************************************************)

\* The types of the variables; a row that is pending has an attempt left.
TypeOK ==
    /\ rows \in [Items -> Row] /\ lastDigest \in 0..MaxPeriods
    /\ kicked \in BOOLEAN
    /\ phase \in [Passes -> Phases]
    /\ copies \in [Passes -> [Items -> (0..MaxAttempts - 1) \cup {None}]]
    /\ sending \in [Passes -> SUBSET Items]
    /\ period \in 0..MaxPeriods
    /\ tries \in [Items -> Nat] /\ refused \subseteq Items
    /\ digests \in [0..MaxPeriods -> Nat]
    /\ lapses \in [Items -> Nat] /\ crashes \in 0..MaxCrashes

\* "Concurrent drainers never send the same delivery twice at once"
\* (cloud-db.ts:2976-2979), as far as the lease reaches: a second pass works on a row
\* only after a lease of the row has lapsed, a third only after another.
OneDrainerPerLease == \A i \in Items : Cardinality(Holders(i)) <= 1 + lapses[i]

\* A row is sent at most MaxAttempts times ("8 attempts in total",
\* docs/noma-cloud.noma:862), and as often again for every lease that lapsed, whatever
\* late answers write over the row.
RepeatsAreBounded == \A i \in Items : tries[i] <= MaxAttempts * (1 + lapses[i])

\* No row is given up before it was sent MaxAttempts times, unless its receiver refused
\* it for good: the passes count attempts each from its own copy, and none twice.
NothingIsGivenUpEarly ==
    \A i \in Items : rows[i].status = "failed" => i \in refused \/ tries[i] >= MaxAttempts

\* A row that is delivered stays delivered, one that failed stays failed, until it is
\* dropped, unless an attempt whose lease had lapsed reports after the one that settled
\* the row: a result is written by id, over whatever the row has become.
FinishedIsFinal ==
    [][\A i \in Items : rows[i].status \in Finished
                         => rows'[i].status \in {rows[i].status, "gone"} \/ lapses[i] > 0]_vars

\* A period's digest is marked as sent only when its mail is in the outbox, also when a
\* process dies between the two; it is queued again only by another process at work on
\* the same users or after a crash.
DigestsAreQueued ==
    \A k \in 1..MaxPeriods :
        /\ lastDigest = k => digests[k] > 0
        /\ digests[k] <= Cardinality(Processes) + crashes

\* Every row that is queued is delivered, failed or removed in the end, also when the
\* process that claimed it died.
RowsAreSettled == \A i \in Items : (rows[i].status = "pending") ~> (rows[i].status # "pending")
=============================================================================
