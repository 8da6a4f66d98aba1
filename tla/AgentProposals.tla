--------------------------- MODULE AgentProposals ---------------------------
(***************************************************************************)
(* What agents propose and people decide on, outside the dev loop: patches *)
(* of a page (src/src/cloud/routes-patch.ts), drafted pages                *)
(* (src/src/cloud/routes-ai.ts) and bright-line actions, which only people *)
(* may perform (src/src/cloud/routes-approvals.ts).                        *)
(*                                                                         *)
(* A review reads the proposal, and the page, before it waits for its      *)
(* body, and decides on what it read; an apply waits for nothing.  The     *)
(* database is synchronous, so everything else a handler does is one       *)
(* action; a crash may fall between two of its commits.  A proposal's      *)
(* payload never changes: it is identified with the proposal.  The hash of *)
(* a page is that of its content, so an edit may bring an old one back.    *)
(* An action sent back for revision is settled as a rejected one is.       *)
(***************************************************************************)
EXTENDS Naturals, FiniteSets, Sequences

CONSTANTS
    Patches, Pages, Actions,   \* proposals of the three kinds
    OfPeople,                  \* patches that people propose themselves, without an agent
    Drafts,                    \* the content the page had at first
    People,
    Handlers,                  \* requests that wait for their body
    MaxDecisions,              \* bound on all decisions
    MaxEdits,                  \* bound on edits of the page and of the tier
    MaxCrashes,                \* bound on crashes
    None

ASSUME AgentProposalsAssumption ==
    /\ Patches \cap Pages = {} /\ Patches \cap Actions = {} /\ Pages \cap Actions = {}
    /\ OfPeople \subseteq Patches
    /\ Drafts \notin Patches /\ None \notin Patches \cup Pages \cup Actions \cup People \cup {Drafts}
    /\ MaxDecisions \in Nat /\ MaxEdits \in Nat /\ MaxCrashes \in Nat

Proposals == Patches \cup Pages \cup Actions

\* The page is as it was, or as a patch has left it.
Contents == {Drafts} \cup Patches

Verdicts == {"approved", "rejected"}
Statuses == {"none", "pending", "applied"} \cup Verdicts

Proposal == [status: Statuses, asker: People \cup {None}, base: Contents \cup {None}]
NoProposal == [status |-> "none", asker |-> None, base |-> None]

\* A request that waits for its body, with the proposal or the page as it read them.
Handler == [op: {"idle", "propose", "review"}, subject: Proposals \cup {None}, was: Proposal,
            by: People \cup {None}]
Idle == [op |-> "idle", subject |-> None, was |-> NoProposal, by |-> None]

VARIABLES
    proposals,   \* patch_proposals, ai_page_proposals, agent_action_proposals
    log,         \* agent_decisions about each proposal
    page,        \* the content of the page that patches are about
    tier,        \* the space's agent trust tier: enough to carry out, or not
    handlers,
    applied,     \* how often each proposal took effect
    edits, crashes

vars == <<proposals, log, page, tier, handlers, applied, edits, crashes>>

Init ==
    /\ proposals = [p \in Proposals |-> NoProposal]
    /\ log = [p \in Proposals |-> <<>>]
    /\ page = Drafts /\ tier = TRUE
    /\ handlers = [h \in Handlers |-> Idle]
    /\ applied = [p \in Proposals |-> 0]
    /\ edits = 0 /\ crashes = 0

\* The decisions recorded, and the approvals of a proposal.
Decided == {d \in Proposals \X (1..MaxDecisions) : d[2] <= Len(log[d[1]])}

Approvals(p) == Cardinality({i \in 1..Len(log[p]) : log[p][i].verdict = "approved"})

-----------------------------------------------------------------------------
\* Proposing.

\* The gate compares the tier with what an agent asks for, never with what a person does.
TierAllows(p) == tier \/ p \in OfPeople

\* The page of a patch is read before the request's body.
Propose(h, p, u) ==
    /\ handlers[h] = Idle /\ proposals[p] = NoProposal
    /\ \A g \in Handlers : handlers[g].subject # p
    /\ handlers' = [handlers EXCEPT ![h] = [op |-> "propose", subject |-> p, by |-> u,
           was |-> [status |-> "pending", asker |-> u, base |-> IF p \in Patches THEN page ELSE None]]]
    /\ UNCHANGED <<proposals, log, page, tier, applied, edits, crashes>>

Proposed(h) ==
    /\ handlers[h].op = "propose"
    /\ TierAllows(handlers[h].subject)
    /\ proposals' = [proposals EXCEPT ![handlers[h].subject] = handlers[h].was]
    /\ handlers' = [handlers EXCEPT ![h] = Idle]
    /\ UNCHANGED <<log, page, tier, applied, edits, crashes>>

-----------------------------------------------------------------------------
\* Reviewing.

\* The proposal is read as pending, and a patch only for the page as it is.
Review(h, p, u) ==
    /\ handlers[h] = Idle
    /\ proposals[p].status = "pending"
    /\ p \in Patches => proposals[p].base = page
    /\ handlers' = [handlers EXCEPT ![h] = [op |-> "review", subject |-> p, by |-> u, was |-> proposals[p]]]
    /\ UNCHANGED <<proposals, log, page, tier, applied, edits, crashes>>

\* (Mutant: people approve what their own agents asked for.)
MayDecideOwn(h, verdict) == handlers[h].op = "review"
MayDecide(h, verdict) ==
    /\ handlers[h].op = "review"
    /\ verdict = "approved" => handlers[h].by # handlers[h].was.asker

\* The decision is logged with its reviewer.
Recorded(h, verdict) ==
    LET p == handlers[h].subject
    IN  [log EXCEPT ![p] = Append(@, [verdict |-> verdict, by |-> handlers[h].by, payload |-> p])]

\* settleActionProposal moves a pending action only; a patch or a drafted page is
\* written back as it was read.  (Mutants: only what is pending is moved; an action is
\* moved whatever it has become.)
SettledPending(h, verdict) ==
    LET p == handlers[h].subject
    IN  IF proposals[p].status = "pending" THEN [proposals EXCEPT ![p].status = verdict] ELSE proposals
SettledBlindly(h, verdict) ==
    LET p == handlers[h].subject
    IN  [proposals EXCEPT ![p] = [handlers[h].was EXCEPT !.status = verdict]]
Settled(h, verdict) ==
    LET p == handlers[h].subject
    IN  IF p \notin Actions THEN [proposals EXCEPT ![p] = [handlers[h].was EXCEPT !.status = verdict]]
        ELSE IF proposals[p].status = "pending" THEN [proposals EXCEPT ![p].status = verdict]
        ELSE proposals

Decide(h, verdict) ==
    /\ MayDecide(h, verdict)
    /\ Cardinality(Decided) < MaxDecisions
    /\ log' = Recorded(h, verdict)
    /\ proposals' = Settled(h, verdict)
    /\ handlers' = [handlers EXCEPT ![h] = Idle]
    /\ UNCHANGED <<page, tier, applied, edits, crashes>>

\* A request that is refused, or whose body never comes.
GiveUp(h) ==
    /\ handlers[h].op # "idle"
    /\ handlers' = [handlers EXCEPT ![h] = Idle]
    /\ UNCHANGED <<proposals, log, page, tier, applied, edits, crashes>>

-----------------------------------------------------------------------------
\* Applying: the status, the gate (which refuses every action), for a patch the page.

\* (Mutant: an approved proposal is applied again.)
MayApplyAgain(p) ==
    /\ p \notin Actions
    /\ proposals[p].status \in {"approved", "applied"}
    /\ p \in Patches => proposals[p].base = page
    /\ TierAllows(p)
    /\ log[p] # <<>> /\ log[p][Len(log[p])].verdict = "approved"
MayApply(p) ==
    /\ p \notin Actions
    /\ proposals[p].status = "approved"
    /\ p \in Patches => proposals[p].base = page
    /\ TierAllows(p)
    /\ log[p] # <<>> /\ log[p][Len(log[p])].verdict = "approved"

TakesEffect(p) ==
    /\ MayApply(p)
    /\ page' = IF p \in Patches THEN p ELSE page
    /\ applied' = [applied EXCEPT ![p] = @ + 1]

Apply(p) ==
    /\ TakesEffect(p)
    /\ proposals' = [proposals EXCEPT ![p].status = "applied"]
    /\ UNCHANGED <<log, tier, handlers, edits, crashes>>

-----------------------------------------------------------------------------
\* Other edits, and crashes.

Edit ==
    /\ edits < MaxEdits
    /\ edits' = edits + 1
    /\ \/ page' \in Contents \ {page} /\ UNCHANGED tier
       \/ tier' = ~tier /\ UNCHANGED page
    /\ UNCHANGED <<proposals, log, handlers, applied, crashes>>

\* The process dies: between two requests, with a decision recorded and not settled, or
\* with a proposal in effect and not marked as applied.
Crash ==
    /\ crashes < MaxCrashes
    /\ crashes' = crashes + 1
    /\ handlers' = [h \in Handlers |-> Idle]
    /\ \/ UNCHANGED <<log, page, applied>>
       \/ /\ \E h \in Handlers, verdict \in Verdicts :
                /\ MayDecide(h, verdict)
                /\ Cardinality(Decided) < MaxDecisions
                /\ log' = Recorded(h, verdict)
          /\ UNCHANGED <<page, applied>>
       \/ (\E p \in Proposals : TakesEffect(p)) /\ UNCHANGED log
    /\ UNCHANGED <<proposals, tier, edits>>

Next ==
    \/ \E h \in Handlers :
          \/ \E p \in Proposals, u \in People : Propose(h, p, u) \/ Review(h, p, u)
          \/ Proposed(h)
          \/ \E verdict \in Verdicts : Decide(h, verdict)
          \/ GiveUp(h)
    \/ \E p \in Proposals : Apply(p)
    \/ Edit
    \/ Crash

Spec == Init /\ [][Next]_vars

-----------------------------------------------------------------------------
(***************************************************************************)
(* Properties.                                                             *)
(***************************************************************************)

DecisionOf == [verdict: Verdicts, by: People, payload: Proposals]

\* The types of the variables.
TypeOK ==
    /\ proposals \in [Proposals -> Proposal]
    /\ log \in [Proposals -> Seq(DecisionOf)]
    /\ page \in Contents /\ tier \in BOOLEAN
    /\ handlers \in [Handlers -> Handler]
    /\ applied \in [Proposals -> Nat]
    /\ edits \in 0..MaxEdits /\ crashes \in 0..MaxCrashes

\* A patch is applied, and a drafted page created, only when the log of decisions ends
\* in the approval of that proposal by somebody else than the one whose agent drafted
\* it, although a review decides on a proposal it read before (governance.ts:65-102,
\* routes-patch.ts:102-177).
Gate == INSTANCE AgentGate WITH
            Subjects <- Proposals,
            Payloads <- Proposals,
            asker <- [p \in {q \in Proposals : proposals[q] # NoProposal} |-> proposals[p].asker],
            effects <- {<<p, p>> : p \in {q \in Proposals : applied[q] > 0}}
ImplementsGate == Gate!Spec

\* A proposal takes effect at most once for every approval of it, also when a late
\* review writes back over "applied", the page is brought back to what the patch was
\* drafted for, or the apply is repeated.  A crash between the effect and its mark may
\* cost one more.
OncePerApproval == \A p \in Proposals : applied[p] <= Approvals(p) + crashes

\* The status that lists and applies go by is the last decision of the log, in whatever
\* order concurrent reviews end, unless the process died between the two.
StatusFollowsLog ==
    crashes = 0 => \A p \in Patches \cup Pages :
        /\ proposals[p].status = "pending" => log[p] = <<>>
        /\ proposals[p].status \in Verdicts => log[p][Len(log[p])].verdict = proposals[p].status

\* An action is settled by the first decision on it; a second review that read it as
\* pending is logged, and refused (cloud-governance.ts:211-215).
ActionsAreSettledOnce ==
    crashes = 0 => \A p \in Actions :
        proposals[p].status \in Verdicts => log[p][1].verdict = proposals[p].status
=============================================================================
