----------------------- MODULE AgentProposals_proofs -----------------------
(***************************************************************************)
(* Safety of agents' proposals, for every number of proposals, people and  *)
(* requests in progress, and any number of edits and crashes.              *)
(*                                                                         *)
(* IInv says of every waiting request that what it read of its proposal    *)
(* (who asked, which page it was drafted for) is still so: only the status *)
(* can be stale.  It counts an approved proposal as one that has still to  *)
(* take effect, which is what makes OncePerApproval inductive.             *)
(***************************************************************************)
EXTENDS AgentProposals, FiniteSetTheorems, TLAPS

-----------------------------------------------------------------------------
\* What a waiting request holds is its proposal but for the status.
HoldsProposal(h) ==
    LET p == handlers[h].subject
    IN  /\ handlers[h].op = "idle" => handlers[h] = Idle
        /\ handlers[h].op # "idle" =>
              p \in Proposals /\ handlers[h].by \in People
                 /\ handlers[h].was.status = "pending" /\ handlers[h].was.asker \in People
        /\ handlers[h].op = "propose" =>
              /\ proposals[p] = NoProposal
              /\ \A g \in Handlers \ {h} : handlers[g].subject # p
        /\ handlers[h].op = "review" =>
              /\ proposals[p] # NoProposal
              /\ handlers[h].was.asker = proposals[p].asker

WaitingIsTrue == \A h \in Handlers : HoldsProposal(h)

\* A proposal nobody made has no history, one that was made has somebody it was made for.
HasHistory(p) ==
    /\ proposals[p].status = "none" => proposals[p] = NoProposal
    /\ proposals[p] = NoProposal => log[p] = <<>> /\ applied[p] = 0
    /\ proposals[p] # NoProposal => proposals[p].asker \in People
    /\ \A i \in 1..Len(log[p]) : log[p][i].payload = p

\* An approved proposal may still take effect once.
Outstanding(p) == IF proposals[p].status = "approved" THEN 1 ELSE 0
IsPaid(p) == applied[p] + Outstanding(p) <= Approvals(p) + crashes

\* The last decision is the status of a patch or a page, the first that of an action.
LogFits(p) ==
    /\ proposals[p].status = "pending" => log[p] = <<>>
    /\ proposals[p].status \in Verdicts => log[p] # <<>>
    /\ p \notin Actions /\ proposals[p].status \in Verdicts
          => log[p][Len(log[p])].verdict = proposals[p].status
    /\ p \in Actions => proposals[p].status # "applied"
    /\ p \in Actions /\ proposals[p].status \in Verdicts
          => log[p][1].verdict = proposals[p].status

MadeBeforeDecided == \A p \in Proposals : HasHistory(p)
Counted == \A p \in Proposals : IsPaid(p)
LogIsStatus == crashes = 0 => \A p \in Proposals : LogFits(p)

IInv == TypeOK /\ WaitingIsTrue /\ MadeBeforeDecided /\ Counted /\ LogIsStatus

-----------------------------------------------------------------------------
\* One more decision is one more approval, if it is one.
Yes(s) == {i \in 1..Len(s) : s[i].verdict = "approved"}

LEMMA OneMoreDecision ==
    ASSUME NEW s \in Seq(DecisionOf), NEW d \in DecisionOf
    PROVE  /\ Cardinality(Yes(s)) \in Nat
           /\ Cardinality(Yes(Append(s, d)))
                  = Cardinality(Yes(s)) + (IF d.verdict = "approved" THEN 1 ELSE 0)
<1>1. IsFiniteSet(Yes(s)) /\ Cardinality(Yes(s)) \in Nat
  <2>1. Yes(s) \subseteq 1..Len(s) /\ 1 \in Int /\ Len(s) \in Int
    BY DEF Yes
  <2>2. IsFiniteSet(1..Len(s))
    BY <2>1, FS_Interval
  <2>3. IsFiniteSet(Yes(s))
    BY <2>1, <2>2, FS_Subset
  <2> QED
    BY <2>3, FS_CardinalityType
<1>2. CASE d.verdict = "approved"
  <2>1. Yes(Append(s, d)) = Yes(s) \cup {Len(s) + 1} /\ Len(s) + 1 \notin Yes(s)
    BY <1>2 DEF Yes
  <2> QED
    BY <1>1, <1>2, <2>1, FS_AddElement
<1>3. CASE d.verdict # "approved"
  <2>1. Yes(Append(s, d)) = Yes(s)
    BY <1>3 DEF Yes
  <2> QED
    BY <1>1, <1>3, <2>1
<1> QED
  BY <1>1, <1>2, <1>3

LEMMA ApprovalsAreCounted ==
    ASSUME TypeOK, NEW p \in Proposals
    PROVE  Approvals(p) \in Nat
<1>1. log[p] \in Seq(DecisionOf)
  BY DEF TypeOK
<1>2. IsFiniteSet(1..Len(log[p]))
  BY <1>1, FS_Interval
<1> QED
  BY <1>2, FS_Subset, FS_CardinalityType DEF Approvals

\* What a proposal and a request are made of.
LEMMA ProposalFacts ==
    /\ NoProposal \in Proposal /\ Idle \in Handler
    /\ \A u \in People : u # None
    /\ Drafts \in Contents /\ \A p \in Patches : p \in Contents /\ p \in Proposals
    /\ \A c \in Contents : c # None
BY AgentProposalsAssumption
   DEF NoProposal, Proposal, Statuses, Idle, Handler, Contents, Proposals

LEMMA InitIsGood == Init => IInv
<1> SUFFICES ASSUME Init PROVE IInv
  OBVIOUS
<1>1. TypeOK
  BY ProposalFacts, AgentProposalsAssumption DEF Init, TypeOK
<1>2. WaitingIsTrue /\ MadeBeforeDecided /\ LogIsStatus
  BY DEF Init, WaitingIsTrue, HoldsProposal, MadeBeforeDecided, HasHistory, LogIsStatus, LogFits, Idle, NoProposal, Verdicts
<1>3. Counted
  <2> SUFFICES ASSUME NEW p \in Proposals PROVE Approvals(p) = 0 /\ Outstanding(p) = 0
    BY DEF Init, Counted, IsPaid
  <2>1. {i \in 1..Len(log[p]) : log[p][i].verdict = "approved"} = {}
    BY DEF Init
  <2> QED
    BY <2>1, FS_EmptySet DEF Approvals, Outstanding, Init, NoProposal
<1> QED
  BY <1>1, <1>2, <1>3 DEF IInv

-----------------------------------------------------------------------------
\* A request begins to wait, or ends.
LEMMA WaitingIsGood ==
    ASSUME IInv, NEW h \in Handlers,
           (\E p \in Proposals, u \in People : Propose(h, p, u) \/ Review(h, p, u)) \/ GiveUp(h)
    PROVE  IInv'
<1>1. UNCHANGED <<proposals, log, page, tier, applied, edits, crashes>>
  BY DEF Propose, Review, GiveUp
<1>2. TypeOK' /\ WaitingIsTrue'
  <2>1. CASE GiveUp(h)
    <3>1. TypeOK'
      BY <1>1, <2>1, ProposalFacts DEF GiveUp, IInv, TypeOK
    <3>2. WaitingIsTrue'
      BY <1>1, <2>1, AgentProposalsAssumption DEF GiveUp, IInv, TypeOK, WaitingIsTrue, HoldsProposal, Idle, Proposals
    <3> QED
      BY <3>1, <3>2
  <2>2. ASSUME NEW p \in Proposals, NEW u \in People, Propose(h, p, u) PROVE TypeOK' /\ WaitingIsTrue'
    <3>1. TypeOK'
      BY <1>1, <2>2, ProposalFacts DEF Propose, IInv, TypeOK, Handler, Proposal, Statuses
    <3>2. WaitingIsTrue'
      BY <1>1, <2>2 DEF Propose, IInv, TypeOK, WaitingIsTrue, HoldsProposal, Idle
    <3> QED
      BY <3>1, <3>2
  <2>3. ASSUME NEW p \in Proposals, NEW u \in People, Review(h, p, u) PROVE TypeOK' /\ WaitingIsTrue'
    <3>1. proposals[p] # NoProposal /\ proposals[p] \in Proposal /\ proposals[p].asker \in People
      BY <2>3 DEF Review, IInv, TypeOK, MadeBeforeDecided, HasHistory, NoProposal
    <3>2. TypeOK'
      BY <1>1, <2>3, <3>1 DEF Review, IInv, TypeOK, Handler
    <3>3. WaitingIsTrue'
      BY <1>1, <2>3, <3>1 DEF Review, IInv, TypeOK, WaitingIsTrue, HoldsProposal, Idle
    <3> QED
      BY <3>2, <3>3
  <2> QED
    BY <2>1, <2>2, <2>3
<1>3. MadeBeforeDecided' /\ LogIsStatus'
  BY <1>1 DEF IInv, MadeBeforeDecided, HasHistory, LogIsStatus, LogFits
<1>4. Counted'
  BY <1>1 DEF IInv, Counted, IsPaid, Outstanding, Approvals
<1> QED
  BY <1>2, <1>3, <1>4 DEF IInv

\* A proposal is written.
LEMMA ProposedIsGood ==
    ASSUME IInv, NEW h \in Handlers, Proposed(h)
    PROVE  IInv'
<1>1. PICK p \in Proposals, w \in Proposal :
          /\ p = handlers[h].subject /\ w = handlers[h].was
          /\ proposals[p] = NoProposal /\ log[p] = <<>> /\ applied[p] = 0
          /\ w.status = "pending" /\ w # NoProposal /\ w.asker \in People
          /\ \A g \in Handlers \ {h} : handlers[g].subject # p
  BY DEF Proposed, IInv, TypeOK, WaitingIsTrue, HoldsProposal, MadeBeforeDecided, HasHistory, Handler, NoProposal
<1>2. /\ proposals' = [proposals EXCEPT ![p] = w]
      /\ handlers' = [handlers EXCEPT ![h] = Idle]
      /\ UNCHANGED <<log, page, tier, applied, edits, crashes>>
  BY <1>1 DEF Proposed
<1>3. TypeOK'
  BY <1>1, <1>2, ProposalFacts DEF IInv, TypeOK
<1>4. /\ proposals'[p] = w /\ \A q \in Proposals \ {p} : proposals'[q] = proposals[q]
      /\ handlers'[h] = Idle /\ \A g \in Handlers \ {h} : handlers'[g] = handlers[g]
  BY <1>1, <1>2 DEF IInv, TypeOK
<1>5. WaitingIsTrue'
  <2> SUFFICES ASSUME NEW g \in Handlers, g # h
               PROVE  HoldsProposal(g)'
    BY <1>4, AgentProposalsAssumption DEF WaitingIsTrue, HoldsProposal, Idle
  <2> QED
    BY <1>1, <1>4, AgentProposalsAssumption DEF IInv, WaitingIsTrue, HoldsProposal, Idle, Proposals
<1>6. MadeBeforeDecided'
  BY <1>1, <1>2, <1>4 DEF IInv, MadeBeforeDecided, HasHistory
<1>7. LogIsStatus'
  BY <1>1, <1>2, <1>4 DEF IInv, LogIsStatus, LogFits, Verdicts
<1>8. Counted'
  <2>1. \A q \in Proposals : Approvals(q)' = Approvals(q)
    BY <1>2 DEF Approvals
  <2> QED
    BY <1>1, <1>2, <1>4, <2>1 DEF IInv, Counted, IsPaid, Outstanding, NoProposal
<1> QED
  BY <1>3, <1>5, <1>6, <1>7, <1>8 DEF IInv

\* What recording a decision does to the log, whether or not the proposal is settled.
LEMMA DecisionFacts ==
    ASSUME IInv, NEW h \in Handlers, NEW verdict \in Verdicts, MayDecide(h, verdict),
           NEW p, p = handlers[h].subject, log' = Recorded(h, verdict)
    PROVE  /\ p \in Proposals /\ proposals[p] # NoProposal /\ log[p] \in Seq(DecisionOf)
           /\ log' \in [Proposals -> Seq(DecisionOf)]
           /\ log'[p][Len(log[p]) + 1].verdict = verdict /\ log'[p][Len(log[p]) + 1].payload = p
           /\ Len(log'[p]) = Len(log[p]) + 1
           /\ \A i \in 1..Len(log[p]) : log'[p][i] = log[p][i]
           /\ \A q \in Proposals : Approvals(q) \in Nat
           /\ \A q \in Proposals \ {p} : log'[q] = log[q] /\ Approvals(q)' = Approvals(q)
           /\ Approvals(p)' = Approvals(p) + (IF verdict = "approved" THEN 1 ELSE 0)
<1> DEFINE d == [verdict |-> verdict, by |-> handlers[h].by, payload |-> p]
<1>1. p \in Proposals /\ proposals[p] # NoProposal /\ handlers[h].by \in People /\ d \in DecisionOf
  BY DEF MayDecide, IInv, WaitingIsTrue, HoldsProposal, DecisionOf
<1>2. log \in [Proposals -> Seq(DecisionOf)] /\ log' = [log EXCEPT ![p] = Append(@, d)]
  BY DEF IInv, TypeOK, Recorded
<1>3. /\ log[p] \in Seq(DecisionOf) /\ log'[p] = Append(log[p], d)
      /\ log'[p] \in Seq(DecisionOf) /\ Len(log'[p]) = Len(log[p]) + 1
      /\ log'[p][Len(log[p]) + 1] = d
      /\ \A i \in 1..Len(log[p]) : log'[p][i] = log[p][i]
  BY <1>1, <1>2
<1>4. \A q \in Proposals \ {p} : log'[q] = log[q]
  BY <1>1, <1>2
<1>5. \A q \in Proposals : Approvals(q) = Cardinality(Yes(log[q])) /\ Approvals(q)' = Cardinality(Yes(log'[q]))
  BY DEF Approvals, Yes
<1>6. \A q \in Proposals : Approvals(q) \in Nat
  BY <1>1, <1>2, <1>5, OneMoreDecision
<1>7. Approvals(p)' = Approvals(p) + (IF verdict = "approved" THEN 1 ELSE 0)
  <2> HIDE DEF d
  <2>1. Cardinality(Yes(Append(log[p], d))) = Cardinality(Yes(log[p])) + (IF d.verdict = "approved" THEN 1 ELSE 0)
    BY <1>1, <1>3, OneMoreDecision
  <2>2. d.verdict = verdict
    BY DEF d
  <2> QED
    BY <1>1, <1>3, <1>5, <2>1, <2>2
<1>8. \A q \in Proposals \ {p} : Approvals(q)' = Approvals(q)
  BY <1>4, <1>5
<1>9. log' \in [Proposals -> Seq(DecisionOf)]
  BY <1>1, <1>2
<1>10. log'[p][Len(log[p]) + 1].verdict = verdict /\ log'[p][Len(log[p]) + 1].payload = p
  BY <1>3
<1> QED
  BY <1>1, <1>3, <1>4, <1>6, <1>7, <1>8, <1>9, <1>10

\* A review writes its proposal back with another status, or leaves an action alone that
\* is settled already.
LEMMA SettledFacts ==
    ASSUME IInv, NEW h \in Handlers, NEW verdict \in Verdicts, MayDecide(h, verdict),
           NEW p, p = handlers[h].subject, proposals' = Settled(h, verdict)
    PROVE  /\ proposals' \in [Proposals -> Proposal]
           /\ \A q \in Proposals \ {p} : proposals'[q] = proposals[q]
           /\ proposals'[p].asker = proposals[p].asker /\ proposals'[p].status # "none"
           /\ proposals'[p] # NoProposal
           /\ \/ proposals'[p].status = verdict /\ (p \in Actions => proposals[p].status = "pending")
              \/ p \in Actions /\ proposals[p].status # "pending" /\ proposals'[p] = proposals[p]
<1>1. PICK w \in Proposal : /\ p \in Proposals /\ w = handlers[h].was /\ w.asker = proposals[p].asker
                           /\ proposals[p] # NoProposal /\ proposals[p].asker \in People
                           /\ proposals \in [Proposals -> Proposal] /\ verdict \in Statuses
  BY DEF MayDecide, IInv, TypeOK, WaitingIsTrue, HoldsProposal, MadeBeforeDecided, HasHistory, Handler, Verdicts, Statuses
<1>2. [w EXCEPT !.status = verdict] \in Proposal /\ [proposals[p] EXCEPT !.status = verdict] \in Proposal
  BY <1>1 DEF Proposal
<1>3. CASE p \notin Actions
  <2>1. proposals' = [proposals EXCEPT ![p] = [w EXCEPT !.status = verdict]]
    BY <1>1, <1>3 DEF Settled
  <2> QED
    BY <1>1, <1>2, <1>3, <2>1, ProposalFacts DEF Proposal, NoProposal, Verdicts
<1>4. CASE p \in Actions /\ proposals[p].status = "pending"
  <2>1. proposals' = [proposals EXCEPT ![p] = [proposals[p] EXCEPT !.status = verdict]]
    BY <1>1, <1>4 DEF Settled
  <2> QED
    BY <1>1, <1>2, <1>4, <2>1, ProposalFacts DEF Proposal, NoProposal, Verdicts
<1>5. CASE p \in Actions /\ proposals[p].status # "pending"
  <2>1. proposals' = proposals
    BY <1>1, <1>5 DEF Settled
  <2>2. proposals[p].status # "none"
    BY <1>1 DEF IInv, MadeBeforeDecided, HasHistory
  <2> QED
    BY <1>1, <1>5, <2>1, <2>2
<1> QED
  BY <1>3, <1>4, <1>5

\* A decision, recorded and settled.
LEMMA DecideIsGood ==
    ASSUME IInv, NEW h \in Handlers, NEW verdict \in Verdicts, Decide(h, verdict)
    PROVE  IInv'
<1>1. PICK p : /\ MayDecide(h, verdict) /\ p = handlers[h].subject
               /\ log' = Recorded(h, verdict) /\ proposals' = Settled(h, verdict)
               /\ handlers' = [handlers EXCEPT ![h] = Idle]
               /\ UNCHANGED <<page, tier, applied, edits, crashes>>
  BY DEF Decide
<1>2. /\ p \in Proposals /\ proposals[p] # NoProposal /\ log[p] \in Seq(DecisionOf)
      /\ log' \in [Proposals -> Seq(DecisionOf)]
      /\ log'[p][Len(log[p]) + 1].verdict = verdict /\ log'[p][Len(log[p]) + 1].payload = p
      /\ Len(log'[p]) = Len(log[p]) + 1
      /\ \A i \in 1..Len(log[p]) : log'[p][i] = log[p][i]
      /\ \A q \in Proposals : Approvals(q) \in Nat
      /\ \A q \in Proposals \ {p} : log'[q] = log[q] /\ Approvals(q)' = Approvals(q)
      /\ Approvals(p)' = Approvals(p) + (IF verdict = "approved" THEN 1 ELSE 0)
  BY <1>1, DecisionFacts
<1>3. /\ proposals' \in [Proposals -> Proposal]
      /\ \A q \in Proposals \ {p} : proposals'[q] = proposals[q]
      /\ proposals'[p].asker = proposals[p].asker /\ proposals'[p].status # "none"
      /\ proposals'[p] # NoProposal
      /\ \/ proposals'[p].status = verdict /\ (p \in Actions => proposals[p].status = "pending")
         \/ p \in Actions /\ proposals[p].status # "pending" /\ proposals'[p] = proposals[p]
  BY <1>1, SettledFacts
<1>4. TypeOK'
  BY <1>1, <1>2, <1>3, ProposalFacts DEF IInv, TypeOK
<1>5. handlers'[h] = Idle /\ \A g \in Handlers \ {h} : handlers'[g] = handlers[g]
  BY <1>1 DEF IInv, TypeOK
<1>6. WaitingIsTrue'
  <2> SUFFICES ASSUME NEW g \in Handlers, g # h PROVE HoldsProposal(g)'
    BY <1>5, AgentProposalsAssumption DEF WaitingIsTrue, HoldsProposal, Idle
  <2>1. HoldsProposal(g) /\ handlers'[g] = handlers[g]
    BY <1>5 DEF IInv, WaitingIsTrue
  <2>2. CASE handlers[g].subject = p
    BY <1>2, <1>3, <2>1, <2>2 DEF HoldsProposal
  <2>3. CASE handlers[g].subject # p
    <3>1. \A f \in Handlers \ {g} : handlers[g].op = "propose" => handlers'[f].subject # handlers[g].subject
      BY <1>5, <2>1, AgentProposalsAssumption DEF HoldsProposal, Idle, Proposals
    <3> QED
      BY <1>3, <2>1, <2>3, <3>1 DEF HoldsProposal
  <2> QED
    BY <2>2, <2>3
<1>7. MadeBeforeDecided'
  <2> SUFFICES ASSUME NEW q \in Proposals PROVE HasHistory(q)'
    BY DEF MadeBeforeDecided
  <2>1. HasHistory(q)
    BY DEF IInv, MadeBeforeDecided
  <2>2. CASE q # p
    BY <1>1, <1>2, <1>3, <2>1, <2>2 DEF HasHistory
  <2>3. CASE q = p
    <3>1. \A i \in 1..Len(log'[p]) : i \in 1..Len(log[p]) \/ i = Len(log[p]) + 1
      BY <1>2
    <3>2. \A i \in 1..Len(log'[p]) : log'[p][i].payload = p
      BY <1>2, <2>1, <2>3, <3>1 DEF HasHistory
    <3> QED
      BY <1>2, <1>3, <2>1, <2>3, <3>2 DEF HasHistory
  <2> QED
    BY <2>2, <2>3
<1>8. Counted'
  <2> SUFFICES ASSUME NEW q \in Proposals PROVE IsPaid(q)'
    BY DEF Counted
  <2>1. IsPaid(q) /\ applied[q] \in Nat /\ crashes \in Nat /\ Approvals(q) \in Nat
    BY <1>2 DEF IInv, TypeOK, Counted
  <2>2. CASE q # p
    BY <1>1, <1>2, <1>3, <2>1, <2>2 DEF IsPaid, Outstanding
  <2>3. CASE q = p
    <3>1. Outstanding(p)' + Approvals(p) <= Outstanding(p) + Approvals(p)'
      BY <1>2, <1>3, <2>1, <2>3 DEF Outstanding, Verdicts
    <3>2. Outstanding(p) \in Nat /\ Outstanding(p)' \in Nat /\ Approvals(p)' \in Nat
      BY <1>2, <2>1, <2>3 DEF Outstanding
    <3> QED
      BY <1>1, <2>1, <2>3, <3>1, <3>2 DEF IsPaid
  <2> QED
    BY <2>2, <2>3
<1>9. LogIsStatus'
  <2> SUFFICES ASSUME crashes = 0, NEW q \in Proposals PROVE LogFits(q)'
    BY <1>1 DEF LogIsStatus
  <2>1. LogFits(q)
    BY DEF IInv, LogIsStatus
  <2>2. CASE q # p
    BY <1>2, <1>3, <2>1, <2>2 DEF LogFits
  <2>3. CASE q = p
    <3>1. log'[p] # <<>> /\ Len(log[p]) \in Nat /\ log'[p][Len(log'[p])].verdict = verdict
      BY <1>2
    <3>2. CASE proposals'[p].status = verdict /\ p \notin Actions
      BY <2>3, <3>1, <3>2 DEF LogFits, Verdicts
    <3>3. CASE proposals'[p].status = verdict /\ p \in Actions /\ proposals[p].status = "pending"
      <4>1. Len(log[p]) = 0
        BY <2>1, <2>3, <3>3 DEF LogFits
      <4> QED
        BY <1>2, <2>3, <3>1, <3>3, <4>1 DEF LogFits, Verdicts
    <3>4. CASE p \in Actions /\ proposals[p].status # "pending" /\ proposals'[p] = proposals[p]
      <4>1. proposals[p].status \in Verdicts => 1 \in 1..Len(log[p])
        BY <1>2, <2>1, <2>3 DEF LogFits
      <4> QED
        BY <1>2, <2>1, <2>3, <3>1, <3>4, <4>1 DEF LogFits
    <3> QED
      BY <1>3, <3>2, <3>3, <3>4
  <2> QED
    BY <2>2, <2>3
<1> QED
  BY <1>4, <1>6, <1>7, <1>8, <1>9 DEF IInv

\* What applying a proposal does, whether or not it is marked.
LEMMA EffectFacts ==
    ASSUME IInv, NEW p \in Proposals, TakesEffect(p)
    PROVE  /\ p \notin Actions /\ proposals[p].status = "approved" /\ proposals[p] # NoProposal
           /\ log[p] # <<>> /\ log[p][Len(log[p])].verdict = "approved"
           /\ log[p][Len(log[p])].payload = p
           /\ page' \in Contents /\ applied' \in [Proposals -> Nat]
           /\ applied'[p] = applied[p] + 1 /\ \A q \in Proposals \ {p} : applied'[q] = applied[q]
<1>1. p \notin Actions /\ proposals[p].status = "approved" /\ log[p] # <<>> /\ log[p][Len(log[p])].verdict = "approved"
  BY DEF TakesEffect, MayApply
<1>2. page' \in Contents
  BY ProposalFacts DEF TakesEffect, IInv, TypeOK
<1>3. /\ applied' \in [Proposals -> Nat] /\ applied'[p] = applied[p] + 1
      /\ \A q \in Proposals \ {p} : applied'[q] = applied[q]
  BY DEF TakesEffect, IInv, TypeOK
<1>4. log[p] \in Seq(DecisionOf) /\ Len(log[p]) \in 1..Len(log[p])
  BY <1>1 DEF IInv, TypeOK
<1>5. log[p][Len(log[p])].payload = p
  BY <1>4 DEF IInv, MadeBeforeDecided, HasHistory
<1> QED
  BY <1>1, <1>2, <1>3, <1>5 DEF NoProposal

LEMMA ApplyIsGood ==
    ASSUME IInv, NEW p \in Proposals, Apply(p)
    PROVE  IInv'
<1>1. /\ p \notin Actions /\ proposals[p].status = "approved" /\ proposals[p] # NoProposal
      /\ page' \in Contents /\ applied' \in [Proposals -> Nat]
      /\ applied'[p] = applied[p] + 1 /\ \A q \in Proposals \ {p} : applied'[q] = applied[q]
  BY EffectFacts DEF Apply
<1>2. UNCHANGED <<log, tier, handlers, edits, crashes>>
  BY DEF Apply
<1>3. /\ proposals' \in [Proposals -> Proposal]
      /\ proposals'[p].status = "applied" /\ proposals'[p].asker = proposals[p].asker
      /\ proposals'[p] # NoProposal
      /\ \A q \in Proposals \ {p} : proposals'[q] = proposals[q]
  BY DEF Apply, IInv, TypeOK, Proposal, Statuses, NoProposal
<1>4. TypeOK'
  BY <1>1, <1>2, <1>3 DEF IInv, TypeOK
<1>5. WaitingIsTrue'
  <2> SUFFICES ASSUME NEW g \in Handlers PROVE HoldsProposal(g)'
    BY DEF WaitingIsTrue
  <2>1. HoldsProposal(g)
    BY DEF IInv, WaitingIsTrue
  <2>2. CASE handlers[g].subject = p
    BY <1>1, <1>2, <1>3, <2>1, <2>2 DEF HoldsProposal
  <2>3. CASE handlers[g].subject # p
    BY <1>2, <1>3, <2>1, <2>3 DEF HoldsProposal
  <2> QED
    BY <2>2, <2>3
<1>6. MadeBeforeDecided'
  <2> SUFFICES ASSUME NEW q \in Proposals PROVE HasHistory(q)'
    BY DEF MadeBeforeDecided
  <2>1. HasHistory(q)
    BY DEF IInv, MadeBeforeDecided
  <2> QED
    BY <1>1, <1>2, <1>3, <2>1 DEF HasHistory
<1>7. Counted'
  <2> SUFFICES ASSUME NEW q \in Proposals PROVE IsPaid(q)'
    BY DEF Counted
  <2>1. IsPaid(q) /\ Approvals(q)' = Approvals(q) /\ applied[q] \in Nat /\ crashes \in Nat
    BY <1>2 DEF IInv, TypeOK, Counted, Approvals
  <2> QED
    BY <1>1, <1>2, <1>3, <2>1 DEF IsPaid, Outstanding
<1>8. LogIsStatus'
  BY <1>1, <1>2, <1>3 DEF IInv, LogIsStatus, LogFits, Verdicts
<1> QED
  BY <1>4, <1>5, <1>6, <1>7, <1>8 DEF IInv

LEMMA EditIsGood ==
    ASSUME IInv, Edit \/ UNCHANGED vars
    PROVE  IInv'
<1>1. UNCHANGED <<proposals, log, handlers, applied, crashes>>
  BY DEF Edit, vars
<1>2. TypeOK'
  <2>1. page' \in Contents
    BY DEF Edit, vars, IInv, TypeOK
  <2>2. tier' \in BOOLEAN
    BY Zenon DEF Edit, vars, IInv, TypeOK
  <2>3. edits' \in 0..MaxEdits
    BY AgentProposalsAssumption DEF Edit, vars, IInv, TypeOK
  <2> QED
    BY <1>1, <2>1, <2>2, <2>3 DEF IInv, TypeOK
<1>3. WaitingIsTrue' /\ MadeBeforeDecided' /\ LogIsStatus'
  BY <1>1 DEF IInv, WaitingIsTrue, HoldsProposal, MadeBeforeDecided, HasHistory, LogIsStatus, LogFits
<1>4. Counted'
  BY <1>1 DEF IInv, Counted, IsPaid, Outstanding, Approvals
<1> QED
  BY <1>2, <1>3, <1>4 DEF IInv

\* A crash costs what it has begun: a decision that is not settled, or an effect that is
\* not marked.
LEMMA CrashIsGood ==
    ASSUME IInv, Crash
    PROVE  IInv'
<1>1. /\ handlers' = [h \in Handlers |-> Idle] /\ crashes' = crashes + 1 /\ crashes < MaxCrashes
      /\ UNCHANGED <<proposals, tier, edits>>
  BY DEF Crash
<1>2. WaitingIsTrue'
  BY <1>1, AgentProposalsAssumption DEF WaitingIsTrue, HoldsProposal, Idle
<1>3. LogIsStatus' /\ crashes \in Nat /\ crashes' \in 0..MaxCrashes
  BY <1>1, AgentProposalsAssumption DEF LogIsStatus, IInv, TypeOK
<1>4. CASE UNCHANGED <<log, page, applied>>
  <2>1. TypeOK' /\ MadeBeforeDecided'
    BY <1>1, <1>3, <1>4, ProposalFacts DEF IInv, TypeOK, MadeBeforeDecided, HasHistory
  <2>2. Counted'
    <3> SUFFICES ASSUME NEW q \in Proposals PROVE IsPaid(q)'
      BY DEF Counted
    <3>1. IsPaid(q) /\ Approvals(q)' = Approvals(q) /\ Outstanding(q)' = Outstanding(q) /\ Outstanding(q) \in Nat
      BY <1>1, <1>4 DEF IInv, Counted, Approvals, Outstanding
    <3>2. Approvals(q) \in Nat /\ applied[q] \in Nat
      BY ApprovalsAreCounted DEF IInv, TypeOK
    <3> QED
      BY <1>1, <1>3, <1>4, <3>1, <3>2 DEF IsPaid
  <2> QED
    BY <1>2, <1>3, <2>1, <2>2 DEF IInv
<1>5. ASSUME NEW h \in Handlers, NEW verdict \in Verdicts, MayDecide(h, verdict),
             log' = Recorded(h, verdict), UNCHANGED <<page, applied>>
      PROVE  IInv'
  <2>1. PICK p : p = handlers[h].subject
    OBVIOUS
  <2>2. /\ p \in Proposals /\ proposals[p] # NoProposal /\ log[p] \in Seq(DecisionOf)
        /\ log' \in [Proposals -> Seq(DecisionOf)]
        /\ log'[p][Len(log[p]) + 1].payload = p /\ Len(log'[p]) = Len(log[p]) + 1
        /\ \A i \in 1..Len(log[p]) : log'[p][i] = log[p][i]
        /\ \A q \in Proposals : Approvals(q) \in Nat
        /\ \A q \in Proposals \ {p} : log'[q] = log[q] /\ Approvals(q)' = Approvals(q)
        /\ Approvals(p)' = Approvals(p) + (IF verdict = "approved" THEN 1 ELSE 0)
    BY <1>5, <2>1, DecisionFacts
  <2>3. TypeOK'
    BY <1>1, <1>3, <1>5, <2>2, ProposalFacts DEF IInv, TypeOK
  <2>4. MadeBeforeDecided'
    <3> SUFFICES ASSUME NEW q \in Proposals PROVE HasHistory(q)'
      BY DEF MadeBeforeDecided
    <3>1. HasHistory(q)
      BY DEF IInv, MadeBeforeDecided
    <3>2. CASE q # p
      BY <1>1, <1>5, <2>2, <3>1, <3>2 DEF HasHistory
    <3>3. CASE q = p
      <4>1. \A i \in 1..Len(log'[p]) : i \in 1..Len(log[p]) \/ i = Len(log[p]) + 1
        BY <2>2
      <4>2. \A i \in 1..Len(log'[p]) : log'[p][i].payload = p
        BY <2>2, <3>1, <3>3, <4>1 DEF HasHistory
      <4> QED
        BY <1>1, <2>2, <3>1, <3>3, <4>2 DEF HasHistory
    <3> QED
      BY <3>2, <3>3
  <2>5. Counted'
    <3> SUFFICES ASSUME NEW q \in Proposals PROVE IsPaid(q)'
      BY DEF Counted
    <3>1. IsPaid(q) /\ Outstanding(q)' = Outstanding(q) /\ Outstanding(q) \in Nat /\ applied[q] \in Nat
      BY <1>1 DEF IInv, TypeOK, Counted, Outstanding
    <3>2. Approvals(q) \in Nat /\ Approvals(q)' \in Nat /\ Approvals(q) <= Approvals(q)'
      BY <2>2
    <3> QED
      BY <1>1, <1>3, <1>5, <3>1, <3>2 DEF IsPaid
  <2> QED
    BY <1>2, <1>3, <2>3, <2>4, <2>5 DEF IInv
<1>6. ASSUME NEW p \in Proposals, TakesEffect(p), UNCHANGED log
      PROVE  IInv'
  <2>1. /\ proposals[p] # NoProposal /\ page' \in Contents /\ applied' \in [Proposals -> Nat]
        /\ applied'[p] = applied[p] + 1 /\ \A q \in Proposals \ {p} : applied'[q] = applied[q]
    BY <1>6, EffectFacts
  <2>2. TypeOK'
    BY <1>1, <1>3, <1>6, <2>1, ProposalFacts DEF IInv, TypeOK
  <2>3. MadeBeforeDecided'
    BY <1>1, <1>6, <2>1 DEF IInv, MadeBeforeDecided, HasHistory
  <2>4. Counted'
    <3> SUFFICES ASSUME NEW q \in Proposals PROVE IsPaid(q)'
      BY DEF Counted
    <3>1. IsPaid(q) /\ Approvals(q)' = Approvals(q) /\ Outstanding(q)' = Outstanding(q) /\ Outstanding(q) \in Nat
      BY <1>1, <1>6 DEF IInv, Counted, Approvals, Outstanding
    <3>2. Approvals(q) \in Nat /\ applied[q] \in Nat
      BY ApprovalsAreCounted DEF IInv, TypeOK
    <3>3. applied'[q] = applied[q] \/ applied'[q] = applied[q] + 1
      BY <2>1
    <3> QED
      BY <1>1, <1>3, <3>1, <3>2, <3>3 DEF IsPaid
  <2> QED
    BY <1>2, <1>3, <2>2, <2>3, <2>4 DEF IInv
<1> QED
  BY <1>4, <1>5, <1>6 DEF Crash

LEMMA NextIsGood == ASSUME IInv, [Next]_vars PROVE IInv'
<1>1. CASE \E h \in Handlers :
              (\E p \in Proposals, u \in People : Propose(h, p, u) \/ Review(h, p, u)) \/ GiveUp(h)
  BY <1>1, WaitingIsGood
<1>2. CASE \E h \in Handlers : Proposed(h)
  BY <1>2, ProposedIsGood
<1>3. CASE \E h \in Handlers, verdict \in Verdicts : Decide(h, verdict)
  BY <1>3, DecideIsGood
<1>4. CASE \E p \in Proposals : Apply(p)
  BY <1>4, ApplyIsGood
<1>5. CASE Edit \/ UNCHANGED vars
  BY <1>5, EditIsGood
<1>6. CASE Crash
  BY <1>6, CrashIsGood
<1> QED
  BY <1>1, <1>2, <1>3, <1>4, <1>5, <1>6 DEF Next

-----------------------------------------------------------------------------
\* The invariant holds in every reachable state.
THEOREM Invariant == Spec => []IInv
<1>1. Init => IInv
  BY InitIsGood
<1>2. IInv /\ [Next]_vars => IInv'
  BY NextIsGood
<1> QED
  BY <1>1, <1>2, PTL DEF Spec

\* The types of the variables (reviewPatchProposal, applyPatchProposal, settleActionProposal).
THEOREM TypeCorrect == Spec => []TypeOK
<1>1. IInv => TypeOK
  BY DEF IInv
<1> QED
  BY <1>1, Invariant, PTL

\* A patch or a drafted page takes effect at most once for every approval of it and every
\* crash, whatever stale reviews write back (applyPatchProposal, the page apply route).
THEOREM EffectsAreApproved == Spec => []OncePerApproval
<1>1. IInv => OncePerApproval
  <2> SUFFICES ASSUME IInv, NEW p \in Proposals PROVE applied[p] <= Approvals(p) + crashes
    BY DEF OncePerApproval
  <2>1. applied[p] \in Nat /\ Approvals(p) \in Nat /\ crashes \in Nat
    BY ApprovalsAreCounted DEF IInv, TypeOK
  <2>2. applied[p] + Outstanding(p) <= Approvals(p) + crashes /\ Outstanding(p) \in {0, 1}
    BY DEF IInv, Counted, IsPaid, Outstanding
  <2> QED
    BY <2>1, <2>2
<1> QED
  BY <1>1, Invariant, PTL

\* Without a crash, the status of a patch or a drafted page is the last decision in the log
\* (recordAgentDecision and writePatchProposal in one handler).
THEOREM StatusIsLastDecision == Spec => []StatusFollowsLog
<1>1. IInv => StatusFollowsLog
  BY AgentProposalsAssumption
     DEF IInv, LogIsStatus, LogFits, StatusFollowsLog, Proposals
<1> QED
  BY <1>1, Invariant, PTL

\* Without a crash, an action keeps the first decision on it (settleActionProposal).
THEOREM ActionKeepsFirstDecision == Spec => []ActionsAreSettledOnce
<1>1. IInv => ActionsAreSettledOnce
  BY DEF IInv, LogIsStatus, LogFits, ActionsAreSettledOnce, Proposals
<1> QED
  BY <1>1, Invariant, PTL

-----------------------------------------------------------------------------
(***************************************************************************)
(* The gate.  Writing a proposal asks, a decision decides, an apply takes  *)
(* effect; everything else is a stutter.                                   *)
(***************************************************************************)
Asked == {q \in Proposals : proposals[q] # NoProposal}
AskerOf == [p \in Asked |-> proposals[p].asker]
Effects == {<<p, p>> : p \in {q \in Proposals : applied[q] > 0}}

Simulates == Gate!Next \/ UNCHANGED <<AskerOf, log, Effects>>

\* A step that writes no proposal, no decision and no effect.
LEMMA QuietSimulates ==
    ASSUME UNCHANGED <<proposals, log, applied>>
    PROVE  Simulates
BY DEF Simulates, AskerOf, Asked, Effects

LEMMA ProposedSimulates ==
    ASSUME IInv, NEW h \in Handlers, Proposed(h)
    PROVE  Simulates
<1>1. PICK p \in Proposals, w \in Proposal :
          /\ p = handlers[h].subject /\ w = handlers[h].was
          /\ proposals[p] = NoProposal /\ w # NoProposal /\ w.asker \in People
  BY DEF Proposed, IInv, TypeOK, WaitingIsTrue, HoldsProposal, Handler, NoProposal
<1>2. proposals' = [proposals EXCEPT ![p] = w] /\ UNCHANGED <<log, applied>>
  BY <1>1 DEF Proposed
<1>3. p \notin Asked /\ Asked' = Asked \cup {p} /\ proposals'[p].asker = w.asker
      /\ \A q \in Asked : proposals'[q] = proposals[q]
  BY <1>1, <1>2 DEF IInv, TypeOK, Asked
<1>4. DOMAIN AskerOf = Asked
  BY DEF AskerOf
<1>5. AskerOf' = [t \in Asked \cup {p} |-> IF t = p THEN w.asker ELSE AskerOf[t]]
  BY <1>3 DEF AskerOf
<1>6. Effects' = Effects
  BY <1>2 DEF Effects
<1>7. Gate!Ask(p, w.asker)
  BY <1>1, <1>2, <1>3, <1>4, <1>5, <1>6 DEF Gate!Ask, AskerOf, Asked, Effects
<1> QED
  BY <1>1, <1>7 DEF Simulates, Gate!Next

\* A decision, whether the process survives it or not.
LEMMA DecisionSimulates ==
    ASSUME IInv, NEW h \in Handlers, NEW verdict \in Verdicts, MayDecide(h, verdict),
           log' = Recorded(h, verdict), applied' = applied,
           proposals' = Settled(h, verdict) \/ proposals' = proposals
    PROVE  Simulates
<1>1. PICK p \in Proposals, u \in People :
          /\ p = handlers[h].subject /\ u = handlers[h].by /\ proposals[p] # NoProposal
          /\ verdict = "approved" => u # proposals[p].asker
  BY DEF MayDecide, IInv, WaitingIsTrue, HoldsProposal
<1> DEFINE d == [verdict |-> verdict, by |-> u, payload |-> p]
<1>2. log' = [log EXCEPT ![p] = Append(@, d)]
  BY <1>1 DEF Recorded
<1>3. d \in Gate!Decision /\ d.verdict = verdict /\ d.by = u
  BY <1>1 DEF Gate!Decision, Verdicts
<1> HIDE DEF d
<1>4. \A q \in Proposals : /\ proposals'[q] # NoProposal <=> proposals[q] # NoProposal
                           /\ proposals'[q].asker = proposals[q].asker
  <2>1. CASE proposals' = Settled(h, verdict)
    BY <1>1, <2>1, SettledFacts
  <2> QED
    BY <2>1
<1>5. Asked' = Asked /\ AskerOf' = AskerOf
  BY <1>4 DEF Asked, AskerOf
<1>6. Effects' = Effects
  BY DEF Effects
<1>7. p \in DOMAIN AskerOf /\ (d.verdict = "approved" => d.by # AskerOf[p])
  BY <1>1, <1>3 DEF AskerOf, Asked
<1>8. Gate!Decide(p, d)
  BY <1>5, <1>6, <1>7, <1>2 DEF Gate!Decide, AskerOf, Asked, Effects
<1> QED
  BY <1>1, <1>8, <1>3 DEF Simulates, Gate!Next

\* An effect, whether or not it is marked.
LEMMA EffectSimulates ==
    ASSUME IInv, NEW p \in Proposals, TakesEffect(p), log' = log,
           \A q \in Proposals : /\ proposals'[q] # NoProposal <=> proposals[q] # NoProposal
                               /\ proposals'[q].asker = proposals[q].asker
    PROVE  Simulates
<1>1. /\ log[p] # <<>> /\ log[p][Len(log[p])].verdict = "approved"
      /\ log[p][Len(log[p])].payload = p
      /\ applied'[p] = applied[p] + 1 /\ \A q \in Proposals \ {p} : applied'[q] = applied[q]
  BY EffectFacts
<1>2. AskerOf' = AskerOf
  BY DEF Asked, AskerOf
<1>3. applied[p] \in Nat
  BY DEF IInv, TypeOK
<1>4. {q \in Proposals : applied'[q] > 0} = {q \in Proposals : applied[q] > 0} \cup {p}
  BY <1>1, <1>3
<1>5. Effects' = Effects \cup {<<p, p>>}
  BY <1>4 DEF Effects
<1>6. Gate!TakeEffect(p, p)
  BY <1>1, <1>2, <1>5 DEF Gate!TakeEffect, Gate!Approves, AskerOf, Asked, Effects
<1> QED
  BY <1>6 DEF Simulates, Gate!Next

LEMMA StepSimulates == ASSUME IInv, [Next]_vars PROVE Simulates
<1>1. CASE Edit \/ UNCHANGED vars \/ \E h \in Handlers :
              GiveUp(h) \/ \E p \in Proposals, u \in People : Propose(h, p, u) \/ Review(h, p, u)
  BY <1>1, QuietSimulates DEF Edit, vars, GiveUp, Propose, Review
<1>2. CASE \E h \in Handlers : Proposed(h)
  BY <1>2, ProposedSimulates
<1>3. CASE \E h \in Handlers, verdict \in Verdicts : Decide(h, verdict)
  BY <1>3, DecisionSimulates DEF Decide
<1>4. ASSUME NEW p \in Proposals, Apply(p) PROVE Simulates
  <2>1. \A q \in Proposals : /\ proposals'[q] # NoProposal <=> proposals[q] # NoProposal
                             /\ proposals'[q].asker = proposals[q].asker
    <3>1. proposals[p].status = "approved"
      BY <1>4, EffectFacts DEF Apply
    <3> QED
      BY <1>4, <3>1 DEF Apply, IInv, TypeOK, Proposal, NoProposal
  <2> QED
    BY <1>4, <2>1, EffectSimulates DEF Apply
<1>5. CASE Crash
  <2>1. proposals' = proposals
    BY <1>5 DEF Crash
  <2>2. CASE UNCHANGED <<log, page, applied>>
    BY <2>1, <2>2, QuietSimulates
  <2>3. CASE \E h \in Handlers, verdict \in Verdicts :
                MayDecide(h, verdict) /\ log' = Recorded(h, verdict) /\ UNCHANGED <<page, applied>>
    BY <2>1, <2>3, DecisionSimulates
  <2>4. CASE (\E p \in Proposals : TakesEffect(p)) /\ UNCHANGED log
    BY <2>1, <2>4, EffectSimulates
  <2> QED
    BY <1>5, <2>2, <2>3, <2>4 DEF Crash
<1> QED
  BY <1>1, <1>2, <1>3, <1>4, <1>5 DEF Next

\* The proposals implement the gate: whoever asked, nobody approves what their own agent
\* asked for, and nothing takes effect without the approval of exactly it
\* (governAgentAction before every apply).
THEOREM ProposalsImplementGate == Spec => ImplementsGate
<1>1. Init => IInv /\ Gate!Init
  <2> SUFFICES ASSUME Init PROVE Gate!Init
    BY InitIsGood
  <2>1. Asked = {} /\ Effects = {}
    BY DEF Init, Asked, Effects
  <2>2. AskerOf = [s \in {} |-> s]
    BY <2>1 DEF AskerOf
  <2> QED
    BY <2>1, <2>2 DEF Init, Gate!Init, AskerOf, Asked, Effects
<1>2. IInv /\ [Next]_vars => IInv' /\ Simulates
  BY NextIsGood, StepSimulates
<1>3. Simulates => [Gate!Next]_(Gate!gateVars)
  BY DEF Simulates, Gate!gateVars, AskerOf, Asked, Effects
<1> QED
  BY <1>1, <1>2, <1>3, PTL DEF Spec, ImplementsGate, Gate!Spec
=============================================================================
