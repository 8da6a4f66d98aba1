----------------------------- MODULE AgentGate -----------------------------
(***************************************************************************)
(* What agent governance promises of every approve-to-execute action of an *)
(* agent, whatever the action is: people decide on it in a log that only   *)
(* grows, nobody approves what their own agent asked for, and the action   *)
(* takes effect only while the last decision of the log approves exactly   *)
(* the payload that takes effect.                                          *)
(***************************************************************************)
EXTENDS Naturals, Sequences

CONSTANTS Subjects,   \* what agents ask for: runs, patch proposals
          Payloads,   \* what an approval is bound to
          People

VARIABLES asker,      \* the person whose agent asked for a subject
          log,        \* the decisions on each subject, oldest first
          effects     \* the subjects that took effect, each with its payload

gateVars == <<asker, log, effects>>

Decision == [verdict: {"approved", "rejected"}, by: People, payload: Payloads]

Approves(decisions, p) ==
    /\ decisions # <<>>
    /\ decisions[Len(decisions)].verdict = "approved"
    /\ decisions[Len(decisions)].payload = p

Init ==
    /\ asker = [s \in {} |-> s]
    /\ log = [s \in Subjects |-> <<>>]
    /\ effects = {}

Ask(s, u) ==
    /\ s \notin DOMAIN asker
    /\ asker' = [t \in DOMAIN asker \cup {s} |-> IF t = s THEN u ELSE asker[t]]
    /\ UNCHANGED <<log, effects>>

\* A decision, upon which the subject may take effect at once.
Decide(s, d) ==
    /\ s \in DOMAIN asker
    /\ d.verdict = "approved" => d.by # asker[s]
    /\ log' = [log EXCEPT ![s] = Append(@, d)]
    /\ \/ effects' = effects
       \/ d.verdict = "approved" /\ effects' = effects \cup {<<s, d.payload>>}
    /\ UNCHANGED asker

TakeEffect(s, p) ==
    /\ Approves(log[s], p)
    /\ effects' = effects \cup {<<s, p>>}
    /\ UNCHANGED <<asker, log>>

Next ==
    \E s \in Subjects :
        \/ \E u \in People : Ask(s, u)
        \/ \E d \in Decision : Decide(s, d)
        \/ \E p \in Payloads : TakeEffect(s, p)

Spec == Init /\ [][Next]_gateVars
=============================================================================
