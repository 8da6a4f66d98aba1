---- MODULE MCAgentProposals ----
EXTENDS AgentProposals, TLC

\* Requests in progress are interchangeable.
HandlerSymmetry == Permutations(Handlers)
====
