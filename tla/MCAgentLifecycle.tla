-------------------------- MODULE MCAgentLifecycle --------------------------
\* Small instances of AgentLifecycle for TLC.
EXTENDS AgentLifecycle, TLC

CONSTANTS boss, helper

MCParent == [a \in Agents |-> IF a = helper THEN boss ELSE None]
MCKind == [a \in Agents |-> IF a = helper THEN "scheduled" ELSE "autonomous"]

MCPending == boss :> 1 @@ helper :> 0

\* One agent with a loop, restarts and updates, or both agents with neither.
AgentsInit ==
    \/ Start({helper}, 0, 0, FirstKind)
    \/ Start({}, MaxRestarts, MaxUpdates, boss :> "reflex" @@ helper :> "scheduled")

AgentsSpec == AgentsInit /\ [][Next]_vars

LifecycleSymmetry == Permutations(Slots) \cup Permutations(Ops)
=============================================================================
