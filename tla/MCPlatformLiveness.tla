-------------------------- MODULE MCPlatformLiveness --------------------------
\* The runtime, the agentic loop and the services where humans and remote workers
\* answer, under their fairness.  They share no state, so a behaviour of this
\* module is one of a single part, and TLC explores the sum of their states, not
\* the product.
EXTENDS MCDurableRuntime, AgenticLoop, ApprovalGateway, HumanRequests, HumanChat,
        RemoteTasks

CONSTANTS ann, bob

VARIABLE part       \* the part that runs

MCMood == ann :> "away" @@ bob :> "available"
MCStandin == ann :> bob @@ bob :> "nobody"

MCInit ==
    /\ part \in {"runtime", "loop", "approvals", "requests", "chat", "tasks"}
    /\ Init /\ LoopInit /\ ApprovalInit /\ HumanInit /\ ChatInit /\ TaskInit

MCNext ==
    /\ UNCHANGED part
    /\ \/ /\ part = "runtime" /\ Next
          /\ UNCHANGED <<loopVars, approvalVars, humanVars, chatVars, taskVars>>
       \/ /\ part = "loop" /\ LoopNext
          /\ UNCHANGED <<vars, approvalVars, humanVars, chatVars, taskVars>>
       \/ /\ part = "approvals" /\ ApprovalNext
          /\ UNCHANGED <<vars, loopVars, humanVars, chatVars, taskVars>>
       \/ /\ part = "requests" /\ HumanNext
          /\ UNCHANGED <<vars, loopVars, approvalVars, chatVars, taskVars>>
       \/ /\ part = "chat" /\ ChatNext
          /\ UNCHANGED <<vars, loopVars, approvalVars, humanVars, taskVars>>
       \/ /\ part = "tasks" /\ TaskNext
          /\ UNCHANGED <<vars, loopVars, approvalVars, humanVars, chatVars>>

\* A part that does not run is in its initial state, where none of its fair steps
\* is enabled.
MCFairness ==
    /\ Fairness /\ LoopFairness /\ ApprovalFairness /\ HumanFairness
    /\ ChatFairness /\ TaskFairness

MCSpec ==
    /\ MCInit
    /\ [][MCNext]_<<part, vars, loopVars, approvalVars, humanVars, chatVars, taskVars>>
    /\ MCFairness
=============================================================================
