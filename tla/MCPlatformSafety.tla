--------------------------- MODULE MCPlatformSafety ---------------------------
\* The kernel and the life of agents in one run of TLC.  Their modules share no
\* state, so a behaviour of this module is one of a single part, and TLC explores
\* the sum of their states, not the product.
EXTENDS MCKernel, MCAgentLifecycle

VARIABLE part       \* the part that runs

MCInit ==
    /\ part \in {"kernel", "agents"}
    /\ KernelInit
    /\ IF part = "agents" THEN AgentsInit ELSE Init

MCNext ==
    /\ UNCHANGED part
    /\ \/ part = "kernel" /\ KernelNext /\ UNCHANGED vars
       \/ part = "agents" /\ Next /\ UNCHANGED kernelVars

MCSpec == MCInit /\ [][MCNext]_<<part, kernelVars, vars>>

MCSymmetry == KernelSymmetry \cup LifecycleSymmetry
=============================================================================
