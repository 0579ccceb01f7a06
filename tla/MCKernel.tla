------------------------------ MODULE MCKernel ------------------------------
\* Small instances of Kernel for TLC: one object, a tool that a human approves
\* for a1 and that a2 may call; a1 has a daily limit, a2 a limit per task.
EXTENDS Kernel, TLC

CONSTANTS a1, a2, tool

MCDaily == a1 :> 3 @@ a2 :> 0
MCPerTask == a1 :> 0 @@ a2 :> 1
MCAsking == {<<a1, tool>>}

KernelSymmetry == Permutations(Threads) \cup Permutations(Tickets)
=============================================================================
