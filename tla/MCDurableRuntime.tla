-------------------------- MODULE MCDurableRuntime --------------------------
(***************************************************************************)
(* Instances of DurableRuntime for TLC.                                    *)
(***************************************************************************)
EXTENDS DurableRuntime, TLC

CONSTANTS c1, w1, w2, cl1, cl2, h1, h2, ask, tool, ask2

\* All actors in one process, or one worker and the Celery
\* tasks in a process of their own.
OneHost  == [a \in Actors |-> h1]
TwoHosts == [a \in Actors |-> IF a \in {w2, cl2} THEN h2 ELSE h1]

WorkerSymmetry == Permutations(Workers)
=============================================================================
