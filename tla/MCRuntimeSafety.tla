---------------------------- MODULE MCRuntimeSafety ----------------------------
\* The runtime with the two ways an answer of a human takes to the engine, one in
\* each behaviour: ResumeService queues an entry for the workers, or a Celery task
\* drives the run itself.  The web application sends Celery tasks only.  Beside it
\* the agentic loop and the pool of connections, which share no state with it: a
\* behaviour is one of a single part.
EXTENDS MCDurableRuntime, AgenticLoop, ClientConnections

VARIABLE part       \* the part that runs, and for the runtime the way of answers

ByService == /\ part = "service"
             /\ \A cl \in Direct : pc'[cl] = "idle"
ByCelery  == /\ part = "celery"
             /\ \A cl \in Clients \ Direct : item'[cl] # None => item'[cl].res = None

\* By the service two answers and a fault, or an answer and two faults; by Celery
\* two answers and two faults.
MCInit ==
    /\ LoopInit /\ ConnectionInit
    /\ \/ part = "service" /\ \E n \in {0, 1} : Start(n, 1 - n)
       \/ part \in {"celery", "loop", "connections"} /\ Start(0, 0)

MCNext ==
    /\ UNCHANGED part
    /\ \/ /\ Next /\ (ByService \/ ByCelery)
          /\ UNCHANGED <<loopVars, connectionVars>>
       \/ /\ part = "loop" /\ LoopNext
          /\ UNCHANGED <<vars, connectionVars>>
       \/ /\ part = "connections" /\ ConnectionNext
          /\ UNCHANGED <<vars, loopVars>>

MCSpec == MCInit /\ [][MCNext]_<<part, vars, loopVars, connectionVars>>
=============================================================================
