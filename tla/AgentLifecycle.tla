--------------------------- MODULE AgentLifecycle ---------------------------
(***************************************************************************)
(* The life of agents in one platform process: deployment, invocation,     *)
(* stop, update and removal (platform/executor.py), the phase machine and  *)
(* its cascade to children (platform/kernel/_process.py), the status kept  *)
(* by the registry and its store (platform/registry.py), scheduled jobs    *)
(* and subscriptions, the autonomous loop with its checkpoints, the answer *)
(* of a human that resumes an agent, and recovery after a restart.         *)
(*                                                                         *)
(* Everything runs as coroutines and request threads that interleave at    *)
(* awaits: an administrative operation waits in the adapter (create_agent, *)
(* stop), an invocation waits in the adapter's invoke, a loop waits there  *)
(* and between its iterations.  What a coroutine does between two awaits   *)
(* is one step.                                                            *)
(*                                                                         *)
(* A restart loses all but the registry's store and the process rows,      *)
(* which may or may not have been written: they are upserted in the        *)
(* background.  Checkpoints are lost: bootstrap.py passes no checkpoint    *)
(* store, so the executor keeps them in a MemoryCheckpointStore.           *)
(* Left out: always-on agents, whose loop is the adapter's own; sessions;  *)
(* usage accounting; scaffolding of files.                                 *)
(***************************************************************************)
EXTENDS Naturals, FiniteSets

CONSTANTS
    Agents,             \* agent ids
    Parent,             \* agent -> its parent_pid, None for most
    FirstKind,          \* agent -> execution type of its manifest
    RestartOnFailure,   \* agents with restart_on_failure in their metadata
    Slots,              \* bound: invocations and answers in flight, loops apart
    Ops,                \* bound: administrative operations in flight
    MaxIterations,      \* max_iterations
    MaxCrashes,         \* max_crashes_before_give_up
    MaxPending,         \* bound: agent -> its unanswered requests
    MaxRestarts,        \* bound: restarts of the platform
    MaxUpdates,         \* bound: updates of execution types
    None                \* Python's None

Phases == {"admitted", "starting", "running", "awaiting_human",
           "draining", "stopped", "failed", "quarantined", "evicted"}
\* "live" stands for idle, running, paused and completed, which no code that
\* reads a status tells apart.
Statuses == {"live", "stopped", "failed", "quarantined"}
Kinds == {"scheduled", "autonomous", "reflex"}
OpKinds == {"deploy", "recover", "stop", "undeploy", "update", "rewire"}

ASSUME LifecycleAssumption ==
    /\ Parent \in [Agents -> Agents \cup {None}]
    /\ FirstKind \in [Agents -> Kinds]
    /\ RestartOnFailure \subseteq Agents
    /\ {MaxIterations, MaxCrashes, MaxRestarts, MaxUpdates} \subseteq Nat
    /\ MaxPending \in [Agents -> Nat]
    /\ None \notin Agents \cup Phases \cup Statuses

VARIABLES
    phase,      \* agent -> phase of its process, None without a process
    status,     \* agent -> status in the registry, None when not registered
    stored,     \* agent -> status in the registry's store
    kind,       \* agent -> execution_type
    wired,      \* agents with a scheduled job or an event subscription
    loop,       \* agent -> the autonomous task
    slot,       \* slot -> the invocation or answer it is in
    op,         \* op -> the administrative operation it is in
    pending,    \* agent -> its unanswered requests to humans
    ckpt,       \* agent -> its checkpoint
    boot,       \* agents recover() has not come to yet
    restarts,   \* restarts so far
    updates,    \* updates so far
    born,       \* agents deployed so far: an agent id is used once
    finished,   \* agent -> iterations that returned since it was last stopped
                \* or done, restarts or not
    streak,     \* agent -> crashes since an iteration last returned, restarts
                \* or not
    overtaken   \* agents whose last stop ran while they were being wired, or
                \* that an update has wired again after it

agentVars == <<phase, status, stored, kind>>
ghosts == <<finished, streak, overtaken>>
vars == <<phase, status, stored, kind, wired, loop, slot, op, pending, ckpt,
          boot, restarts, updates, born, finished, streak, overtaken>>

NoLoop == [pc |-> "none", step |-> 0, crash |-> 0]
NoCkpt == [step |-> 0, crash |-> 0]
Free == [pc |-> "free", agent |-> None]

-----------------------------------------------------------------------------
(* The phase machine.                                                      *)

\* _ALLOWED_TRANSITIONS.
Allowed ==
    [p \in Phases |->
        CASE p = "admitted"       -> {"starting", "failed", "quarantined", "evicted", "stopped"}
          [] p = "starting"       -> {"running", "failed", "quarantined", "evicted", "stopped"}
          [] p = "running"        -> {"awaiting_human", "draining", "failed",
                                      "quarantined", "evicted", "stopped"}
          [] p = "awaiting_human" -> {"running", "draining", "failed",
                                      "quarantined", "evicted", "stopped"}
          [] p = "draining"       -> {"stopped", "failed", "evicted"}
          [] p = "failed"         -> {"quarantined", "stopped"}
          [] p \in {"quarantined", "evicted"} -> {"stopped", "admitted"}
          [] OTHER                -> {}]

Ending == {"stopped", "failed", "quarantined", "evicted"}

\* AgentProcess.transition on the table ph.
Own(ph, a, new, force) ==
    IF ph[a] # None /\ (force \/ new \in Allowed[ph[a]])
    THEN [ph EXCEPT ![a] = new] ELSE ph

\* _cascade_to_children: children that are not stopped drain, whatever phase
\* they are in.
Cascade(ph, a) ==
    [c \in Agents |-> IF Parent[c] = a /\ ph[c] \notin {None, "stopped"}
                      THEN "draining" ELSE ph[c]]

\* Mutant: children are left alone.
TransitionAlone(ph, a, new, force) == Own(ph, a, new, force)

\* ProcessTable.transition: the children drain even where the agent's own
\* transition was rejected.
Transition(ph, a, new, force) ==
    IF ph[a] # None /\ new \in Ending THEN Cascade(Own(ph, a, new, force), a)
    ELSE Own(ph, a, new, force)

\* set_status, in memory or in the store: nothing for an agent that is gone.
SetStatus(st, a, s) == IF st[a] = None THEN st ELSE [st EXCEPT ![a] = s]

\* _mirror_status and status_value_from_phase, after a transition to new.
Mirror(st, ph, a, new) ==
    IF ph[a] # new \/ new \notin Ending THEN st
    ELSE SetStatus(st, a, IF new = "evicted" THEN "stopped" ELSE new)

\* set_status of the registry: memory and store.
Write(a, s) ==
    /\ status' = SetStatus(status, a, s)
    /\ stored' = SetStatus(stored, a, s)

\* transition with its mirror.
Move(a, new, force) ==
    /\ phase' = Transition(phase, a, new, force)
    /\ status' = Mirror(status, phase', a, new)
    /\ stored' = Mirror(stored, phase', a, new)

-----------------------------------------------------------------------------
Results == {"live", "completed", "failed"}
Loops == [pc : {"none", "top", "invoking", "cancelled"} \cup Results,
          step : 0..MaxIterations, crash : Nat]
SlotStates == [pc : {"free", "job", "request", "cancelled", "answered", "keep", "resume"},
               agent : Agents \cup {None}]
OpStates == [pc : {"free"} \cup OpKinds, agent : Agents \cup {None}]

TypeOK ==
    /\ phase \in [Agents -> Phases \cup {None}]
    /\ status \in [Agents -> Statuses \cup {None}]
    /\ stored \in [Agents -> Statuses \cup {None}]
    /\ kind \in [Agents -> Kinds]
    /\ wired \subseteq Agents
    /\ loop \in [Agents -> Loops]
    /\ slot \in [Slots -> SlotStates]
    /\ op \in [Ops -> OpStates]
    /\ pending \in [Agents -> Nat]
    /\ ckpt \in [Agents -> [step : 0..MaxIterations, crash : Nat]]
    /\ boot \subseteq Agents
    /\ restarts \in 0..MaxRestarts
    /\ updates \in 0..MaxUpdates
    /\ born \subseteq Agents
    /\ finished \in [Agents -> SUBSET (0..MaxIterations)]
    /\ streak \in [Agents -> Nat]
    /\ overtaken \subseteq Agents

\* Nothing deployed; the ids of used were deployed and removed before, and r
\* restarts and u updates of the bounds are behind.
Start(used, r, u, kinds) ==
    /\ phase = [a \in Agents |-> None]
    /\ status = [a \in Agents |-> None]
    /\ stored = [a \in Agents |-> None]
    /\ kind = kinds
    /\ wired = {}
    /\ loop = [a \in Agents |-> NoLoop]
    /\ slot = [s \in Slots |-> Free]
    /\ op = [o \in Ops |-> Free]
    /\ pending = [a \in Agents |-> 0]
    /\ ckpt = [a \in Agents |-> NoCkpt]
    /\ boot = {}
    /\ restarts = r
    /\ updates = u
    /\ born = used
    /\ finished = [a \in Agents |-> {}]
    /\ streak = [a \in Agents |-> 0]
    /\ overtaken = {}

Init == Start({}, 0, 0, FirstKind)

-----------------------------------------------------------------------------
(* Wiring and administrative operations.                                   *)

Registered(a) == status[a] # None
Wiring(a) == \E o \in Ops : op[o].agent = a /\ op[o].pc \in {"deploy", "recover", "rewire"}
Serving == boot = {} /\ \A o \in Ops : op[o].pc # "recover"

\* _resume_point and the start of the loop's task.
Resumed(a) == [pc |-> "top", step |-> ckpt[a].step, crash |-> ckpt[a].crash]

\* _wire_execution; st is the status in memory or in the store.
WiredStatus(st, a) ==
    IF kind[a] = "scheduled" THEN st ELSE SetStatus(st, a, "live")

Wire(a) ==
    /\ wired' = IF kind[a] = "scheduled" THEN wired \cup {a} ELSE wired
    /\ loop' = IF kind[a] = "autonomous" THEN [loop EXCEPT ![a] = Resumed(a)] ELSE loop
    /\ status' = WiredStatus(status, a)
    /\ stored' = WiredStatus(stored, a)

\* deploy up to the await of create_agent: registry, process, STARTING.
Deploy(o, a) ==
    /\ Serving /\ op[o] = Free /\ a \notin born
    /\ born' = born \cup {a}
    /\ status' = [status EXCEPT ![a] = "live"]
    /\ stored' = [stored EXCEPT ![a] = "live"]
    /\ phase' = [phase EXCEPT ![a] = "starting"]
    /\ op' = [op EXCEPT ![o] = [pc |-> "deploy", agent |-> a]]
    /\ UNCHANGED <<kind, wired, loop, slot, pending, ckpt, boot, restarts, updates, ghosts>>

\* create_agent returned, in deploy or in recover.
Created(o) ==
    /\ op[o].pc \in {"deploy", "recover"}
    /\ LET a == op[o].agent IN
       /\ Wire(a)
       /\ phase' = Transition(phase, a, "running", FALSE)
    /\ op' = [op EXCEPT ![o] = Free]
    /\ UNCHANGED <<kind, slot, pending, ckpt, boot, restarts, updates, born, ghosts>>

\* deploy failed: FAILED, which drains the children, and everything removed.
DeployFails(o) ==
    /\ op[o].pc = "deploy"
    /\ LET a == op[o].agent IN
       /\ phase' = [Transition(phase, a, "failed", TRUE) EXCEPT ![a] = None]
       /\ status' = [status EXCEPT ![a] = None]
       /\ stored' = [stored EXCEPT ![a] = None]
    /\ op' = [op EXCEPT ![o] = Free]
    /\ UNCHANGED <<kind, wired, loop, slot, pending, ckpt, boot, restarts, updates, born, ghosts>>

\* stop_agent, undeploy and the update of the execution type, up to the await
\* of the adapter's stop. Bound: one update of an agent at a time.
Stop(o, a, k) ==
    /\ Serving /\ op[o] = Free /\ Registered(a)
    /\ IF k = "update"
       THEN /\ ~Wiring(a) /\ \A p \in Ops : op[p] # [pc |-> "update", agent |-> a]
            /\ updates < MaxUpdates
            /\ updates' = updates + 1
       ELSE UNCHANGED updates
    /\ op' = [op EXCEPT ![o] = [pc |-> k, agent |-> a]]
    /\ UNCHANGED <<agentVars, wired, loop, slot, pending, ckpt, boot, restarts, born, ghosts>>

\* Mutant: the task is forgotten and not cancelled.
LeaveLoop(a) == UNCHANGED loop

\* cancel() of the loop's task: an invocation still runs its finally clause.
CancelLoop(a) ==
    loop' = [loop EXCEPT ![a] = IF @.pc \in {"invoking", "cancelled"}
                                THEN [@ EXCEPT !.pc = "cancelled"] ELSE NoLoop]

\* Mutant: the job stays.
KeepJob(a) == UNCHANGED <<wired, slot>>

\* remove_job: the interval scheduler cancels the job's running invocation,
\* APScheduler and the event bus do not.
RemoveJob(a) ==
    /\ wired' = wired \ {a}
    /\ \E cancels \in BOOLEAN :
         slot' = IF ~cancels THEN slot
                 ELSE [s \in Slots |-> IF slot[s] = [pc |-> "job", agent |-> a]
                                       THEN [slot[s] EXCEPT !.pc = "cancelled"] ELSE slot[s]]

\* The rest of stop_agent: DRAINING, STOPPED, and the checkpoint dropped;
\* undeploy goes on to remove the agent, an update to wire it again.
StopEnds(o) ==
    /\ op[o].pc \in {"stop", "undeploy", "update"}
    /\ LET a == op[o].agent
           stopped == Transition(Transition(phase, a, "draining", FALSE), a, "stopped", FALSE)
           gone == op[o].pc = "undeploy" IN
       /\ CancelLoop(a)
       /\ RemoveJob(a)
       /\ phase' = IF gone THEN [stopped EXCEPT ![a] = None] ELSE stopped
       /\ status' = IF gone THEN [status EXCEPT ![a] = None] ELSE SetStatus(status, a, "stopped")
       /\ stored' = IF gone THEN [stored EXCEPT ![a] = None] ELSE SetStatus(stored, a, "stopped")
       /\ ckpt' = [ckpt EXCEPT ![a] = NoCkpt]
       /\ finished' = [finished EXCEPT ![a] = {}]
       /\ streak' = [streak EXCEPT ![a] = 0]
       /\ overtaken' = IF Wiring(a) THEN overtaken \cup {a} ELSE overtaken \ {a}
       /\ IF op[o].pc = "update"
          THEN /\ \E k \in Kinds \ {kind[a]} : kind' = [kind EXCEPT ![a] = k]
               /\ op' = [op EXCEPT ![o].pc = "rewire"]
          ELSE /\ op' = [op EXCEPT ![o] = Free]
               /\ UNCHANGED kind
    /\ UNCHANGED <<pending, boot, restarts, updates, born>>

\* The update wires the agent's new execution type; its phase stays STOPPED.
\* The wait for a cancelled task to end is the model's: in the code its callback
\* may then drop the new task from the table.
Rewire(o) ==
    /\ op[o].pc = "rewire"
    /\ loop[op[o].agent] = NoLoop
    /\ Wire(op[o].agent)
    /\ overtaken' = overtaken \cup {op[o].agent}
    /\ op' = [op EXCEPT ![o] = Free]
    /\ UNCHANGED <<phase, kind, slot, pending, ckpt, boot, restarts, updates, born, finished, streak>>

\* SignalsView: SIGTERM asks, SIGEVICT forces.
Signal(a) ==
    /\ Serving
    /\ phase[a] # None
    /\ Move(a, "draining", FALSE) \/ Move(a, "evicted", TRUE)
    /\ UNCHANGED <<kind, wired, loop, slot, op, pending, ckpt, boot, restarts, updates, born, ghosts>>

-----------------------------------------------------------------------------
(* Invocations.                                                            *)

\* The status of a result.
Outcome(r) == IF r = "failed" THEN "failed" ELSE "live"

Running(a) == loop[a].pc = "invoking"
              \/ \E s \in Slots : slot[s].agent = a /\ slot[s].pc \in {"job", "request"}

\* The finally clause: an agent with unanswered requests is parked.
Park(a) == phase' = IF pending[a] > 0 THEN Own(phase, a, "awaiting_human", TRUE) ELSE phase

\* invoke up to the await of the adapter: a tick of the job or an event, or a
\* caller that asked for it.
Invoke(s, a, pc) ==
    /\ slot[s] = Free /\ Registered(a)
    /\ (pc = "job" /\ a \in wired) \/ (pc = "request" /\ Serving)
    /\ Write(a, "live")
    /\ slot' = [slot EXCEPT ![s] = [pc |-> pc, agent |-> a]]
    /\ UNCHANGED <<phase, kind, wired, loop, op, pending, ckpt, boot, restarts, updates, born, ghosts>>

\* The adapter returned or raised: its status overwrites the agent's.
InvokeReturns(s) ==
    /\ slot[s].pc \in {"job", "request"}
    /\ \E r \in {"live", "failed"} : Write(slot[s].agent, r)
    /\ Park(slot[s].agent)
    /\ slot' = [slot EXCEPT ![s] = Free]
    /\ UNCHANGED <<kind, wired, loop, op, pending, ckpt, boot, restarts, updates, born, ghosts>>

\* CancelledError: only the finally clause runs.
Cancelled(s) ==
    /\ slot[s].pc = "cancelled"
    /\ Park(slot[s].agent)
    /\ slot' = [slot EXCEPT ![s] = Free]
    /\ UNCHANGED <<status, stored, kind, wired, loop, op, pending, ckpt, boot, restarts, updates, born, ghosts>>

\* A running agent asks a human; a request expires unanswered.
Ask(a) ==
    /\ Running(a) /\ pending[a] < MaxPending[a]
    /\ pending' = [pending EXCEPT ![a] = @ + 1]
    /\ UNCHANGED <<agentVars, wired, loop, slot, op, ckpt, boot, restarts, updates, born, ghosts>>

Expire(a) ==
    /\ pending[a] > 0
    /\ pending' = [pending EXCEPT ![a] = @ - 1]
    /\ UNCHANGED <<agentVars, wired, loop, slot, op, ckpt, boot, restarts, updates, born, ghosts>>

-----------------------------------------------------------------------------
(* A human answers: the request thread stores the answer, reads what else  *)
(* is pending, moves the process and, when nothing is left, invokes.       *)

Answer(s, a) ==
    /\ Serving /\ slot[s] = Free /\ pending[a] > 0
    /\ pending' = [pending EXCEPT ![a] = @ - 1]
    /\ slot' = [slot EXCEPT ![s] = [pc |-> "answered", agent |-> a]]
    /\ UNCHANGED <<agentVars, wired, loop, op, ckpt, boot, restarts, updates, born, ghosts>>

ReadPending(s) ==
    /\ slot[s].pc = "answered"
    /\ slot' = [slot EXCEPT ![s].pc = IF pending[slot[s].agent] > 0 THEN "keep" ELSE "resume"]
    /\ UNCHANGED <<agentVars, wired, loop, op, pending, ckpt, boot, restarts, updates, born, ghosts>>

Settle(s) ==
    /\ slot[s].pc \in {"keep", "resume"}
    /\ LET a == slot[s].agent
           resumes == slot[s].pc = "resume" IN
       /\ phase' = Own(phase, a, IF resumes THEN "running" ELSE "awaiting_human", TRUE)
       /\ IF resumes /\ Registered(a)
          THEN /\ Write(a, "live")
               /\ slot' = [slot EXCEPT ![s].pc = "request"]
          ELSE /\ UNCHANGED <<status, stored>>
               /\ slot' = [slot EXCEPT ![s] = Free]
    /\ UNCHANGED <<kind, wired, loop, op, pending, ckpt, boot, restarts, updates, born, ghosts>>

-----------------------------------------------------------------------------
(* The autonomous loop.                                                    *)

EndLoop(a) == loop' = [loop EXCEPT ![a] = NoLoop]

\* The range is exhausted; or the status says stopped, as it does for an
\* agent no longer registered.
LoopEnds(a) ==
    /\ loop[a].pc = "top"
    /\ \/ loop[a].step >= MaxIterations /\ Write(a, "live")
       \/ loop[a].step < MaxIterations /\ status[a] \in {None, "stopped"}
          /\ UNCHANGED <<status, stored>>
    /\ EndLoop(a)
    /\ UNCHANGED <<phase, kind, wired, slot, op, pending, ckpt, boot, restarts, updates, born, ghosts>>

LoopInvokes(a) ==
    /\ loop[a].pc = "top" /\ loop[a].step < MaxIterations
    /\ status[a] \notin {None, "stopped"}
    /\ Write(a, "live")
    /\ loop' = [loop EXCEPT ![a].pc = "invoking"]
    /\ UNCHANGED <<phase, kind, wired, slot, op, pending, ckpt, boot, restarts, updates, born, ghosts>>

\* Mutant: the checkpoint is a step ahead.
SaveAhead(a, step, crash) ==
    ckpt' = IF phase[a] = None THEN ckpt
            ELSE [ckpt EXCEPT ![a] = [step |-> step + 1, crash |-> crash]]

\* _save_checkpoint: nothing without a process.
SaveCkpt(a, step, crash) ==
    ckpt' = IF phase[a] = None THEN ckpt
            ELSE [ckpt EXCEPT ![a] = [step |-> step, crash |-> crash]]

\* Mutant: one crash too many.
GivesUpLate(crash) == crash > MaxCrashes

\* So many crashes in a row are enough.
GivesUp(crash) == crash >= MaxCrashes

\* The registry's store fails under set_status, outside the try of invoke: the
\* iteration crashes, and after MaxCrashes in a row the agent is quarantined,
\* in the store too when it is back by then.
LoopCrashes(a) ==
    LET crash == loop[a].crash + 1
        out == GivesUp(crash) IN
    /\ loop[a].pc = "top" /\ loop[a].step < MaxIterations
    /\ status[a] \notin {None, "stopped"}
    /\ streak' = [streak EXCEPT ![a] = @ + 1]
    /\ SaveCkpt(a, loop[a].step, crash)
    /\ IF out
       THEN /\ phase' = Transition(phase, a, "quarantined", TRUE)
            /\ status' = SetStatus(status, a, "quarantined")
            /\ stored' \in {stored, SetStatus(stored, a, "quarantined")}
            /\ EndLoop(a)
       ELSE /\ status' = SetStatus(status, a, "live")
            /\ loop' = [loop EXCEPT ![a] = [pc |-> "top", step |-> @.step + 1, crash |-> crash]]
            /\ UNCHANGED <<phase, stored>>
    /\ UNCHANGED <<kind, wired, slot, op, pending, boot, restarts, updates, born, finished, overtaken>>

\* The iteration's invoke has its result and awaits agent_runs.finish.
LoopReturns(a) ==
    /\ Running(a) /\ loop[a].pc = "invoking"
    /\ \E r \in Results :
         /\ Write(a, Outcome(r))
         /\ loop' = [loop EXCEPT ![a].pc = r]
    /\ Park(a)
    /\ finished' = [finished EXCEPT ![a] = @ \cup {loop[a].step}]
    /\ UNCHANGED <<kind, wired, slot, op, pending, ckpt, boot, restarts, updates, born, streak, overtaken>>

\* The iteration is over: checkpoint, then the result decides.
LoopSaves(a) ==
    LET r == loop[a].pc
        next == loop[a].step + 1 IN
    /\ r \in Results
    /\ streak' = [streak EXCEPT ![a] = 0]
    /\ CASE r = "completed" ->
              /\ Write(a, "live")
              /\ ckpt' = [ckpt EXCEPT ![a] = NoCkpt]
              /\ finished' = [finished EXCEPT ![a] = {}]
              /\ EndLoop(a)
         [] r = "failed" /\ a \notin RestartOnFailure ->
              /\ Write(a, "failed")
              /\ SaveCkpt(a, next, 0)
              /\ EndLoop(a)
              /\ UNCHANGED finished
         [] OTHER ->
              /\ SaveCkpt(a, next, 0)
              /\ loop' = [loop EXCEPT ![a] = [pc |-> "top", step |-> next, crash |-> 0]]
              /\ UNCHANGED <<status, stored, finished>>
    /\ UNCHANGED <<phase, kind, wired, slot, op, pending, boot, restarts, updates, born, overtaken>>

\* The cancelled task ends after the finally clause of its invocation.
LoopCancelled(a) ==
    /\ loop[a].pc = "cancelled"
    /\ Park(a)
    /\ EndLoop(a)
    /\ UNCHANGED <<status, stored, kind, wired, slot, op, pending, ckpt, boot, restarts, updates, born, ghosts>>

-----------------------------------------------------------------------------
(* Restart and recovery.                                                   *)

Restart ==
    /\ restarts < MaxRestarts
    /\ restarts' = restarts + 1
    /\ \E rows \in SUBSET Agents :
         phase' = [a \in Agents |-> IF a \in rows THEN phase[a] ELSE None]
    /\ status' = stored
    /\ wired' = {}
    /\ loop' = [a \in Agents |-> NoLoop]
    /\ slot' = [s \in Slots |-> Free]
    /\ op' = [o \in Ops |-> Free]
    /\ pending' = [a \in Agents |-> 0]
    /\ ckpt' = [a \in Agents |-> NoCkpt]
    /\ boot' = {a \in Agents : stored[a] # None}
    /\ overtaken' = {}
    /\ UNCHANGED <<stored, kind, born, updates, finished, streak>>

\* recover skips quarantined agents, and leaves dormant those that had failed
\* or were stopped and do not restart on failure.
Dormant(a) == \/ status[a] = "quarantined"
              \/ status[a] \in {"failed", "stopped"} /\ a \notin RestartOnFailure

\* recover, one agent after the other, up to the await of create_agent.
Recover(o, a) ==
    /\ a \in boot /\ op[o] = Free
    /\ \A p \in Ops : op[p].pc # "recover"
    /\ boot' = boot \ {a}
    /\ IF Dormant(a) THEN UNCHANGED <<phase, op>>
       ELSE /\ phase' = [phase EXCEPT ![a] = "starting"]
            /\ op' = [op EXCEPT ![o] = [pc |-> "recover", agent |-> a]]
    /\ UNCHANGED <<status, stored, kind, wired, loop, slot, pending, ckpt, restarts, updates, born, ghosts>>

RecoverFails(o) ==
    /\ op[o].pc = "recover"
    /\ Move(op[o].agent, "failed", TRUE)
    /\ op' = [op EXCEPT ![o] = Free]
    /\ UNCHANGED <<kind, wired, loop, slot, pending, ckpt, boot, restarts, updates, born, ghosts>>

-----------------------------------------------------------------------------
OpNext ==
    \E o \in Ops :
        \/ Created(o) \/ DeployFails(o) \/ StopEnds(o) \/ Rewire(o) \/ RecoverFails(o)
        \/ \E a \in Agents :
             \/ Deploy(o, a) \/ Recover(o, a)
             \/ \E k \in {"stop", "undeploy", "update"} : Stop(o, a, k)

SlotNext ==
    \E s \in Slots :
        \/ InvokeReturns(s) \/ Cancelled(s) \/ ReadPending(s) \/ Settle(s)
        \/ \E a \in Agents : Answer(s, a) \/ Invoke(s, a, "job") \/ Invoke(s, a, "request")

AgentLoopNext(a) ==
    LoopEnds(a) \/ LoopInvokes(a) \/ LoopCrashes(a) \/ LoopReturns(a) \/ LoopSaves(a)
    \/ LoopCancelled(a)

Next ==
    \/ OpNext \/ SlotNext \/ Restart
    \/ \E a \in Agents : AgentLoopNext(a) \/ Ask(a) \/ Expire(a) \/ Signal(a)

Spec == Init /\ [][Next]_vars

-----------------------------------------------------------------------------
(* Properties.                                                             *)

Active(a) == loop[a].pc \notin {"none", "cancelled"}

\* A stopped agent has no job and no loop, however its stop interleaves with
\* invocations, answers, signals, its loop and restarts. Not so when the stop ran
\* while the agent was being deployed, which wires it afterwards, or when an
\* update has wired it again: until its next stop or a restart.
StoppedIsUnwired ==
    \A a \in Agents \ overtaken : phase[a] = "stopped" => a \notin wired /\ ~Active(a)

\* A removed agent leaves no process, job or loop behind, with the same two
\* exceptions: a failed deployment and undeploy both clean up all of it.
GoneLeavesNothing ==
    \A a \in Agents \ overtaken :
        status[a] = None => phase[a] = None /\ a \notin wired /\ ~Active(a)

\* The loop of an agent crashes at most MaxCrashes times in a row after each
\* start of the platform, whatever store writes fail and however the agent is
\* stopped, updated and recovered in between: then it is quarantined.
CrashBudget == \A a \in Agents : streak[a] <= MaxCrashes * (restarts + 1)

\* A loop that is started repeats at most one iteration per restart, the one
\* whose checkpoint it cut off, and counts the crashes so far (the loop's comments:
\* "this is how autonomous agents survive a platform restart", "so a restart
\* doesn't reset the counter").
LoopsResume ==
    [][\A a \in Agents : loop[a].pc = "none" /\ loop'[a].pc = "top" =>
          /\ Cardinality({i \in finished[a] : i >= loop'[a].step}) <= restarts
          /\ loop'[a].crash = streak[a]]_vars

\* A child never outlives its parent's end in a running phase: the step that
\* ends a parent, whichever operation it belongs to, leaves each of its
\* children stopped, draining or gone.
ChildrenDrain ==
    [][\A c \in Agents : LET p == Parent[c] IN
          p # None /\ phase[p] \notin Ending \cup {None} /\ phase'[p] \in Ending
            => phase'[c] \in {"stopped", "draining", None}]_vars

\* A failed, quarantined or evicted process never runs again in its generation:
\* it stays in a sideband, is stopped, removed, or registered anew at boot.
SidebandsAreTerminal ==
    [][\A a \in Agents : phase[a] \in Ending \ {"stopped"} =>
          phase'[a] \in Ending \cup {"starting", None}]_vars

=============================================================================
