----------------------------- MODULE RemoteTasks -----------------------------
(***************************************************************************)
(* Tasks for agents that run elsewhere: InMemoryTaskQueue                  *)
(* (src/platform/task_queue.py) behind the views of                        *)
(* src/forgeos_web/kernel/views.py.  A caller submits and polls; workers   *)
(* pull what is pending, may claim it, and report a result or a failure    *)
(* whenever they like: twice, after the deadline, after somebody else.     *)
(***************************************************************************)
EXTENDS Naturals

CONSTANTS
    Jobs,
    RemoteWorkers,
    MaxAttempts,    \* Task.max_attempts
    MaxReports      \* bound: attempts a task counts before reports stop

ASSUME TaskAssumption == MaxAttempts \in Nat \ {0} /\ MaxReports \in Nat

VARIABLES
    task,           \* the stored tasks
    expired,        \* jobs past their deadline
    pulled,         \* pulled[w]: jobs worker w was given
    claims          \* ghost: how often each job was claimed

taskVars == <<task, expired, pulled, claims>>

Terminal == {"completed", "failed", "timeout"}
Unknown == [status |-> "unknown", attempts |-> 0, result |-> "none"]

TaskTypeOK ==
    /\ task \in [Jobs -> [status : {"unknown", "gone", "pending", "running"}
                                       \cup Terminal,
                          attempts : Nat,
                          result : RemoteWorkers \cup {"none"}]]
    /\ expired \subseteq Jobs
    /\ pulled \in [RemoteWorkers -> SUBSET Jobs]
    /\ claims \in [Jobs -> Nat]

TaskInit ==
    /\ task = [j \in Jobs |-> Unknown]
    /\ expired = {}
    /\ pulled = [w \in RemoteWorkers |-> {}]
    /\ claims = [j \in Jobs |-> 0]

Exists(j) == task[j].status \notin {"unknown", "gone"}
TaskOver(j) == task[j].status \in Terminal

SubmitTask(j) ==
    /\ task[j].status = "unknown"
    /\ task' = [task EXCEPT ![j].status = "pending"]
    /\ UNCHANGED <<expired, pulled, claims>>

DeadlineOf(j) ==
    /\ Exists(j) /\ j \notin expired
    /\ expired' = expired \cup {j}
    /\ UNCHANGED <<task, pulled, claims>>

-----------------------------------------------------------------------------
(* The caller.                                                             *)

\* get_task: a poll is what notices the deadline.
GetTask(j) ==
    /\ Exists(j) /\ ~TaskOver(j) /\ j \in expired
    /\ task' = [task EXCEPT ![j].status = "timeout"]
    /\ UNCHANGED <<expired, pulled, claims>>

\* cleanup_stale: only tasks that are over are deleted.
CleanUp(j) ==
    /\ TaskOver(j)
    /\ task' = [task EXCEPT ![j].status = "gone"]
    /\ UNCHANGED <<expired, pulled, claims>>

-----------------------------------------------------------------------------
(* The workers.                                                            *)

PendingTasks == {j \in Jobs : task[j].status = "pending"}

\* get_pending_by_name: times out what is late, hands out the rest, and
\* leaves it pending.
PullPending(w) ==
    /\ PendingTasks # {}
    /\ task' = [j \in Jobs |-> IF j \in PendingTasks \cap expired
                               THEN [task[j] EXCEPT !.status = "timeout"]
                               ELSE task[j]]
    /\ pulled' = [pulled EXCEPT ![w] = @ \cup (PendingTasks \ expired)]
    /\ UNCHANGED <<expired, claims>>

\* The bug of a claim that does not look at the status.
ClaimAnything(w, j) ==
    /\ j \in pulled[w]
    /\ Exists(j) /\ claims[j] <= MaxReports
    /\ task' = [task EXCEPT ![j].status = "running", ![j].attempts = @ + 1]
    /\ claims' = [claims EXCEPT ![j] = @ + 1]
    /\ UNCHANGED <<expired, pulled>>

ClaimTask(w, j) ==
    /\ j \in pulled[w]
    /\ task[j].status = "pending"
    /\ task' = [task EXCEPT ![j].status = "running", ![j].attempts = @ + 1]
    /\ claims' = [claims EXCEPT ![j] = @ + 1]
    /\ UNCHANGED <<expired, pulled>>

\* A result is taken from anybody at any time, over whatever was there.
SubmitResult(w, j) ==
    /\ j \in pulled[w] /\ Exists(j)
    /\ task' = [task EXCEPT ![j].status = "completed", ![j].result = w]
    /\ UNCHANGED <<expired, pulled, claims>>

\* The bug of not counting the attempt that failed.
RequeueFailed(w, j) ==
    /\ j \in pulled[w] /\ Exists(j)
    /\ task' = [task EXCEPT
           ![j].status = IF task[j].attempts >= MaxAttempts
                         THEN "failed" ELSE "pending"]
    /\ UNCHANGED <<expired, pulled, claims>>

\* So is a failure: it counts another attempt and asks for the next one,
\* even of a task that is over.
MarkFailed(w, j) ==
    /\ j \in pulled[w] /\ Exists(j)
    /\ task[j].attempts < MaxReports
    /\ task' = [task EXCEPT
           ![j].attempts = @ + 1,
           ![j].status = IF task[j].attempts + 1 >= MaxAttempts
                         THEN "failed" ELSE "pending"]
    /\ UNCHANGED <<expired, pulled, claims>>

TaskNext ==
    \/ \E j \in Jobs : SubmitTask(j) \/ DeadlineOf(j) \/ GetTask(j) \/ CleanUp(j)
    \/ \E w \in RemoteWorkers :
           \/ PullPending(w)
           \/ \E j \in Jobs : ClaimTask(w, j) \/ SubmitResult(w, j) \/ MarkFailed(w, j)

\* Deadlines come and callers keep polling; workers owe nothing.
TaskFairness ==
    \A j \in Jobs : WF_taskVars(DeadlineOf(j)) /\ SF_taskVars(GetTask(j))

TaskSpec == TaskInit /\ [][TaskNext]_taskVars /\ TaskFairness

-----------------------------------------------------------------------------
\* An attempt is counted when it is claimed and again when it fails
\* (task_queue.py, claim and mark_failed), so a task is claimed about half as
\* often as max_attempts says and never more, whatever is reported in between
\* and however often.
ClaimsAreBounded ==
    \A j \in Jobs : claims[j] > 0 => 2 * (claims[j] - 1) < MaxAttempts

\* A task that was submitted is over for good in the end.  Reports can revive
\* it after its deadline and after its result, but each costs an attempt and
\* the next poll times it out again.
TasksSettle ==
    \A j \in Jobs : Exists(j) ~> [](TaskOver(j) \/ ~Exists(j))
=============================================================================
