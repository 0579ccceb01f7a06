--------------------------- MODULE DurableRuntime ---------------------------
(***************************************************************************)
(* The durable agent runtime (src/runtime): continuations in Postgres, the *)
(* runnable ledger, the Redis queue, the workers that drive one LLM turn   *)
(* per claim, and the resume service that wakes a suspended run when a     *)
(* human answers an approval request.  A resume reaches the engine in one  *)
(* of two ways: the resume service enqueues it for a worker, or a Celery   *)
(* task (forgeos_web/tasks.py) calls the engine itself.                    *)
(*                                                                         *)
(* Deployment: several hosts (processes) share the database and the queue. *)
(* The actors of one host are coroutines of one event loop, so what one of *)
(* them does between two awaits is never interleaved with another actor of *)
(* the same host; actors of different hosts interleave at every database   *)
(* or queue call.                                                          *)
(*                                                                         *)
(* Messages, prompts, priorities and delays are left out: a claim may take *)
(* any entry of the queue at any time.                                     *)
(***************************************************************************)
EXTENDS RunnableLedger, Bags, FiniteSets, Sequences

CONSTANTS
    Conts,          \* continuation ids
    Workers,        \* worker loops (service.py _loop)
    Clients,        \* requests: invocations, approvals, rejections, results
    Direct,         \* the clients that are Celery resume_agent tasks
    Hosts,          \* processes
    HostOf,         \* the host of each worker and client
    Calls,          \* tool calls the model may make in one turn
    Gated,          \* the calls the kernel answers with ask_human; any other
                    \* answer (allow, deny, mask, rate_limit) settles the call
    MaxTurns,       \* Continuation.max_turns
    ToolAttempts,   \* agentic_loop.py TOOL_MAX_RETRIES + 1: calls per dispatch
    MaxAsks,        \* bound: replies of the model that ask for tools
    MaxAnswers,     \* bound: answers humans submit, duplicates included
    FaultKinds,     \* the kinds of faults that may happen
    MaxFaults,      \* bound: how many faults happen
    Redelivery      \* may an entry be delivered again while a worker has it?

Actors == Workers \cup Clients

ASSUME RuntimeAssumption ==
    /\ HostOf \in [Actors -> Hosts]
    /\ Workers \cap Clients = {}
    /\ Direct \subseteq Clients
    /\ Gated \subseteq Calls
    /\ MaxTurns \in Nat \ {0}
    /\ ToolAttempts \in Nat \ {0}
    /\ MaxAsks \in Nat
    /\ MaxAnswers \in Nat
    /\ FaultKinds \subseteq {"raise", "abandon", "taskError", "crash", "flush"}
    /\ MaxFaults \in Nat
    /\ Redelivery \in BOOLEAN

(***************************************************************************)
(* The data.  The replies that ask for tools are numbered; a reference     *)
(* (external_ref) names one call of one reply, and so does the tool_use_id *)
(* the provider gives that call.  A turn that is run again gets new ones.  *)
(***************************************************************************)
Asks == 1 .. MaxAsks
Refs == [ask: Asks, call: Calls]
Outcomes == {"accept", "reject", "result"}
Resolutions == [ref: Refs, outcome: Outcomes]

\* calls is pending_calls; ask is the reply these calls are from.
CallStatus == {"none", "pending", "executed", "rejected"}
CallMap == [Calls -> CallStatus]
ContStatus == {"running", "suspended", "resuming", "done", "failed"}
Continuations ==
    [status: ContStatus, epoch: Nat, turn: 0 .. MaxTurns,
     ask: 0 .. MaxAsks, calls: CallMap]

Replies == [ask: Asks, calls: CallMap]
Items == [cont: Conts, epoch: Nat, res: Resolutions \cup {None}]

NoCalls == [k \in Calls |-> "none"]
NewContinuation ==
    [status |-> "running", epoch |-> 0, turn |-> 0, ask |-> 0, calls |-> NoCalls]

ASSUME NoneAssumption ==
    /\ None \notin Row
    /\ None \notin Continuations
    /\ None \notin Resolutions
    /\ None \notin Items
    /\ None \notin Replies
    /\ None \notin Conts

VARIABLES
    store,      \* the continuations table
    refs,       \* the continuation_refs table: references that can be found
    ledger,     \* the runnable_ledger table
    queue,      \* the entries of the queue, claimed ones included, until acked
    pc,         \* where each actor is
    item,       \* the entry a worker claimed, or what a client is to enqueue
    loc,        \* the actor's own copy of the continuation it works on
    reply,      \* the tool calls of the turn the actor runs
    up,         \* the hosts that run
    answers,    \* how many answers humans have submitted
    faults,     \* how many faults have happened
    asked,      \* history: the run and turn of each reply that asked for tools
    granted,    \* history: references a human approved, once it was accepted
    ran         \* history: how often a gated call's tool was called, every
                \* attempt counted, and how often another call was dispatched

history == <<answers, faults, asked, granted, ran>>
vars == <<store, refs, ledger, queue, pc, item, loc, reply, up,
          answers, faults, asked, granted, ran>>

----------------------------------------------------------------------------
(***************************************************************************)
(* Where an actor can be.  The engine's places are inside the try of       *)
(* handle_one: what is raised there is a crash of the task.  A place of    *)
(* Section lies between two awaits.                                        *)
(***************************************************************************)
EnginePlaces == {"starting", "saveRunning", "saveResuming", "gatedTool",
                 "saveResolved", "resolved", "maxTurns", "turn", "tools",
                 "saveTurn", "turnDone", "indexRefs"}
EnqueuePlaces == {"enqLoad", "enqSave", "enqUpsert", "enqPush"}
SettlePlaces == {"settleDone", "settleFailed"}
Places == EnginePlaces \cup EnqueuePlaces \cup SettlePlaces
            \cup {"idle", "claimed", "ack", "nackAck", "nackPush", "retry"}

Section == (EnginePlaces \ {"gatedTool", "turn", "tools"})
             \cup SettlePlaces \cup (EnqueuePlaces \ {"enqPush"})

\* A Celery task finds the run on its own thread and then waits for the loop.
InSection(a) == pc[a] \in Section /\ (a \in Direct => pc[a] # "starting")

\* The actor's event loop is free to run it.
CanStep(a) ==
    /\ up[HostOf[a]]
    /\ \A b \in Actors \ {a} : HostOf[b] = HostOf[a] => ~InSection(b)

At(a, place) == pc[a] = place /\ CanStep(a)
Goto(a, place) == pc' = [pc EXCEPT ![a] = place]

ContOf(a) == item[a].cont
Save(a, cont) == store' = [store EXCEPT ![ContOf(a)] = cont]
SetLoc(a, cont) == loc' = [loc EXCEPT ![a] = cont]
Entry(a) == SetToBag({item[a]})

\* The actor forgets what it was doing.
Release(a) ==
    /\ Goto(a, "idle")
    /\ item' = [item EXCEPT ![a] = None]
    /\ SetLoc(a, None)
    /\ reply' = [reply EXCEPT ![a] = None]

\* The reference of call k of a reply, or of the reply a copy has pending.
RefOf(rec, k) == [ask |-> rec.ask, call |-> k]
With(rec, status) == {k \in Calls : rec.calls[k] = status}
Pending(rec) == With(rec, "pending")
SetCall(cont, k, status) == [cont EXCEPT !.calls[k] = status]

\* Nothing invoked; the bounds leave room for fewer answers and faults when
\* some are behind.
Start(answered, failed) ==
    /\ store = [c \in Conts |-> None]
    /\ refs = {}
    /\ ledger = [c \in Conts |-> None]
    /\ queue = EmptyBag
    /\ pc = [a \in Actors |-> "idle"]
    /\ item = [a \in Actors |-> None]
    /\ loc = [a \in Actors |-> None]
    /\ reply = [a \in Actors |-> None]
    /\ up = [h \in Hosts |-> TRUE]
    /\ answers = answered
    /\ faults = failed
    /\ asked = <<>>
    /\ granted = {}
    /\ ran = [r \in Refs |-> 0]

Init == Start(0, 0)

----------------------------------------------------------------------------
(***************************************************************************)
(* The enqueuer: load, bump the epoch, save the whole row, write the       *)
(* ledger, push.  Clients go through it to start or to resume a run, and   *)
(* a worker goes through it when its turn is not the last one.             *)
(***************************************************************************)
EnqueueLoad(a) ==
    /\ At(a, "enqLoad")
    /\ LET cont == store[ContOf(a)]
       IN  SetLoc(a, [cont EXCEPT !.epoch = @ + 1])
    /\ Goto(a, "enqSave")
    /\ UNCHANGED <<store, refs, ledger, queue, item, up, reply, history>>

EnqueueSave(a) ==
    /\ At(a, "enqSave")
    /\ Save(a, loc[a])
    /\ Goto(a, "enqUpsert")
    /\ UNCHANGED <<refs, ledger, queue, item, loc, reply, up, history>>

EnqueueUpsert(a) ==
    /\ At(a, "enqUpsert")
    /\ ledger' = [ledger EXCEPT ![ContOf(a)] = UpsertQueued(@, loc[a].epoch)]
    /\ Goto(a, "enqPush")
    /\ UNCHANGED <<store, refs, queue, item, loc, reply, up, history>>

\* Mutants: the entry forgets the resolution, or carries the epoch from
\* before the bump.
NewEntryBare(a) == [cont |-> ContOf(a), epoch |-> loc[a].epoch, res |-> None]
NewEntryOldEpoch(a) ==
    [cont |-> ContOf(a), epoch |-> loc[a].epoch - 1, res |-> item[a].res]

\* The next turn carries no resolution; a client's request carries its own.
NewEntry(a) ==
    [cont  |-> ContOf(a),
     epoch |-> loc[a].epoch,
     res   |-> IF a \in Workers THEN None ELSE item[a].res]

\* What a human approved, once the queue (of the runtime, of Celery) has it.
Approved(it) ==
    IF it.res # None /\ it.res.outcome = "accept"
      THEN granted \cup {it.res.ref} ELSE granted

EnqueuePush(a) ==
    /\ At(a, "enqPush")
    /\ queue' = queue (+) SetToBag({NewEntry(a)})
    /\ granted' = IF a \in Workers THEN granted ELSE Approved(item[a])
    /\ IF a \in Workers
         THEN Goto(a, "ack") /\ UNCHANGED <<item, loc, reply>>
         ELSE Release(a)
    /\ UNCHANGED <<store, refs, ledger, up, answers, faults, asked, ran>>

Enqueue(a) ==
    \/ EnqueueLoad(a)
    \/ EnqueueSave(a)
    \/ EnqueueUpsert(a)
    \/ EnqueuePush(a)

----------------------------------------------------------------------------
(***************************************************************************)
(* The clients.                                                            *)
(***************************************************************************)
\* enqueue_invoke: create the continuation, then enqueue it.
Invoke(cl, c) ==
    /\ cl \notin Direct
    /\ At(cl, "idle")
    /\ store[c] = None
    /\ store' = [store EXCEPT ![c] = NewContinuation]
    /\ item' = [item EXCEPT ![cl] = [cont |-> c, epoch |-> 0, res |-> None]]
    /\ Goto(cl, "enqLoad")
    /\ UNCHANGED <<refs, ledger, queue, loc, reply, up, history>>

\* _find: the reference is indexed and its record is among the pending calls,
\* whatever the status of the record and of the continuation.
RunOf(r) == asked[r.ask].cont

Found(r) ==
    /\ r \in refs
    /\ store[RunOf(r)].ask = r.ask
    /\ store[RunOf(r)].calls[r.call] # "none"

\* approve, reject, deliver_result and timeout of the resume service, which
\* enqueue; resume_agent, which only accepts or rejects, enters the engine.
Answer(cl, r, out) ==
    /\ At(cl, "idle")
    /\ answers < MaxAnswers
    /\ Found(r)
    /\ cl \in Direct => out # "result"
    /\ answers' = answers + 1
    /\ item' = [item EXCEPT ![cl] =
                  [cont |-> RunOf(r), epoch |-> 0, res |-> [ref |-> r, outcome |-> out]]]
    /\ granted' = IF cl \in Direct THEN Approved(item'[cl]) ELSE granted
    /\ Goto(cl, IF cl \in Direct THEN "starting" ELSE "enqLoad")
    /\ UNCHANGED <<store, refs, ledger, queue, loc, reply, up, faults, asked, ran>>

\* resume_agent once more: after a worker was lost (acks_late), or after an
\* infrastructure error (autoretry_for).
RetryTask(cl) ==
    /\ At(cl, "retry")
    /\ IF Found(item[cl].res.ref)
         THEN Goto(cl, "starting") /\ UNCHANGED <<item, loc, reply>>
         ELSE Release(cl)
    /\ UNCHANGED <<store, refs, ledger, queue, up, history>>

\* resume_agent reports the outcome it got.  It never touches the ledger, and
\* an outcome "continue" is not enqueued.
TaskReturns(cl) ==
    /\ cl \in Direct
    /\ pc[cl] \in SettlePlaces
    /\ CanStep(cl)
    /\ Release(cl)
    /\ UNCHANGED <<store, refs, ledger, queue, up, history>>

ClientNext(cl) ==
    \/ \E c \in Conts : Invoke(cl, c)
    \/ \E r \in refs, out \in Outcomes : Answer(cl, r, out)
    \/ Enqueue(cl)
    \/ RetryTask(cl)
    \/ TaskReturns(cl)

----------------------------------------------------------------------------
(***************************************************************************)
(* A worker: claim an entry and win or lose its ledger row.                *)
(***************************************************************************)
Holders(it) == {w \in Workers : item[w] = it}

\* An entry stays in the queue until it is acked.  Redis hands out an entry
\* nobody holds; it also takes over one that was held for too long.
Claim(w, it) ==
    /\ At(w, "idle")
    /\ Redelivery \/ Cardinality(Holders(it)) < queue[it]
    /\ item' = [item EXCEPT ![w] = it]
    /\ Goto(w, "claimed")
    /\ UNCHANGED <<store, refs, ledger, queue, loc, reply, up, history>>

Ledgered(w, row) == ledger' = [ledger EXCEPT ![ContOf(w)] = row]

\* Mutant: a duplicate is dropped without an ack.
DroppedUnacked(w) == queue

\* The entry leaves the queue (XACK and XDEL).
Acked(w) == queue (-) Entry(w)

WinClaim(w) ==
    /\ At(w, "claimed")
    /\ CanMarkRunning(ledger[ContOf(w)], item[w].epoch)
    /\ Ledgered(w, MarkRunning(ledger[ContOf(w)]))
    /\ Goto(w, "starting")
    /\ UNCHANGED <<store, refs, queue, item, loc, reply, up, history>>

\* A stale or duplicate delivery is acked and dropped.
LoseClaim(w) ==
    /\ At(w, "claimed")
    /\ ~CanMarkRunning(ledger[ContOf(w)], item[w].epoch)
    /\ queue' = Acked(w)
    /\ Release(w)
    /\ UNCHANGED <<store, refs, ledger, up, history>>

----------------------------------------------------------------------------
(***************************************************************************)
(* StepEngine.drive: continue a run from its current turn.                 *)
(***************************************************************************)
Settled(w, place) ==
    /\ Goto(w, place)
    /\ UNCHANGED <<store, refs, ledger, queue, item, loc, reply, up, history>>

\* Mutant: the run starts over from its first turn.
RedrivenFromStart(cont) == [cont EXCEPT !.status = "running", !.turn = 0]

Redriven(cont) == [cont EXCEPT !.status = "running"]

\* Mutant: a run that is over is driven once more.
DrivableWhenDone(c) == store[c].status \notin {"failed", "suspended"}

Drivable(c) == store[c].status \notin {"done", "failed", "suspended"}

\* The run is over or waits for an answer: nothing to drive.
DriveNothing(w) ==
    /\ At(w, "starting")
    /\ item[w].res = None
    /\ ~Drivable(ContOf(w))
    /\ Settled(w, IF store[ContOf(w)].status = "failed"
                    THEN "settleFailed" ELSE "settleDone")

Drive(w) ==
    /\ At(w, "starting")
    /\ item[w].res = None
    /\ Drivable(ContOf(w))
    /\ SetLoc(w, Redriven(store[ContOf(w)]))
    /\ Goto(w, "saveRunning")
    /\ UNCHANGED <<store, refs, ledger, queue, item, up, reply, history>>

\* _step: no turn is run once step_index has reached the limit.
StepPlace(cont) == IF cont.turn < MaxTurns THEN "turn" ELSE "maxTurns"

SaveRunning(w) ==
    /\ At(w, "saveRunning")
    /\ Save(w, loc[w])
    /\ Goto(w, StepPlace(loc[w]))
    /\ UNCHANGED <<refs, ledger, queue, item, loc, reply, up, history>>

(***************************************************************************)
(* StepEngine.resume: deliver a resolution to a suspended run.             *)
(***************************************************************************)
\* Mutant: the status of the run is not looked at.
ResumableAlways(c) == TRUE

Resumable(c) == store[c].status = "suspended"

\* Already resumed, or over: the delivery has no effect.
ResumeNothing(w) ==
    /\ At(w, "starting")
    /\ item[w].res # None
    /\ ~Resumable(ContOf(w))
    /\ Settled(w, "settleFailed")

Resume(w) ==
    /\ At(w, "starting")
    /\ item[w].res # None
    /\ Resumable(ContOf(w))
    /\ SetLoc(w, [store[ContOf(w)] EXCEPT !.status = "resuming"])
    /\ Goto(w, "saveResuming")
    /\ UNCHANGED <<store, refs, ledger, queue, item, up, reply, history>>

\* The status of the call the worker's resolution is for, in its own copy.
ResolvedCall(w) == item[w].res.ref.call
ResolvedStatus(w) ==
    IF item[w].res.ref.ask = loc[w].ask THEN loc[w].calls[ResolvedCall(w)] ELSE "none"

\* Mutant: any answer dispatches the call, a rejection included.
AfterResumingAny(w) ==
    CASE ResolvedStatus(w) = "none"     -> "settleFailed"
      [] ResolvedStatus(w) = "executed" -> "resolved"
      [] OTHER -> "gatedTool"

\* Where the resolution leads once "resuming" is saved.
AfterResuming(w) ==
    CASE ResolvedStatus(w) = "none"          -> "settleFailed"
      [] ResolvedStatus(w) = "executed"      -> "resolved"
      [] OTHER -> IF item[w].res.outcome = "accept" THEN "gatedTool" ELSE "saveResolved"

\* A rejection or a result is recorded in the copy at once (_apply_resolution).
SaveResuming(w) ==
    /\ At(w, "saveResuming")
    /\ Save(w, loc[w])
    /\ Goto(w, AfterResuming(w))
    /\ SetLoc(w, IF AfterResuming(w) = "saveResolved"
                   THEN SetCall(loc[w], ResolvedCall(w),
                          IF item[w].res.outcome = "reject" THEN "rejected" ELSE "executed")
                   ELSE loc[w])
    /\ UNCHANGED <<refs, ledger, queue, item, up, reply, history>>

\* _dispatch_authorized: the kernel refuses the approved call (an expired
\* token, a budget), and its tool is not called; or it admits the call, and
\* _execute_tool calls the tool again after a time-out or an exception.
GatedTool(w, times) ==
    /\ At(w, "gatedTool")
    /\ ran' = [ran EXCEPT ![item[w].res.ref] = @ + times]
    /\ SetLoc(w, SetCall(loc[w], ResolvedCall(w), "executed"))
    /\ Goto(w, "saveResolved")
    /\ UNCHANGED <<store, refs, ledger, queue, item, up, answers, faults, asked, reply, granted>>

SaveResolved(w) ==
    /\ At(w, "saveResolved")
    /\ Save(w, loc[w])
    /\ Goto(w, "resolved")
    /\ UNCHANGED <<refs, ledger, queue, item, loc, reply, up, history>>

\* Other calls still wait: park again.
ParkAgain(w) ==
    /\ At(w, "resolved")
    /\ Pending(loc[w]) # {}
    /\ SetLoc(w, [loc[w] EXCEPT !.status = "suspended"])
    /\ Save(w, [loc[w] EXCEPT !.status = "suspended"])
    /\ Goto(w, "settleDone")
    /\ UNCHANGED <<refs, ledger, queue, item, up, reply, history>>

NextTurn(cont) == [cont EXCEPT !.status = "running", !.turn = @ + 1]

\* Mutant: the step index is not advanced past the parked turn.
UnparkedSameTurn(cont) == [cont EXCEPT !.status = "running", !.calls = NoCalls]

Unparked(cont) == NextTurn([cont EXCEPT !.calls = NoCalls])

\* Every call is resolved: hand the results to the model and go on.
FinishPark(w) ==
    /\ At(w, "resolved")
    /\ Pending(loc[w]) = {}
    /\ SetLoc(w, Unparked(loc[w]))
    /\ Save(w, Unparked(loc[w]))
    /\ Goto(w, StepPlace(Unparked(loc[w])))
    /\ UNCHANGED <<refs, ledger, queue, item, up, reply, history>>

----------------------------------------------------------------------------
(***************************************************************************)
(* One turn of the engine (_step, _run_one_turn).                          *)
(***************************************************************************)
\* The engine saves a final status and returns it to the worker.
End(w, status, place) ==
    /\ SetLoc(w, [loc[w] EXCEPT !.status = status])
    /\ Save(w, [loc[w] EXCEPT !.status = status])
    /\ Goto(w, place)
    /\ UNCHANGED <<refs, ledger, queue, item, up, reply, history>>

MaxTurnsReached(w) == At(w, "maxTurns") /\ End(w, "done", "settleDone")

\* The model answers with text, or with an error.
FinalAnswer(w) == At(w, "turn") /\ End(w, "done", "settleDone")
ModelError(w)  == At(w, "turn") /\ End(w, "failed", "settleFailed")

\* The model asks for tools.  A gated call opens a suspension at once.
AskTools(w, calls) ==
    /\ At(w, "turn")
    /\ Len(asked) < MaxAsks
    /\ asked' = Append(asked, [cont |-> ContOf(w), turn |-> loc[w].turn])
    /\ reply' = [reply EXCEPT ![w] =
         [ask   |-> Len(asked) + 1,
          calls |-> [k \in Calls |-> IF k \notin calls THEN "none"
                                     ELSE IF k \in Gated THEN "pending" ELSE "executed"]]]
    /\ Goto(w, "tools")
    /\ UNCHANGED <<store, refs, ledger, queue, item, loc, up,
                   answers, faults, granted, ran>>

\* The other calls run side by side; all of them have answered.  Each counts
\* once, refused or tried several times.
RunTools(w) ==
    /\ At(w, "tools")
    /\ ran' = [r \in Refs |->
                 IF \E k \in With(reply[w], "executed") : r = RefOf(reply[w], k)
                   THEN ran[r] + 1 ELSE ran[r]]
    /\ Goto(w, "saveTurn")
    /\ UNCHANGED <<store, refs, ledger, queue, item, loc, reply, up,
                   answers, faults, asked, granted>>

Parked(w) ==
    [loc[w] EXCEPT !.status = "suspended",
                   !.ask    = reply[w].ask,
                   !.calls  = reply[w].calls]

\* _suspend: the run is saved as suspended, and only then can be found.
Park(w) ==
    /\ At(w, "saveTurn")
    /\ Pending(reply[w]) # {}
    /\ SetLoc(w, Parked(w))
    /\ Save(w, Parked(w))
    /\ Goto(w, "indexRefs")
    /\ UNCHANGED <<refs, ledger, queue, item, reply, up, history>>

IndexRefs(w) ==
    /\ At(w, "indexRefs")
    /\ refs' = refs \cup {RefOf(reply[w], k) : k \in Pending(reply[w])}
    /\ Goto(w, "settleDone")
    /\ UNCHANGED <<store, ledger, queue, item, loc, reply, up, history>>

\* No call waits: the results are saved.
SaveTools(w) ==
    /\ At(w, "saveTurn")
    /\ Pending(reply[w]) = {}
    /\ Save(w, loc[w])
    /\ Goto(w, "turnDone")
    /\ UNCHANGED <<refs, ledger, queue, item, loc, reply, up, history>>

\* Mutant: the worker settles the run instead of enqueueing the next turn.
AfterContinueSettle(w) == "settleDone"

AfterContinue(w) == IF w \in Direct THEN "settleDone" ELSE "enqLoad"

\* The turn is over, and a later worker runs the next one, if there is one.
Continue(w) ==
    /\ At(w, "turnDone")
    /\ SetLoc(w, NextTurn(loc[w]))
    /\ Save(w, NextTurn(loc[w]))
    /\ Goto(w, IF loc[w].turn + 1 < MaxTurns THEN AfterContinue(w) ELSE "maxTurns")
    /\ UNCHANGED <<refs, ledger, queue, item, up, reply, history>>

\* SIGTERM at the tool boundary completes the run with the text it has.
Preempted(w) == At(w, "turnDone") /\ End(w, "done", "settleDone")

----------------------------------------------------------------------------
(***************************************************************************)
(* The worker settles the ledger, then acks the entry.                     *)
(***************************************************************************)
SettleDone(w) ==
    /\ At(w, "settleDone")
    /\ Ledgered(w, Finalize(ledger[ContOf(w)], "done"))
    /\ Goto(w, "ack")
    /\ UNCHANGED <<store, refs, queue, item, loc, reply, up, history>>

\* The table refuses the status "failed": the update raises out of
\* handle_one, the row stays "running" and the entry is not acked.
SettleFailed(w) ==
    /\ At(w, "settleFailed")
    /\ ~Accepts("failed")
    /\ Release(w)
    /\ UNCHANGED <<store, refs, ledger, queue, up, history>>

Ack(w) ==
    /\ At(w, "ack")
    /\ queue' = Acked(w)
    /\ Release(w)
    /\ UNCHANGED <<store, refs, ledger, up, history>>

\* nack: ack, then enqueue the same entry again.
NackAck(w) ==
    /\ At(w, "nackAck")
    /\ queue' = Acked(w)
    /\ Goto(w, "nackPush")
    /\ UNCHANGED <<store, refs, ledger, item, loc, reply, up, history>>

NackPush(w) ==
    /\ At(w, "nackPush")
    /\ queue' = queue (+) Entry(w)
    /\ Release(w)
    /\ UNCHANGED <<store, refs, ledger, up, history>>

----------------------------------------------------------------------------
(***************************************************************************)
(* Faults.                                                                 *)
(***************************************************************************)
Fault(kind) ==
    /\ kind \in FaultKinds
    /\ faults < MaxFaults
    /\ faults' = faults + 1

\* Something raises inside drive or resume: the model call, the database.
Raise(w) ==
    /\ Fault("raise")
    /\ w \in Workers
    /\ pc[w] \in EnginePlaces
    /\ CanStep(w)
    /\ Ledgered(w, MarkRetryable(ledger[ContOf(w)]))
    /\ Goto(w, IF Exhausted(ledger[ContOf(w)]) THEN "ack" ELSE "nackAck")
    /\ UNCHANGED <<store, refs, queue, item, loc, reply, up, answers, asked, granted, ran>>

\* Something raises in a worker outside that try, or in a client: the loop
\* logs it and goes on without the entry, and the request fails.
Abandon(a) ==
    /\ Fault("abandon")
    /\ pc[a] # "idle"
    /\ a \in Workers => pc[a] \notin EnginePlaces
    /\ CanStep(a)
    /\ Release(a)
    /\ UNCHANGED <<store, refs, ledger, queue, up, answers, asked, granted, ran>>

\* An infrastructure error in resume_agent: Celery runs the task again.
TaskError(cl) ==
    /\ Fault("taskError")
    /\ cl \in Direct
    /\ pc[cl] \in EnginePlaces
    /\ CanStep(cl)
    /\ Goto(cl, "retry")
    /\ SetLoc(cl, None)
    /\ reply' = [reply EXCEPT ![cl] = None]
    /\ UNCHANGED <<store, refs, ledger, queue, item, up, answers, asked, granted, ran>>

\* The process ends, by a crash or by stop(), which cancels its tasks.  The
\* Celery broker keeps the tasks that were not finished.
Lost(h) == {a \in Actors : HostOf[a] = h}
Kept(h) == {a \in Lost(h) \cap Direct : pc[a] # "idle"}

Crash(h) ==
    /\ Fault("crash")
    /\ up[h]
    /\ up' = [up EXCEPT ![h] = FALSE]
    /\ pc' = [a \in Actors |-> IF a \in Kept(h) THEN "retry"
                               ELSE IF a \in Lost(h) THEN "idle" ELSE pc[a]]
    /\ item' = [a \in Actors |-> IF a \in Lost(h) \ Kept(h) THEN None ELSE item[a]]
    /\ loc' = [a \in Actors |-> IF a \in Lost(h) THEN None ELSE loc[a]]
    /\ reply' = [a \in Actors |-> IF a \in Lost(h) THEN None ELSE reply[a]]
    /\ UNCHANGED <<store, refs, ledger, queue, answers, asked, granted, ran>>

\* rebuild_from_ledger: one entry for each row still to run, without the
\* resolution the lost entry may have carried.
Rebuilt == {[cont |-> c, epoch |-> ledger[c].epoch, res |-> None] :
               c \in {d \in Conts : Claimable(ledger[d]) /\ store[d] # None}}

Boot(h) ==
    /\ ~up[h]
    /\ up' = [up EXCEPT ![h] = TRUE]
    /\ queue' = queue (+) SetToBag(Rebuilt)
    /\ UNCHANGED <<store, refs, ledger, pc, item, loc, reply, history>>

\* Redis loses its data.
Flush ==
    /\ Fault("flush")
    /\ queue # EmptyBag
    /\ queue' = EmptyBag
    /\ UNCHANGED <<store, refs, ledger, pc, item, loc, reply, up, answers, asked, granted, ran>>

FaultNext ==
    \/ \E a \in Actors : Raise(a) \/ Abandon(a) \/ TaskError(a)
    \/ \E h \in Hosts : Crash(h) \/ Boot(h)
    \/ Flush

----------------------------------------------------------------------------
WorkerClaim(w) ==
    \/ \E it \in BagToSet(queue) : Claim(w, it)
    \/ WinClaim(w)
    \/ LoseClaim(w)

EngineEnter(w) ==
    \/ DriveNothing(w)
    \/ Drive(w)
    \/ SaveRunning(w)
    \/ ResumeNothing(w)
    \/ Resume(w)
    \/ SaveResuming(w)
    \/ \E times \in 0 .. ToolAttempts : GatedTool(w, times)
    \/ SaveResolved(w)
    \/ ParkAgain(w)
    \/ FinishPark(w)

EngineTurn(w) ==
    \/ MaxTurnsReached(w)
    \/ FinalAnswer(w)
    \/ ModelError(w)
    \/ \E calls \in SUBSET Calls \ {{}} : AskTools(w, calls)
    \/ RunTools(w)
    \/ Park(w)
    \/ IndexRefs(w)
    \/ SaveTools(w)
    \/ Continue(w)
    \/ Preempted(w)

WorkerSettle(w) ==
    \/ SettleDone(w)
    \/ SettleFailed(w)
    \/ Ack(w)
    \/ NackAck(w)
    \/ NackPush(w)

EngineNext(a) == EngineEnter(a) \/ EngineTurn(a)
WorkerNext(w) == WorkerClaim(w) \/ WorkerSettle(w) \/ Enqueue(w)

Next ==
    \/ \E w \in Workers : WorkerNext(w)
    \/ \E cl \in Clients : ClientNext(cl)
    \/ \E a \in Workers \cup Direct : EngineNext(a)
    \/ FaultNext

Spec == Init /\ [][Next]_vars

----------------------------------------------------------------------------
(***************************************************************************)
(* Properties.                                                             *)
(***************************************************************************)
\* Every variable has its type: the tables hold well-formed rows, the queue
\* well-formed entries, and every actor that is busy has an entry in hand.
TypeOK ==
    /\ store \in [Conts -> Continuations \cup {None}]
    /\ refs \subseteq Refs
    /\ ledger \in [Conts -> Row \cup {None}]
    /\ IsABag(queue) /\ BagToSet(queue) \subseteq Items
    /\ pc \in [Actors -> Places]
    /\ item \in [Actors -> Items \cup {None}]
    /\ loc \in [Actors -> Continuations \cup {None}]
    /\ reply \in [Actors -> Replies \cup {None}]
    /\ up \in [Hosts -> BOOLEAN]
    /\ answers \in 0 .. MaxAnswers
    /\ faults \in 0 .. MaxFaults
    /\ asked \in Seq([cont: Conts, turn: 0 .. MaxTurns]) /\ Len(asked) <= MaxAsks
    /\ granted \subseteq Refs
    /\ ran \in [Refs -> Nat]

\* A gated tool runs only if a human approved that very call: a rejection, a
\* delivered result, a redelivered or rebuilt entry or a second answer never
\* makes the engine dispatch it (engine.py _apply_resolution).
GatedOnlyIfGranted ==
    \A r \in Refs : r.call \in Gated /\ ran[r] > 0 => r \in granted

\* An approved call is dispatched at most once, whatever is answered twice,
\* delivered twice or retried (engine.py:270, "do NOT run the tool again"): its
\* tool is called no more often than one dispatch tries it.
GatedDispatchedOnce == \A r \in Refs : r.call \in Gated => ran[r] <= ToolAttempts

\* The replies whose tools were executed in a turn of a run.
Repeats(c, t) ==
    {k \in DOMAIN asked : /\ asked[k] = [cont |-> c, turn |-> t]
                          /\ \E r \in Refs : r.ask = k /\ r.call \notin Gated /\ ran[r] > 0}

\* A turn whose task keeps raising is driven again, but never more often than
\* the crash budget allows (worker.py MAX_CRASHES).
RetriesBounded ==
    \A c \in Conts, t \in 0 .. MaxTurns : Cardinality(Repeats(c, t)) <= MaxCrashes

\* A turn that has been parked is never run again: the model is not asked a
\* second time for a turn whose calls were already put to a human (worker.py:12).
ParkedTurnIsKept ==
    \A r \in refs : \A k \in DOMAIN asked :
        k > r.ask => asked[k] # asked[r.ask]

\* The places where an actor has taken a run forward and will save it.
Driving == EnginePlaces \ {"starting"}

\* Never do two actors drive the same run (worker.py:74, "exactly one worker
\* wins a duplicate").
OneDriver ==
    \A a, b \in Actors :
        /\ pc[a] \in Driving
        /\ pc[b] \in Driving
        /\ ContOf(a) = ContOf(b)
        => a = b

Over(c) == store[c] # None /\ store[c].status \in {"done", "failed"}

\* A run that is over stays as it ended: no late save revives it.
OverIsFinal ==
    [][\A c \in Conts : Over(c) => store'[c].status = store[c].status]_vars

\* The turn counter of a run never goes back, so no turn is lost.
TurnsForward ==
    [][\A c \in Conts : store[c] # None => store'[c].turn >= store[c].turn]_vars

----------------------------------------------------------------------------
\* An actor is in the enqueue path with the run.
Enqueueing(c) == \E a \in Actors : pc[a] \in EnqueuePlaces /\ ContOf(a) = c

\* Between enqueues the ledger row carries the epoch of the continuation
\* (013_execution_tier.sql:90, "must match continuations.enqueue_epoch").
EpochsAgree ==
    \A c \in Conts :
        ledger[c] # None /\ ~Enqueueing(c) => ledger[c].epoch = store[c].epoch

\* Somebody will still act on the run: an actor has it in hand, or the queue
\* holds an entry that can win its ledger row.
Live(c) ==
    \/ \E a \in Actors : pc[a] \notin {"idle", "claimed", "ack"} /\ ContOf(a) = c
    \/ \E it \in BagToSet(queue) :
          it.cont = c /\ CanMarkRunning(ledger[c], it.epoch)
    \/ \E h \in Hosts : ~up[h] /\ Claimable(ledger[c])

\* A run whose ledger row is claimed is in some worker's hands: the claim is
\* not left behind by a worker that is gone (worker.py:128, "a lease-expiry
\* recovery re-enqueues it").
ClaimIsHeld ==
    \A c \in Conts :
        /\ ledger[c] # None
        /\ ledger[c].status = "running"
        /\ \A h \in Hosts : up[h]
        => \E w \in Workers : pc[w] # "idle" /\ ContOf(w) = c

\* A run that is neither over nor parked is never left with nobody to act on
\* it (queue.py:204-208: "retried instead of stranded").
NotStranded ==
    \A c \in Conts :
        store[c] # None /\ ~Over(c) /\ store[c].status # "suspended" => Live(c)

\* The approved calls that still wait, and the ones an entry will resolve.
Waiting(r) == Found(r) /\ store[RunOf(r)].calls[r.call] = "pending"
Carried(r) ==
    \/ \E a \in Actors : item[a] # None /\ item[a].res # None /\ item[a].res.ref = r
                           /\ pc[a] \notin {"claimed", "ack"}
    \/ \E it \in BagToSet(queue) :
          /\ it.res # None
          /\ it.res.ref = r
          /\ CanMarkRunning(ledger[RunOf(r)], it.epoch)

\* An approval is never lost: while the call it approves is pending, the
\* approval is on its way to the engine.
ApprovalKept == \A r \in granted : Waiting(r) => Carried(r)

----------------------------------------------------------------------------
(***************************************************************************)
(* Fairness: the loops poll for ever (service.py _loop), a model call and  *)
(* a tool call end (both have timeouts), and a request that has started is *)
(* carried through.  Nobody is obliged to invoke or to answer.             *)
(***************************************************************************)
Fairness ==
    /\ \A w \in Workers : WF_vars(WorkerNext(w) \/ EngineNext(w))
    /\ \A cl \in Clients : WF_vars(Enqueue(cl) \/ RetryTask(cl) \/ TaskReturns(cl))
    /\ \A cl \in Direct : WF_vars(EngineNext(cl))

FairSpec == Spec /\ Fairness

\* A run that was invoked ends or parks.
RunSettles ==
    \A c \in Conts :
        store[c] # None ~> (store[c] # None /\ (Over(c) \/ store[c].status = "suspended"))

\* An approved call does not stay pending.
ApprovalTakesEffect == \A r \in Refs : r \in granted ~> (r \notin refs \/ ~Waiting(r))

\* Every entry is acked in the end.
QueueDrains == []<>(queue = EmptyBag)
=============================================================================
