--------------------------- MODULE ApprovalGateway ---------------------------
(***************************************************************************)
(* The human approvals of HITLGateway (src/mcp/custom_tools.py) over the   *)
(* table hitl_approvals, which every host's process shares, and the part   *)
(* of the main loop of src/bootstrap.py that denies what nobody decided.   *)
(*                                                                         *)
(* A request is a row.  The process that submitted it also keeps an event  *)
(* for those who wait: the event exists only there, is made after the row  *)
(* is saved and is popped and set after the row is updated, three steps a  *)
(* second thread or process can come between.                              *)
(***************************************************************************)
EXTENDS Naturals, FiniteSets

CONSTANTS
    Requests,       \* the approval requests
    Askers,         \* agents that call wait_for_decision
    Gateways,       \* processes with a gateway of their own
    MaxHostCrashes  \* bound: restarts of hosts

ASSUME ApprovalAssumption == MaxHostCrashes \in Nat

VARIABLES
    row,            \* hitl_approvals.status of each request
    overdue,        \* requests past their deadline
    submitting,     \* <<h, r>>: saved by h, event not made yet
    armed,          \* armed[h]: the ids in h's _waiters
    fired,          \* requests whose event has been set
    signals,        \* <<h, r>>: updated by h, event not popped yet
    asker,          \* what each asker does
    heard,          \* what each asker got of each request last
    sweep,          \* the expired requests h's main loop still has to deny
    crashes

approvalVars == <<row, overdue, submitting, armed, fired, signals, asker,
                  heard, sweep, crashes>>

Verdicts == {"approved", "rejected", "expired"}
Idle == [at |-> "idle"]

ApprovalTypeOK ==
    /\ row \in [Requests -> {"none", "pending"} \cup Verdicts]
    /\ overdue \subseteq Requests
    /\ submitting \subseteq Gateways \X Requests
    /\ armed \in [Gateways -> SUBSET Requests]
    /\ fired \subseteq Requests
    /\ signals \subseteq Gateways \X Requests
    /\ asker \in [Askers -> {Idle}
                     \cup [at : {"waiting"}, host : Gateways, req : Requests]]
    /\ heard \in [Askers ->
                     [Requests -> {"nothing", "pending"} \cup Verdicts]]
    /\ sweep \in [Gateways -> SUBSET Requests]
    /\ crashes \in 0 .. MaxHostCrashes

ApprovalInit ==
    /\ row = [r \in Requests |-> "none"]
    /\ overdue = {}
    /\ submitting = {}
    /\ armed = [h \in Gateways |-> {}]
    /\ fired = {}
    /\ signals = {}
    /\ asker = [w \in Askers |-> Idle]
    /\ heard = [w \in Askers |-> [r \in Requests |-> "nothing"]]
    /\ sweep = [h \in Gateways |-> {}]
    /\ crashes = 0

-----------------------------------------------------------------------------
(* request_approval: the row, then the event.                              *)

Submit(h, r) ==
    /\ row[r] = "none"
    /\ row' = [row EXCEPT ![r] = "pending"]
    /\ submitting' = submitting \cup {<<h, r>>}
    /\ UNCHANGED <<overdue, armed, fired, signals, asker, heard, sweep, crashes>>

Arm(h, r) ==
    /\ <<h, r>> \in submitting
    /\ submitting' = submitting \ {<<h, r>>}
    /\ armed' = [armed EXCEPT ![h] = @ \cup {r}]
    /\ UNCHANGED <<row, overdue, fired, signals, asker, heard, sweep, crashes>>

\* The bug of an UPDATE without its condition.
OverwriteStatus(h, r, v) ==
    /\ row' = [row EXCEPT ![r] = IF @ = "none" THEN @ ELSE v]
    /\ signals' = signals \cup {<<h, r>>}

\* update_status: one conditional UPDATE ... WHERE status = 'pending'.
UpdateStatus(h, r, v) ==
    IF row[r] = "pending"
    THEN /\ row' = [row EXCEPT ![r] = v]
         /\ signals' = signals \cup {<<h, r>>}
    ELSE UNCHANGED <<row, signals>>

\* approve and reject, from any host's web process.
AnswerApproval(h, r, v) ==
    /\ row[r] # "none"
    /\ UpdateStatus(h, r, v)
    /\ UNCHANGED <<overdue, submitting, armed, fired, asker, heard, sweep, crashes>>

\* _signal_waiter: pop the event, if this process has it, and set it.
SignalWaiter(h, r) ==
    /\ <<h, r>> \in signals
    /\ signals' = signals \ {<<h, r>>}
    /\ armed' = [armed EXCEPT ![h] = @ \ {r}]
    /\ fired' = IF r \in armed[h] THEN fired \cup {r} ELSE fired
    /\ UNCHANGED <<row, overdue, submitting, asker, heard, sweep, crashes>>

-----------------------------------------------------------------------------
(* wait_for_decision and check_status.                                     *)

\* check_status: the row as it is now, nothing for an unknown id.
Status(r) == IF row[r] = "none" THEN "nothing" ELSE row[r]

Hear(w, r, what) == heard' = [heard EXCEPT ![w][r] = what]

WaitForDecision(w, h, r) ==
    /\ asker[w] = Idle
    /\ IF r \in armed[h]
       THEN /\ asker' = [asker EXCEPT ![w] =
                            [at |-> "waiting", host |-> h, req |-> r]]
            /\ UNCHANGED heard
       ELSE /\ Hear(w, r, Status(r))
            /\ UNCHANGED asker
    /\ UNCHANGED <<row, overdue, submitting, armed, fired, signals, sweep, crashes>>

Wake(w) ==
    /\ asker[w].at = "waiting"
    /\ asker[w].req \in fired
    /\ Hear(w, asker[w].req, Status(asker[w].req))
    /\ asker' = [asker EXCEPT ![w] = Idle]
    /\ UNCHANGED <<row, overdue, submitting, armed, fired, signals, sweep, crashes>>

WaitTimesOut(w) ==
    /\ asker[w].at = "waiting"
    /\ Hear(w, asker[w].req, "nothing")
    /\ asker' = [asker EXCEPT ![w] = Idle]
    /\ UNCHANGED <<row, overdue, submitting, armed, fired, signals, sweep, crashes>>

-----------------------------------------------------------------------------
(* Time, the main loop and crashes.                                        *)

DeadlinePasses(r) ==
    /\ row[r] = "pending"
    /\ r \notin overdue
    /\ overdue' = overdue \cup {r}
    /\ UNCHANGED <<row, submitting, armed, fired, signals, asker, heard, sweep, crashes>>

\* The bug of a sweep over the process's own requests.
ExpiredHere(h) == {r \in overdue \cap armed[h] : row[r] = "pending"}

\* get_expired_pending: the table is asked, not the process's own events.
Expired(h) == {r \in overdue : row[r] = "pending"}

ListExpired(h) ==
    /\ sweep[h] = {}
    /\ sweep' = [sweep EXCEPT ![h] = Expired(h)]
    /\ UNCHANGED <<row, overdue, submitting, armed, fired, signals, asker, heard, crashes>>

Expire(h, r) ==
    /\ r \in sweep[h]
    /\ sweep' = [sweep EXCEPT ![h] = @ \ {r}]
    /\ UpdateStatus(h, r, "expired")
    /\ UNCHANGED <<overdue, submitting, armed, fired, asker, heard, crashes>>

\* The loop's try block: an error drops what is left of this tick's list.
SweepFails(h) ==
    /\ sweep[h] # {}
    /\ sweep' = [sweep EXCEPT ![h] = {}]
    /\ UNCHANGED <<row, overdue, submitting, armed, fired, signals, asker, heard, crashes>>

\* The rows stay; events, waiters and what was under way are the process's.
HostCrash(h) ==
    /\ crashes < MaxHostCrashes
    /\ crashes' = crashes + 1
    /\ submitting' = {p \in submitting : p[1] # h}
    /\ signals' = {p \in signals : p[1] # h}
    /\ armed' = [armed EXCEPT ![h] = {}]
    /\ sweep' = [sweep EXCEPT ![h] = {}]
    /\ asker' = [w \in Askers |->
                    IF asker[w] # Idle /\ asker[w].host = h
                    THEN Idle ELSE asker[w]]
    /\ UNCHANGED <<row, overdue, fired, heard>>

ApprovalNext ==
    \/ \E h \in Gateways, r \in Requests :
           \/ Submit(h, r)
           \/ Arm(h, r)
           \/ \E v \in {"approved", "rejected"} : AnswerApproval(h, r, v)
           \/ SignalWaiter(h, r)
           \/ Expire(h, r)
           \/ \E w \in Askers : WaitForDecision(w, h, r)
    \/ \E w \in Askers : Wake(w) \/ WaitTimesOut(w)
    \/ \E r \in Requests : DeadlinePasses(r)
    \/ \E h \in Gateways : ListExpired(h) \/ SweepFails(h) \/ HostCrash(h)

\* A deadline comes, a main loop keeps ticking, and a tick that keeps being
\* tried gets through to every request on its list in the end.
ApprovalFairness ==
    /\ \A r \in Requests : WF_approvalVars(DeadlinePasses(r))
    /\ \A h \in Gateways : WF_approvalVars(ListExpired(h))
    /\ \A h \in Gateways, r \in Requests : SF_approvalVars(Expire(h, r))

ApprovalSpec == ApprovalInit /\ [][ApprovalNext]_approvalVars /\ ApprovalFairness

-----------------------------------------------------------------------------
\* The gateway decides each request at most once, and nobody is told of a
\* verdict other than the one that stands: events that fire late, waiters
\* of other processes, expiry racing an answer and crashes included.
D == INSTANCE Decision WITH standing <- row, told <- heard

ApprovalsAreDecisions == D!DecisionSpec

\* SLA expiry (run_main_loop, HITLGateway.expire): a request nobody decides
\* is denied in the end, whoever submitted it and even if that process died.
ApprovalSettles ==
    \A r \in Requests : row[r] = "pending" ~> row[r] \in Verdicts
=============================================================================
