---------------------------- MODULE HumanRequests ----------------------------
(***************************************************************************)
(* Agents asking humans: A2HGateway and its in-memory store                *)
(* (src/platform/a2h.py).  The agents' event loop asks and waits; the      *)
(* views of src/forgeos_web/approvals run in threads of their own and      *)
(* answer, cancel and list.  Nothing is locked, so what a thread checked   *)
(* may have changed when it writes.                                        *)
(***************************************************************************)
EXTENDS Naturals, Sequences

CONSTANTS
    Questions,      \* requests
    Humans,         \* human participants
    Threads,        \* web threads
    Mood,           \* the state each human is in
    Standin,        \* the name each human's state reroutes to, if any
    Ruled           \* humans with delegation rules

ASSUME HumanAssumption ==
    /\ Standin \in [Humans -> Humans \cup {"nobody"}]
    /\ {"none", "rule"} \cap Threads = {}

VARIABLES
    registered,     \* the gateway's _humans, in the order of registration
    request,        \* the stored requests
    late,           \* requests past their deadline
    unheard,        \* saved requests whose event is not made yet
    event,          \* event[q]: "none", "clear" or "set"
    hand,           \* what each thread is in the middle of
    waiting,        \* requests somebody waits for
    lapsing,        \* requests a waiter found overdue and is about to expire
    report          \* what the last wait for each request returned

humanVars == <<registered, request, late, unheard, event, hand, waiting, lapsing, report>>

Unasked == [status |-> "none", to |-> "nobody", response |-> "none"]
Free == [op |-> "none"]
SettledStatuses == {"answered", "auto_delegated", "cancelled", "expired"}

Stored == [status : {"none", "pending"} \cup SettledStatuses,
           to : Humans \cup {"nobody"},
           response : {"none", "rule"} \cup Threads]

HumanTypeOK ==
    /\ registered \in Seq(Humans)
    /\ request \in [Questions -> Stored] /\ report \in [Questions -> Stored]
    /\ late \subseteq Questions /\ unheard \subseteq Questions /\ waiting \subseteq Questions
    /\ lapsing \subseteq Questions
    /\ event \in [Questions -> {"none", "clear", "set"}]
    /\ hand \in [Threads -> {Free}
          \cup [op : {"fill", "mark", "cancel", "expire"}, req : Questions]]

HumanInit ==
    /\ registered = << >>
    /\ request = [q \in Questions |-> Unasked]
    /\ late = {} /\ unheard = {} /\ waiting = {} /\ lapsing = {}
    /\ event = [q \in Questions |-> "none"]
    /\ hand = [t \in Threads |-> Free]
    /\ report = [q \in Questions |-> Unasked]

-----------------------------------------------------------------------------
(* Who is asked.                                                           *)

IsKnown(h) == \E i \in DOMAIN registered : registered[i] = h

RegisterHuman(h) ==
    /\ ~IsKnown(h)
    /\ registered' = Append(registered, h)
    /\ UNCHANGED <<request, late, unheard, event, hand, waiting, lapsing, report>>

UnregisterHuman(h) ==
    /\ \E i \in DOMAIN registered :
           /\ registered[i] = h
           /\ registered' = SubSeq(registered, 1, i - 1)
                                \o SubSeq(registered, i + 1, Len(registered))
    /\ UNCHANGED <<request, late, unheard, event, hand, waiting, lapsing, report>>

\* resolve_human: the one named, else the first one of the namespace (the
\* humans here share one), so nobody only when nobody is registered.
ResolveHuman(name) ==
    IF IsKnown(name) THEN name
    ELSE IF registered = << >> THEN "nobody" ELSE Head(registered)

TakesAsks(h) == Mood[h] = "available"
Queues(h) == Mood[h] = "busy"

\* Away or offline: the stand-in takes it, if there is one and it accepts.
Route(name) ==
    LET h == ResolveHuman(name)
        s == ResolveHuman(Standin[h])
    IN  IF \/ TakesAsks(h) \/ Queues(h)
           \/ Standin[h] = "nobody" \/ ~TakesAsks(s)
        THEN h ELSE s

-----------------------------------------------------------------------------
(* ask: an unknown human cancels the request without saving it; a rule     *)
(* answers it at once; otherwise it is saved pending, then gets its event. *)

Ask(q, name, ruled) ==
    /\ request[q].status = "none"
    /\ registered # << >>
    /\ LET h == Route(name) IN
           /\ ruled => h \in Ruled
           /\ request' = [request EXCEPT ![q] =
                 [status   |-> IF ruled THEN "auto_delegated" ELSE "pending",
                  to       |-> h,
                  response |-> IF ruled THEN "rule" ELSE "none"]]
    /\ unheard' = unheard \cup {q}
    /\ UNCHANGED <<registered, late, event, hand, waiting, lapsing, report>>

MakeEvent(q) ==
    /\ q \in unheard
    /\ unheard' = unheard \ {q}
    /\ event' = [event EXCEPT ![q] = "clear"]
    /\ UNCHANGED <<registered, request, late, hand, waiting, lapsing, report>>

DeadlinePassesFor(q) ==
    /\ request[q].status = "pending"
    /\ q \notin late
    /\ late' = late \cup {q}
    /\ UNCHANGED <<registered, request, unheard, event, hand, waiting, lapsing, report>>

-----------------------------------------------------------------------------
(* What a thread does, one attribute at a time.                            *)

Take(t, op, q) ==
    /\ hand[t] = Free
    /\ hand' = [hand EXCEPT ![t] = [op |-> op, req |-> q]]
    /\ UNCHANGED <<registered, request, late, unheard, event, waiting, lapsing, report>>

Holds(t, op) == hand[t] # Free /\ hand[t].op = op
Put(t) == hand' = [hand EXCEPT ![t] = Free]

\* respond: the request is pending and its deadline has not passed.
TakeAnswer(t, q) ==
    request[q].status = "pending" /\ q \notin late /\ Take(t, "fill", q)

TakeCancel(t, q) == request[q].status = "pending" /\ Take(t, "cancel", q)

\* The bug of filtering by human before looking at the deadline.
OverdueOfKnown(q) ==
    request[q].status = "pending" /\ q \in late /\ IsKnown(request[q].to)

\* get, list_pending and respond expire what they find past its deadline.
Overdue(q) == request[q].status = "pending" /\ q \in late

TakeOverdue(t, q) == Overdue(q) /\ Take(t, "expire", q)

SetStatus(q, s) == request' = [request EXCEPT ![q].status = s]
WakeUp(q) == event' = [event EXCEPT ![q] = IF @ = "clear" THEN "set" ELSE @]

\* The bug of marking the request answered before its response is there.
FillAndMark(t) ==
    /\ Holds(t, "fill")
    /\ SetStatus(hand[t].req, "answered")
    /\ hand' = [hand EXCEPT ![t].op = "mark"]
    /\ UNCHANGED <<registered, late, unheard, event, waiting, lapsing, report>>

\* The bug of waking the waiter before the status is written.
FillAndWake(t) ==
    /\ Holds(t, "fill")
    /\ request' = [request EXCEPT ![hand[t].req].response = t]
    /\ WakeUp(hand[t].req)
    /\ hand' = [hand EXCEPT ![t].op = "mark"]
    /\ UNCHANGED <<registered, late, unheard, waiting, lapsing, report>>

Fill(t) ==
    /\ Holds(t, "fill")
    /\ request' = [request EXCEPT ![hand[t].req].response = t]
    /\ hand' = [hand EXCEPT ![t].op = "mark"]
    /\ UNCHANGED <<registered, late, unheard, event, waiting, lapsing, report>>

MarkAnswered(t) ==
    /\ Holds(t, "mark")
    /\ SetStatus(hand[t].req, "answered")
    /\ WakeUp(hand[t].req)
    /\ Put(t)
    /\ UNCHANGED <<registered, late, unheard, waiting, lapsing, report>>

MarkCancelled(t) ==
    /\ Holds(t, "cancel")
    /\ SetStatus(hand[t].req, "cancelled")
    /\ WakeUp(hand[t].req)
    /\ Put(t)
    /\ UNCHANGED <<registered, late, unheard, waiting, lapsing, report>>

\* Expiry sets the status only: nobody is woken.
MarkExpired(t) ==
    /\ Holds(t, "expire")
    /\ SetStatus(hand[t].req, "expired")
    /\ Put(t)
    /\ UNCHANGED <<registered, late, unheard, event, waiting, lapsing, report>>

-----------------------------------------------------------------------------
(* wait_for_response, on the event loop.                                   *)

WaitForResponse(q) ==
    /\ event[q] # "none"
    /\ q \notin waiting \cup lapsing
    /\ waiting' = waiting \cup {q}
    /\ UNCHANGED <<registered, request, late, unheard, event, hand, lapsing, report>>

Reports(q) == report' = [report EXCEPT ![q] = request'[q]]

\* Woken or timed out, it reads the request again.
WaitReturns(q) ==
    /\ q \in waiting /\ ~Overdue(q)
    /\ waiting' = waiting \ {q}
    /\ UNCHANGED <<registered, request, late, unheard, event, hand, lapsing>>
    /\ Reports(q)

\* What it finds due it expires, but a thread may answer between check and write.
WaitLapses(q) ==
    /\ q \in waiting /\ Overdue(q)
    /\ waiting' = waiting \ {q}
    /\ lapsing' = lapsing \cup {q}
    /\ UNCHANGED <<registered, request, late, unheard, event, hand, report>>

WaitExpires(q) ==
    /\ q \in lapsing
    /\ SetStatus(q, "expired")
    /\ lapsing' = lapsing \ {q}
    /\ UNCHANGED <<registered, late, unheard, event, hand, waiting>>
    /\ Reports(q)

HumanNext ==
    \/ \E h \in Humans : RegisterHuman(h) \/ UnregisterHuman(h)
    \/ \E q \in Questions :
           \/ \E name \in Humans, ruled \in BOOLEAN : Ask(q, name, ruled)
           \/ MakeEvent(q)
           \/ DeadlinePassesFor(q)
           \/ \E t \in Threads :
                  TakeAnswer(t, q) \/ TakeCancel(t, q) \/ TakeOverdue(t, q)
           \/ WaitForResponse(q)
           \/ WaitReturns(q) \/ WaitLapses(q) \/ WaitExpires(q)
    \/ \E t \in Threads :
           Fill(t) \/ MarkAnswered(t) \/ MarkCancelled(t) \/ MarkExpired(t)

\* Deadlines come, the dashboard keeps listing what is pending, and a thread
\* finishes what it began.
HumanFairness ==
    /\ \A q \in Questions : /\ WF_humanVars(DeadlinePassesFor(q))
                       /\ SF_humanVars(\E t \in Threads : TakeOverdue(t, q))
    /\ \A t \in Threads : WF_humanVars(\/ Fill(t) \/ MarkAnswered(t)
                                       \/ MarkCancelled(t) \/ MarkExpired(t))

HumanSpec == HumanInit /\ [][HumanNext]_humanVars /\ HumanFairness

-----------------------------------------------------------------------------
\* Whoever sees a request answered, the waiter's report included, sees the
\* answer too, though the thread that answers writes the two one after the
\* other and others read in between (InMemoryHumanRequestStore.respond).
AnswersAreWhole ==
    \A q \in Questions : \A seen \in {request[q], report[q]} :
        seen.status \in {"answered", "auto_delegated"} => seen.response # "none"

\* A set event means an outcome: a woken waiter never reports a request that
\* is still pending, however answers, cancellations and expiry interleave.
WokenMeansSettled ==
    \A q \in Questions : event[q] = "set" => request[q].status \in SettledStatuses

\* No request stays open for ever, even when the human it went to is gone:
\* listing what is pending expires what is due, whoever it is addressed to.
AsksSettle ==
    \A q \in Questions : request[q].status = "pending" ~> request[q].status \in SettledStatuses
=============================================================================
