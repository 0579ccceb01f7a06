---------------------------- MODULE ServiceProofs ----------------------------
(***************************************************************************)
(* Agents, humans and remote workers.  For any requests, humans and web    *)
(* threads, none of them locked: nobody sees half an answer, and a set     *)
(* event means that the request is settled.  For chats of any length: the  *)
(* human's page shows the log from its start, in order and without a gap,  *)
(* and what the agent's tool returns never goes back, whatever is posted,  *)
(* lost, woken or closed in between.  For any jobs, workers and number of  *)
(* attempts: the queue of remote tasks keeps its types and a task is never *)
(* claimed more often than its attempts allow, however late, however often *)
(* and by whomever it is reported.                                         *)
(***************************************************************************)
EXTENDS HumanRequests, HumanChat, RemoteTasks, SequenceTheorems,
        FiniteSetTheorems, TLAPS

-----------------------------------------------------------------------------
(* Requests.                                                               *)

\* What a thread holds was asked, and a thread that is about to mark a request
\* answered has filled it, so a later writer leaves a response behind as well.
HandsAreBacked ==
    \A t \in Threads : hand[t] # Free =>
        LET r == request[hand[t].req] IN
        /\ r.status # "none"
        /\ hand[t].op = "mark" => r.response # "none"

HumanInv ==
    HumanTypeOK /\ HandsAreBacked /\ AnswersAreWhole /\ WokenMeansSettled

Holdings == {Free} \cup [op : {"fill", "mark", "cancel", "expire"}, req : Questions]

LEMMA InitHumanInv == HumanInit => HumanInv
  BY DEF HumanInit, HumanInv, HumanTypeOK, HandsAreBacked, AnswersAreWhole,
         WokenMeansSettled, Unasked, Stored, SettledStatuses, Free

\* Whoever is asked is a human, or nobody.
LEMMA RouteType ==
  ASSUME HumanTypeOK, NEW name \in Humans
  PROVE  Route(name) \in Humans \cup {"nobody"}
<1>1. registered \in Seq(Humans)
  BY DEF HumanTypeOK
<1>2. registered # << >> => Head(registered) \in Humans
  BY <1>1
<1>3. ASSUME NEW h \in Humans \cup {"nobody"}
      PROVE  ResolveHuman(h) \in Humans \cup {"nobody"}
  <2>1. IsKnown(h) => h \in Humans
    BY <1>1 DEF IsKnown
  <2> QED
    BY <1>2, <2>1 DEF ResolveHuman
<1> DEFINE h == ResolveHuman(name)
           s == ResolveHuman(Standin[h])
<1>4. h \in Humans \cup {"nobody"}
  BY <1>3
<1>5. CASE h \in Humans
  <2>1. Standin[h] \in Humans \cup {"nobody"}
    BY <1>5, HumanAssumption
  <2>2. s \in Humans \cup {"nobody"}
    BY <1>3, <2>1
  <2> QED
    BY <1>4, <2>2 DEF Route
<1>6. CASE h \notin Humans
  <2>1. h = "nobody" /\ registered = << >>
    BY <1>2, <1>4, <1>6 DEF ResolveHuman
  <2>2. \A k : ResolveHuman(k) \in {k, "nobody"}
    BY <2>1 DEF ResolveHuman
  <2>3. \A k : ResolveHuman(k) = "nobody"
    BY <2>1, <1>1 DEF ResolveHuman, IsKnown
  <2> QED
    BY <2>3 DEF Route
<1> QED
  BY <1>5, <1>6

\* A step that settles a request, keeping its answer, and perhaps wakes the
\* waiter, by a thread whose hand becomes free.
LEMMA SettleStep ==
  ASSUME HumanInv, NEW t \in Threads, hand[t] # Free,
         NEW s \in SettledStatuses, SetStatus(hand[t].req, s),
         s = "answered" => hand[t].op = "mark", s # "auto_delegated",
         WakeUp(hand[t].req) \/ UNCHANGED event,
         Put(t), UNCHANGED <<registered, late, unheard, waiting, lapsing, report>>
  PROVE  HumanInv'
<1> DEFINE q == hand[t].req
<1>0. /\ q \in Questions
      /\ request \in [Questions -> Stored] /\ hand \in [Threads -> Holdings]
      /\ event \in [Questions -> {"none", "clear", "set"}]
  BY DEF HumanInv, HumanTypeOK, Holdings
<1> HIDE DEF q
<1>1. /\ request' = [request EXCEPT ![q].status = s]
      /\ hand' = [hand EXCEPT ![t] = Free]
      /\ event' = [event EXCEPT ![q] = IF @ = "clear" THEN "set" ELSE @]
             \/ event' = event
  BY DEF SetStatus, Put, WakeUp, q
<1>2. /\ request'[q].status = s /\ request'[q].response = request[q].response
      /\ \A k \in Questions \ {q} : request'[k] = request[k]
      /\ hand'[t] = Free /\ \A u \in Threads \ {t} : hand'[u] = hand[u]
      /\ \A k \in Questions \ {q} : event'[k] = event[k]
  BY <1>0, <1>1 DEF Stored
<1>3. HumanTypeOK'
  <2>1. s \in {"none", "pending"} \cup SettledStatuses /\ request[q] \in Stored
    BY <1>0
  <2>2. [request[q] EXCEPT !.status = s] \in Stored
    BY <2>1 DEF Stored, SettledStatuses
  <2>3. request' \in [Questions -> Stored]
    BY <1>0, <1>1, <2>2
  <2>4. hand' \in [Threads -> Holdings]
    BY <1>0, <1>1 DEF Holdings
  <2>5. event' \in [Questions -> {"none", "clear", "set"}]
    BY <1>0, <1>1
  <2> QED
    BY <2>3, <2>4, <2>5 DEF HumanInv, HumanTypeOK, Holdings
<1>4. HandsAreBacked'
  BY <1>0, <1>2 DEF HumanInv, HandsAreBacked, SettledStatuses, Holdings
<1>5. AnswersAreWhole'
  <2>1. s = "answered" => request[q].response # "none"
    BY DEF HumanInv, HandsAreBacked, q
  <2> QED
    BY <1>2, <2>1 DEF HumanInv, AnswersAreWhole
<1>6. WokenMeansSettled'
  BY <1>0, <1>2 DEF HumanInv, WokenMeansSettled
<1> QED
  BY <1>3, <1>4, <1>5, <1>6 DEF HumanInv

LEMMA NextHumanInv == HumanInv /\ [HumanNext]_humanVars => HumanInv'
<1> SUFFICES ASSUME HumanInv, [HumanNext]_humanVars
             PROVE  HumanInv'
  OBVIOUS
<1>0. /\ registered \in Seq(Humans)
      /\ request \in [Questions -> Stored] /\ report \in [Questions -> Stored]
      /\ event \in [Questions -> {"none", "clear", "set"}]
      /\ hand \in [Threads -> Holdings]
      /\ late \subseteq Questions /\ unheard \subseteq Questions
      /\ waiting \subseteq Questions /\ lapsing \subseteq Questions
  BY DEF HumanInv, HumanTypeOK, Holdings
<1>1. ASSUME NEW h \in Humans, RegisterHuman(h) \/ UnregisterHuman(h)
      PROVE  HumanInv'
  <2>1. registered' \in Seq(Humans)
    <3>1. CASE RegisterHuman(h)
      BY <1>0, <3>1 DEF RegisterHuman
    <3>2. CASE UnregisterHuman(h)
      <4>1. PICK i \in DOMAIN registered :
                registered' = SubSeq(registered, 1, i - 1)
                                  \o SubSeq(registered, i + 1, Len(registered))
        BY <3>2 DEF UnregisterHuman
      <4>2. /\ SubSeq(registered, 1, i - 1) \in Seq(Humans)
            /\ SubSeq(registered, i + 1, Len(registered)) \in Seq(Humans)
        BY <1>0
      <4> QED
        BY <4>1, <4>2
    <3> QED
      BY <1>1, <3>1, <3>2
  <2> QED
    BY <1>1, <2>1 DEF RegisterHuman, UnregisterHuman, HumanInv, HumanTypeOK,
                      HandsAreBacked, AnswersAreWhole, WokenMeansSettled
<1>2. ASSUME NEW q \in Questions, NEW name \in Humans, NEW ruled \in BOOLEAN,
             Ask(q, name, ruled)
      PROVE  HumanInv'
  <2> DEFINE asked == [status   |-> IF ruled THEN "auto_delegated" ELSE "pending",
                       to       |-> Route(name),
                       response |-> IF ruled THEN "rule" ELSE "none"]
  <2>1. asked \in Stored
    BY RouteType DEF HumanInv, Stored, SettledStatuses
  <2>2. /\ request[q].status = "none"
        /\ request' = [request EXCEPT ![q] = asked]
        /\ UNCHANGED <<registered, late, event, hand, waiting, lapsing, report>>
        /\ unheard' = unheard \cup {q}
    BY <1>2 DEF Ask
  <2>3. /\ asked.status \in {"auto_delegated", "answered"} => asked.response # "none"
        /\ asked.status # "none"
    OBVIOUS
  <2> HIDE DEF asked
  <2>4. \A k \in Questions : request'[k] = IF k = q THEN asked ELSE request[k]
    BY <1>0, <2>2
  <2>5. HumanTypeOK'
    BY <1>0, <2>1, <2>2 DEF HumanInv, HumanTypeOK
  <2>6. HandsAreBacked'
    BY <1>0, <2>2, <2>4 DEF HumanInv, HandsAreBacked, Holdings
  <2>7. AnswersAreWhole'
    BY <2>2, <2>3, <2>4 DEF HumanInv, AnswersAreWhole
  <2>8. WokenMeansSettled'
    BY <2>2, <2>4 DEF HumanInv, WokenMeansSettled, SettledStatuses
  <2> QED
    BY <2>5, <2>6, <2>7, <2>8 DEF HumanInv
<1>3. ASSUME NEW q \in Questions, MakeEvent(q)
      PROVE  HumanInv'
  BY <1>0, <1>3 DEF MakeEvent, HumanInv, HumanTypeOK, HandsAreBacked,
                    AnswersAreWhole, WokenMeansSettled
<1>4. ASSUME NEW q \in Questions, DeadlinePassesFor(q) \/ WaitForResponse(q)
      PROVE  HumanInv'
  BY <1>4 DEF DeadlinePassesFor, WaitForResponse, HumanInv, HumanTypeOK,
              HandsAreBacked, AnswersAreWhole, WokenMeansSettled
<1>5. ASSUME NEW q \in Questions, NEW t \in Threads,
             TakeAnswer(t, q) \/ TakeCancel(t, q) \/ TakeOverdue(t, q)
      PROVE  HumanInv'
  <2>1. PICK op \in {"fill", "cancel", "expire"} : Take(t, op, q)
    BY <1>5 DEF TakeAnswer, TakeCancel, TakeOverdue
  <2>2. request[q].status = "pending"
    BY <1>5 DEF TakeAnswer, TakeCancel, TakeOverdue, Overdue
  <2>3. /\ hand' = [hand EXCEPT ![t] = [op |-> op, req |-> q]]
        /\ UNCHANGED <<registered, request, late, unheard, event, waiting, lapsing, report>>
    BY <2>1 DEF Take
  <2>4. HumanTypeOK'
    BY <1>0, <2>3 DEF HumanInv, HumanTypeOK, Holdings
  <2>5. HandsAreBacked'
    BY <1>0, <2>2, <2>3 DEF HumanInv, HandsAreBacked, Holdings
  <2> QED
    BY <2>3, <2>4, <2>5 DEF HumanInv, AnswersAreWhole, WokenMeansSettled
<1>6. ASSUME NEW t \in Threads, Fill(t)
      PROVE  HumanInv'
  <2> DEFINE q == hand[t].req
  <2>1. q \in Questions /\ hand[t] # Free /\ hand[t].op = "fill"
    BY <1>0, <1>6 DEF Fill, Holds, Holdings
  <2>2. /\ request' = [request EXCEPT ![q].response = t]
        /\ hand' = [hand EXCEPT ![t].op = "mark"]
        /\ UNCHANGED <<registered, late, unheard, event, waiting, lapsing, report>>
    BY <1>6 DEF Fill
  <2>3. t # "none"
    BY HumanAssumption
  <2>4. hand'[t] = [op |-> "mark", req |-> q]
    BY <1>0, <2>1, <2>2 DEF Holdings, Free
  <2>5. /\ request'[q].status = request[q].status /\ request'[q].response = t
        /\ \A k \in Questions \ {q} : request'[k] = request[k]
        /\ \A u \in Threads \ {t} : hand'[u] = hand[u]
    BY <1>0, <2>1, <2>2 DEF Stored
  <2>6. request[q].status # "none"
    BY <2>1 DEF HumanInv, HandsAreBacked
  <2> HIDE DEF q
  <2>7. HumanTypeOK'
    <3>1. request' \in [Questions -> Stored]
      BY <1>0, <2>1, <2>2 DEF Stored
    <3>2. hand' = [hand EXCEPT ![t] = [op |-> "mark", req |-> q]]
      BY <1>0, <2>2, <2>4
    <3> QED
      BY <1>0, <2>1, <2>2, <3>1, <3>2 DEF HumanInv, HumanTypeOK, Holdings
  <2>8. HandsAreBacked'
    BY <1>0, <2>3, <2>4, <2>5, <2>6 DEF HumanInv, HandsAreBacked, Holdings
  <2>9. AnswersAreWhole'
    <3>1. ASSUME NEW k \in Questions
          PROVE  /\ request'[k].status = request[k].status
                 /\ request'[k].response = "none" => request[k].response = "none"
      BY <2>3, <2>5
    <3> QED
      BY <2>2, <3>1 DEF HumanInv, AnswersAreWhole
  <2>10. WokenMeansSettled'
    BY <2>2, <2>5 DEF HumanInv, WokenMeansSettled
  <2> QED
    BY <2>7, <2>8, <2>9, <2>10 DEF HumanInv
<1>7. ASSUME NEW t \in Threads,
             MarkAnswered(t) \/ MarkCancelled(t) \/ MarkExpired(t)
      PROVE  HumanInv'
  BY <1>7, SettleStep
     DEF MarkAnswered, MarkCancelled, MarkExpired, Holds, SettledStatuses
<1>8. ASSUME NEW q \in Questions, NEW s \in {request[q].status, "expired"},
             request' = [request EXCEPT ![q].status = s],
             waiting' \subseteq Questions, lapsing' \subseteq Questions,
             report' = [report EXCEPT ![q] = request'[q]],
             UNCHANGED <<registered, late, unheard, event, hand>>
      PROVE  HumanInv'
  <2>1. /\ request' = [request EXCEPT ![q].status = s]
        /\ waiting' \subseteq Questions /\ lapsing' \subseteq Questions
        /\ report' = [report EXCEPT ![q] = request'[q]]
        /\ UNCHANGED <<registered, late, unheard, event, hand>>
    BY <1>8
  <2>2. s = request[q].status \/ s = "expired"
    BY <1>8
  <2>3. /\ request'[q].status = s /\ request'[q].response = request[q].response
        /\ \A k \in Questions \ {q} : request'[k] = request[k] /\ report'[k] = report[k]
        /\ report'[q] = request'[q]
    BY <1>0, <2>1 DEF Stored
  <2>4. HumanTypeOK'
    <3>1. s \in {"none", "pending"} \cup SettledStatuses
      BY <1>0, <2>2 DEF Stored, SettledStatuses
    <3>2. request' \in [Questions -> Stored]
      <4>1. request[q] \in Stored
        BY <1>0, <1>8
      <4>2. [request[q] EXCEPT !.status = s] \in Stored
        BY <3>1, <4>1 DEF Stored, SettledStatuses
      <4> QED
        BY <1>0, <2>1, <4>2
    <3> QED
      BY <1>0, <2>1, <3>2 DEF HumanInv, HumanTypeOK
  <2>5. HandsAreBacked'
    BY <1>0, <2>1, <2>2, <2>3 DEF HumanInv, HandsAreBacked, Holdings
  <2>6. AnswersAreWhole'
    BY <2>2, <2>3 DEF HumanInv, AnswersAreWhole
  <2>7. WokenMeansSettled'
    BY <2>1, <2>2, <2>3 DEF HumanInv, WokenMeansSettled, SettledStatuses
  <2> QED
    BY <2>4, <2>5, <2>6, <2>7 DEF HumanInv
<1>9. ASSUME NEW q \in Questions, WaitReturns(q)
      PROVE  HumanInv'
  <2>1. /\ request' = request /\ lapsing' = lapsing /\ waiting' = waiting \ {q}
        /\ report' = [report EXCEPT ![q] = request'[q]]
        /\ UNCHANGED <<registered, late, unheard, event, hand>>
    BY <1>9 DEF WaitReturns, Reports
  <2>2. request = [request EXCEPT ![q].status = request[q].status]
    BY <1>0 DEF Stored
  <2> QED
    BY <1>0, <1>8, <2>1, <2>2
<1>10. ASSUME NEW q \in Questions, WaitLapses(q)
       PROVE  HumanInv'
  BY <1>0, <1>10 DEF WaitLapses, HumanInv, HumanTypeOK, HandsAreBacked,
                     AnswersAreWhole, WokenMeansSettled
<1>11. ASSUME NEW q \in Questions, WaitExpires(q)
       PROVE  HumanInv'
  <2>1. /\ request' = [request EXCEPT ![q].status = "expired"]
        /\ waiting' = waiting /\ lapsing' = lapsing \ {q}
        /\ report' = [report EXCEPT ![q] = request'[q]]
        /\ UNCHANGED <<registered, late, unheard, event, hand>>
    BY <1>11 DEF WaitExpires, SetStatus, Reports
  <2> QED
    BY <1>0, <1>8, <2>1
<1>12. CASE UNCHANGED humanVars
  BY <1>12 DEF humanVars, HumanInv, HumanTypeOK, HandsAreBacked,
               AnswersAreWhole, WokenMeansSettled
<1> QED
  BY <1>1, <1>2, <1>3, <1>4, <1>5, <1>6, <1>7, <1>9, <1>10, <1>11, <1>12 DEF HumanNext

\* The gateway's humans, its requests, their events and what the web threads
\* hold keep their types (A2HGateway, InMemoryHumanRequestStore).
THEOREM HumanTypes == HumanSpec => []HumanTypeOK
<1>1. HumanInv => HumanTypeOK
  BY DEF HumanInv
<1> QED
  BY InitHumanInv, NextHumanInv, <1>1, PTL DEF HumanSpec

\* A request that is seen answered has its answer: respond writes the response
\* before the status, and no cancellation or expiry that writes over the status
\* takes the response away.
THEOREM WholeAnswers == HumanSpec => []AnswersAreWhole
<1>1. HumanInv => AnswersAreWhole
  BY DEF HumanInv
<1> QED
  BY InitHumanInv, NextHumanInv, <1>1, PTL DEF HumanSpec

\* An event is set only after its request is settled, and what is settled never
\* becomes pending again (respond, cancel, wait_for_response).
THEOREM WokenAreSettled == HumanSpec => []WokenMeansSettled
<1>1. HumanInv => WokenMeansSettled
  BY DEF HumanInv
<1> QED
  BY InitHumanInv, NextHumanInv, <1>1, PTL DEF HumanSpec

-----------------------------------------------------------------------------
(* Chats.                                                                  *)

\* The bound on messages counts those about to be appended.
RoomForPosts == Len(log) + Cardinality(posting) <= MaxMessages

\* Readers are never ahead of the log, and what the tool returned lies before
\* the post it polls from.
CursorsInLog ==
    /\ Len(shown) <= Len(log)
    /\ since <= Len(log)
    /\ \A i \in DOMAIN returned :
           /\ returned[i] <= Len(log)
           /\ poll["agent"] # "idle" => returned[i] <= since

ChatInv == ChatTypeOK /\ RoomForPosts /\ CursorsInLog /\ ReadersKeepOrder

Polls == [Roles -> {"idle", "posted", "waiting", "woken"}]

\* What sequences and their concatenation are made of.
LEMMA SeqFacts ==
  ASSUME NEW S, NEW s \in Seq(S), NEW t \in Seq(S)
  PROVE  /\ Len(s) \in Nat /\ DOMAIN s = 1 .. Len(s)
         /\ \A i \in 1 .. Len(s) : s[i] \in S
         /\ s \o t \in Seq(S) /\ Len(s \o t) = Len(s) + Len(t)
  OBVIOUS

LEMMA RolesFinite == IsFiniteSet(Roles)
<1>1. Roles = ({} \cup {"human"}) \cup {"agent"}
  BY DEF Roles
<1>2. IsFiniteSet({} \cup {"human"})
  BY FS_EmptySet, FS_AddElement
<1> QED
  BY <1>1, <1>2, FS_AddElement

LEMMA InitChatInv == ChatInit => ChatInv
<1> SUFFICES ASSUME ChatInit PROVE ChatInv
  OBVIOUS
<1>1. Cardinality({}) = 0
  BY FS_EmptySet
<1>2. ChatTypeOK
  BY ChatAssumption DEF ChatInit, ChatTypeOK
<1>3. RoomForPosts
  BY <1>1, ChatAssumption DEF ChatInit, RoomForPosts
<1>4. CursorsInLog /\ ReadersKeepOrder
  BY DEF ChatInit, CursorsInLog, ReadersKeepOrder
<1> QED
  BY <1>2, <1>3, <1>4 DEF ChatInv

\* messages_after: the positions from the cursor to the end of the log.
LEMMA MessagesAfterCursor ==
  ASSUME ChatInv, NEW n \in 0 .. Len(log)
  PROVE  /\ MessagesAfter(n) \in Seq(1 .. MaxMessages)
         /\ Len(MessagesAfter(n)) = Len(log) - n
         /\ \A i \in 1 .. Len(log) - n : MessagesAfter(n)[i] = n + i
  BY ChatAssumption DEF ChatInv, ChatTypeOK, MessagesAfter

LEMMA LastOfShown ==
  ASSUME ChatInv
  PROVE  LastShown = Len(shown) /\ LastShown \in 0 .. Len(log)
<1>1. shown \in Seq(1 .. MaxMessages) /\ log \in Seq(Roles)
  BY DEF ChatInv, ChatTypeOK
<1>2. shown = [i \in 1 .. Len(shown) |-> i] /\ Len(shown) <= Len(log)
  BY DEF ChatInv, ReadersKeepOrder, CursorsInLog
<1>3. CASE shown = << >>
  BY <1>1, <1>3 DEF LastShown
<1>4. CASE shown # << >>
  <2>1. Len(shown) \in 1 .. Len(shown)
    BY <1>1, <1>4
  <2>2. shown[Len(shown)] = Len(shown)
    BY <1>2, <2>1
  <2> QED
    BY <1>1, <1>2, <1>4, <2>2 DEF LastShown
<1> QED
  BY <1>3, <1>4

\* A reader that reads to the end of the log.
LEMMA ReadStep ==
  ASSUME ChatInv, NEW r \in Roles, Receive(r, MessagesAfter(Cursor(r))),
         poll' = [poll EXCEPT ![r] = "idle"],
         r = "agent" => poll["agent"] # "idle",
         UNCHANGED <<chat, log, posting, since>>
  PROVE  ChatInv'
<1>0. /\ shown \in Seq(1 .. MaxMessages) /\ returned \in Seq(1 .. MaxMessages)
      /\ log \in Seq(Roles) /\ Len(log) <= MaxMessages
      /\ since \in 0 .. Len(log) /\ poll \in Polls /\ poll' \in Polls
  BY DEF ChatInv, ChatTypeOK, CursorsInLog, Polls
<1> DEFINE n == Cursor(r)
           ms == MessagesAfter(n)
<1>1. n \in 0 .. Len(log)
  BY <1>0, LastOfShown DEF Cursor
<1>2. /\ ms \in Seq(1 .. MaxMessages) /\ Len(ms) = Len(log) - n
      /\ \A i \in 1 .. Len(log) - n : ms[i] = n + i
  BY <1>1, MessagesAfterCursor
<1>3. RoomForPosts'
  BY DEF ChatInv, RoomForPosts
<1>4. CASE r = "human"
  <2>1. shown' = shown \o ms /\ returned' = returned
    BY <1>4 DEF Receive
  <2>2. n = Len(shown)
    BY <1>4, LastOfShown DEF Cursor
  <2> HIDE DEF ms, n
  <2>3. shown' \in Seq(1 .. MaxMessages) /\ Len(shown') = Len(log)
    BY <1>0, <1>1, <1>2, <2>1, <2>2
  <2>4. \A i \in 1 .. Len(log) : shown'[i] = i
    <3> TAKE i \in 1 .. Len(log)
    <3>1. CASE i <= Len(shown)
      BY <1>0, <1>1, <1>2, <2>1, <2>2, <3>1 DEF ChatInv, ReadersKeepOrder
    <3>2. CASE i > Len(shown)
      <4>1. shown'[i] = ms[i - Len(shown)]
        BY <1>0, <1>1, <1>2, <2>1, <2>2, <3>2
      <4>2. i - Len(shown) \in 1 .. Len(log) - n
        BY <1>0, <2>2, <3>2
      <4> QED
        BY <1>0, <1>2, <2>2, <3>2, <4>1, <4>2
    <3> QED
      BY <1>0, <3>1, <3>2
  <2>5. shown' = [i \in 1 .. Len(shown') |-> i]
    BY <2>3, <2>4
  <2>6. poll'["agent"] = poll["agent"]
    BY <1>0, <1>4 DEF Polls, Roles
  <2>7. ChatTypeOK'
    BY <1>0, <2>1, <2>3 DEF ChatInv, ChatTypeOK, Polls
  <2>8. CursorsInLog' /\ ReadersKeepOrder'
    BY <1>0, <2>1, <2>3, <2>5, <2>6
       DEF ChatInv, CursorsInLog, ReadersKeepOrder
  <2> QED
    BY <1>3, <2>7, <2>8 DEF ChatInv
<1>5. CASE r = "agent"
  <2>1. returned' = returned \o ms /\ shown' = shown
    BY <1>5 DEF Receive
  <2>2. n = since
    BY <1>5 DEF Cursor
  <2> HIDE DEF ms, n
  <2>3. /\ returned' \in Seq(1 .. MaxMessages)
        /\ Len(returned') = Len(returned) + (Len(log) - since)
    <3>1. /\ returned \o ms \in Seq(1 .. MaxMessages)
          /\ Len(returned \o ms) = Len(returned) + Len(ms)
      BY <1>0, <1>2, SeqFacts
    <3> QED
      BY <1>2, <2>1, <2>2, <3>1
  <2>4. \A i \in 1 .. Len(returned') :
            returned'[i] = IF i <= Len(returned) THEN returned[i]
                           ELSE since + (i - Len(returned))
    <3> TAKE i \in 1 .. Len(returned')
    <3>1. CASE i <= Len(returned)
      BY <1>0, <1>2, <2>1, <3>1
    <3>2. CASE i > Len(returned)
      <4>1. returned'[i] = ms[i - Len(returned)]
        BY <1>0, <1>1, <1>2, <2>1, <2>2, <2>3, <3>2
      <4>2. i - Len(returned) \in 1 .. Len(log) - n
        BY <1>0, <2>2, <2>3, <3>2
      <4> QED
        BY <1>0, <1>2, <2>2, <3>2, <4>1, <4>2
    <3> QED
      BY <1>0, <2>3, <3>1, <3>2
  <2>5. \A i \in 1 .. Len(returned) : returned[i] \in Nat /\ returned[i] <= since
    <3>1. /\ DOMAIN returned = 1 .. Len(returned)
          /\ \A i \in 1 .. Len(returned) : returned[i] \in 1 .. MaxMessages
      BY <1>0, SeqFacts
    <3> QED
      BY <1>5, <3>1, ChatAssumption DEF ChatInv, CursorsInLog
  <2>6. \A i \in 1 .. Len(returned') - 1 : returned'[i] < returned'[i + 1]
    <3> TAKE i \in 1 .. Len(returned') - 1
    <3>1. i \in 1 .. Len(returned') /\ i + 1 \in 1 .. Len(returned')
      BY <1>0, <2>3
    <3>2. CASE i + 1 <= Len(returned)
      BY <1>0, <2>4, <3>1, <3>2 DEF ChatInv, ReadersKeepOrder
    <3>3. CASE i = Len(returned)
      BY <1>0, <2>4, <2>5, <3>1, <3>3
    <3>4. CASE i > Len(returned)
      BY <1>0, <2>4, <3>1, <3>4
    <3> QED
      BY <1>0, <2>3, <3>2, <3>3, <3>4
  <2>7. poll'["agent"] = "idle"
    BY <1>0, <1>5 DEF Polls
  <2>8. \A i \in DOMAIN returned' : returned'[i] <= Len(log)
    <3>1. DOMAIN returned' = 1 .. Len(returned') /\ Len(returned) \in Nat
      BY <1>0, <2>3, SeqFacts
    <3> QED
      BY <1>0, <2>3, <2>4, <2>5, <3>1
  <2>9. ChatTypeOK'
    BY <1>0, <2>1, <2>3 DEF ChatInv, ChatTypeOK, Polls
  <2>10. CursorsInLog' /\ ReadersKeepOrder'
    BY <1>0, <2>1, <2>3, <2>6, <2>7, <2>8
       DEF ChatInv, CursorsInLog, ReadersKeepOrder
  <2> QED
    BY <1>3, <2>9, <2>10 DEF ChatInv
<1> QED
  BY <1>4, <1>5 DEF Roles

\* A step that only moves polls, and starts none of the tool's, keeps it all.
LEMMA PollStep ==
  ASSUME ChatInv, poll' \in Polls,
         poll'["agent"] # "idle" => poll["agent"] # "idle",
         UNCHANGED <<log, posting, shown, since, returned>>,
         chat' \in {"none", "open", "closed"}
  PROVE  ChatInv'
  BY DEF ChatInv, ChatTypeOK, RoomForPosts, CursorsInLog, ReadersKeepOrder, Polls

\* Waking some of those who wait starts no poll.
LEMMA WakingsPoll ==
  ASSUME ChatInv, NEW p \in Wakings
  PROVE  p \in Polls /\ (p["agent"] # "idle" => poll["agent"] # "idle")
<1>1. poll \in Polls
  BY DEF ChatInv, ChatTypeOK, Polls
<1>2. PICK w \in SUBSET Waiters :
          p = [r \in Roles |-> IF r \in w THEN "woken" ELSE poll[r]]
  BY DEF Wakings
<1>3. \A r \in w : poll[r] = "waiting"
  BY DEF Waiters
<1> QED
  BY <1>1, <1>2, <1>3 DEF Polls, Roles

\* One more message, with or without a poll of the tool that starts at it.
LEMMA AppendStep ==
  ASSUME ChatInv, NEW r \in Roles, AppendMessage(r)
  PROVE  ChatInv'
<1>0. /\ log \in Seq(Roles) /\ returned \in Seq(1 .. MaxMessages)
      /\ shown \in Seq(1 .. MaxMessages)
      /\ posting \subseteq Roles /\ since \in 0 .. Len(log)
      /\ Len(log) + Cardinality(posting) <= MaxMessages
  BY DEF ChatInv, ChatTypeOK, CursorsInLog, RoomForPosts
<1>1. IsFiniteSet(Roles)
  BY RolesFinite
<1>2. IsFiniteSet(posting) /\ Cardinality(posting) \in Nat
  BY <1>0, <1>1, FS_Subset, FS_CardinalityType
<1>3. /\ r \in posting
      /\ log' = Append(log, r) /\ posting' = posting \ {r}
      /\ since' = IF r = "agent" THEN Len(log') ELSE since
      /\ UNCHANGED <<chat, shown, returned>>
  BY DEF AppendMessage
<1>4. Cardinality(posting') = Cardinality(posting) - 1
  BY <1>2, <1>3, FS_RemoveElement
<1>5. log' \in Seq(Roles) /\ Len(log') = Len(log) + 1
  BY <1>0, <1>3
<1>6. Len(log') + Cardinality(posting') <= MaxMessages
  BY <1>0, <1>2, <1>4, <1>5
<1>7. Cardinality(posting') \in Nat
  BY <1>0, <1>1, <1>2, <1>3, FS_Subset, FS_CardinalityType
<1>8. Len(log') <= MaxMessages /\ since' \in 0 .. Len(log')
  BY <1>0, <1>3, <1>5, <1>6, <1>7, ChatAssumption
<1>9. PICK p \in Wakings :
          poll' = IF r = "agent" THEN [p EXCEPT !["agent"] = "posted"] ELSE p
  BY DEF AppendMessage
<1>10. /\ poll' \in Polls
       /\ r # "agent" /\ poll'["agent"] # "idle" => poll["agent"] # "idle"
  BY <1>9, WakingsPoll DEF Polls
<1>11. ChatTypeOK'
  BY <1>0, <1>3, <1>5, <1>8, <1>10, ChatAssumption
     DEF ChatInv, ChatTypeOK, Polls
<1>12. RoomForPosts'
  BY <1>6 DEF RoomForPosts
<1>13. CursorsInLog'
  <2>1. \A i \in DOMAIN returned : returned[i] \in Nat /\ returned[i] <= Len(log)
    <3>1. \A i \in DOMAIN returned : returned[i] \in 1 .. MaxMessages
      BY <1>0, SeqFacts
    <3> QED
      BY <3>1, ChatAssumption DEF ChatInv, CursorsInLog
  <2>2. CASE r = "agent"
    BY <1>0, <1>3, <1>5, <2>1, <2>2 DEF ChatInv, CursorsInLog
  <2>3. CASE r # "agent"
    <3>1. poll'["agent"] # "idle" => poll["agent"] # "idle"
      BY <1>10, <2>3
    <3> QED
      BY <1>0, <1>3, <1>5, <2>1, <2>3, <3>1 DEF ChatInv, CursorsInLog
  <2> QED
    BY <2>2, <2>3
<1>14. ReadersKeepOrder'
  BY <1>3 DEF ChatInv, ReadersKeepOrder
<1> QED
  BY <1>11, <1>12, <1>13, <1>14 DEF ChatInv

LEMMA NextChatInv == ChatInv /\ [ChatNext]_chatVars => ChatInv'
<1> SUFFICES ASSUME ChatInv, [ChatNext]_chatVars
             PROVE  ChatInv'
  OBVIOUS
<1>0. /\ poll \in Polls /\ chat \in {"none", "open", "closed"}
      /\ posting \subseteq Roles
  BY DEF ChatInv, ChatTypeOK, Polls
<1>1. CASE Open \/ Close
  BY <1>0, <1>1, PollStep, WakingsPoll DEF Open, Close
<1>2. CASE ReturnsNothing
  BY <1>0, <1>2, PollStep DEF ReturnsNothing, AtStart, Polls, Roles
<1>3. ASSUME NEW r \in Roles, TakePost(r)
      PROVE  ChatInv'
  <2>1. IsFiniteSet(posting)
    BY <1>0, RolesFinite, FS_Subset
  <2>2. Cardinality(posting') = Cardinality(posting) + 1
    BY <1>3, <2>1, FS_AddElement DEF TakePost
  <2>3. RoomForPosts'
    <3>1. Cardinality(posting) \in Nat /\ Len(log) \in Nat
      BY <2>1, FS_CardinalityType DEF ChatInv, ChatTypeOK
    <3> QED
      BY <1>3, <2>2, <3>1, ChatAssumption DEF TakePost, RoomForPosts
  <2> QED
    BY <1>0, <1>3, <2>3
       DEF TakePost, ChatInv, ChatTypeOK, CursorsInLog, ReadersKeepOrder
<1>4. ASSUME NEW r \in Roles, AppendMessage(r)
      PROVE  ChatInv'
  BY <1>4, AppendStep
<1>5. ASSUME NEW r \in Roles, ReadAtOnce(r) \/ Woken(r)
      PROVE  ChatInv'
  BY <1>5, ReadStep DEF ReadAtOnce, Woken, AtStart
<1>6. ASSUME NEW r \in Roles, StartWait(r) \/ TimesOut(r)
      PROVE  ChatInv'
  BY <1>0, <1>6, PollStep DEF StartWait, TimesOut, AtStart, Polls, Roles
<1>7. CASE UNCHANGED chatVars
  BY <1>7 DEF chatVars, ChatInv, ChatTypeOK, RoomForPosts, CursorsInLog,
              ReadersKeepOrder
<1> QED
  BY <1>1, <1>2, <1>3, <1>4, <1>5, <1>6, <1>7 DEF ChatNext

\* The chat, its log and its readers keep their types, and no more messages
\* are appended than there is room for (InMemoryChatStore).
THEOREM ChatTypes == ChatSpec => []ChatTypeOK
<1>1. ChatInv => ChatTypeOK
  BY DEF ChatInv
<1> QED
  BY InitChatInv, NextChatInv, <1>1, PTL DEF ChatSpec

\* Both ways of reading keep the log's order: the page has no gap and nothing
\* twice, the tool never goes back, since each reads from its cursor to the end
\* of the log in one step (messages_after, wait_for_new).
THEOREM OrderedReaders == ChatSpec => []ReadersKeepOrder
<1>1. ChatInv => ReadersKeepOrder
  BY DEF ChatInv
<1> QED
  BY InitChatInv, NextChatInv, <1>1, PTL DEF ChatSpec

-----------------------------------------------------------------------------
(* Tasks of remote agents.                                                 *)

\* A claim counts one attempt and so does each failure that makes the task
\* pending again, so claims are half the attempts of a pending task at most,
\* and a pending task has an attempt left.
ClaimsInStep ==
    \A j \in Jobs :
        /\ 2 * claims[j] <= task[j].attempts + 1
        /\ task[j].status \in {"unknown", "pending"} =>
               /\ 2 * claims[j] <= task[j].attempts
               /\ task[j].attempts < MaxAttempts

TaskInv == TaskTypeOK /\ ClaimsInStep /\ ClaimsAreBounded

\* The statuses a task can have.
TaskStatuses == {"unknown", "gone", "pending", "running"} \cup Terminal

\* A stored task, spelled out.
Tasks == [status : TaskStatuses, attempts : Nat, result : RemoteWorkers \cup {"none"}]

LEMMA InitTaskInv == TaskInit => TaskInv
  BY TaskAssumption
  DEF TaskInit, TaskInv, TaskTypeOK, ClaimsInStep, ClaimsAreBounded, Unknown,
      Terminal

\* The steps of callers, and of workers that look, change no more than statuses
\* and make no task pending that was not.
LEMMA StatusStep ==
  ASSUME TaskInv, task' \in [Jobs -> Tasks], UNCHANGED claims,
         expired' \subseteq Jobs, pulled' \in [RemoteWorkers -> SUBSET Jobs],
         \A j \in Jobs :
             /\ task'[j].attempts = task[j].attempts
             /\ task'[j].status \in {"unknown", "pending"} =>
                    task[j].status \in {"unknown", "pending"}
  PROVE  TaskInv'
<1>1. TaskTypeOK'
  BY DEF TaskInv, TaskTypeOK, Tasks, TaskStatuses
<1>2. ClaimsInStep'
  BY DEF TaskInv, ClaimsInStep, TaskTypeOK
<1>3. ClaimsAreBounded'
  BY DEF TaskInv, ClaimsAreBounded
<1> QED
  BY <1>1, <1>2, <1>3 DEF TaskInv

LEMMA NextTaskInv == TaskInv /\ [TaskNext]_taskVars => TaskInv'
<1> SUFFICES ASSUME TaskInv, [TaskNext]_taskVars
             PROVE  TaskInv'
  OBVIOUS
<1> USE DEF Tasks, TaskStatuses
<1>0. /\ task \in [Jobs -> Tasks] /\ expired \subseteq Jobs
      /\ pulled \in [RemoteWorkers -> SUBSET Jobs] /\ claims \in [Jobs -> Nat]
  BY DEF TaskInv, TaskTypeOK
<1>1. ASSUME NEW j \in Jobs, SubmitTask(j) \/ DeadlineOf(j) \/ GetTask(j) \/ CleanUp(j)
      PROVE  TaskInv'
  <2>1. CASE SubmitTask(j)
    BY <2>1, <1>0, StatusStep DEF SubmitTask
  <2>2. CASE DeadlineOf(j)
    BY <2>2, <1>0, StatusStep DEF DeadlineOf
  <2>3. CASE GetTask(j)
    BY <2>3, <1>0, StatusStep DEF GetTask, Terminal
  <2>4. CASE CleanUp(j)
    BY <2>4, <1>0, StatusStep DEF CleanUp
  <2> QED
    BY <1>1, <2>1, <2>2, <2>3, <2>4
<1>2. ASSUME NEW w \in RemoteWorkers, PullPending(w)
      PROVE  TaskInv'
  <2>1. task' \in [Jobs -> Tasks]
    <3>1. \A j \in Jobs : [task[j] EXCEPT !.status = "timeout"] \in Tasks
      BY <1>0 DEF Terminal
    <3> HIDE DEF Tasks
    <3> QED
      BY <1>0, <1>2, <3>1 DEF PullPending
  <2>2. pulled' \in [RemoteWorkers -> SUBSET Jobs]
    BY <1>0, <1>2 DEF PullPending, PendingTasks
  <2> QED
    BY <1>0, <1>2, <2>1, <2>2, StatusStep DEF PullPending
<1>3. ASSUME NEW w \in RemoteWorkers, NEW j \in Jobs, ClaimTask(w, j)
      PROVE  TaskInv'
  <2>1. /\ task'[j].status = "running"
        /\ task'[j].attempts = task[j].attempts + 1
        /\ claims'[j] = claims[j] + 1
        /\ \A k \in Jobs \ {j} : task'[k] = task[k] /\ claims'[k] = claims[k]
    BY <1>0, <1>3 DEF ClaimTask
  <2>2. /\ 2 * claims[j] <= task[j].attempts
        /\ task[j].attempts < MaxAttempts
    BY <1>3 DEF ClaimTask, TaskInv, ClaimsInStep
  <2>3. TaskTypeOK'
    BY <1>0, <1>3 DEF ClaimTask, TaskTypeOK
  <2>4. ClaimsInStep'
    BY <1>0, <2>1, <2>2 DEF TaskInv, ClaimsInStep
  <2>5. ClaimsAreBounded'
    BY <1>0, <2>1, <2>2, TaskAssumption DEF TaskInv, ClaimsAreBounded
  <2> QED
    BY <2>3, <2>4, <2>5 DEF TaskInv
<1>4. ASSUME NEW w \in RemoteWorkers, NEW j \in Jobs, SubmitResult(w, j)
      PROVE  TaskInv'
  BY <1>0, <1>4, StatusStep DEF SubmitResult, Terminal
<1>5. ASSUME NEW w \in RemoteWorkers, NEW j \in Jobs, MarkFailed(w, j)
      PROVE  TaskInv'
  <2>1. /\ task'[j].attempts = task[j].attempts + 1
        /\ task'[j].status = IF task[j].attempts + 1 >= MaxAttempts
                             THEN "failed" ELSE "pending"
        /\ \A k \in Jobs \ {j} : task'[k] = task[k]
        /\ UNCHANGED claims
    BY <1>0, <1>5 DEF MarkFailed
  <2>2. TaskTypeOK'
    <3> DEFINE s == IF task[j].attempts + 1 >= MaxAttempts
                    THEN "failed" ELSE "pending"
               failed == [task[j] EXCEPT !.attempts = @ + 1, !.status = s]
    <3>1. failed \in Tasks
      <4>1. s \in TaskStatuses
        BY DEF Terminal
      <4> HIDE DEF s
      <4>2. task[j] \in Tasks /\ task[j].attempts + 1 \in Nat
        BY <1>0
      <4> QED
        BY <4>1, <4>2
    <3> HIDE DEF failed
    <3>2. task'[j] = failed
      BY <1>0, <1>5 DEF MarkFailed, failed
    <3>3. task' \in [Jobs -> Tasks]
      <4>1. task' = [k \in Jobs |-> task'[k]]
        BY <1>0, <1>5 DEF MarkFailed
      <4> QED
        BY <1>0, <2>1, <3>1, <3>2, <4>1
    <3> QED
      BY <1>0, <1>5, <3>3 DEF MarkFailed, TaskTypeOK
  <2>3. ClaimsInStep'
    BY <1>0, <2>1, TaskAssumption DEF TaskInv, ClaimsInStep
  <2>4. ClaimsAreBounded'
    BY <2>1 DEF TaskInv, ClaimsAreBounded
  <2> QED
    BY <2>2, <2>3, <2>4 DEF TaskInv
<1>6. CASE UNCHANGED taskVars
  BY <1>6 DEF taskVars, TaskInv, TaskTypeOK, ClaimsInStep, ClaimsAreBounded
<1> QED
  BY <1>1, <1>2, <1>3, <1>4, <1>5, <1>6 DEF TaskNext

\* The stored tasks, what workers were given and the count of claims keep their
\* types (InMemoryTaskQueue).
THEOREM TaskTypes == TaskSpec => []TaskTypeOK
<1>1. TaskInv => TaskTypeOK
  BY DEF TaskInv
<1> QED
  BY InitTaskInv, NextTaskInv, <1>1, PTL DEF TaskSpec

\* A task is claimed about half as often as max_attempts says and never more,
\* since claim and mark_failed each count an attempt and a failure is what makes
\* a claimed task pending again.
THEOREM BoundedClaims == TaskSpec => []ClaimsAreBounded
<1>1. TaskInv => ClaimsAreBounded
  BY DEF TaskInv
<1> QED
  BY InitTaskInv, NextTaskInv, <1>1, PTL DEF TaskSpec

=============================================================================
