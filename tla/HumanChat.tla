------------------------------ MODULE HumanChat ------------------------------
(***************************************************************************)
(* A chat between an agent and a human (src/platform/a2h_chat.py): an      *)
(* append-only log, posted to from the agents' event loop and from web     *)
(* threads, and read in two ways.  The human's page asks for what comes    *)
(* after the last message it shows; the agent's tool human__chat           *)
(* (src/mcp/tool_executor.py) posts a message and asks for what comes      *)
(* after that one.                                                         *)
(***************************************************************************)
EXTENDS Naturals, Sequences, FiniteSets

CONSTANT MaxMessages    \* bound: messages in the chat

ASSUME ChatAssumption == MaxMessages \in Nat

VARIABLES
    chat,           \* the session's status
    log,            \* its messages, each the role of its author
    posting,        \* roles that found the chat open and not yet appended
    shown,          \* the messages the human's page shows, by position
    since,          \* the position the agent's last post has in the log
    returned,       \* the positions of what the agent's tool returned
    poll            \* how each reader's long-poll stands

chatVars == <<chat, log, posting, shown, since, returned, poll>>

Roles == {"human", "agent"}

ChatTypeOK ==
    /\ chat \in {"none", "open", "closed"}
    /\ log \in Seq(Roles) /\ Len(log) <= MaxMessages
    /\ posting \subseteq Roles
    /\ shown \in Seq(1 .. MaxMessages) /\ returned \in Seq(1 .. MaxMessages)
    /\ since \in 0 .. MaxMessages
    /\ poll \in [Roles -> {"idle", "posted", "waiting", "woken"}]

ChatInit ==
    /\ chat = "none"
    /\ log = << >> /\ shown = << >> /\ returned = << >>
    /\ posting = {}
    /\ since = 0
    /\ poll = [r \in Roles |-> "idle"]

\* A chat opened towards a human nobody knows is closed from the start.
Open ==
    /\ chat = "none"
    /\ chat' \in {"open", "closed"}
    /\ UNCHANGED <<log, posting, shown, since, returned, poll>>

-----------------------------------------------------------------------------
(* post: the status is looked at, then the message appended.  Setting the  *)
(* event wakes those who wait; from another thread than theirs it may not. *)

Waiters == {r \in Roles : poll[r] = "waiting"}
Wakings == {[r \in Roles |-> IF r \in w THEN "woken" ELSE poll[r]] :
               w \in SUBSET Waiters}

\* The agent's tool posts once per call, and the call then polls.
TakePost(r) ==
    /\ chat = "open"
    /\ r \notin posting
    /\ r = "agent" => poll[r] = "idle"
    /\ Len(log) + Cardinality(posting) < MaxMessages
    /\ posting' = posting \cup {r}
    /\ UNCHANGED <<chat, log, shown, since, returned, poll>>

AppendMessage(r) ==
    /\ r \in posting
    /\ posting' = posting \ {r}
    /\ log' = Append(log, r)
    /\ \E p \in Wakings :
           poll' = IF r = "agent" THEN [p EXCEPT !["agent"] = "posted"] ELSE p
    /\ since' = IF r = "agent" THEN Len(log') ELSE since
    /\ UNCHANGED <<chat, shown, returned>>

Close ==
    /\ chat # "none"
    /\ chat' = "closed"
    /\ poll' \in Wakings
    /\ UNCHANGED <<log, posting, shown, since, returned>>

-----------------------------------------------------------------------------
(* wait and fetch.                                                         *)

\* The bug of an inclusive slice.
MessagesFrom(n) == [i \in 1 .. Len(log) - n + 1 |-> n + i - 1]

\* messages_after: the positions after the one asked for.
MessagesAfter(n) == [i \in 1 .. Len(log) - n |-> n + i]

LastShown == IF shown = << >> THEN 0 ELSE shown[Len(shown)]
Cursor(r) == IF r = "human" THEN LastShown ELSE since

Receive(r, ms) ==
    IF r = "human" THEN shown' = shown \o ms /\ UNCHANGED returned
                   ELSE returned' = returned \o ms /\ UNCHANGED shown

\* The page polls whenever it likes, the tool after its post.
AtStart(r) == poll[r] = (IF r = "agent" THEN "posted" ELSE "idle")

\* The bug of waiting for the next message without looking first.
NeverAtOnce(r) == FALSE /\ UNCHANGED chatVars

\* fetch, or a wait that finds messages at once.
ReadAtOnce(r) ==
    /\ chat # "none"
    /\ AtStart(r)
    /\ MessagesAfter(Cursor(r)) # << >>
    /\ Receive(r, MessagesAfter(Cursor(r)))
    /\ poll' = [poll EXCEPT ![r] = "idle"]
    /\ UNCHANGED <<chat, log, posting, since>>

\* The tool was told not to wait, or found the chat closed and nothing new.
ReturnsNothing ==
    /\ AtStart("agent")
    /\ poll' = [poll EXCEPT !["agent"] = "idle"]
    /\ UNCHANGED <<chat, log, posting, shown, since, returned>>

StartWait(r) ==
    /\ chat = "open"
    /\ AtStart(r)
    /\ MessagesAfter(Cursor(r)) = << >>
    /\ poll' = [poll EXCEPT ![r] = "waiting"]
    /\ UNCHANGED <<chat, log, posting, shown, since, returned>>

Woken(r) ==
    /\ poll[r] = "woken"
    /\ Receive(r, MessagesAfter(Cursor(r)))
    /\ poll' = [poll EXCEPT ![r] = "idle"]
    /\ UNCHANGED <<chat, log, posting, since>>

\* A timeout returns nothing, whatever has come in the meantime.
TimesOut(r) ==
    /\ poll[r] = "waiting"
    /\ poll' = [poll EXCEPT ![r] = "idle"]
    /\ UNCHANGED <<chat, log, posting, shown, since, returned>>

ChatNext ==
    \/ Open
    \/ Close
    \/ ReturnsNothing
    \/ \E r \in Roles :
           \/ TakePost(r) \/ AppendMessage(r)
           \/ ReadAtOnce(r) \/ StartWait(r) \/ Woken(r) \/ TimesOut(r)

\* The page keeps polling and every poll ends.
ChatFairness ==
    /\ WF_chatVars(ReadAtOnce("human"))
    /\ WF_chatVars(Woken("human"))
    /\ WF_chatVars(TimesOut("human"))

ChatSpec == ChatInit /\ [][ChatNext]_chatVars /\ ChatFairness

-----------------------------------------------------------------------------
\* The human's page shows the chat's messages in order, each once and without
\* a gap, though messages come between two polls, while one waits and without
\* waking it (InMemoryChatStore.wait_for_new and messages_after); what the
\* agent's tool returns never goes back in the log.
ReadersKeepOrder ==
    /\ shown = [i \in 1 .. Len(shown) |-> i]
    /\ \A i \in 1 .. Len(returned) - 1 : returned[i] < returned[i + 1]

\* Every message comes to be shown, the ones whose wake-up was lost and the
\* ones posted just before the chat was closed included.
MessagesAreShown ==
    \A n \in 1 .. MaxMessages : Len(log) >= n ~> Len(shown) >= n
=============================================================================
