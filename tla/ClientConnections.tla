--------------------------- MODULE ClientConnections ---------------------------
(***************************************************************************)
(* Connections to MCP servers on behalf of clients: ClientMCPManager       *)
(* (src/mcp/client_mcp_manager.py) behind the tool executor and the start  *)
(* of a run.  Coroutines share one lock and hold it while a session is     *)
(* closed or a server starts; the pool is an OrderedDict, oldest use       *)
(* first.  A server is external: it may fail to start, fail to answer or   *)
(* take too long.                                                          *)
(***************************************************************************)
EXTENDS Naturals, Sequences, FiniteSets

CONSTANTS
    Keys,           \* (client_id, server_name, namespace)
    Callers,        \* coroutines that ask for a session or for its tools
    MaxConnections,
    MaxSessions     \* bound: servers started

ASSUME ConnectionAssumption == MaxConnections \in Nat \ {0} /\ MaxSessions \in Nat

VARIABLES
    pool,       \* _connections: [key, session], in order of use
    open,       \* sessions entered and not exited: their servers run
    started,    \* servers started so far, which number the sessions
    lapsed,     \* sessions not used for the time to live
    cooling,    \* keys whose last attempt failed less than a minute ago
    lock,       \* whether _lock is held
    caller      \* caller -> its place, key and session

connectionVars == <<pool, open, started, lapsed, cooling, lock, caller>>

NoRequest == [pc |-> "idle", key |-> "none", session |-> 0]
Holding == {"searching", "closing", "connecting", "starting"}

ConnectionInit ==
    /\ pool = << >> /\ open = {} /\ started = 0 /\ lapsed = {} /\ cooling = {}
    /\ lock = FALSE
    /\ caller = [c \in Callers |-> NoRequest]

Pooled == {pool[i] : i \in DOMAIN pool}
Cached(k) == \E e \in Pooled : e.key = k
Place(k) == CHOOSE i \in DOMAIN pool : pool[i].key = k
PoolEntry(k) == pool[Place(k)]
Without(k) == SubSeq(pool, 1, Place(k) - 1) \o SubSeq(pool, Place(k) + 1, Len(pool))

Goes(c, pc, n) ==
    caller' = [caller EXCEPT ![c].pc = pc, ![c].session = n]

\* get_client returns session n, or None for 0, and with it the lock is free.
HandsBack(c, n) == Goes(c, "got", n) /\ lock' = FALSE

-----------------------------------------------------------------------------
\* get_client; get_tool_schemas comes here when the key is not in the pool.
GetClient(c, k) ==
    /\ caller[c] = NoRequest
    /\ caller' = [caller EXCEPT ![c] = [pc |-> "waiting", key |-> k, session |-> 0]]
    /\ UNCHANGED <<pool, open, started, lapsed, cooling, lock>>

\* The caller is done with the session it got.
Done(c) ==
    /\ caller[c].pc = "got"
    /\ caller' = [caller EXCEPT ![c] = NoRequest]
    /\ UNCHANGED <<pool, open, started, lapsed, cooling, lock>>

UseCached(c) ==
    LET k == caller[c].key IN
    /\ caller[c].pc = "waiting" /\ ~lock
    /\ Cached(k) /\ PoolEntry(k).session \notin lapsed
    /\ pool' = Append(Without(k), PoolEntry(k))
    /\ HandsBack(c, PoolEntry(k).session)
    /\ UNCHANGED <<open, started, lapsed, cooling>>

\* _disconnect_one takes the connection out before it awaits its end.
DropLapsed(c) ==
    LET k == caller[c].key IN
    /\ caller[c].pc = "waiting" /\ ~lock
    /\ Cached(k) /\ PoolEntry(k).session \in lapsed
    /\ lock' = TRUE
    /\ pool' = Without(k)
    /\ lapsed' = lapsed \ {PoolEntry(k).session}
    /\ Goes(c, "closing", PoolEntry(k).session)
    /\ UNCHANGED <<open, started, cooling>>

\* The session is closed, or its end fails in a task that did not start it.
Closed(c) ==
    /\ caller[c].pc = "closing"
    /\ open' \in {open, open \ {caller[c].session}}
    /\ Goes(c, "searching", 0)
    /\ UNCHANGED <<pool, started, lapsed, cooling, lock>>

\* Mutant: an awaited connect without the lock.
MissUnlocked(c) ==
    /\ caller[c].pc = "waiting" /\ ~lock /\ ~Cached(caller[c].key)
    /\ Goes(c, "searching", 0)
    /\ UNCHANGED <<pool, open, started, lapsed, cooling, lock>>

Miss(c) ==
    /\ caller[c].pc = "waiting" /\ ~lock /\ ~Cached(caller[c].key)
    /\ lock' = TRUE
    /\ Goes(c, "searching", 0)
    /\ UNCHANGED <<pool, open, started, lapsed, cooling>>

\* In cooldown, or no configuration found.
GiveUp(c) ==
    /\ caller[c].pc = "searching"
    /\ HandsBack(c, 0)
    /\ UNCHANGED <<pool, open, started, lapsed, cooling>>

\* Room is made, oldest use first.  _evict_oldest takes the entry out itself,
\* so that _disconnect_one finds nothing to close: the session stays open.
Connect(c) ==
    /\ caller[c].pc = "searching" /\ caller[c].key \notin cooling
    /\ pool' = IF Len(pool) < MaxConnections THEN pool
               ELSE SubSeq(pool, Len(pool) - MaxConnections + 2, Len(pool))
    /\ Goes(c, "connecting", 0)
    /\ UNCHANGED <<open, started, lapsed, cooling, lock>>

Spawned(c) ==
    /\ caller[c].pc = "connecting" /\ started < MaxSessions
    /\ started' = started + 1
    /\ open' = open \cup {started'}
    /\ Goes(c, "starting", started')
    /\ UNCHANGED <<pool, lapsed, cooling, lock>>

Connected(c) ==
    /\ caller[c].pc = "starting"
    /\ pool' = Append(pool, [key |-> caller[c].key, session |-> caller[c].session])
    /\ HandsBack(c, caller[c].session)
    /\ UNCHANGED <<open, started, lapsed, cooling>>

\* The server does not start, or answers with an error once it runs: then its
\* session is left open.
ConnectFails(c) ==
    /\ caller[c].pc \in {"connecting", "starting"}
    /\ cooling' = cooling \cup {caller[c].key}
    /\ HandsBack(c, 0)
    /\ UNCHANGED <<pool, open, started, lapsed>>

\* initialize takes too long: no cooldown.
InitTimesOut(c) ==
    /\ caller[c].pc = "starting"
    /\ open' \in {open, open \ {caller[c].session}}
    /\ HandsBack(c, 0)
    /\ UNCHANGED <<pool, started, lapsed, cooling>>

\* The tool call timed out: CancelledError at any await, and the lock is left;
\* a session that is starting or closing is not seen to.
CallerCancelled(c) ==
    /\ caller[c].pc \in {"waiting", "closing", "connecting", "starting"}
    /\ lock' = (lock /\ caller[c].pc = "waiting")
    /\ caller' = [caller EXCEPT ![c] = NoRequest]
    /\ UNCHANGED <<pool, open, started, lapsed, cooling>>

Lapse ==
    /\ \E e \in Pooled : lapsed' = lapsed \cup {e.session}
    /\ UNCHANGED <<pool, open, started, cooling, lock, caller>>

CooldownEnds(k) ==
    /\ k \in cooling
    /\ cooling' = cooling \ {k}
    /\ UNCHANGED <<pool, open, started, lapsed, lock, caller>>

ConnectionNext ==
    \/ Lapse
    \/ \E k \in Keys : CooldownEnds(k)
    \/ \E c \in Callers :
           \/ \E k \in Keys : GetClient(c, k)
           \/ Done(c) \/ UseCached(c) \/ DropLapsed(c) \/ Closed(c) \/ Miss(c)
           \/ GiveUp(c) \/ Connect(c) \/ Spawned(c) \/ Connected(c)
           \/ ConnectFails(c) \/ InitTimesOut(c) \/ CallerCancelled(c)

ConnectionSpec == ConnectionInit /\ [][ConnectionNext]_connectionVars

-----------------------------------------------------------------------------
\* The pool holds at most max_connections servers, one per key, and only open
\* sessions nobody is starting or closing, however lookups, failures and
\* cancellations interleave: what get_client checked when it looked is still
\* true when the server it then waited for is entered.
PoolIsSound ==
    /\ Len(pool) <= MaxConnections
    /\ Cardinality({e.key : e \in Pooled}) = Len(pool)
    /\ \A e \in Pooled :
           /\ e.session \in open
           /\ \A c \in Callers : caller[c].pc \in Holding => caller[c].session # e.session
=============================================================================
