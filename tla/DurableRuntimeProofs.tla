------------------------ MODULE DurableRuntimeProofs ------------------------
(***************************************************************************)
(* Proofs about DurableRuntime: type correctness, and that a gated tool    *)
(* runs only when a human approved that very call, for any number of runs, *)
(* workers, clients, hosts and calls, and under every kind of fault.  And, *)
(* for one process that is not restarted: no run has two drivers, no save  *)
(* takes a run back or revives it, a gated tool runs at most once, a turn  *)
(* whose calls were put to a human is not run again, and the tools of a    *)
(* turn run no more often than the crash budget allows.                    *)
(*                                                                         *)
(* TypeOK is not inductive: whether an actor may look at its copy, at its  *)
(* reply or at the resolution it carries depends on where it is, and that  *)
(* a run may be taken one turn further depends on the turns it has left.   *)
(* TypeInv adds these facts.  GatedOnlyIfGranted is not inductive either:  *)
(* GrantInv follows an acceptance from the client that submits it, through *)
(* the queue and the entry a worker claims, to the call it authorises.     *)
(***************************************************************************)
EXTENDS DurableRuntime, TLAPS, FiniteSetTheorems

(***************************************************************************)
(* The inductive invariant behind type correctness.                        *)
(***************************************************************************)
\* Places where an actor holds a copy of its continuation, where it holds the
\* reply of a turn, where it holds a resolution, and where its run has a turn
\* left.
CopyPlaces   == (EnginePlaces \ {"starting"}) \cup {"enqSave", "enqUpsert", "enqPush"}
ReplyPlaces  == {"tools", "saveTurn", "turnDone", "indexRefs"}
ResumePlaces == {"saveResuming", "gatedTool", "saveResolved"}
OpenPlaces   == ResumePlaces \cup {"resolved", "turn", "tools", "saveTurn", "turnDone"}

\* What an actor has in hand where it is.
InHand ==
    \A a \in Actors :
        /\ pc[a] # "idle" => item[a] # None /\ store[ContOf(a)] # None
        /\ pc[a] \in CopyPlaces => loc[a] # None
        /\ pc[a] \in ReplyPlaces => reply[a] # None
        /\ pc[a] \in ResumePlaces => item[a].res # None
        /\ pc[a] \in OpenPlaces => loc[a].turn < MaxTurns

\* A parked run has a turn left, in the table and in every copy.
ParkedHasTurn ==
    /\ \A c \in Conts : store[c] # None /\ store[c].status = "suspended"
                          => store[c].turn < MaxTurns
    /\ \A a \in Actors : loc[a] # None /\ loc[a].status = "suspended"
                           => loc[a].turn < MaxTurns

\* Entries, replies and references are about runs that exist.
Known ==
    /\ \A it \in BagToSet(queue) : store[it.cont] # None
    /\ \A k \in DOMAIN asked : store[asked[k].cont] # None
    /\ \A r \in refs : r.ask \in DOMAIN asked
    /\ \A a \in Actors : reply[a] # None => reply[a].ask \in DOMAIN asked

\* A worker that is in the engine has claimed a row.
Claimed ==
    \A w \in Workers : pc[w] \in EnginePlaces => ledger[ContOf(w)] # None

TypeInv == TypeOK /\ InHand /\ ParkedHasTurn /\ Known /\ Claimed

(***************************************************************************)
(* The inductive invariant behind GatedOnlyIfGranted.                      *)
(***************************************************************************)
Accepted(it) == it.res # None /\ it.res.outcome = "accept" => it.res.ref \in granted

GrantInv ==
    /\ \A it \in BagToSet(queue) : Accepted(it)
    /\ \A a \in Actors :
          item[a] # None /\ (a \in Workers \/ pc[a] \notin EnqueuePlaces) => Accepted(item[a])
    /\ \A a \in Direct : pc[a] \notin EnqueuePlaces
    /\ \A a \in Actors : pc[a] = "gatedTool" => item[a].res.outcome = "accept"
    /\ \A a \in Actors, k \in Gated : reply[a] # None => reply[a].calls[k] # "executed"
    /\ GatedOnlyIfGranted

----------------------------------------------------------------------------
(***************************************************************************)
(* Bags.                                                                   *)
(***************************************************************************)
\* What the queue holds once entries are added.
LEMMA BagAdd ==
    ASSUME NEW B, IsABag(B), NEW S
    PROVE  /\ IsABag(B (+) SetToBag(S))
           /\ BagToSet(B (+) SetToBag(S)) = BagToSet(B) \cup S
BY DEF IsABag, BagToSet, SetToBag, (+)

\* What the queue holds once entries are removed: nothing new.
LEMMA BagRemove ==
    ASSUME NEW B, IsABag(B), NEW S
    PROVE  /\ IsABag(B (-) SetToBag(S))
           /\ BagToSet(B (-) SetToBag(S)) \subseteq BagToSet(B)
BY DEF IsABag, BagToSet, SetToBag, (-)

\* The queue of a fresh Redis is empty.
LEMMA BagNone == IsABag(EmptyBag) /\ BagToSet(EmptyBag) = {}
BY DEF IsABag, BagToSet, SetToBag, EmptyBag

----------------------------------------------------------------------------
(***************************************************************************)
(* Type correctness.                                                       *)
(***************************************************************************)
\* What an actor that is busy holds is well formed.
LEMMA BusyActor ==
    ASSUME TypeInv, NEW a \in Actors, pc[a] # "idle"
    PROVE  /\ item[a] \in Items
           /\ ContOf(a) \in Conts
           /\ store[ContOf(a)] \in Continuations
BY DEF TypeInv, TypeOK, InHand, ContOf, Items

\* Where an actor works on a copy of its continuation, it has one.
LEMMA CopyHolder ==
    ASSUME TypeInv, NEW a \in Actors, pc[a] \in CopyPlaces
    PROVE  loc[a] \in Continuations
BY DEF TypeInv, TypeOK, InHand

\* Where an actor works on the reply of a turn, it has one.
LEMMA ReplyHolder ==
    ASSUME TypeInv, NEW a \in Actors, pc[a] \in ReplyPlaces
    PROVE  reply[a] \in Replies
BY DEF TypeInv, TypeOK, InHand

\* The elements of a sequence.
LEMMA SeqElement ==
    ASSUME NEW S, NEW s \in Seq(S), NEW k \in 1 .. Len(s)
    PROVE  s[k] \in S
OBVIOUS

\* Every numbered reply is about a run, and its number is in range.
LEMMA AskedTyped ==
    ASSUME TypeInv
    PROVE  /\ Len(asked) \in Nat
           /\ DOMAIN asked = 1 .. Len(asked)
           /\ DOMAIN asked \subseteq Asks
           /\ \A k \in DOMAIN asked : asked[k].cont \in Conts
<1>1. asked \in Seq([cont: Conts, turn: 0 .. MaxTurns]) /\ Len(asked) <= MaxAsks
  BY DEF TypeInv, TypeOK
<1>2. Len(asked) \in Nat /\ DOMAIN asked = 1 .. Len(asked)
  BY <1>1
<1>3. \A k \in 1 .. Len(asked) : asked[k] \in [cont: Conts, turn: 0 .. MaxTurns]
  BY <1>1, SeqElement
<1>4. MaxAsks \in Nat
  BY RuntimeAssumption
<1>5. 1 .. Len(asked) \subseteq Asks
  BY <1>1, <1>2, <1>4 DEF Asks
<1>6. \A k \in DOMAIN asked : asked[k].cont \in Conts
  BY <1>2, <1>3
<1> QED  BY <1>2, <1>5, <1>6

\* A copy that is parked has a turn left.
HasTurn(cont) == cont # None /\ cont.status = "suspended" => cont.turn < MaxTurns

\* An actor that goes from one place to another, with a new copy of its
\* continuation, and perhaps saves a continuation, keeps the invariant.
LEMMA OwnStep ==
    ASSUME TypeInv,
           NEW a \in Actors, pc[a] # "idle",
           NEW place \in Places \ {"idle"},
           NEW copy \in Continuations \cup {None}, HasTurn(copy),
           NEW saved \in Continuations, HasTurn(saved),
           pc' = [pc EXCEPT ![a] = place],
           loc' = [loc EXCEPT ![a] = copy],
           \/ store' = store
           \/ store' = [store EXCEPT ![ContOf(a)] = saved],
           place \in CopyPlaces => copy # None,
           place \in OpenPlaces => copy.turn < MaxTurns,
           place \in ReplyPlaces => reply[a] # None,
           place \in ResumePlaces => item[a].res # None,
           a \in Workers /\ place \in EnginePlaces => ledger[ContOf(a)] # None,
           ran' \in [Refs -> Nat],
           UNCHANGED <<refs, ledger, queue, item, reply, up, answers, faults, asked, granted>>
    PROVE  TypeInv'
<1>1. /\ store' \in [Conts -> Continuations \cup {None}]
      /\ \A c \in Conts : store[c] # None => store'[c] # None
      /\ \A c \in Conts : HasTurn(store'[c])
  <2>1. ContOf(a) \in Conts /\ saved # None
    BY NoneAssumption, BusyActor
  <2>2. /\ store \in [Conts -> Continuations \cup {None}]
        /\ \A c \in Conts : HasTurn(store[c])
    BY DEF TypeInv, TypeOK, ParkedHasTurn, HasTurn
  <2>3. CASE store' = store
    BY <2>2, <2>3
  <2>4. CASE store' = [store EXCEPT ![ContOf(a)] = saved]
    BY <2>1, <2>2, <2>4
  <2> QED  BY <2>3, <2>4
<1>2. /\ pc' \in [Actors -> Places]
      /\ loc' \in [Actors -> Continuations \cup {None}]
  BY DEF TypeInv, TypeOK
<1>3. TypeOK'
  BY <1>1, <1>2 DEF TypeInv, TypeOK
<1>4. InHand'
  BY <1>1, BusyActor DEF TypeInv, TypeOK, InHand, ContOf, Items
<1>5. ParkedHasTurn'
  BY <1>1 DEF TypeInv, TypeOK, ParkedHasTurn, HasTurn
<1>6. Known'
  <2>1. \A it \in BagToSet(queue) : it.cont \in Conts
    BY DEF TypeInv, TypeOK, Items
  <2>2. \A k \in DOMAIN asked : asked[k].cont \in Conts
    BY AskedTyped
  <2> QED  BY <1>1, <2>1, <2>2 DEF TypeInv, Known
<1>7. Claimed'
  BY DEF TypeInv, TypeOK, Claimed, ContOf, Actors
<1> QED  BY <1>3, <1>4, <1>5, <1>6, <1>7 DEF TypeInv

\* An actor that drops what it was doing keeps the invariant.
LEMMA ReleaseStep ==
    ASSUME TypeInv,
           NEW a \in Actors,
           Release(a),
           IsABag(queue'), BagToSet(queue') \subseteq Items,
           \A it \in BagToSet(queue') : store[it.cont] # None,
           faults' \in 0 .. MaxFaults,
           granted' \subseteq Refs,
           UNCHANGED <<store, refs, ledger, up, answers, asked, ran>>
    PROVE  TypeInv'
<1>1. /\ pc' = [pc EXCEPT ![a] = "idle"]
      /\ item' = [item EXCEPT ![a] = None]
      /\ loc' = [loc EXCEPT ![a] = None]
      /\ reply' = [reply EXCEPT ![a] = None]
  BY DEF Release, Goto, SetLoc
<1>2. TypeOK'
  BY <1>1 DEF TypeInv, TypeOK, Places
<1>3. InHand'
  BY <1>1 DEF TypeInv, TypeOK, InHand, ContOf, CopyPlaces, OpenPlaces, ReplyPlaces,
              ResumePlaces, EnginePlaces
<1>4. ParkedHasTurn'
  BY <1>1 DEF TypeInv, TypeOK, ParkedHasTurn
<1>5. Known'
  BY <1>1 DEF TypeInv, TypeOK, Known
<1>6. Claimed'
  BY <1>1 DEF TypeInv, TypeOK, Claimed, ContOf, EnginePlaces, Actors
<1> QED  BY <1>2, <1>3, <1>4, <1>5, <1>6 DEF TypeInv

\* The queue without an entry.
LEMMA QueueLess ==
    ASSUME TypeInv, NEW a
    PROVE  /\ IsABag(Acked(a)) /\ BagToSet(Acked(a)) \subseteq Items
           /\ BagToSet(Acked(a)) \subseteq BagToSet(queue)
           /\ \A it \in BagToSet(Acked(a)) : store[it.cont] # None
BY BagRemove DEF TypeInv, TypeOK, Known, Acked, Entry

\* The queue with one more entry, of a run that exists.
LEMMA QueueMore ==
    ASSUME TypeInv, NEW it \in Items, store[it.cont] # None
    PROVE  LET more == queue (+) SetToBag({it})
           IN  /\ IsABag(more) /\ BagToSet(more) \subseteq Items
               /\ \A e \in BagToSet(more) : store[e.cont] # None
BY BagAdd DEF TypeInv, TypeOK, Known

----------------------------------------------------------------------------
\* The steps of the enqueuer.
LEMMA EnqueueType ==
    ASSUME TypeInv, NEW a \in Actors, Enqueue(a)
    PROVE  TypeInv'
<1>1. CASE EnqueueLoad(a)
  <2> DEFINE copy == [store[ContOf(a)] EXCEPT !.epoch = @ + 1]
  <2>1. /\ pc[a] = "enqLoad" /\ pc' = [pc EXCEPT ![a] = "enqSave"]
        /\ loc' = [loc EXCEPT ![a] = copy]
        /\ UNCHANGED <<store, refs, ledger, queue, item, up, reply, history>>
    BY <1>1 DEF EnqueueLoad, At, Goto, SetLoc
  <2>2. store[ContOf(a)] \in Continuations /\ HasTurn(store[ContOf(a)])
    BY <2>1, BusyActor DEF TypeInv, ParkedHasTurn, HasTurn
  <2>3. copy \in Continuations /\ HasTurn(copy)
    BY <2>2, NoneAssumption DEF Continuations, HasTurn
  <2>4. ran' \in [Refs -> Nat]
    BY <2>1 DEF TypeInv, TypeOK, history
  <2> HIDE DEF copy
  <2> QED  BY <2>1, <2>3, <2>4, OwnStep, NoneAssumption
           DEF history, Places, EnqueuePlaces, OpenPlaces, ReplyPlaces, ResumePlaces, EnginePlaces
<1>2. CASE EnqueueSave(a)
  <2>1. /\ pc[a] = "enqSave" /\ pc' = [pc EXCEPT ![a] = "enqUpsert"]
        /\ store' = [store EXCEPT ![ContOf(a)] = loc[a]]
        /\ UNCHANGED <<refs, ledger, queue, item, loc, reply, up, history>>
    BY <1>2 DEF EnqueueSave, At, Goto, Save
  <2>2. loc[a] \in Continuations /\ HasTurn(loc[a])
    BY <2>1, CopyHolder DEF TypeInv, ParkedHasTurn, HasTurn, CopyPlaces
  <2>3. ran' \in [Refs -> Nat] /\ loc' = [loc EXCEPT ![a] = loc[a]]
    BY <2>1 DEF TypeInv, TypeOK, history
  <2> QED  BY <2>1, <2>2, <2>3, OwnStep, NoneAssumption
           DEF history, Places, EnqueuePlaces, OpenPlaces, ReplyPlaces, ResumePlaces, EnginePlaces
<1>3. CASE EnqueueUpsert(a)
  <2>1. /\ pc[a] = "enqUpsert" /\ pc' = [pc EXCEPT ![a] = "enqPush"]
        /\ ledger' = [ledger EXCEPT ![ContOf(a)] = UpsertQueued(@, loc[a].epoch)]
        /\ UNCHANGED <<store, refs, queue, item, loc, reply, up, history>>
    BY <1>3 DEF EnqueueUpsert, At, Goto
  <2>2. ContOf(a) \in Conts /\ loc[a] \in Continuations
    BY <2>1, BusyActor, CopyHolder DEF CopyPlaces
  <2>3. UpsertQueued(ledger[ContOf(a)], loc[a].epoch) \in Row
    BY <2>2 DEF TypeInv, TypeOK, UpsertQueued, Row, RowStatus, Continuations
  <2>4. /\ ledger' \in [Conts -> Row \cup {None}]
        /\ \A c \in Conts : ledger[c] # None => ledger'[c] # None
    BY <2>1, <2>2, <2>3, NoneAssumption DEF TypeInv, TypeOK
  <2>5. TypeOK'
    BY <2>1, <2>4 DEF TypeInv, TypeOK, history, Places, EnqueuePlaces
  <2>6. InHand'
    BY <2>1, <2>2, NoneAssumption DEF TypeInv, TypeOK, InHand, ContOf, CopyPlaces,
       OpenPlaces, ReplyPlaces, ResumePlaces
  <2>7. ParkedHasTurn' /\ Known'
    BY <2>1 DEF TypeInv, ParkedHasTurn, Known, history
  <2>8. Claimed'
    <3>1. \A w \in Workers : pc[w] # "idle" => ContOf(w) \in Conts
      BY BusyActor DEF Actors
    <3> QED  BY <2>1, <2>4, <3>1 DEF TypeInv, TypeOK, Claimed, ContOf, EnginePlaces, Actors
  <2> QED  BY <2>5, <2>6, <2>7, <2>8 DEF TypeInv
<1>4. CASE EnqueuePush(a)
  <2>1. /\ pc[a] = "enqPush"
        /\ queue' = queue (+) SetToBag({NewEntry(a)})
        /\ granted' = IF a \in Workers THEN granted ELSE Approved(item[a])
        /\ UNCHANGED <<store, refs, ledger, up, answers, faults, asked, ran>>
    BY <1>4 DEF EnqueuePush, At
  <2>2. /\ item[a] \in Items /\ ContOf(a) \in Conts
        /\ store[ContOf(a)] \in Continuations /\ loc[a] \in Continuations
    BY <2>1, BusyActor, CopyHolder DEF CopyPlaces
  <2>3. NewEntry(a) \in Items /\ store[NewEntry(a).cont] # None
    BY <2>2, NoneAssumption DEF NewEntry, Items, Continuations
  <2>4. /\ IsABag(queue') /\ BagToSet(queue') \subseteq Items
        /\ \A it \in BagToSet(queue') : store[it.cont] # None
    BY <2>1, <2>3, QueueMore
  <2>5. granted' \subseteq Refs
    BY <2>1, <2>2 DEF Approved, TypeInv, TypeOK, Items, Resolutions
  <2>6. CASE a \in Workers
    <3>1. pc' = [pc EXCEPT ![a] = "ack"] /\ UNCHANGED <<item, loc, reply>>
      BY <1>4, <2>6 DEF EnqueuePush, Goto
    <3>2. TypeOK'
      BY <2>1, <2>4, <2>5, <3>1 DEF TypeInv, TypeOK, Places
    <3>3. InHand'
      BY <2>1, <3>1 DEF TypeInv, TypeOK, InHand, ContOf, CopyPlaces, EnginePlaces,
         OpenPlaces, ReplyPlaces, ResumePlaces
    <3>4. ParkedHasTurn' /\ Known'
      BY <2>1, <2>4, <3>1 DEF TypeInv, ParkedHasTurn, Known
    <3>5. Claimed'
      BY <2>1, <3>1 DEF TypeInv, TypeOK, Claimed, ContOf, EnginePlaces, Actors
    <3> QED  BY <3>2, <3>3, <3>4, <3>5 DEF TypeInv
  <2>7. CASE a \notin Workers
    <3>1. Release(a) /\ faults' \in 0 .. MaxFaults
      BY <1>4, <2>1, <2>7 DEF EnqueuePush, TypeInv, TypeOK
    <3> QED  BY <2>1, <2>4, <2>5, <3>1, ReleaseStep
  <2> QED  BY <2>6, <2>7
<1> QED  BY <1>1, <1>2, <1>3, <1>4 DEF Enqueue

\* The steps of a client.
LEMMA ClientType ==
    ASSUME TypeInv, NEW cl \in Clients, ClientNext(cl)
    PROVE  TypeInv'
<1>0. cl \in Actors
  BY DEF Actors
<1>1. ASSUME NEW c \in Conts, Invoke(cl, c)
      PROVE  TypeInv'
  <2>1. /\ pc[cl] = "idle" /\ pc' = [pc EXCEPT ![cl] = "enqLoad"]
        /\ store' = [store EXCEPT ![c] = NewContinuation]
        /\ item' = [item EXCEPT ![cl] = [cont |-> c, epoch |-> 0, res |-> None]]
        /\ UNCHANGED <<refs, ledger, queue, loc, reply, up, history>>
    BY <1>1 DEF Invoke, At, Goto
  <2>2. NewContinuation \in Continuations /\ NewContinuation.status = "running"
    BY RuntimeAssumption DEF NewContinuation, Continuations, ContStatus, CallMap, NoCalls, CallStatus
  <2>3. /\ store' \in [Conts -> Continuations \cup {None}]
        /\ \A d \in Conts : store[d] # None => store'[d] # None
        /\ store'[c] # None
        /\ ParkedHasTurn'
    BY <2>1, <2>2, NoneAssumption DEF TypeInv, TypeOK, ParkedHasTurn
  <2>4. [cont |-> c, epoch |-> 0, res |-> None] \in Items
    BY DEF Items
  <2>5. TypeOK'
    BY <1>0, <2>1, <2>3, <2>4 DEF TypeInv, TypeOK, history, Places, EnqueuePlaces
  <2>6. InHand'
    <3>1. \A a \in Actors : pc[a] # "idle" => item[a].cont \in Conts
      BY BusyActor DEF ContOf
    <3>2. item'[cl] # None
      BY <1>0, <2>1, <2>4, NoneAssumption DEF TypeInv, TypeOK
    <3> QED  BY <1>0, <2>1, <2>3, <3>1, <3>2 DEF TypeInv, TypeOK, InHand, ContOf, CopyPlaces,
                EnginePlaces, OpenPlaces, ReplyPlaces, ResumePlaces
  <2>7. Known'
    <3>1. \A it \in BagToSet(queue) : it.cont \in Conts
      BY DEF TypeInv, TypeOK, Items
    <3> QED  BY <2>1, <2>3, <3>1, AskedTyped DEF TypeInv, Known, history
  <2>8. Claimed'
    BY <1>0, <2>1, RuntimeAssumption DEF TypeInv, TypeOK, Claimed, ContOf, EnginePlaces, Actors
  <2> QED  BY <2>3, <2>5, <2>6, <2>7, <2>8 DEF TypeInv
<1>2. ASSUME NEW r \in refs, NEW out \in Outcomes, Answer(cl, r, out)
      PROVE  TypeInv'
  <2> DEFINE it == [cont |-> RunOf(r), epoch |-> 0, res |-> [ref |-> r, outcome |-> out]]
             place == IF cl \in Direct THEN "starting" ELSE "enqLoad"
  <2>1. /\ pc[cl] = "idle" /\ pc' = [pc EXCEPT ![cl] = place]
        /\ item' = [item EXCEPT ![cl] = it]
        /\ answers < MaxAnswers /\ answers' = answers + 1
        /\ granted' = IF cl \in Direct THEN Approved(item'[cl]) ELSE granted
        /\ UNCHANGED <<store, refs, ledger, queue, loc, reply, up, faults, asked, ran>>
    BY <1>2 DEF Answer, At, Goto
  <2>2. r \in Refs /\ RunOf(r) \in Conts /\ store[RunOf(r)] # None
    BY AskedTyped DEF TypeInv, TypeOK, Known, RunOf
  <2>3. it \in Items /\ it.cont = RunOf(r)
    BY <2>2 DEF Items, Resolutions
  <2>4. item'[cl] = it
    BY <1>0, <2>1 DEF TypeInv, TypeOK
  <2>5. granted' \subseteq Refs
    <3>1. it.res.ref = r
      OBVIOUS
    <3> QED  BY <2>1, <2>2, <2>4, <3>1 DEF TypeInv, TypeOK, Approved
  <2>6. place \in Places /\ place \in {"starting", "enqLoad"}
    BY DEF Places, EnginePlaces, EnqueuePlaces
  <2> HIDE DEF it, place
  <2>7. answers' \in 0 .. MaxAnswers
    BY <2>1, RuntimeAssumption DEF TypeInv, TypeOK
  <2>8. TypeOK'
    BY <1>0, <2>1, <2>3, <2>5, <2>6, <2>7 DEF TypeInv, TypeOK
  <2>9. InHand'
    BY <1>0, <2>1, <2>2, <2>3, <2>6, NoneAssumption DEF TypeInv, TypeOK, InHand, ContOf, CopyPlaces,
       EnginePlaces, OpenPlaces, ReplyPlaces, ResumePlaces
  <2>10. ParkedHasTurn' /\ Known'
    BY <2>1 DEF TypeInv, ParkedHasTurn, Known
  <2>11. Claimed'
    BY <1>0, <2>1, RuntimeAssumption DEF TypeInv, TypeOK, Claimed, ContOf, Actors
  <2> QED  BY <2>8, <2>9, <2>10, <2>11 DEF TypeInv
<1>3. CASE RetryTask(cl)
  <2>1. /\ pc[cl] = "retry"
        /\ UNCHANGED <<store, refs, ledger, queue, up, history>>
        /\ \/ pc' = [pc EXCEPT ![cl] = "starting"] /\ UNCHANGED <<item, loc, reply>>
           \/ Release(cl)
    BY <1>3 DEF RetryTask, At, Goto
  <2>2. CASE Release(cl)
    BY <1>0, <2>1, <2>2, ReleaseStep DEF TypeInv, TypeOK, Known, history
  <2>3. CASE pc' = [pc EXCEPT ![cl] = "starting"] /\ UNCHANGED <<item, loc, reply>>
    <3>1. TypeOK'
      BY <2>1, <2>3 DEF TypeInv, TypeOK, history, Places, EnginePlaces
    <3>2. InHand'
      BY <1>0, <2>1, <2>3 DEF TypeInv, TypeOK, InHand, ContOf, CopyPlaces, OpenPlaces,
         ReplyPlaces, ResumePlaces
    <3>3. ParkedHasTurn' /\ Known'
      BY <2>1, <2>3 DEF TypeInv, ParkedHasTurn, Known, history
    <3>4. Claimed'
      BY <1>0, <2>1, <2>3, RuntimeAssumption DEF TypeInv, TypeOK, Claimed, ContOf, Actors
    <3> QED  BY <3>1, <3>2, <3>3, <3>4 DEF TypeInv
  <2> QED  BY <2>1, <2>2, <2>3
<1>4. CASE TaskReturns(cl)
  BY <1>0, <1>4, ReleaseStep DEF TaskReturns, TypeInv, TypeOK, Known, history
<1> QED  BY <1>0, <1>1, <1>2, <1>3, <1>4, EnqueueType DEF ClientNext

\* The copy of a run that goes on to its next turn.
LEMMA NextTurnType ==
    ASSUME MaxTurns \in Nat, NEW cont \in Continuations, cont.turn < MaxTurns
    PROVE  NextTurn(cont) \in Continuations /\ HasTurn(NextTurn(cont))
<1>1. cont.turn + 1 \in 0 .. MaxTurns
  BY DEF Continuations
<1>2. "running" \in ContStatus
  BY DEF ContStatus
<1> DEFINE next == NextTurn(cont)
<1>3. next \in Continuations
  BY <1>1, <1>2 DEF NextTurn, Continuations
<1>4. next.status = "running"
  BY DEF NextTurn, Continuations
<1> QED  BY <1>3, <1>4 DEF HasTurn

\* The copy of a run whose parked turn is complete.
LEMMA UnparkedType ==
    ASSUME MaxTurns \in Nat, NEW cont \in Continuations, cont.turn < MaxTurns
    PROVE  Unparked(cont) \in Continuations /\ HasTurn(Unparked(cont))
<1> DEFINE bare == [cont EXCEPT !.calls = NoCalls]
<1>1. NoCalls \in CallMap
  BY DEF NoCalls, CallMap, CallStatus
<1>2. bare \in Continuations /\ bare.turn = cont.turn
  BY <1>1 DEF Continuations
<1> HIDE DEF bare
<1>3. NextTurn(bare) \in Continuations /\ HasTurn(NextTurn(bare))
  BY <1>2, NextTurnType
<1> QED  BY <1>3 DEF Unparked, bare

\* A final status can be saved.
LEMMA EndType ==
    ASSUME NEW cont \in Continuations, NEW status \in {"done", "failed"}
    PROVE  LET last == [cont EXCEPT !.status = status]
           IN  last \in Continuations /\ HasTurn(last)
BY DEF Continuations, ContStatus, HasTurn

\* The steps that claim an entry.
LEMMA ClaimType ==
    ASSUME TypeInv, NEW w \in Workers, WorkerClaim(w)
    PROVE  TypeInv'
<1>0. w \in Actors
  BY DEF Actors
<1>1. ASSUME NEW it \in BagToSet(queue), Claim(w, it)
      PROVE  TypeInv'
  <2>1. /\ pc[w] = "idle" /\ pc' = [pc EXCEPT ![w] = "claimed"]
        /\ item' = [item EXCEPT ![w] = it]
        /\ UNCHANGED <<store, refs, ledger, queue, loc, reply, up, history>>
    BY <1>1 DEF Claim, At, Goto
  <2>2. it \in Items /\ store[it.cont] # None
    BY DEF TypeInv, TypeOK, Known
  <2>3. TypeOK'
    BY <2>1, <2>2 DEF TypeInv, TypeOK, history, Places
  <2>4. InHand'
    BY <1>0, <2>1, <2>2, NoneAssumption DEF TypeInv, TypeOK, InHand, ContOf, CopyPlaces,
       EnginePlaces, OpenPlaces, ReplyPlaces, ResumePlaces
  <2>5. ParkedHasTurn' /\ Known'
    BY <2>1 DEF TypeInv, ParkedHasTurn, Known, history
  <2>6. Claimed'
    BY <1>0, <2>1 DEF TypeInv, TypeOK, Claimed, ContOf, EnginePlaces, Actors
  <2> QED  BY <2>3, <2>4, <2>5, <2>6 DEF TypeInv
<1>2. CASE WinClaim(w)
  <2>1. /\ pc[w] = "claimed" /\ pc' = [pc EXCEPT ![w] = "starting"]
        /\ ledger[ContOf(w)] # None
        /\ ledger' = [ledger EXCEPT ![ContOf(w)] = MarkRunning(ledger[ContOf(w)])]
        /\ UNCHANGED <<store, refs, queue, item, loc, reply, up, history>>
    BY <1>2 DEF WinClaim, At, Goto, CanMarkRunning, Claimable, Ledgered
  <2>2. ContOf(w) \in Conts
    BY <1>0, <2>1, BusyActor
  <2>3. MarkRunning(ledger[ContOf(w)]) \in Row
    <3>1. ledger[ContOf(w)] \in Row
      BY <2>1, <2>2 DEF TypeInv, TypeOK
    <3> QED  BY <3>1 DEF MarkRunning, Row, RowStatus
  <2>4. /\ ledger' \in [Conts -> Row \cup {None}]
        /\ \A c \in Conts : ledger[c] # None => ledger'[c] # None
        /\ ledger'[ContOf(w)] # None
    BY <2>1, <2>2, <2>3, NoneAssumption DEF TypeInv, TypeOK
  <2>5. TypeOK'
    BY <2>1, <2>4 DEF TypeInv, TypeOK, history, Places, EnginePlaces
  <2>6. InHand'
    BY <1>0, <2>1 DEF TypeInv, TypeOK, InHand, ContOf, CopyPlaces, OpenPlaces,
       ReplyPlaces, ResumePlaces
  <2>7. ParkedHasTurn' /\ Known'
    BY <2>1 DEF TypeInv, ParkedHasTurn, Known, history
  <2>8. Claimed'
    <3>1. \A v \in Workers : pc[v] # "idle" => ContOf(v) \in Conts
      BY BusyActor DEF Actors
    <3> QED  BY <1>0, <2>1, <2>4, <3>1 DEF TypeInv, TypeOK, Claimed, ContOf, EnginePlaces, Actors
  <2> QED  BY <2>5, <2>6, <2>7, <2>8 DEF TypeInv
<1>3. CASE LoseClaim(w)
  BY <1>0, <1>3, QueueLess, ReleaseStep DEF LoseClaim, TypeInv, TypeOK, history
<1> QED  BY <1>1, <1>2, <1>3 DEF WorkerClaim

\* The steps that enter the engine.
LEMMA EngineEnterType ==
    ASSUME TypeInv, NEW w \in Workers \cup Direct, EngineEnter(w)
    PROVE  TypeInv'
<1>0. /\ w \in Actors
      /\ ran \in [Refs -> Nat] /\ loc \in [Actors -> Continuations \cup {None}]
      /\ None \notin Continuations
      /\ MaxTurns \in Nat
  BY RuntimeAssumption, NoneAssumption DEF Actors, TypeInv, TypeOK
<1>1. \A c \in Conts : HasTurn(store[c])
  BY DEF TypeInv, ParkedHasTurn, HasTurn
<1>2. HasTurn(loc[w])
  BY <1>0 DEF TypeInv, ParkedHasTurn, HasTurn
<1>3. w \in Workers /\ pc[w] \in EnginePlaces => ledger[ContOf(w)] # None
  BY DEF TypeInv, Claimed
<1> USE DEF history, EnginePlaces, SettlePlaces, Places, CopyPlaces, OpenPlaces, ReplyPlaces, ResumePlaces
<1>4. ASSUME NEW place \in SettlePlaces, pc[w] = "starting", Settled(w, place)
      PROVE  TypeInv'
  <2>1. loc' = [loc EXCEPT ![w] = loc[w]] /\ ran' \in [Refs -> Nat]
    BY <1>0, <1>4 DEF Settled
  <2>2. loc[w] \in Continuations \cup {None} /\ store[ContOf(w)] \in Continuations
    BY <1>0, <1>4, BusyActor
  <2> QED  BY <1>0, <1>1, <1>2, <1>4, <2>1, <2>2, BusyActor, OwnStep DEF Settled, Goto
<1>5. CASE DriveNothing(w)
  BY <1>4, <1>5 DEF DriveNothing, At
<1>6. CASE ResumeNothing(w)
  BY <1>4, <1>6 DEF ResumeNothing, At
<1>7. CASE Drive(w)
  <2>1. /\ pc[w] = "starting" /\ pc' = [pc EXCEPT ![w] = "saveRunning"]
        /\ loc' = [loc EXCEPT ![w] = Redriven(store[ContOf(w)])]
        /\ UNCHANGED <<store, refs, ledger, queue, item, up, reply, history>>
    BY <1>7 DEF Drive, At, Goto, SetLoc
  <2>2. Redriven(store[ContOf(w)]) \in Continuations /\ HasTurn(Redriven(store[ContOf(w)]))
    BY <1>0, <2>1, BusyActor DEF Redriven, Continuations, ContStatus, HasTurn
  <2> QED  BY <1>0, <1>3, <2>1, <2>2, OwnStep
<1>8. CASE SaveRunning(w)
  <2>1. /\ pc[w] = "saveRunning" /\ pc' = [pc EXCEPT ![w] = StepPlace(loc[w])]
        /\ store' = [store EXCEPT ![ContOf(w)] = loc[w]]
        /\ UNCHANGED <<refs, ledger, queue, item, loc, reply, up, history>>
    BY <1>8 DEF SaveRunning, At, Goto, Save
  <2>2. loc[w] \in Continuations
    BY <1>0, <2>1, CopyHolder
  <2>3. loc' = [loc EXCEPT ![w] = loc[w]]
    BY <1>0, <2>1
  <2> QED  BY <1>0, <1>2, <1>3, <2>1, <2>2, <2>3, OwnStep DEF StepPlace
<1>9. CASE Resume(w)
  <2> DEFINE copy == [store[ContOf(w)] EXCEPT !.status = "resuming"]
  <2>1. /\ pc[w] = "starting" /\ pc' = [pc EXCEPT ![w] = "saveResuming"]
        /\ item[w].res # None /\ store[ContOf(w)].status = "suspended"
        /\ loc' = [loc EXCEPT ![w] = copy]
        /\ UNCHANGED <<store, refs, ledger, queue, item, up, reply, history>>
    BY <1>9 DEF Resume, Resumable, At, Goto, SetLoc
  <2>2. ContOf(w) \in Conts /\ store[ContOf(w)] \in Continuations
    BY <1>0, <2>1, BusyActor
  <2>3. copy \in Continuations /\ copy.turn < MaxTurns /\ HasTurn(copy)
    BY <1>0, <1>1, <2>1, <2>2 DEF Continuations, ContStatus, HasTurn
  <2> HIDE DEF copy
  <2> QED  BY <1>0, <1>3, <2>1, <2>3, OwnStep
<1>10. CASE SaveResuming(w)
  <2> DEFINE res == SetCall(loc[w], ResolvedCall(w),
                      IF item[w].res.outcome = "reject" THEN "rejected" ELSE "executed")
             copy == IF AfterResuming(w) = "saveResolved" THEN res ELSE loc[w]
  <2>1. /\ pc[w] = "saveResuming" /\ pc' = [pc EXCEPT ![w] = AfterResuming(w)]
        /\ store' = [store EXCEPT ![ContOf(w)] = loc[w]]
        /\ loc' = [loc EXCEPT ![w] = copy]
        /\ UNCHANGED <<refs, ledger, queue, item, up, reply, history>>
    BY <1>10 DEF SaveResuming, At, Goto, Save, SetLoc
  <2>2. /\ loc[w] \in Continuations /\ loc[w].turn < MaxTurns
        /\ item[w] \in Items /\ item[w].res # None
    BY <1>0, <2>1, CopyHolder, BusyActor DEF TypeInv, InHand
  <2>3. ResolvedCall(w) \in Calls
    BY <2>2 DEF ResolvedCall, Items, Resolutions, Refs
  <2>4. res \in Continuations /\ res.turn = loc[w].turn /\ res.status = loc[w].status
    BY <2>2, <2>3 DEF SetCall, Continuations, CallMap, CallStatus
  <2>5. AfterResuming(w) \in {"settleFailed", "resolved", "gatedTool", "saveResolved"}
    BY DEF AfterResuming
  <2> HIDE DEF res
  <2>6. copy \in Continuations /\ HasTurn(copy) /\ copy.turn < MaxTurns
    BY <1>2, <2>2, <2>4 DEF HasTurn
  <2> HIDE DEF copy
  <2> QED  BY <1>0, <1>2, <1>3, <2>1, <2>2, <2>5, <2>6, OwnStep
<1>11. ASSUME NEW times \in 0 .. ToolAttempts, GatedTool(w, times)
       PROVE  TypeInv'
  <2> DEFINE copy == SetCall(loc[w], ResolvedCall(w), "executed")
  <2>1. /\ pc[w] = "gatedTool" /\ pc' = [pc EXCEPT ![w] = "saveResolved"]
        /\ loc' = [loc EXCEPT ![w] = copy]
        /\ ran' = [ran EXCEPT ![item[w].res.ref] = @ + times]
        /\ UNCHANGED <<store, refs, ledger, queue, item, up, answers, faults, asked, reply, granted>>
    BY <1>11 DEF GatedTool, At, Goto, SetLoc
  <2>2. /\ loc[w] \in Continuations /\ loc[w].turn < MaxTurns
        /\ item[w] \in Items /\ item[w].res # None /\ store[ContOf(w)] \in Continuations
    BY <1>0, <2>1, CopyHolder, BusyActor DEF TypeInv, InHand
  <2>3. item[w].res.ref \in Refs /\ ResolvedCall(w) \in Calls
    BY <2>2 DEF ResolvedCall, Items, Resolutions, Refs
  <2>4. copy \in Continuations /\ copy.turn = loc[w].turn /\ copy.status = loc[w].status
    BY <2>2, <2>3 DEF SetCall, Continuations, CallMap, CallStatus
  <2> HIDE DEF copy
  <2>5. HasTurn(copy) /\ copy.turn < MaxTurns /\ ran' \in [Refs -> Nat]
    BY <1>0, <1>2, <2>1, <2>2, <2>3, <2>4, RuntimeAssumption DEF HasTurn
  <2> QED  BY <1>0, <1>3, <2>1, <2>2, <2>4, <2>5, OwnStep
<1>12. CASE SaveResolved(w)
  <2>1. /\ pc[w] = "saveResolved" /\ pc' = [pc EXCEPT ![w] = "resolved"]
        /\ store' = [store EXCEPT ![ContOf(w)] = loc[w]]
        /\ UNCHANGED <<refs, ledger, queue, item, loc, reply, up, history>>
    BY <1>12 DEF SaveResolved, At, Goto, Save
  <2>2. loc[w] \in Continuations /\ loc[w].turn < MaxTurns
    BY <1>0, <2>1, CopyHolder DEF TypeInv, InHand
  <2>3. loc' = [loc EXCEPT ![w] = loc[w]]
    BY <1>0, <2>1
  <2> QED  BY <1>0, <1>2, <1>3, <2>1, <2>2, <2>3, OwnStep
<1>13. CASE ParkAgain(w)
  <2> DEFINE copy == [loc[w] EXCEPT !.status = "suspended"]
  <2>1. /\ pc[w] = "resolved" /\ pc' = [pc EXCEPT ![w] = "settleDone"]
        /\ store' = [store EXCEPT ![ContOf(w)] = copy]
        /\ loc' = [loc EXCEPT ![w] = copy]
        /\ UNCHANGED <<refs, ledger, queue, item, up, reply, history>>
    BY <1>13 DEF ParkAgain, At, Goto, Save, SetLoc
  <2>2. loc[w] \in Continuations /\ loc[w].turn < MaxTurns
    BY <1>0, <2>1, CopyHolder DEF TypeInv, InHand
  <2>3. copy \in Continuations /\ HasTurn(copy)
    BY <2>2 DEF Continuations, ContStatus, HasTurn
  <2> HIDE DEF copy
  <2> QED  BY <1>0, <2>1, <2>3, OwnStep
<1>14. CASE FinishPark(w)
  <2>1. /\ pc[w] = "resolved" /\ pc' = [pc EXCEPT ![w] = StepPlace(Unparked(loc[w]))]
        /\ store' = [store EXCEPT ![ContOf(w)] = Unparked(loc[w])]
        /\ loc' = [loc EXCEPT ![w] = Unparked(loc[w])]
        /\ UNCHANGED <<refs, ledger, queue, item, up, reply, history>>
    BY <1>14 DEF FinishPark, At, Goto, Save, SetLoc
  <2>2. loc[w] \in Continuations /\ loc[w].turn < MaxTurns
    BY <1>0, <2>1, CopyHolder DEF TypeInv, InHand
  <2>3. Unparked(loc[w]) \in Continuations /\ HasTurn(Unparked(loc[w]))
    BY <1>0, <2>2, UnparkedType
  <2> QED  BY <1>0, <1>3, <2>1, <2>3, OwnStep DEF StepPlace
<1> QED  BY <1>5, <1>6, <1>7, <1>8, <1>9, <1>10, <1>11, <1>12, <1>13, <1>14 DEF EngineEnter

\* The steps of a turn.
LEMMA EngineTurnType ==
    ASSUME TypeInv, NEW w \in Workers \cup Direct, EngineTurn(w)
    PROVE  TypeInv'
<1>0. /\ w \in Actors
      /\ ran \in [Refs -> Nat] /\ loc \in [Actors -> Continuations \cup {None}]
      /\ None \notin Continuations
      /\ MaxTurns \in Nat
  BY RuntimeAssumption, NoneAssumption DEF Actors, TypeInv, TypeOK
<1>3. w \in Workers /\ pc[w] \in EnginePlaces => ledger[ContOf(w)] # None
  BY DEF TypeInv, Claimed
<1> USE DEF history, EnginePlaces, SettlePlaces, EnqueuePlaces, Places, CopyPlaces, OpenPlaces,
            ReplyPlaces, ResumePlaces
<1>4. ASSUME NEW status \in {"done", "failed"}, NEW place \in SettlePlaces,
             pc[w] \in {"maxTurns", "turn", "turnDone"}, End(w, status, place)
      PROVE  TypeInv'
  <2> DEFINE copy == [loc[w] EXCEPT !.status = status]
  <2>1. loc[w] \in Continuations
    BY <1>0, <1>4, CopyHolder
  <2>2. copy \in Continuations /\ HasTurn(copy)
    BY <2>1, EndType
  <2>3. /\ pc' = [pc EXCEPT ![w] = place]
        /\ store' = [store EXCEPT ![ContOf(w)] = copy]
        /\ loc' = [loc EXCEPT ![w] = copy]
        /\ UNCHANGED <<refs, ledger, queue, item, up, reply, history>>
    BY <1>4 DEF End, Goto, Save, SetLoc
  <2> HIDE DEF copy
  <2> QED  BY <1>0, <1>4, <2>2, <2>3, OwnStep
<1>5. CASE MaxTurnsReached(w)
  BY <1>4, <1>5 DEF MaxTurnsReached, At
<1>6. CASE FinalAnswer(w)
  BY <1>4, <1>6 DEF FinalAnswer, At
<1>7. CASE ModelError(w)
  BY <1>4, <1>7 DEF ModelError, At
<1>8. CASE Preempted(w)
  BY <1>4, <1>8 DEF Preempted, At
<1>9. ASSUME NEW calls \in SUBSET Calls \ {{}}, AskTools(w, calls)
      PROVE  TypeInv'
  <2> DEFINE map == [k \in Calls |-> IF k \notin calls THEN "none"
                                     ELSE IF k \in Gated THEN "pending" ELSE "executed"]
             rep == [ask |-> Len(asked) + 1, calls |-> map]
             entry == [cont |-> ContOf(w), turn |-> loc[w].turn]
  <2>1. /\ pc[w] = "turn" /\ pc' = [pc EXCEPT ![w] = "tools"]
        /\ Len(asked) < MaxAsks
        /\ asked' = Append(asked, entry)
        /\ reply' = [reply EXCEPT ![w] = rep]
        /\ UNCHANGED <<store, refs, ledger, queue, item, loc, up, answers, faults, granted, ran>>
    BY <1>9 DEF AskTools, At, Goto
  <2>2. /\ loc[w] \in Continuations /\ loc[w].turn < MaxTurns
        /\ ContOf(w) \in Conts /\ store[ContOf(w)] # None
    BY <1>0, <2>1, CopyHolder, BusyActor DEF TypeInv, InHand
  <2>3. entry \in [cont: Conts, turn: 0 .. MaxTurns] /\ entry.cont = ContOf(w)
    BY <2>2 DEF Continuations
  <2>4. map \in CallMap
    BY DEF CallMap, CallStatus
  <2> HIDE DEF map, entry
  <2>5. /\ asked \in Seq([cont: Conts, turn: 0 .. MaxTurns])
        /\ Len(asked) \in Nat /\ MaxAsks \in Nat
    BY RuntimeAssumption DEF TypeInv, TypeOK
  <2>6. /\ asked' \in Seq([cont: Conts, turn: 0 .. MaxTurns]) /\ Len(asked') = Len(asked) + 1
        /\ DOMAIN asked' = 1 .. Len(asked) + 1
        /\ asked'[Len(asked) + 1] = entry
        /\ \A k \in 1 .. Len(asked) : asked'[k] = asked[k]
    BY <2>1, <2>3, <2>5
  <2>7. Len(asked') <= MaxAsks /\ Len(asked) + 1 \in Asks
    BY <2>1, <2>5, <2>6 DEF Asks
  <2>8. rep \in Replies /\ rep # None /\ rep.ask = Len(asked) + 1
    BY <2>4, <2>7, NoneAssumption DEF Replies
  <2> HIDE DEF rep
  <2>9. TypeOK'
    BY <1>0, <2>1, <2>6, <2>7, <2>8 DEF TypeInv, TypeOK
  <2>10. InHand'
    BY <1>0, <2>1, <2>2, <2>8 DEF TypeInv, TypeOK, InHand, ContOf
  <2>11. ParkedHasTurn' /\ Claimed'
    BY <1>0, <2>1 DEF TypeInv, TypeOK, ParkedHasTurn, Claimed, ContOf, Actors
  <2>12. Known'
    <3>1. /\ DOMAIN asked = 1 .. Len(asked)
          /\ 1 .. Len(asked) \subseteq DOMAIN asked'
          /\ \A k \in DOMAIN asked' : k \in 1 .. Len(asked) \/ k = Len(asked) + 1
      BY <2>5, <2>6, AskedTyped
    <3>2. \A k \in DOMAIN asked' : store[asked'[k].cont] # None
      BY <2>2, <2>3, <2>6, <3>1 DEF TypeInv, Known
    <3>3. \A r \in refs : r.ask \in DOMAIN asked'
      BY <3>1 DEF TypeInv, Known
    <3>4. Len(asked) + 1 \in DOMAIN asked'
      BY <2>5, <2>6
    <3>5. \A a \in Actors : reply'[a] # None => reply'[a].ask \in DOMAIN asked'
      BY <1>0, <2>1, <2>8, <3>1, <3>4 DEF TypeInv, TypeOK, Known
    <3> QED  BY <2>1, <3>2, <3>3, <3>5 DEF TypeInv, Known
  <2> QED  BY <2>9, <2>10, <2>11, <2>12 DEF TypeInv
<1>10. CASE RunTools(w)
  <2>1. /\ pc[w] = "tools" /\ pc' = [pc EXCEPT ![w] = "saveTurn"]
        /\ UNCHANGED <<store, refs, ledger, queue, item, loc, reply, up,
                       answers, faults, asked, granted>>
    BY <1>10 DEF RunTools, At, Goto
  <2>2. ran' \in [Refs -> Nat]
    BY <1>0, <1>10 DEF RunTools
  <2>3. /\ loc[w] \in Continuations /\ loc[w].turn < MaxTurns /\ HasTurn(loc[w])
        /\ reply[w] # None
    BY <1>0, <2>1, CopyHolder DEF TypeInv, InHand, ParkedHasTurn, HasTurn
  <2>4. loc' = [loc EXCEPT ![w] = loc[w]]
    BY <1>0, <2>1
  <2> QED  BY <1>0, <1>3, <2>1, <2>2, <2>3, <2>4, OwnStep
<1>11. CASE Park(w)
  <2>1. /\ pc[w] = "saveTurn" /\ pc' = [pc EXCEPT ![w] = "indexRefs"]
        /\ store' = [store EXCEPT ![ContOf(w)] = Parked(w)]
        /\ loc' = [loc EXCEPT ![w] = Parked(w)]
        /\ UNCHANGED <<refs, ledger, queue, item, up, reply, history>>
    BY <1>11 DEF Park, At, Goto, Save, SetLoc
  <2>2. /\ loc[w] \in Continuations /\ loc[w].turn < MaxTurns
        /\ reply[w] \in Replies /\ reply[w] # None
    BY <1>0, <2>1, CopyHolder, ReplyHolder DEF TypeInv, InHand
  <2>3. reply[w].ask \in 0 .. MaxAsks /\ reply[w].calls \in CallMap
    BY <2>2, RuntimeAssumption DEF Replies, Asks
  <2>4. Parked(w) \in Continuations /\ HasTurn(Parked(w))
    BY <2>2, <2>3 DEF Parked, Continuations, ContStatus, HasTurn
  <2> QED  BY <1>0, <1>3, <2>1, <2>2, <2>4, OwnStep
<1>12. CASE IndexRefs(w)
  <2>1. /\ pc[w] = "indexRefs" /\ pc' = [pc EXCEPT ![w] = "settleDone"]
        /\ refs' = refs \cup {RefOf(reply[w], k) : k \in Pending(reply[w])}
        /\ UNCHANGED <<store, ledger, queue, item, loc, reply, up, history>>
    BY <1>12 DEF IndexRefs, At, Goto
  <2>2. reply[w] \in Replies /\ reply[w] # None /\ reply[w].ask \in DOMAIN asked
    BY <1>0, <2>1, ReplyHolder DEF TypeInv, InHand, Known
  <2>3. \A k \in Pending(reply[w]) :
            RefOf(reply[w], k) \in Refs /\ RefOf(reply[w], k).ask \in DOMAIN asked
    BY <2>2 DEF Pending, With, RefOf, Refs, Replies
  <2> DEFINE fresh == {RefOf(reply[w], k) : k \in Pending(reply[w])}
  <2>4. \A r \in fresh : r \in Refs /\ r.ask \in DOMAIN asked
    BY <2>3
  <2>5. \A r \in refs : r \in Refs /\ r.ask \in DOMAIN asked
    BY DEF TypeInv, TypeOK, Known
  <2>6. refs' = refs \cup fresh
    BY <2>1
  <2> HIDE DEF fresh
  <2>7. refs' \subseteq Refs /\ \A r \in refs' : r.ask \in DOMAIN asked
    BY <2>6, <2>4, <2>5
  <2>8. TypeOK'
    BY <1>0, <2>1, <2>7 DEF TypeInv, TypeOK
  <2>9. InHand' /\ ParkedHasTurn' /\ Known'
    BY <1>0, <2>1, <2>7 DEF TypeInv, TypeOK, InHand, ParkedHasTurn, Known, ContOf
  <2>10. Claimed'
    BY <1>0, <2>1 DEF TypeInv, TypeOK, Claimed, ContOf, Actors
  <2> QED  BY <2>8, <2>9, <2>10 DEF TypeInv
<1>13. CASE SaveTools(w)
  <2>1. /\ pc[w] = "saveTurn" /\ pc' = [pc EXCEPT ![w] = "turnDone"]
        /\ store' = [store EXCEPT ![ContOf(w)] = loc[w]]
        /\ UNCHANGED <<refs, ledger, queue, item, loc, reply, up, history>>
    BY <1>13 DEF SaveTools, At, Goto, Save
  <2>2. /\ loc[w] \in Continuations /\ loc[w].turn < MaxTurns /\ HasTurn(loc[w])
        /\ reply[w] # None
    BY <1>0, <2>1, CopyHolder DEF TypeInv, InHand, ParkedHasTurn, HasTurn
  <2>3. loc' = [loc EXCEPT ![w] = loc[w]]
    BY <1>0, <2>1
  <2> QED  BY <1>0, <1>3, <2>1, <2>2, <2>3, OwnStep
<1>14. CASE Continue(w)
  <2> DEFINE place == IF loc[w].turn + 1 < MaxTurns THEN AfterContinue(w) ELSE "maxTurns"
  <2>1. /\ pc[w] = "turnDone" /\ pc' = [pc EXCEPT ![w] = place]
        /\ store' = [store EXCEPT ![ContOf(w)] = NextTurn(loc[w])]
        /\ loc' = [loc EXCEPT ![w] = NextTurn(loc[w])]
        /\ UNCHANGED <<refs, ledger, queue, item, up, reply, history>>
    BY <1>14 DEF Continue, At, Goto, Save, SetLoc
  <2>2. loc[w] \in Continuations /\ loc[w].turn < MaxTurns
    BY <1>0, <2>1, CopyHolder DEF TypeInv, InHand
  <2>3. NextTurn(loc[w]) \in Continuations /\ HasTurn(NextTurn(loc[w]))
    BY <1>0, <2>2, NextTurnType
  <2>4. place \in {"settleDone", "enqLoad", "maxTurns"}
    BY DEF AfterContinue
  <2> HIDE DEF place
  <2> QED  BY <1>0, <1>3, <2>1, <2>3, <2>4, OwnStep
<1> QED  BY <1>5, <1>6, <1>7, <1>8, <1>9, <1>10, <1>11, <1>12, <1>13, <1>14 DEF EngineTurn

\* The steps that settle the ledger and the queue.
LEMMA SettleType ==
    ASSUME TypeInv, NEW w \in Workers, WorkerSettle(w)
    PROVE  TypeInv'
<1>0. /\ w \in Actors
      /\ \A v \in Workers : pc[v] # "idle" => ContOf(v) \in Conts
  BY BusyActor DEF Actors
<1> USE DEF history, EnginePlaces, SettlePlaces, Places, CopyPlaces, OpenPlaces, ReplyPlaces, ResumePlaces
<1>1. CASE SettleDone(w)
  <2>1. /\ pc[w] = "settleDone" /\ pc' = [pc EXCEPT ![w] = "ack"]
        /\ ledger' = [ledger EXCEPT ![ContOf(w)] = Finalize(ledger[ContOf(w)], "done")]
        /\ UNCHANGED <<store, refs, queue, item, loc, reply, up, history>>
    BY <1>1 DEF SettleDone, At, Goto, Ledgered
  <2>2. ContOf(w) \in Conts /\ ledger \in [Conts -> Row \cup {None}]
    BY <1>0, <2>1 DEF TypeInv, TypeOK
  <2>3. \/ ledger[ContOf(w)] = None /\ Finalize(ledger[ContOf(w)], "done") = None
        \/ Finalize(ledger[ContOf(w)], "done") \in Row
    BY <2>2 DEF Finalize, Row, RowStatus
  <2>4. /\ ledger' \in [Conts -> Row \cup {None}]
        /\ \A c \in Conts : ledger[c] # None => ledger'[c] # None
    BY <2>1, <2>2, <2>3, NoneAssumption
  <2>5. TypeOK'
    BY <2>1, <2>4 DEF TypeInv, TypeOK
  <2>6. InHand' /\ ParkedHasTurn' /\ Known'
    BY <1>0, <2>1 DEF TypeInv, TypeOK, InHand, ParkedHasTurn, Known, ContOf
  <2>7. Claimed'
    BY <1>0, <2>1, <2>4 DEF TypeInv, TypeOK, Claimed, ContOf, Actors
  <2> QED  BY <2>5, <2>6, <2>7 DEF TypeInv
<1>2. CASE SettleFailed(w)
  BY <1>0, <1>2, ReleaseStep DEF SettleFailed, TypeInv, TypeOK, Known
<1>3. CASE Ack(w)
  BY <1>0, <1>3, QueueLess, ReleaseStep DEF Ack, TypeInv, TypeOK
<1>4. CASE NackAck(w)
  <2>1. /\ pc[w] = "nackAck" /\ pc' = [pc EXCEPT ![w] = "nackPush"]
        /\ queue' = Acked(w)
        /\ UNCHANGED <<store, refs, ledger, item, loc, reply, up, history>>
    BY <1>4 DEF NackAck, At, Goto
  <2>2. /\ IsABag(queue') /\ BagToSet(queue') \subseteq Items
        /\ \A it \in BagToSet(queue') : store[it.cont] # None
    BY <2>1, QueueLess
  <2>3. TypeOK'
    BY <2>1, <2>2 DEF TypeInv, TypeOK
  <2>4. InHand' /\ ParkedHasTurn' /\ Known'
    BY <1>0, <2>1, <2>2 DEF TypeInv, TypeOK, InHand, ParkedHasTurn, Known, ContOf
  <2>5. Claimed'
    BY <1>0, <2>1 DEF TypeInv, TypeOK, Claimed, ContOf, Actors
  <2> QED  BY <2>3, <2>4, <2>5 DEF TypeInv
<1>5. CASE NackPush(w)
  <2>1. pc[w] # "idle" /\ queue' = queue (+) SetToBag({item[w]})
    BY <1>5 DEF NackPush, At, Entry
  <2>2. item[w] \in Items /\ store[item[w].cont] # None
    BY <1>0, <2>1, BusyActor DEF ContOf, TypeInv, InHand
  <2>3. /\ IsABag(queue') /\ BagToSet(queue') \subseteq Items
        /\ \A it \in BagToSet(queue') : store[it.cont] # None
    BY <2>1, <2>2, QueueMore
  <2> QED  BY <1>0, <1>5, <2>3, ReleaseStep DEF NackPush, TypeInv, TypeOK
<1> QED  BY <1>1, <1>2, <1>3, <1>4, <1>5 DEF WorkerSettle

\* A row stays a row.
LEMMA RetryableRow ==
    ASSUME NEW row \in Row
    PROVE  MarkRetryable(row) \in Row
<1>1. row.crashes + 1 \in Nat
  BY DEF Row
<1>2. (IF Exhausted(row) THEN "dead" ELSE "retryable") \in RowStatus
  BY DEF RowStatus
<1> QED  BY <1>1, <1>2 DEF MarkRetryable, Row

\* The faults.
LEMMA FaultType ==
    ASSUME TypeInv, FaultNext
    PROVE  TypeInv'
<1> USE DEF history, EnginePlaces, EnqueuePlaces, SettlePlaces, Places, CopyPlaces, OpenPlaces,
            ReplyPlaces, ResumePlaces
<1>1. ASSUME NEW kind, Fault(kind)
      PROVE  faults' \in 0 .. MaxFaults
  BY <1>1, RuntimeAssumption DEF Fault, TypeInv, TypeOK
<1>2. ASSUME NEW w \in Actors, Raise(w)
      PROVE  TypeInv'
  <2> DEFINE place == IF Exhausted(ledger[ContOf(w)]) THEN "ack" ELSE "nackAck"
  <2>1. /\ w \in Workers /\ pc[w] \in EnginePlaces /\ pc' = [pc EXCEPT ![w] = place]
        /\ ledger' = [ledger EXCEPT ![ContOf(w)] = MarkRetryable(ledger[ContOf(w)])]
        /\ UNCHANGED <<store, refs, queue, item, loc, reply, up, answers, asked, granted, ran>>
    BY <1>2 DEF Raise, Goto, Ledgered
  <2>2. place \in {"ack", "nackAck"} /\ faults' \in 0 .. MaxFaults
    BY <1>1, <1>2 DEF Raise
  <2> HIDE DEF place
  <2>3. /\ ContOf(w) \in Conts /\ ledger[ContOf(w)] \in Row
        /\ \A v \in Workers : pc[v] # "idle" => ContOf(v) \in Conts
    BY <2>1, BusyActor DEF TypeInv, TypeOK, Claimed, Actors
  <2>4. MarkRetryable(ledger[ContOf(w)]) \in Row
    BY <2>3, RetryableRow
  <2>5. /\ ledger' \in [Conts -> Row \cup {None}]
        /\ \A c \in Conts : ledger[c] # None => ledger'[c] # None
    BY <2>1, <2>3, <2>4, NoneAssumption DEF TypeInv, TypeOK
  <2>6. TypeOK'
    BY <2>1, <2>2, <2>5 DEF TypeInv, TypeOK
  <2>7. InHand' /\ ParkedHasTurn' /\ Known'
    BY <2>1, <2>2 DEF TypeInv, TypeOK, InHand, ParkedHasTurn, Known, ContOf
  <2>8. Claimed'
    BY <2>1, <2>2, <2>3, <2>5 DEF TypeInv, TypeOK, Claimed, ContOf, Actors
  <2> QED  BY <2>6, <2>7, <2>8 DEF TypeInv
<1>3. ASSUME NEW a \in Actors, Abandon(a)
      PROVE  TypeInv'
  BY <1>1, <1>3, ReleaseStep DEF Abandon, TypeInv, TypeOK, Known
<1>4. ASSUME NEW cl \in Actors, TaskError(cl)
      PROVE  TypeInv'
  <2>1. /\ cl \in Direct /\ pc[cl] # "idle" /\ pc' = [pc EXCEPT ![cl] = "retry"]
        /\ loc' = [loc EXCEPT ![cl] = None]
        /\ reply' = [reply EXCEPT ![cl] = None]
        /\ faults' \in 0 .. MaxFaults
        /\ UNCHANGED <<store, refs, ledger, queue, item, up, answers, asked, granted, ran>>
    BY <1>1, <1>4 DEF TaskError, Goto, SetLoc
  <2>2. TypeOK'
    BY <2>1 DEF TypeInv, TypeOK
  <2>3. InHand'
    BY <2>1 DEF TypeInv, TypeOK, InHand, ContOf
  <2>4. ParkedHasTurn' /\ Known'
    BY <2>1 DEF TypeInv, TypeOK, ParkedHasTurn, Known
  <2>5. Claimed'
    BY <2>1 DEF TypeInv, TypeOK, Claimed, ContOf, Actors
  <2> QED  BY <2>2, <2>3, <2>4, <2>5 DEF TypeInv
<1>5. ASSUME NEW h \in Hosts, Crash(h)
      PROVE  TypeInv'
  <2>1. /\ up' = [up EXCEPT ![h] = FALSE]
        /\ pc' = [a \in Actors |-> IF a \in Kept(h) THEN "retry"
                                   ELSE IF a \in Lost(h) THEN "idle" ELSE pc[a]]
        /\ item' = [a \in Actors |-> IF a \in Lost(h) \ Kept(h) THEN None ELSE item[a]]
        /\ loc' = [a \in Actors |-> IF a \in Lost(h) THEN None ELSE loc[a]]
        /\ reply' = [a \in Actors |-> IF a \in Lost(h) THEN None ELSE reply[a]]
        /\ faults' \in 0 .. MaxFaults
        /\ UNCHANGED <<store, refs, ledger, queue, answers, asked, granted, ran>>
    BY <1>1, <1>5 DEF Crash
  <2>2. \A a \in Actors : a \in Kept(h) => a \in Lost(h) /\ pc[a] # "idle"
    BY DEF Kept
  <2>3. TypeOK'
    BY <2>1 DEF TypeInv, TypeOK
  <2>4. InHand'
    <3> SUFFICES ASSUME NEW a \in Actors
                 PROVE  /\ pc'[a] # "idle" => item'[a] # None /\ store'[item'[a].cont] # None
                        /\ pc'[a] \in CopyPlaces => loc'[a] # None
                        /\ pc'[a] \in ReplyPlaces => reply'[a] # None
                        /\ pc'[a] \in ResumePlaces => item'[a].res # None
                        /\ pc'[a] \in OpenPlaces => loc'[a].turn < MaxTurns
      BY DEF InHand, ContOf
    <3>1. CASE a \in Kept(h)
      BY <2>1, <2>2, <3>1 DEF TypeInv, InHand, ContOf
    <3>2. CASE a \in Lost(h) \ Kept(h)
      BY <2>1, <3>2
    <3>3. CASE a \notin Lost(h) /\ a \notin Kept(h)
      BY <2>1, <3>3 DEF TypeInv, InHand, ContOf
    <3> QED  BY <2>2, <3>1, <3>2, <3>3
  <2>5. ParkedHasTurn' /\ Known'
    BY <2>1 DEF TypeInv, ParkedHasTurn, Known
  <2>6. Claimed'
    BY <2>1, <2>2 DEF TypeInv, Claimed, ContOf, Actors
  <2> QED  BY <2>3, <2>4, <2>5, <2>6 DEF TypeInv
<1>6. ASSUME NEW h \in Hosts, Boot(h)
      PROVE  TypeInv'
  <2>1. /\ up' = [up EXCEPT ![h] = TRUE]
        /\ queue' = queue (+) SetToBag(Rebuilt)
        /\ UNCHANGED <<store, refs, ledger, pc, item, loc, reply, history>>
    BY <1>6 DEF Boot
  <2>2. \A it \in Rebuilt : it \in Items /\ store[it.cont] # None
    BY DEF Rebuilt, Claimable, TypeInv, TypeOK, Items, Row
  <2>3. /\ IsABag(queue') /\ BagToSet(queue') \subseteq Items
        /\ \A it \in BagToSet(queue') : store[it.cont] # None
    BY <2>1, <2>2, BagAdd DEF TypeInv, TypeOK, Known
  <2>4. TypeOK'
    BY <2>1, <2>3 DEF TypeInv, TypeOK
  <2>5. InHand' /\ ParkedHasTurn' /\ Known' /\ Claimed'
    BY <2>1, <2>3 DEF TypeInv, InHand, ParkedHasTurn, Known, Claimed, ContOf
  <2> QED  BY <2>4, <2>5 DEF TypeInv
<1>7. CASE Flush
  <2>1. /\ queue' = EmptyBag /\ faults' \in 0 .. MaxFaults
        /\ UNCHANGED <<store, refs, ledger, pc, item, loc, reply, up, answers, asked, granted, ran>>
    BY <1>1, <1>7 DEF Flush
  <2>2. IsABag(queue') /\ BagToSet(queue') = {}
    BY <2>1, BagNone
  <2>3. TypeOK'
    BY <2>1, <2>2 DEF TypeInv, TypeOK
  <2>4. InHand' /\ ParkedHasTurn' /\ Known' /\ Claimed'
    BY <2>1, <2>2 DEF TypeInv, InHand, ParkedHasTurn, Known, Claimed, ContOf
  <2> QED  BY <2>3, <2>4 DEF TypeInv
<1> QED  BY <1>2, <1>3, <1>4, <1>5, <1>6, <1>7 DEF FaultNext

\* A step that changes nothing.
LEMMA StutterType ==
    ASSUME TypeInv, UNCHANGED vars
    PROVE  TypeInv'
<1>1. UNCHANGED <<store, refs, ledger, queue, pc, item, loc, reply, up,
                  answers, faults, asked, granted, ran>>
  BY DEF vars
<1> QED  BY <1>1 DEF TypeInv, TypeOK, InHand, ParkedHasTurn, Known, Claimed, ContOf

\* Every step keeps the invariant.
LEMMA NextType == TypeInv /\ [Next]_vars => TypeInv'
<1> SUFFICES ASSUME TypeInv, [Next]_vars
             PROVE  TypeInv'
  OBVIOUS
<1>1. ASSUME NEW w \in Workers, WorkerNext(w)
      PROVE  TypeInv'
  BY <1>1, ClaimType, SettleType, EnqueueType DEF WorkerNext, Actors
<1>2. ASSUME NEW a \in Workers \cup Direct, EngineNext(a)
      PROVE  TypeInv'
  BY <1>2, EngineEnterType, EngineTurnType DEF EngineNext
<1> QED  BY <1>1, <1>2, ClientType, FaultType, StutterType DEF Next

\* The invariant holds at the start.
LEMMA InitType == Init => TypeInv
BY BagNone, RuntimeAssumption DEF Init, Start, TypeInv, TypeOK, InHand, ParkedHasTurn, Known, Claimed,
   Places, EnginePlaces, EnqueuePlaces, SettlePlaces, CopyPlaces, ReplyPlaces, ResumePlaces,
   OpenPlaces, Actors

\* Every reachable state is well typed: no handler looks into a continuation,
\* a reply or a resolution it does not have.
THEOREM TypeCorrect == Spec => []TypeOK
<1>1. Spec => []TypeInv
  BY InitType, NextType, PTL DEF Spec
<1>2. TypeInv => TypeOK
  BY DEF TypeInv
<1> QED  BY <1>1, <1>2, PTL

----------------------------------------------------------------------------
(***************************************************************************)
(* Gated calls run only when granted.                                      *)
(***************************************************************************)
\* An actor that moves on with what it has in hand keeps the invariant.
LEMMA GrantMove ==
    ASSUME TypeInv, GrantInv,
           NEW a \in Actors, NEW place \in Places,
           pc' = [pc EXCEPT ![a] = place],
           place = "gatedTool" => item[a].res.outcome = "accept",
           a \in Direct => place \notin EnqueuePlaces,
           a \in Workers \/ pc[a] \notin EnqueuePlaces \/ place \in EnqueuePlaces,
           UNCHANGED <<queue, item, reply, granted, ran>>
    PROVE  GrantInv'
<1>1. pc \in [Actors -> Places]
  BY DEF TypeInv, TypeOK
<1> QED  BY <1>1, RuntimeAssumption DEF GrantInv, Accepted, GatedOnlyIfGranted

\* So does an actor that drops it.
LEMMA GrantRelease ==
    ASSUME TypeInv, GrantInv,
           NEW a \in Actors,
           Release(a),
           granted \subseteq granted',
           \A it \in BagToSet(queue') : Accepted(it)',
           ran' = ran
    PROVE  GrantInv'
<1>1. /\ pc' = [pc EXCEPT ![a] = "idle"]
      /\ item' = [item EXCEPT ![a] = None]
      /\ reply' = [reply EXCEPT ![a] = None]
      /\ pc \in [Actors -> Places]
      /\ item \in [Actors -> Items \cup {None}]
      /\ reply \in [Actors -> Replies \cup {None}]
      /\ "idle" \notin EnqueuePlaces
  BY DEF Release, Goto, TypeInv, TypeOK, EnqueuePlaces
<1> QED  BY <1>1, RuntimeAssumption DEF GrantInv, Accepted, GatedOnlyIfGranted, Actors

\* An entry that is granted stays granted.
LEMMA AcceptedQueue ==
    ASSUME TypeInv, GrantInv, granted \subseteq granted'
    PROVE  /\ \A it \in BagToSet(queue) : Accepted(it)'
           /\ \A a : \A it \in BagToSet(Acked(a)) : Accepted(it)'
<1>1. \A it \in BagToSet(queue) : Accepted(it)'
  BY DEF GrantInv, Accepted
<1> QED  BY <1>1, QueueLess

\* The enqueuer: what it pushes was granted, or is an ordinary turn.
LEMMA EnqueueGrant ==
    ASSUME TypeInv, GrantInv, NEW a \in Actors, Enqueue(a)
    PROVE  GrantInv'
<1> USE DEF history, EnqueuePlaces
<1>0. "enqSave" \in Places /\ "enqUpsert" \in Places /\ "enqPush" \in Places /\ "ack" \in Places
  BY DEF Places
<1>1. CASE EnqueueLoad(a)
  BY <1>0, <1>1, GrantMove DEF EnqueueLoad, At, Goto, GrantInv
<1>2. CASE EnqueueSave(a)
  BY <1>0, <1>2, GrantMove DEF EnqueueSave, At, Goto, GrantInv
<1>3. CASE EnqueueUpsert(a)
  BY <1>0, <1>3, GrantMove DEF EnqueueUpsert, At, Goto, GrantInv
<1>4. CASE EnqueuePush(a)
  <2>1. /\ pc[a] = "enqPush" /\ item[a] \in Items
        /\ queue' = queue (+) SetToBag({NewEntry(a)})
        /\ granted' = IF a \in Workers THEN granted ELSE Approved(item[a])
        /\ ran' = ran
    BY <1>4, BusyActor DEF EnqueuePush, At
  <2>2. granted \subseteq granted'
    BY <2>1 DEF Approved
  <2>3. BagToSet(queue') = BagToSet(queue) \cup {NewEntry(a)}
    BY <2>1, BagAdd DEF TypeInv, TypeOK
  <2>4. CASE a \in Workers
    <3>1. ASSUME NEW it, it = NewEntry(a)
          PROVE  Accepted(it)'
      BY <2>4, <3>1 DEF NewEntry, Accepted
    <3>2. \A it \in BagToSet(queue') : Accepted(it)'
      BY <2>2, <2>3, <3>1, AcceptedQueue
    <3>3. pc' = [pc EXCEPT ![a] = "ack"] /\ UNCHANGED <<item, reply, granted>>
      BY <1>4, <2>1, <2>4 DEF EnqueuePush, Goto
    <3> QED  BY <2>1, <2>4, <3>2, <3>3, RuntimeAssumption
             DEF GrantInv, Accepted, GatedOnlyIfGranted, TypeInv, TypeOK, Actors
  <2>5. CASE a \notin Workers
    <3>1. NewEntry(a).res = item[a].res
      BY <2>5 DEF NewEntry
    <3>2. item[a].res # None /\ item[a].res.outcome = "accept" => item[a].res.ref \in granted'
      BY <2>1, <2>5 DEF Approved
    <3>3. \A it \in BagToSet(queue') : Accepted(it)'
      <4>1. ASSUME NEW it, it.res = item[a].res
            PROVE  Accepted(it)'
        BY <3>2, <4>1 DEF Accepted
      <4> QED  BY <2>2, <2>3, <3>1, <4>1, AcceptedQueue
    <3> QED  BY <1>4, <2>1, <2>2, <2>5, <3>3, GrantRelease DEF EnqueuePush
  <2> QED  BY <2>4, <2>5
<1> QED  BY <1>1, <1>2, <1>3, <1>4 DEF Enqueue

\* A client submits an answer, and from then on what it carries is granted.
LEMMA ClientGrant ==
    ASSUME TypeInv, GrantInv, NEW cl \in Clients, ClientNext(cl)
    PROVE  GrantInv'
<1>0. /\ cl \in Actors /\ cl \notin Workers
      /\ pc \in [Actors -> Places]
      /\ item \in [Actors -> Items \cup {None}]
      /\ reply \in [Actors -> Replies \cup {None}]
  BY RuntimeAssumption DEF Actors, TypeInv, TypeOK
<1>1. ASSUME NEW c \in Conts, Invoke(cl, c)
      PROVE  GrantInv'
  <2> DEFINE it == [cont |-> c, epoch |-> 0, res |-> None]
  <2>1. /\ pc' = [pc EXCEPT ![cl] = "enqLoad"]
        /\ item' = [item EXCEPT ![cl] = it]
        /\ cl \notin Direct
        /\ UNCHANGED <<queue, reply, granted, ran>>
    BY <1>1 DEF Invoke, Goto, history
  <2>2. Accepted(it)
    BY DEF Accepted
  <2> HIDE DEF it
  <2> QED  BY <1>0, <2>1, <2>2 DEF GrantInv, Accepted, GatedOnlyIfGranted
<1>2. ASSUME NEW r \in refs, NEW out \in Outcomes, Answer(cl, r, out)
      PROVE  GrantInv'
  <2> DEFINE it == [cont |-> RunOf(r), epoch |-> 0, res |-> [ref |-> r, outcome |-> out]]
             place == IF cl \in Direct THEN "starting" ELSE "enqLoad"
  <2>1. /\ pc' = [pc EXCEPT ![cl] = place]
        /\ item' = [item EXCEPT ![cl] = it]
        /\ granted' = IF cl \in Direct THEN Approved(item'[cl]) ELSE granted
        /\ UNCHANGED <<queue, reply, ran>>
    BY <1>2 DEF Answer, Goto
  <2>2. item'[cl] = it /\ granted \subseteq granted'
    BY <1>0, <2>1 DEF Approved
  <2>3. cl \in Direct => /\ place \notin EnqueuePlaces
                         /\ it.res # None /\ it.res.outcome = "accept" => it.res.ref \in granted'
    BY <2>1, <2>2 DEF EnqueuePlaces, Approved
  <2>4. place # "gatedTool" /\ (cl \notin Direct => place \in EnqueuePlaces)
    BY DEF EnqueuePlaces
  <2> HIDE DEF it, place
  <2> QED  BY <1>0, <2>1, <2>2, <2>3, <2>4 DEF GrantInv, Accepted, GatedOnlyIfGranted
<1>3. CASE RetryTask(cl)
  <2>1. pc[cl] = "retry" /\ UNCHANGED <<queue, granted, ran>>
    BY <1>3 DEF RetryTask, At, history
  <2>2. CASE Release(cl)
    BY <1>0, <2>1, <2>2, AcceptedQueue, GrantRelease
  <2>3. CASE Goto(cl, "starting") /\ UNCHANGED <<item, reply>>
    BY <1>0, <2>1, <2>3, GrantMove DEF Goto, EnqueuePlaces, Places, EnginePlaces
  <2> QED  BY <1>3, <2>2, <2>3 DEF RetryTask
<1>4. CASE TaskReturns(cl)
  BY <1>0, <1>4, AcceptedQueue, GrantRelease DEF TaskReturns, history
<1> QED  BY <1>0, <1>1, <1>2, <1>3, <1>4, EnqueueGrant DEF ClientNext

\* A worker takes an entry from the queue and gives it back unchanged.
LEMMA WorkerGrant ==
    ASSUME TypeInv, GrantInv, NEW w \in Workers, WorkerClaim(w) \/ WorkerSettle(w)
    PROVE  GrantInv'
<1>0. /\ w \in Actors /\ w \notin Direct
      /\ pc \in [Actors -> Places]
      /\ item \in [Actors -> Items \cup {None}]
  BY RuntimeAssumption DEF Actors, TypeInv, TypeOK
<1> USE DEF history, Goto, At
<1>1. {"starting", "claimed", "ack", "nackAck", "nackPush"} \subseteq Places
  BY DEF Places, EnginePlaces
<1>2. ASSUME NEW it \in BagToSet(queue), Claim(w, it)
      PROVE  GrantInv'
  <2>1. Accepted(it)
    BY DEF GrantInv
  <2> QED  BY <1>0, <1>2, <2>1 DEF Claim, GrantInv, Accepted, GatedOnlyIfGranted
<1>3. CASE WinClaim(w)
  BY <1>0, <1>1, <1>3, GrantMove DEF WinClaim
<1>4. CASE LoseClaim(w)
  BY <1>0, <1>4, AcceptedQueue, GrantRelease DEF LoseClaim
<1>5. CASE SettleDone(w)
  BY <1>0, <1>1, <1>5, GrantMove DEF SettleDone
<1>6. CASE SettleFailed(w)
  BY <1>0, <1>6, AcceptedQueue, GrantRelease DEF SettleFailed
<1>7. CASE Ack(w)
  BY <1>0, <1>7, AcceptedQueue, GrantRelease DEF Ack
<1>8. CASE NackAck(w)
  <2>1. /\ pc' = [pc EXCEPT ![w] = "nackPush"]
        /\ queue' = Acked(w)
        /\ UNCHANGED <<item, reply, granted, ran>>
    BY <1>8 DEF NackAck
  <2>2. \A it \in BagToSet(queue') : Accepted(it)
    BY <2>1, QueueLess DEF GrantInv
  <2> QED  BY <1>0, <2>1, <2>2 DEF GrantInv, Accepted, GatedOnlyIfGranted
<1>9. CASE NackPush(w)
  <2>1. /\ pc[w] = "nackPush" /\ queue' = queue (+) SetToBag({item[w]})
        /\ Release(w) /\ UNCHANGED <<granted, ran>>
    BY <1>9 DEF NackPush, Entry
  <2>2. Accepted(item[w])
    BY <1>0, <2>1, BusyActor, NoneAssumption DEF GrantInv
  <2>3. BagToSet(queue') = BagToSet(queue) \cup {item[w]}
    BY <2>1, BagAdd DEF TypeInv, TypeOK
  <2>4. \A it \in BagToSet(queue') : Accepted(it)'
    <3>1. \A it : Accepted(it) => Accepted(it)'
      BY <2>1 DEF Accepted
    <3> QED  BY <2>2, <2>3, <3>1 DEF GrantInv
  <2> QED  BY <1>0, <2>1, <2>4, GrantRelease
<1> QED  BY <1>2, <1>3, <1>4, <1>5, <1>6, <1>7, <1>8, <1>9 DEF WorkerClaim, WorkerSettle

\* The engine dispatches a gated call only for an acceptance it carries, and
\* runs at once only the calls that are not gated.
LEMMA EngineGrant ==
    ASSUME TypeInv, GrantInv, NEW w \in Workers \cup Direct, EngineNext(w)
    PROVE  GrantInv'
<1>0. /\ w \in Actors
      /\ w \in Workers => w \notin Direct
      /\ pc \in [Actors -> Places]
      /\ item \in [Actors -> Items \cup {None}]
      /\ reply \in [Actors -> Replies \cup {None}]
      /\ ran \in [Refs -> Nat]
  BY RuntimeAssumption DEF Actors, TypeInv, TypeOK
<1>1. w \in Workers \/ pc[w] \notin EnqueuePlaces
  BY DEF GrantInv
<1> USE DEF history, Goto, At, Settled, End
<1>2. /\ EnginePlaces \cup {"settleDone", "settleFailed", "enqLoad"} \subseteq Places
      /\ EnginePlaces \cap EnqueuePlaces = {}
      /\ "settleDone" \notin EnqueuePlaces /\ "settleFailed" \notin EnqueuePlaces
      /\ "enqLoad" \in EnqueuePlaces
  BY DEF Places, EnginePlaces, EnqueuePlaces, SettlePlaces
<1>3. ASSUME NEW place \in (EnginePlaces \ {"gatedTool"}) \cup {"settleDone", "settleFailed"},
             pc' = [pc EXCEPT ![w] = place],
             UNCHANGED <<queue, item, reply, granted, ran>>
      PROVE  GrantInv'
  BY <1>0, <1>1, <1>2, <1>3, GrantMove DEF EnginePlaces
<1>4. CASE EngineEnter(w)
  <2>1. CASE DriveNothing(w) \/ ResumeNothing(w)
    BY <1>3, <2>1 DEF DriveNothing, ResumeNothing
  <2>2. CASE Drive(w)
    BY <1>3, <2>2 DEF Drive, EnginePlaces
  <2>3. CASE SaveRunning(w)
    BY <1>3, <2>3 DEF SaveRunning, StepPlace, EnginePlaces
  <2>4. CASE Resume(w)
    BY <1>3, <2>4 DEF Resume, EnginePlaces
  <2>5. CASE SaveResuming(w)
    <3>1. /\ pc' = [pc EXCEPT ![w] = AfterResuming(w)]
          /\ UNCHANGED <<queue, item, reply, granted, ran>>
      BY <2>5 DEF SaveResuming
    <3>2. /\ AfterResuming(w) \in {"settleFailed", "resolved", "gatedTool", "saveResolved"}
          /\ AfterResuming(w) = "gatedTool" => item[w].res.outcome = "accept"
      BY DEF AfterResuming
    <3>3. AfterResuming(w) \in Places /\ AfterResuming(w) \notin EnqueuePlaces
      BY <1>2, <3>2 DEF EnginePlaces
    <3> QED  BY <1>0, <1>1, <3>1, <3>2, <3>3, GrantMove
  <2>6. ASSUME NEW times \in 0 .. ToolAttempts, GatedTool(w, times)
        PROVE  GrantInv'
    <3> DEFINE r == item[w].res.ref
    <3>1. /\ pc[w] = "gatedTool" /\ pc' = [pc EXCEPT ![w] = "saveResolved"]
          /\ ran' = [ran EXCEPT ![r] = @ + times]
          /\ UNCHANGED <<queue, item, reply, granted>>
      BY <2>6 DEF GatedTool
    <3>2. item[w] \in Items /\ item[w] # None /\ item[w].res # None
      BY <1>0, <3>1, BusyActor, NoneAssumption DEF TypeInv, InHand, ResumePlaces
    <3>3. r \in granted
      BY <1>0, <1>1, <3>1, <3>2 DEF GrantInv, Accepted
    <3>4. \A s \in Refs : ran'[s] > 0 => ran[s] > 0 \/ s = r
      BY <1>0, <3>1
    <3> HIDE DEF r
    <3>5. GatedOnlyIfGranted'
      BY <3>1, <3>3, <3>4 DEF GrantInv, GatedOnlyIfGranted
    <3> QED  BY <1>0, <1>2, <3>1, <3>5 DEF GrantInv, Accepted, EnginePlaces
  <2>7. CASE SaveResolved(w)
    BY <1>3, <2>7 DEF SaveResolved, EnginePlaces
  <2>8. CASE ParkAgain(w)
    BY <1>3, <2>8 DEF ParkAgain, EnginePlaces
  <2>9. CASE FinishPark(w)
    BY <1>3, <2>9 DEF FinishPark, StepPlace, EnginePlaces
  <2> QED  BY <1>4, <2>1, <2>2, <2>3, <2>4, <2>5, <2>6, <2>7, <2>8, <2>9 DEF EngineEnter
<1>5. CASE EngineTurn(w)
  <2>1. CASE MaxTurnsReached(w) \/ FinalAnswer(w) \/ ModelError(w) \/ Preempted(w)
    BY <1>3, <2>1 DEF MaxTurnsReached, FinalAnswer, ModelError, Preempted
  <2>2. ASSUME NEW calls \in SUBSET Calls \ {{}}, AskTools(w, calls)
        PROVE  GrantInv'
    <3> DEFINE map == [k \in Calls |-> IF k \notin calls THEN "none"
                                       ELSE IF k \in Gated THEN "pending" ELSE "executed"]
               rep == [ask |-> Len(asked) + 1, calls |-> map]
    <3>1. /\ pc' = [pc EXCEPT ![w] = "tools"]
          /\ reply' = [reply EXCEPT ![w] = rep]
          /\ UNCHANGED <<queue, item, granted, ran>>
      BY <2>2 DEF AskTools
    <3>2. \A k \in Gated : rep.calls[k] # "executed"
      BY RuntimeAssumption
    <3> HIDE DEF rep
    <3>3. \A a \in Actors, k \in Gated : reply'[a] # None => reply'[a].calls[k] # "executed"
      BY <1>0, <3>1, <3>2 DEF GrantInv
    <3>4. "tools" # "gatedTool" /\ "tools" \notin EnqueuePlaces
      BY DEF EnqueuePlaces
    <3> QED  BY <1>0, <1>1, <3>1, <3>3, <3>4 DEF GrantInv, Accepted, GatedOnlyIfGranted
  <2>3. CASE RunTools(w)
    <3>1. /\ pc[w] = "tools" /\ pc' = [pc EXCEPT ![w] = "saveTurn"]
          /\ UNCHANGED <<queue, item, reply, granted>>
      BY <2>3 DEF RunTools
    <3>2. \A k \in With(reply[w], "executed") : k \notin Gated
      BY <1>0, <3>1 DEF With, GrantInv, TypeInv, InHand, ReplyPlaces
    <3>3. ASSUME NEW s \in Refs, s.call \in Gated
          PROVE  ran'[s] = ran[s]
      BY <2>3, <3>2, <3>3 DEF RunTools, RefOf
    <3>4. GatedOnlyIfGranted'
      BY <3>1, <3>3 DEF GrantInv, GatedOnlyIfGranted
    <3> QED  BY <1>0, <1>2, <3>1, <3>4 DEF GrantInv, Accepted, EnginePlaces
  <2>4. CASE Park(w)
    BY <1>3, <2>4 DEF Park, EnginePlaces
  <2>5. CASE IndexRefs(w)
    BY <1>3, <2>5 DEF IndexRefs
  <2>6. CASE SaveTools(w)
    BY <1>3, <2>6 DEF SaveTools, EnginePlaces
  <2>7. CASE Continue(w)
    <3> DEFINE place == IF loc[w].turn + 1 < MaxTurns THEN AfterContinue(w) ELSE "maxTurns"
    <3>1. /\ pc[w] = "turnDone" /\ pc' = [pc EXCEPT ![w] = place]
          /\ UNCHANGED <<queue, item, reply, granted, ran>>
      BY <2>7 DEF Continue
    <3>2. /\ place \in {"settleDone", "enqLoad", "maxTurns"}
          /\ w \in Direct => place # "enqLoad"
      BY DEF AfterContinue
    <3> HIDE DEF place
    <3>3. place \in Places /\ (place \in EnqueuePlaces => place = "enqLoad")
      BY <1>2, <3>2 DEF EnginePlaces
    <3> QED  BY <1>0, <1>1, <3>1, <3>2, <3>3, GrantMove
  <2> QED  BY <1>5, <2>1, <2>2, <2>3, <2>4, <2>5, <2>6, <2>7 DEF EngineTurn
<1> QED  BY <1>4, <1>5 DEF EngineNext

\* No fault makes up an acceptance: what is retried was granted before, and
\* what is rebuilt from the ledger carries no resolution.
LEMMA FaultGrant ==
    ASSUME TypeInv, GrantInv, FaultNext
    PROVE  GrantInv'
<1>0. /\ Direct \subseteq Actors /\ Workers \cap Direct = {}
      /\ pc \in [Actors -> Places]
      /\ item \in [Actors -> Items \cup {None}]
      /\ reply \in [Actors -> Replies \cup {None}]
  BY RuntimeAssumption DEF Actors, TypeInv, TypeOK
<1>1. ASSUME NEW w \in Actors, Raise(w)
      PROVE  GrantInv'
  <2>1. {"ack", "nackAck"} \subseteq Places
    BY DEF Places
  <2> QED  BY <1>0, <1>1, <2>1, GrantMove DEF Raise, Goto
<1>2. ASSUME NEW a \in Actors, Abandon(a)
      PROVE  GrantInv'
  BY <1>2, AcceptedQueue, GrantRelease DEF Abandon
<1>3. ASSUME NEW cl \in Actors, TaskError(cl)
      PROVE  GrantInv'
  <2>1. /\ cl \in Direct
        /\ pc' = [pc EXCEPT ![cl] = "retry"]
        /\ reply' = [reply EXCEPT ![cl] = None]
        /\ UNCHANGED <<queue, item, granted, ran>>
    BY <1>3 DEF TaskError, Goto
  <2>2. "retry" \notin EnqueuePlaces /\ pc[cl] \notin EnqueuePlaces
    BY <2>1 DEF EnqueuePlaces, GrantInv
  <2> QED  BY <1>0, <2>1, <2>2 DEF GrantInv, Accepted, GatedOnlyIfGranted
<1>4. ASSUME NEW h \in Hosts, Crash(h)
      PROVE  GrantInv'
  <2>1. /\ pc' = [a \in Actors |-> IF a \in Kept(h) THEN "retry"
                                   ELSE IF a \in Lost(h) THEN "idle" ELSE pc[a]]
        /\ item' = [a \in Actors |-> IF a \in Lost(h) \ Kept(h) THEN None ELSE item[a]]
        /\ reply' = [a \in Actors |-> IF a \in Lost(h) THEN None ELSE reply[a]]
        /\ UNCHANGED <<queue, granted, ran>>
    BY <1>4 DEF Crash
  <2>2. /\ Kept(h) \subseteq Lost(h) \cap Direct
        /\ "retry" \notin EnqueuePlaces /\ "idle" \notin EnqueuePlaces
    BY DEF Kept, EnqueuePlaces
  <2>3. ASSUME NEW a \in Actors
        PROVE  /\ item'[a] # None /\ (a \in Workers \/ pc'[a] \notin EnqueuePlaces)
                    => Accepted(item[a]) /\ item'[a] = item[a]
               /\ pc'[a] = "gatedTool" => item'[a].res.outcome = "accept"
               /\ \A k \in Gated : reply'[a] # None => reply'[a].calls[k] # "executed"
               /\ a \in Direct => pc'[a] \notin EnqueuePlaces
    <3>1. CASE a \in Kept(h)
      BY <1>0, <2>1, <2>2, <3>1 DEF GrantInv
    <3>2. CASE a \in Lost(h) \ Kept(h)
      BY <2>1, <2>2, <3>2
    <3>3. CASE a \notin Lost(h) /\ a \notin Kept(h)
      BY <2>1, <3>3 DEF GrantInv
    <3> QED  BY <2>2, <3>1, <3>2, <3>3
  <2> QED  BY <1>0, <2>1, <2>3 DEF GrantInv, Accepted, GatedOnlyIfGranted
<1>5. ASSUME NEW h \in Hosts, Boot(h)
      PROVE  GrantInv'
  <2>1. /\ queue' = queue (+) SetToBag(Rebuilt)
        /\ UNCHANGED <<pc, item, reply, granted, ran>>
    BY <1>5 DEF Boot, history
  <2>2. BagToSet(queue') = BagToSet(queue) \cup Rebuilt
    BY <2>1, BagAdd DEF TypeInv, TypeOK
  <2>3. \A it \in Rebuilt : it.res = None
    BY DEF Rebuilt
  <2> QED  BY <2>1, <2>2, <2>3 DEF GrantInv, Accepted, GatedOnlyIfGranted
<1>6. CASE Flush
  <2>1. BagToSet(queue') = {} /\ UNCHANGED <<pc, item, reply, granted, ran>>
    BY <1>6, BagNone DEF Flush
  <2> QED  BY <2>1 DEF GrantInv, Accepted, GatedOnlyIfGranted
<1> QED  BY <1>1, <1>2, <1>3, <1>4, <1>5, <1>6 DEF FaultNext

\* Every step keeps GrantInv.
LEMMA NextGrant == TypeInv /\ GrantInv /\ [Next]_vars => GrantInv'
<1> SUFFICES ASSUME TypeInv, GrantInv, [Next]_vars
             PROVE  GrantInv'
  OBVIOUS
<1>1. ASSUME NEW w \in Workers, WorkerNext(w)
      PROVE  GrantInv'
  BY <1>1, WorkerGrant, EnqueueGrant DEF WorkerNext, Actors
<1>2. ASSUME NEW a \in Workers \cup Direct, EngineNext(a)
      PROVE  GrantInv'
  BY <1>2, EngineGrant
<1>3. CASE UNCHANGED vars
  BY <1>3 DEF vars, GrantInv, Accepted, GatedOnlyIfGranted
<1> QED  BY <1>1, <1>2, <1>3, ClientGrant, FaultGrant DEF Next

\* Nothing runs and nothing is granted before the first request.
LEMMA InitGrant == Init => GrantInv
<1> SUFFICES ASSUME Init PROVE GrantInv
  OBVIOUS
<1>1. \A r \in Refs : ~(ran[r] > 0)
  BY DEF Init, Start
<1> QED  BY <1>1, BagNone, RuntimeAssumption
         DEF Init, Start, GrantInv, GatedOnlyIfGranted, EnqueuePlaces, Actors

\* A gated tool is executed only if a human approved that very call, whatever
\* is redelivered, retried, rebuilt or answered twice
\* (engine.py _apply_resolution).
THEOREM GatedCalls == Spec => []GatedOnlyIfGranted
<1>1. Spec => [](TypeInv /\ GrantInv)
  BY InitType, NextType, InitGrant, NextGrant, PTL DEF Spec
<1>2. GrantInv => GatedOnlyIfGranted
  BY DEF GrantInv
<1> QED  BY <1>1, <1>2, PTL

----------------------------------------------------------------------------
(***************************************************************************)
(* One process.                                                            *)
(*                                                                         *)
(* When every worker loop and every request share one event loop, what an  *)
(* actor does between two awaits is atomic, and six more properties hold   *)
(* for any number of runs, turns, answers, redeliveries, raises, abandoned *)
(* requests and lost queues: OneDriver, TurnsForward, OverIsFinal,         *)
(* GatedDispatchedOnce, ParkedTurnIsKept and RetriesBounded.  A restart is *)
(* left out because it breaks the first of them: rebuild_from_ledger makes *)
(* an entry with the epoch of the ledger, which duplicate answers have     *)
(* taken beyond that of the run.                                           *)
(***************************************************************************)
\* The hypothesis: one process, which answers itself and is not restarted.
OneProcess ==
    /\ \E h : Hosts = {h}
    /\ Direct = {}
    /\ "crash" \notin FaultKinds

\* The places between the load of a run and the write of its ledger row.
Bumping == EnqueuePlaces \ {"enqPush"}

\* An actor that takes a run forward: a driver, or whoever gives the run an
\* entry without a resolution.
Taking(a) ==
    \/ a \in Workers /\ pc[a] \in Driving
    \/ pc[a] \in Bumping /\ (a \in Workers \/ item[a].res = None)

Going == {"running", "resuming"}

\* The entries that are queued, in a worker's hands or about to be pushed, and
\* those of a run that carry no resolution.
Entries ==
    BagToSet(queue)
      \cup {item[w] : w \in {v \in Workers : pc[v] # "idle"}}
      \cup {NewEntry(a) : a \in {b \in Actors : pc[b] = "enqPush"}}

BareOf(c) == {it \in Entries : it.cont = c /\ it.res = None}
UpTo(c, n) == \A it \in BareOf(c) : it.epoch <= n
Below(c, n) == \A it \in BareOf(c) : it.epoch < n

\* The event loop runs one actor from one await to the next.
Serial ==
    /\ \A h \in Hosts : up[h]
    /\ \A cl \in Clients : pc[cl] \in EnqueuePlaces \cup {"idle"}
    /\ \A a, b \in Actors : pc[a] \in Section /\ pc[b] \in Section => a = b

\* What an actor knows of the tables until its next await.
AtWork(a) ==
    /\ a \in Workers /\ pc[a] = "starting" =>
          /\ ledger[ContOf(a)].status = "running"
          /\ ledger[ContOf(a)].epoch = item[a].epoch
    /\ pc[a] = "enqSave" => loc[a] = [store[ContOf(a)] EXCEPT !.epoch = @ + 1]
    /\ pc[a] = "enqUpsert" => loc[a] = store[ContOf(a)] /\ Below(ContOf(a), loc[a].epoch)

\* Somebody else may claim, or has claimed, the run that w drives.
Rivalled(w) ==
    \/ Claimable(ledger[ContOf(w)])
    \/ \E v \in Workers \ {w} : pc[v] \in EnginePlaces /\ ContOf(v) = ContOf(w)

\* A driver's copy is the run it saves over, but for the epoch that answers
\* have raised; no entry without a resolution can win the row from it.
Leads(w) ==
    LET c == ContOf(w)
    IN  /\ loc[w].turn = store[c].turn
        /\ pc[w] # "indexRefs" => loc[w].status \in Going
        /\ IF pc[w] \in {"saveResuming", "indexRefs"}
             THEN store[c].status = "suspended" ELSE store[c].status \in Going
        /\ UpTo(c, loc[w].epoch)
        /\ Rivalled(w) => Below(c, ledger[c].epoch)

SoleInv ==
    /\ Serial
    /\ \A a \in Actors : AtWork(a)
    /\ \A w \in Workers : pc[w] \in Driving => Leads(w)
    /\ \A a, b \in Actors : Taking(a) /\ Taking(b) /\ ContOf(a) = ContOf(b) => a = b
    /\ \A c \in Conts : store[c] # None => UpTo(c, store[c].epoch)

\* What a step may do to a run: neither back nor alive again.
Advance ==
    \A c \in Conts :
        store[c] # None => /\ store'[c].turn >= store[c].turn
                           /\ Over(c) => store'[c].status = store[c].status

----------------------------------------------------------------------------
\* While an actor steps, no other actor of the process is between two awaits.
LEMMA OthersWait ==
    ASSUME OneProcess, TypeInv, NEW a \in Actors, CanStep(a),
           NEW b \in Actors \ {a}
    PROVE  pc[b] \notin Section
BY RuntimeAssumption DEF OneProcess, CanStep, InSection

\* A driver that waits leads on when somebody else steps, if its run keeps its
\* turn and its status, no bare entry of it appears, and whoever comes to
\* claim it had claimed it before.
LEMMA Onlooker ==
    ASSUME TypeInv, SoleInv, NEW a \in Actors,
           NEW w \in Workers \ {a}, pc[w] \in Driving,
           NEW d, d = ContOf(w),
           \A v \in Workers \ {a} : pc'[v] = pc[v] /\ item'[v] = item[v],
           loc'[w] = loc[w],
           store'[d].turn = store[d].turn, store'[d].status = store[d].status,
           BareOf(d)' \subseteq BareOf(d),
           \/ Below(d, ledger[d].epoch)'
           \/ /\ ledger'[d].epoch = ledger[d].epoch
              /\ \/ Claimable(ledger'[d])
                 \/ a \in Workers /\ pc'[a] \in EnginePlaces /\ item'[a].cont = d
                 => Rivalled(w)
    PROVE  Leads(w)'
<1>1. Leads(w)
  BY DEF SoleInv
<1>2. d = ContOf(w)' /\ pc'[w] = pc[w] /\ loc'[w] = loc[w]
  BY DEF ContOf
<1>3. UpTo(d, loc[w].epoch)'
  BY <1>1, <1>2 DEF Leads, UpTo
<1>4. ASSUME Rivalled(w)'
      PROVE  Below(d, ledger[d].epoch)'
  <2>1. CASE Below(d, ledger[d].epoch)'
    BY <2>1
  <2>2. CASE /\ ledger'[d].epoch = ledger[d].epoch
             /\ \/ Claimable(ledger'[d])
                \/ a \in Workers /\ pc'[a] \in EnginePlaces /\ item'[a].cont = d
                => Rivalled(w)
    <3>1. Rivalled(w)
      <4>1. CASE Claimable(ledger'[d])
        BY <2>2, <4>1
      <4>2. CASE \E v \in Workers \ {w} : pc'[v] \in EnginePlaces /\ item'[v].cont = d
        <5>1. PICK v \in Workers \ {w} : pc'[v] \in EnginePlaces /\ item'[v].cont = d
          BY <4>2
        <5>2. CASE v = a
          BY <2>2, <5>1, <5>2
        <5>3. CASE v # a
          BY <5>1, <5>3 DEF Rivalled, ContOf
        <5> QED  BY <5>2, <5>3
      <4> QED  BY <1>2, <1>4, <4>1, <4>2 DEF Rivalled, ContOf
    <3>2. Below(d, ledger[d].epoch)
      BY <1>1, <3>1 DEF Leads
    <3> QED  BY <2>2, <3>2 DEF Below
  <2> QED  BY <2>1, <2>2
<1>5. /\ loc'[w].turn = store'[d].turn
      /\ pc'[w] # "indexRefs" => loc'[w].status \in Going
      /\ IF pc'[w] \in {"saveResuming", "indexRefs"}
           THEN store'[d].status = "suspended" ELSE store'[d].status \in Going
  BY <1>1, <1>2 DEF Leads
<1> QED  BY <1>2, <1>3, <1>4, <1>5 DEF Leads

\* Two actors do not take the same run forward.
LEMMA TakerAlone ==
    ASSUME SoleInv, NEW a \in Actors, Taking(a),
           NEW w \in Workers \ {a}, pc[w] \in Driving
    PROVE  ContOf(w) # ContOf(a)
BY DEF SoleInv, Taking, Actors

\* Entries appear only where an actor comes to push one.
LEMMA FewerEntries ==
    ASSUME TypeInv, NEW a \in Actors, NEW place, place # "enqPush",
           pc' = [pc EXCEPT ![a] = place],
           \A b \in Actors \ {a} : item'[b] = item[b] /\ loc'[b] = loc[b],
           BagToSet(queue') \subseteq Entries,
           a \in Workers /\ place # "idle" => item'[a] \in Entries
    PROVE  \A d : BareOf(d)' \subseteq BareOf(d)
<1>1. \A b \in Actors \ {a} : pc'[b] = pc[b] /\ NewEntry(b)' = NewEntry(b)
  BY DEF TypeInv, TypeOK, NewEntry, ContOf
<1>2. pc'[a] # "enqPush"
  BY DEF TypeInv, TypeOK
<1>3. \A w \in Workers : pc'[w] # "idle" => item'[w] \in Entries
  BY <1>1 DEF Entries, Actors, TypeInv, TypeOK
<1>4. \A b \in Actors : pc'[b] = "enqPush" => NewEntry(b)' \in Entries
  BY <1>1, <1>2 DEF Entries
<1>5. Entries' \subseteq Entries
  BY <1>3, <1>4 DEF Entries
<1> QED  BY <1>5 DEF BareOf

\* The epochs of entries, of the table and of the ledger are numbers.
LEMMA EpochTypes ==
    ASSUME TypeInv
    PROVE  /\ \A c \in Conts : store[c] # None => store[c].epoch \in Nat /\ store[c].turn \in Nat
           /\ \A c \in Conts : ledger[c] # None => ledger[c].epoch \in Nat
           /\ \A a \in Actors : loc[a] # None => loc[a].epoch \in Nat /\ loc[a].turn \in Nat
           /\ \A d : \A it \in BareOf(d) : it.epoch \in Nat
<1>1. /\ \A c \in Conts : store[c] # None => store[c].epoch \in Nat /\ store[c].turn \in Nat
      /\ \A a \in Actors : loc[a] # None => loc[a].epoch \in Nat /\ loc[a].turn \in Nat
  BY RuntimeAssumption DEF TypeInv, TypeOK, Continuations
<1>2. \A c \in Conts : ledger[c] # None => ledger[c].epoch \in Nat
  BY DEF TypeInv, TypeOK, Row
<1>3. \A it \in BagToSet(queue) : it.epoch \in Nat
  BY DEF TypeInv, TypeOK, Items
<1>4. \A w \in Workers : pc[w] # "idle" => item[w].epoch \in Nat
  BY BusyActor DEF Items, Actors
<1>5. \A a \in Actors : pc[a] = "enqPush" => NewEntry(a).epoch \in Nat
  BY <1>1 DEF TypeInv, InHand, CopyPlaces, NewEntry
<1> QED  BY <1>1, <1>2, <1>3, <1>4, <1>5 DEF BareOf, Entries

\* One actor steps: the others keep their places, so the invariant is a matter
\* of what that actor knows and of the drivers that wait.
LEMMA LoneStep ==
    ASSUME OneProcess, TypeInv, SoleInv,
           NEW a \in Actors, CanStep(a),
           NEW place, pc' = [pc EXCEPT ![a] = place],
           a \in Clients => place \in EnqueuePlaces \cup {"idle"},
           \A b \in Actors \ {a} : item'[b] = item[b] /\ loc'[b] = loc[b],
           up' = up,
           AtWork(a)',
           a \in Workers /\ place \in Driving => Leads(a)',
           \A w \in Workers \ {a} : pc[w] \in Driving => Leads(w)',
           Taking(a)' => \A w \in Workers \ {a} :
                            pc[w] \in Driving => ContOf(w) # item'[a].cont,
           \A c \in Conts : store'[c] # None => UpTo(c, store[c].epoch)'
    PROVE  SoleInv'
<1>1. /\ pc'[a] = place
      /\ \A b \in Actors \ {a} : pc'[b] = pc[b] /\ pc[b] \notin Section
  BY OthersWait DEF TypeInv, TypeOK
<1>2. Serial'
  BY <1>1 DEF SoleInv, Serial, Actors
<1>3. ASSUME NEW b \in Actors
      PROVE  AtWork(b)'
  <2>1. CASE b = a
    BY <2>1
  <2>2. CASE b # a
    BY <1>1, <2>2 DEF AtWork, Section, EnginePlaces, EnqueuePlaces
  <2> QED  BY <2>1, <2>2
<1>4. ASSUME NEW w \in Workers, pc'[w] \in Driving
      PROVE  Leads(w)'
  BY <1>1, <1>4 DEF Actors
<1>5. ASSUME NEW b \in Actors \ {a}, Taking(b)'
      PROVE  b \in Workers /\ pc[b] \in Driving /\ ContOf(b)' = ContOf(b)
  BY <1>1, <1>5 DEF Taking, Bumping, Section, ContOf
<1>6. ASSUME NEW b \in Actors, NEW d \in Actors, Taking(b)', Taking(d)', ContOf(b)' = ContOf(d)'
      PROVE  b = d
  <2>1. CASE b # a /\ d # a
    BY <1>5, <1>6, <2>1 DEF SoleInv, Taking
  <2>2. CASE b = a \/ d = a
    BY <1>5, <1>6, <2>2 DEF ContOf
  <2> QED  BY <2>1, <2>2
<1> QED  BY <1>2, <1>3, <1>4, <1>6 DEF SoleInv

\* A driver steps: it saves its own run, or nothing, and drives on or leaves
\* the engine.
LEMMA DriverStep ==
    ASSUME OneProcess, TypeInv, TypeInv', SoleInv,
           NEW w \in Workers, pc[w] \in Driving, CanStep(w),
           NEW place \in Driving \cup SettlePlaces \cup {"enqLoad"},
           pc' = [pc EXCEPT ![w] = place],
           NEW copy, loc' = [loc EXCEPT ![w] = copy],
           copy.epoch = loc[w].epoch,
           NEW saved \in Continuations,
           saved.epoch = loc[w].epoch, saved.turn >= loc[w].turn,
           store' = store \/ store' = [store EXCEPT ![ContOf(w)] = saved],
           place \in Driving =>
              LET cont == store'[ContOf(w)]
              IN  /\ copy.turn = cont.turn
                  /\ place # "indexRefs" => copy.status \in Going
                  /\ IF place \in {"saveResuming", "indexRefs"}
                       THEN cont.status = "suspended" ELSE cont.status \in Going,
           UNCHANGED <<ledger, queue, item, up>>
    PROVE  SoleInv' /\ Advance
<1>0. PICK c : c = ContOf(w)
  OBVIOUS
<1>1. /\ w \in Actors /\ w \notin Clients /\ c \in Conts
      /\ pc[w] # "idle" /\ pc[w] \in EnginePlaces /\ pc[w] \in CopyPlaces
      /\ store[c] \in Continuations /\ store[c] # None
      /\ saved # None /\ loc[w] # None
  BY <1>0, BusyActor, CopyHolder, RuntimeAssumption, NoneAssumption
     DEF Driving, EnginePlaces, CopyPlaces, Actors
<1>2. /\ pc'[w] = place /\ loc'[w] = copy /\ place # "enqPush" /\ place # "starting"
      /\ place # "enqSave" /\ place # "enqUpsert" /\ ContOf(w)' = c
  BY <1>0, <1>1 DEF TypeInv, TypeOK, Driving, EnginePlaces, SettlePlaces, ContOf
<1>3. \A b \in Actors \ {w} : pc'[b] = pc[b] /\ item'[b] = item[b] /\ loc'[b] = loc[b]
  BY DEF TypeInv, TypeOK
<1>4. \A d : BareOf(d)' \subseteq BareOf(d)
  <2>1. BagToSet(queue') \subseteq Entries /\ item'[w] \in Entries
    BY <1>1 DEF Entries
  <2> QED  BY <1>1, <1>2, <1>3, <2>1, FewerEntries
<1>5. Leads(w) /\ Taking(w)
  BY DEF SoleInv, Taking
<1>6. \A d \in Conts \ {c} : store'[d] = store[d]
  BY <1>0 DEF TypeInv, TypeOK
<1>7. store'[c] = store[c] \/ store'[c] = saved
  BY <1>0, <1>1 DEF TypeInv, TypeOK
<1>8. \A d \in Conts : store'[d] # None => UpTo(d, store[d].epoch)'
  <2>1. ASSUME NEW d \in Conts, store'[d] # None
        PROVE  UpTo(d, store'[d].epoch)
    BY <1>0, <1>5, <1>6, <1>7, <2>1 DEF SoleInv, Leads
  <2> QED  BY <1>4, <2>1 DEF UpTo
<1>9. ASSUME NEW v \in Workers \ {w}, pc[v] \in Driving
      PROVE  Leads(v)' /\ ContOf(v) # c
  <2>6. PICK d : d = ContOf(v)
    OBVIOUS
  <2>1. d # c /\ d \in Conts /\ v \in Actors
    BY <1>0, <1>1, <1>5, <1>9, <2>6, TakerAlone, BusyActor DEF Driving, EnginePlaces, Actors
  <2>2. store'[d] = store[d] /\ ledger'[d] = ledger[d] /\ loc'[v] = loc[v]
    BY <1>3, <1>6, <2>1
  <2>3. \/ Claimable(ledger'[d])
        \/ w \in Workers /\ pc'[w] \in EnginePlaces /\ item'[w].cont = d
        => Rivalled(v)
    BY <1>0, <2>1, <2>2, <2>6 DEF Rivalled, ContOf
  <2>4. \A u \in Workers \ {w} : pc'[u] = pc[u] /\ item'[u] = item[u]
    BY <1>3 DEF Actors
  <2>5. BareOf(d)' \subseteq BareOf(d)
    BY <1>4
  <2> QED  BY <1>1, <1>9, <2>1, <2>2, <2>3, <2>4, <2>5, <2>6, Onlooker
<1>10. AtWork(w)'
  BY <1>2 DEF AtWork
<1>11. ASSUME place \in Driving
       PROVE  Leads(w)'
  <2>1. UpTo(c, copy.epoch)'
    BY <1>0, <1>4, <1>5 DEF Leads, UpTo
  <2>2. ASSUME Rivalled(w)'
        PROVE  Below(c, ledger[c].epoch)'
    <3>1. Rivalled(w)
      BY <1>0, <1>2, <1>3, <2>2 DEF Rivalled, Actors, ContOf
    <3>2. Below(c, ledger[c].epoch)
      BY <1>0, <1>5, <3>1 DEF Leads
    <3> QED  BY <1>4, <3>2 DEF Below
  <2> QED  BY <1>0, <1>2, <1>11, <2>1, <2>2 DEF Leads
<1>12. SoleInv'
  <2>1. \A v \in Workers \ {w} : pc[v] \in Driving => ContOf(v) # item'[w].cont
    BY <1>2, <1>9 DEF ContOf
  <2>2. \A v \in Workers \ {w} : pc[v] \in Driving => Leads(v)'
    BY <1>9
  <2> QED  BY <1>1, <1>3, <1>8, <1>10, <1>11, <2>1, <2>2, LoneStep
<1>13. Advance
  <2>1. ASSUME NEW d \in Conts, store[d] # None
        PROVE  store'[d].turn >= store[d].turn /\ (Over(d) => store'[d].status = store[d].status)
    <3>1. CASE store'[d] = store[d]
      BY <2>1, <3>1, EpochTypes
    <3>2. CASE d = c /\ store'[d] = saved
      <4>1. store[c].turn = loc[w].turn /\ ~Over(c)
        BY <1>0, <1>5 DEF Leads, Over, Going
      <4> QED  BY <3>2, <4>1
    <3> QED  BY <1>6, <1>7, <3>1, <3>2
  <2> QED  BY <2>1 DEF Advance
<1> QED  BY <1>12, <1>13

\* An actor steps that does not come to take a run forward, and that leaves
\* the table of continuations alone.
LEMMA PassiveStep ==
    ASSUME OneProcess, TypeInv, TypeInv', SoleInv,
           NEW a \in Actors, CanStep(a),
           NEW place, pc' = [pc EXCEPT ![a] = place],
           a \in Clients => place \in EnqueuePlaces \cup {"idle"},
           place \notin Driving \cup {"enqSave", "enqUpsert", "enqPush"},
           place \in Bumping => a \in Clients /\ item'[a].res # None,
           a \in Workers /\ place = "starting" =>
              LET row == ledger'[item'[a].cont]
              IN  row.status = "running" /\ row.epoch = item'[a].epoch,
           \A b \in Actors \ {a} : item'[b] = item[b] /\ loc'[b] = loc[b],
           BagToSet(queue') \subseteq Entries,
           a \in Workers /\ place # "idle" => item'[a] \in Entries,
           \A w \in Workers \ {a} : pc[w] \in Driving =>
              LET d == ContOf(w)
              IN  /\ ledger'[d].epoch = ledger[d].epoch
                  /\ \/ Claimable(ledger'[d])
                     \/ a \in Workers /\ place \in EnginePlaces /\ item'[a].cont = d
                     => Rivalled(w),
           UNCHANGED <<store, up>>
    PROVE  SoleInv' /\ Advance
<1>1. /\ pc'[a] = place
      /\ \A b \in Actors \ {a} : pc'[b] = pc[b] /\ pc[b] \notin Section
  BY OthersWait DEF TypeInv, TypeOK
<1>2. \A d : BareOf(d)' \subseteq BareOf(d)
  BY FewerEntries
<1>3. AtWork(a)'
  BY <1>1 DEF AtWork, ContOf
<1>4. ~Taking(a)'
  BY <1>1, RuntimeAssumption DEF Taking
<1>5. ASSUME NEW w \in Workers \ {a}, pc[w] \in Driving
      PROVE  Leads(w)'
  <2>1. PICK d : d = ContOf(w)
    OBVIOUS
  <2>2. /\ loc'[w] = loc[w] /\ store' = store
        /\ \A v \in Workers \ {a} : pc'[v] = pc[v] /\ item'[v] = item[v]
    BY <1>1 DEF Actors
  <2>3. BareOf(d)' \subseteq BareOf(d)
    BY <1>2
  <2>4. /\ ledger'[d].epoch = ledger[d].epoch
        /\ \/ Claimable(ledger'[d])
           \/ a \in Workers /\ pc'[a] \in EnginePlaces /\ item'[a].cont = d
           => Rivalled(w)
    BY <1>1, <1>5, <2>1
  <2> QED  BY <1>5, <2>1, <2>2, <2>3, <2>4, Onlooker
<1>6. \A d \in Conts : store'[d] # None => UpTo(d, store[d].epoch)'
  <2>1. \A d \in Conts : store[d] # None => UpTo(d, store[d].epoch)
    BY DEF SoleInv
  <2> QED  BY <1>2, <2>1 DEF UpTo
<1>7. SoleInv'
  BY <1>3, <1>4, <1>5, <1>6, LoneStep
<1>8. Advance
  BY EpochTypes DEF Advance
<1> QED  BY <1>7, <1>8

\* A worker starts to drive a run that nobody drives.
LEMMA StarterStep ==
    ASSUME OneProcess, TypeInv, TypeInv', SoleInv,
           NEW w \in Workers, pc[w] = "starting", CanStep(w),
           NEW place \in {"saveRunning", "saveResuming"}, pc' = [pc EXCEPT ![w] = place],
           NEW copy, loc' = [loc EXCEPT ![w] = copy],
           copy.epoch = store[ContOf(w)].epoch, copy.turn = store[ContOf(w)].turn,
           copy.status \in Going,
           IF place = "saveResuming"
             THEN store[ContOf(w)].status = "suspended" ELSE store[ContOf(w)].status \in Going,
           item[w].res = None \/ store[ContOf(w)].status = "suspended",
           UNCHANGED <<store, ledger, queue, item, up>>
    PROVE  SoleInv' /\ Advance
<1>0. PICK c : c = ContOf(w)
  OBVIOUS
<1>1. /\ w \in Actors /\ w \notin Clients /\ c \in Conts /\ pc[w] # "idle"
      /\ item[w] \in Items /\ item[w] # None /\ store[c] # None
      /\ pc'[w] = place /\ loc'[w] = copy /\ ContOf(w)' = c
      /\ place # "starting" /\ place # "enqPush" /\ place \notin Bumping
  BY <1>0, BusyActor, RuntimeAssumption, NoneAssumption
     DEF Actors, TypeInv, TypeOK, ContOf, Bumping, EnqueuePlaces
<1>2. \A b \in Actors \ {w} : /\ pc'[b] = pc[b] /\ pc[b] \notin Section
                              /\ item'[b] = item[b] /\ loc'[b] = loc[b]
  BY <1>1, OthersWait DEF TypeInv, TypeOK
<1>3. /\ item[w] \in Entries
      /\ ledger[c].status = "running" /\ ledger[c].epoch = item[w].epoch
  BY <1>0, <1>1 DEF Entries, SoleInv, AtWork
<1>4. \A d : BareOf(d)' \subseteq BareOf(d)
  <2>1. BagToSet(queue') \subseteq Entries
    BY DEF Entries
  <2> QED  BY <1>1, <1>2, <1>3, <2>1, FewerEntries
<1>5. ASSUME NEW v \in Workers \ {w}, pc[v] \in Driving
      PROVE  ContOf(v) # c
  <2>1. SUFFICES ASSUME ContOf(v) = c
                 PROVE  FALSE
    OBVIOUS
  <2>2. Leads(v) /\ pc[v] \notin {"saveResuming", "indexRefs"}
    BY <1>2, <1>5 DEF SoleInv, Section, EnginePlaces, Actors
  <2>3. store[c].status \in Going
    BY <2>1, <2>2 DEF Leads
  <2>4. item[w].res = None
    BY <1>0, <2>3 DEF Going
  <2>5. Below(c, ledger[c].epoch)
    BY <1>0, <2>1, <2>2 DEF Leads, Rivalled, EnginePlaces
  <2>6. item[w] \in BareOf(c)
    BY <1>0, <1>3, <2>4 DEF BareOf, ContOf
  <2> QED  BY <1>1, <1>3, <2>5, <2>6 DEF Below, Items
<1>6. ASSUME NEW v \in Workers \ {w}, pc[v] \in Driving
      PROVE  Leads(v)'
  <2>1. PICK d : d = ContOf(v)
    OBVIOUS
  <2>2. d # c /\ v \in Actors
    BY <1>5, <1>6, <2>1 DEF Actors
  <2>3. BareOf(d)' \subseteq BareOf(d)
    BY <1>4
  <2>4. Claimable(ledger[d]) => Rivalled(v)
    BY <2>1 DEF Rivalled
  <2>5. item'[w].cont # d
    BY <1>1, <2>2 DEF ContOf
  <2>6. loc'[v] = loc[v] /\ \A u \in Workers \ {w} : pc'[u] = pc[u] /\ item'[u] = item[u]
    BY <1>2, <2>2 DEF Actors
  <2> QED  BY <1>1, <1>6, <2>1, <2>3, <2>4, <2>5, <2>6, Onlooker
<1>7. \A d \in Conts : store'[d] # None => UpTo(d, store[d].epoch)'
  <2>1. \A d \in Conts : store[d] # None => UpTo(d, store[d].epoch)
    BY DEF SoleInv
  <2> QED  BY <1>4, <2>1 DEF UpTo
<1>8. AtWork(w)'
  BY <1>1 DEF AtWork, Bumping, EnqueuePlaces
<1>9. Leads(w)'
  <2>1. UpTo(c, copy.epoch)'
    BY <1>0, <1>1, <1>7
  <2>2. Rivalled(w)' => Below(c, ledger[c].epoch)'
    <3>1. SUFFICES ASSUME Rivalled(w)'
                   PROVE  Below(c, ledger[c].epoch)'
      OBVIOUS
    <3>2. CASE Claimable(ledger[c])
      BY <1>3, <3>2 DEF Claimable
    <3>3. CASE \E v \in Workers \ {w} : pc[v] \in EnginePlaces /\ ContOf(v) = c
      <4>1. PICK v \in Workers \ {w} : pc[v] \in EnginePlaces /\ ContOf(v) = c
        BY <3>3
      <4>2. pc[v] \in Driving
        BY <1>2, <4>1 DEF Driving, Section, EnginePlaces, Actors
      <4> QED  BY <1>5, <4>1, <4>2
    <3> QED  BY <1>1, <1>2, <3>1, <3>2, <3>3 DEF Rivalled, ContOf, Actors
  <2> QED  BY <1>0, <1>1, <2>1, <2>2 DEF Leads, Going
<1>10. SoleInv'
  BY <1>1, <1>2, <1>5, <1>6, <1>7, <1>8, <1>9, LoneStep DEF ContOf
<1>11. Advance
  BY EpochTypes DEF Advance
<1> QED  BY <1>10, <1>11

\* What the next turn changes in a copy.
LEMMA TurnFields ==
    ASSUME NEW cont \in Continuations
    PROVE  /\ NextTurn(cont).epoch = cont.epoch /\ NextTurn(cont).turn = cont.turn + 1
           /\ NextTurn(cont).status = "running"
           /\ Unparked(cont).epoch = cont.epoch /\ Unparked(cont).turn = cont.turn + 1
           /\ Unparked(cont).status = "running"
BY DEF NextTurn, Unparked, Continuations

\* The steps of the engine.
LEMMA EngineSole ==
    ASSUME OneProcess, TypeInv, TypeInv', SoleInv, NEW w \in Workers, EngineNext(w)
    PROVE  SoleInv' /\ Advance
<1>0. /\ w \in Actors /\ w \notin Clients
      /\ loc \in [Actors -> Continuations \cup {None}]
      /\ item \in [Actors -> Items \cup {None}]
      /\ MaxTurns \in Nat
      /\ CanStep(w) /\ pc[w] \in EnginePlaces
      /\ ContOf(w) \in Conts /\ store[ContOf(w)] \in Continuations
      /\ store' \in [Conts -> Continuations \cup {None}]
      /\ store \in [Conts -> Continuations \cup {None}]
  <2>1. CanStep(w) /\ pc[w] \in EnginePlaces
    BY DEF EngineNext, EngineEnter, EngineTurn, DriveNothing, Drive, SaveRunning, ResumeNothing,
       Resume, SaveResuming, GatedTool, SaveResolved, ParkAgain, FinishPark, MaxTurnsReached,
       FinalAnswer, ModelError, AskTools, RunTools, Park, IndexRefs, SaveTools, Continue,
       Preempted, At, EnginePlaces
  <2>2. pc[w] # "idle"
    BY <2>1 DEF EnginePlaces
  <2> QED  BY <2>1, <2>2, BusyActor, RuntimeAssumption DEF Actors, TypeInv, TypeOK
<1>1. ASSUME pc[w] \in Driving
      PROVE  /\ loc[w] \in Continuations /\ Leads(w)
             /\ pc[w] # "indexRefs" => loc[w].status \in Going
             /\ loc[w].turn = store[ContOf(w)].turn
  <2>1. pc[w] \in CopyPlaces
    BY <1>1 DEF Driving, CopyPlaces
  <2> QED  BY <1>0, <1>1, <2>1, CopyHolder DEF SoleInv, Leads
<1> USE DEF history, At, Goto, SetLoc, Save
<1>2. ASSUME NEW place \in SettlePlaces, pc[w] = "starting", Settled(w, place)
      PROVE  SoleInv' /\ Advance
  <2>1. /\ pc' = [pc EXCEPT ![w] = place] /\ UNCHANGED <<store, ledger, queue, item, loc, up>>
        /\ place \notin Driving \cup EnqueuePlaces /\ place \notin EnginePlaces
        /\ place \notin Bumping /\ place # "starting"
    BY <1>2 DEF Settled, SettlePlaces, Driving, EnginePlaces, EnqueuePlaces, Bumping
  <2>2. BagToSet(queue') \subseteq Entries /\ item'[w] \in Entries
    BY <1>2, <2>1 DEF Entries, Settled
  <2>3. \A v \in Workers \ {w} : Claimable(ledger[ContOf(v)]) => Rivalled(v)
    BY DEF Rivalled
  <2> QED  BY <1>0, <2>1, <2>2, <2>3, PassiveStep DEF EnqueuePlaces
<1>3. CASE DriveNothing(w)
  BY <1>2, <1>3 DEF DriveNothing, SettlePlaces
<1>4. CASE ResumeNothing(w)
  BY <1>2, <1>4 DEF ResumeNothing, SettlePlaces
<1>5. CASE Drive(w)
  <2> DEFINE cont == store[ContOf(w)]
             copy == Redriven(cont)
  <2>1. /\ pc[w] = "starting" /\ item[w].res = None
        /\ pc' = [pc EXCEPT ![w] = "saveRunning"]
        /\ loc' = [loc EXCEPT ![w] = copy]
        /\ UNCHANGED <<store, ledger, queue, item, up>>
    BY <1>5 DEF Drive
  <2>2. cont.status \in Going
    BY <1>0, <1>5 DEF Drive, Drivable, Going, Continuations, ContStatus
  <2>3. copy.epoch = cont.epoch /\ copy.turn = cont.turn /\ copy.status \in Going
    BY <1>0 DEF Redriven, Continuations, Going
  <2> HIDE DEF copy
  <2> QED  BY <1>0, <2>1, <2>2, <2>3, StarterStep
<1>6. CASE Resume(w)
  <2> DEFINE cont == store[ContOf(w)]
             copy == [cont EXCEPT !.status = "resuming"]
  <2>1. /\ pc[w] = "starting" /\ cont.status = "suspended"
        /\ pc' = [pc EXCEPT ![w] = "saveResuming"]
        /\ loc' = [loc EXCEPT ![w] = copy]
        /\ UNCHANGED <<store, ledger, queue, item, up>>
    BY <1>6 DEF Resume, Resumable
  <2>2. copy.epoch = cont.epoch /\ copy.turn = cont.turn /\ copy.status \in Going
    BY <1>0 DEF Continuations, Going
  <2> HIDE DEF copy
  <2> QED  BY <1>0, <2>1, <2>2, StarterStep
<1>7. ASSUME NEW place \in (Driving \ {"saveResuming", "indexRefs"}) \cup SettlePlaces,
             pc[w] \in Driving \ {"saveResuming", "indexRefs"},
             pc' = [pc EXCEPT ![w] = place],
             NEW copy \in Continuations, loc' = [loc EXCEPT ![w] = copy],
             copy.epoch = loc[w].epoch, copy.turn = loc[w].turn, copy.status = loc[w].status,
             UNCHANGED <<store, ledger, queue, item, up>>
      PROVE  SoleInv' /\ Advance
  <2>1. /\ loc[w] \in Continuations /\ loc[w].turn = store[ContOf(w)].turn
        /\ loc[w].status \in Going /\ store[ContOf(w)].status \in Going
    BY <1>1, <1>7 DEF Leads
  <2>2. loc[w].turn >= loc[w].turn /\ store' = store
    BY <1>0, <1>7, <2>1 DEF Continuations
  <2>3. place \in Driving =>
              LET cont == store'[ContOf(w)]
              IN  /\ copy.turn = cont.turn
                  /\ place # "indexRefs" => copy.status \in Going
                  /\ IF place \in {"saveResuming", "indexRefs"}
                       THEN cont.status = "suspended" ELSE cont.status \in Going
    BY <1>7, <2>1, <2>2 DEF SettlePlaces
  <2>4. pc[w] \in Driving /\ UNCHANGED <<ledger, queue, item, up>>
    BY <1>7
  <2> QED  BY <1>0, <1>7, <2>1, <2>2, <2>3, <2>4, DriverStep
<1>8. ASSUME NEW place \in Driving \cup SettlePlaces \cup {"enqLoad"},
             pc[w] \in Driving,
             pc' = [pc EXCEPT ![w] = place],
             NEW saved \in Continuations, store' = [store EXCEPT ![ContOf(w)] = saved],
             saved.epoch = loc[w].epoch, saved.turn >= loc[w].turn,
             NEW copy, loc' = [loc EXCEPT ![w] = copy],
             copy.epoch = loc[w].epoch,
             place \in Driving => copy.turn = saved.turn,
             place = "indexRefs" => saved.status = "suspended",
             place \in Driving \ {"indexRefs"} =>
               saved.status \in Going /\ copy.status \in Going /\ place # "saveResuming",
             UNCHANGED <<ledger, queue, item, up>>
      PROVE  SoleInv' /\ Advance
  <2>1. store'[ContOf(w)] = saved
    BY <1>0, <1>8
  <2>2. place # "saveResuming" \/ place \notin Driving
    BY <1>8
  <2>3. place \in Driving =>
              LET cont == store'[ContOf(w)]
              IN  /\ copy.turn = cont.turn
                  /\ place # "indexRefs" => copy.status \in Going
                  /\ IF place \in {"saveResuming", "indexRefs"}
                       THEN cont.status = "suspended" ELSE cont.status \in Going
    BY <1>8, <2>1, <2>2
  <2> QED  BY <1>0, <1>8, <2>3, DriverStep
<1>9. ASSUME NEW place \in (Driving \ {"saveResuming", "indexRefs"}) \cup SettlePlaces \cup {"enqLoad"},
             pc[w] \in Driving \ {"indexRefs"},
             pc' = [pc EXCEPT ![w] = place],
             store' = [store EXCEPT ![ContOf(w)] = loc[w]],
             NEW copy, loc' = [loc EXCEPT ![w] = copy],
             copy.epoch = loc[w].epoch, copy.turn = loc[w].turn, copy.status = loc[w].status,
             UNCHANGED <<ledger, queue, item, up>>
      PROVE  SoleInv' /\ Advance
  <2>1. loc[w] \in Continuations /\ loc[w].status \in Going /\ loc[w].turn >= loc[w].turn
    BY <1>0, <1>1, <1>9 DEF Continuations
  <2>2. (loc[w].status \in Going /\ place # "saveResuming") \/ place \notin Driving
    BY <1>9, <2>1 DEF SettlePlaces, Driving, EnginePlaces
  <2>3. place # "indexRefs" /\ (place \in Driving => copy.status \in Going)
    BY <1>9, <2>1 DEF SettlePlaces
  <2> QED  BY <1>8, <1>9, <2>1, <2>2, <2>3
<1>10. CASE SaveRunning(w)
  <2>1. StepPlace(loc[w]) \in {"turn", "maxTurns"} /\ loc' = [loc EXCEPT ![w] = loc[w]]
    BY <1>0, <1>10 DEF StepPlace, SaveRunning
  <2> QED  BY <1>9, <1>10, <2>1 DEF SaveRunning, Driving, EnginePlaces
<1>11. CASE SaveResuming(w)
  <2> DEFINE res == SetCall(loc[w], ResolvedCall(w),
                      IF item[w].res.outcome = "reject" THEN "rejected" ELSE "executed")
  <2>1. /\ pc[w] = "saveResuming" /\ pc' = [pc EXCEPT ![w] = AfterResuming(w)]
        /\ store' = [store EXCEPT ![ContOf(w)] = loc[w]]
        /\ loc' = [loc EXCEPT ![w] = IF AfterResuming(w) = "saveResolved" THEN res ELSE loc[w]]
        /\ UNCHANGED <<ledger, queue, item, up>>
    BY <1>11 DEF SaveResuming
  <2>2. AfterResuming(w) \in {"settleFailed", "resolved", "gatedTool", "saveResolved"}
    BY DEF AfterResuming
  <2>3. loc[w] \in Continuations
    BY <1>1, <2>1 DEF Driving, EnginePlaces
  <2>4. res.epoch = loc[w].epoch /\ res.turn = loc[w].turn /\ res.status = loc[w].status
    BY <2>3 DEF SetCall, Continuations
  <2> HIDE DEF res
  <2>5. PICK copy : /\ copy = IF AfterResuming(w) = "saveResolved" THEN res ELSE loc[w]
                    /\ loc' = [loc EXCEPT ![w] = copy]
    BY <2>1
  <2>6. copy.epoch = loc[w].epoch /\ copy.turn = loc[w].turn /\ copy.status = loc[w].status
    BY <2>4, <2>5
  <2> QED  BY <1>9, <2>1, <2>2, <2>5, <2>6 DEF Driving, EnginePlaces, SettlePlaces
<1>12. ASSUME NEW times \in 0 .. ToolAttempts, GatedTool(w, times)
       PROVE  SoleInv' /\ Advance
  <2> DEFINE copy == SetCall(loc[w], ResolvedCall(w), "executed")
  <2>1. /\ pc[w] = "gatedTool" /\ pc' = [pc EXCEPT ![w] = "saveResolved"]
        /\ loc' = [loc EXCEPT ![w] = copy]
        /\ UNCHANGED <<store, ledger, queue, item, up>>
    BY <1>12 DEF GatedTool
  <2>2. loc[w] \in Continuations
    BY <1>1, <2>1 DEF Driving, EnginePlaces
  <2>3. copy.epoch = loc[w].epoch /\ copy.turn = loc[w].turn /\ copy.status = loc[w].status
    BY <2>2 DEF SetCall, Continuations
  <2>4. copy \in Continuations
    <3>1. loc'[w] = copy /\ pc'[w] \in CopyPlaces
      BY <1>0, <2>1 DEF TypeInv, TypeOK, CopyPlaces, EnginePlaces
    <3> QED  BY <1>0, <3>1 DEF TypeInv, TypeOK, InHand
  <2> HIDE DEF copy
  <2> QED  BY <1>7, <2>1, <2>3, <2>4 DEF Driving, EnginePlaces
<1>13. CASE SaveResolved(w)
  <2>1. loc' = [loc EXCEPT ![w] = loc[w]]
    BY <1>0, <1>13 DEF SaveResolved
  <2> QED  BY <1>9, <1>13, <2>1 DEF SaveResolved, Driving, EnginePlaces
<1>14. ASSUME NEW status \in ContStatus, NEW place \in SettlePlaces,
              pc[w] \in Driving, End(w, status, place)
       PROVE  SoleInv' /\ Advance
  <2> DEFINE last == [loc[w] EXCEPT !.status = status]
  <2>1. /\ pc' = [pc EXCEPT ![w] = place]
        /\ store' = [store EXCEPT ![ContOf(w)] = last]
        /\ loc' = [loc EXCEPT ![w] = last]
        /\ UNCHANGED <<ledger, queue, item, up>>
    BY <1>14 DEF End
  <2>2. last \in Continuations /\ last.epoch = loc[w].epoch /\ last.turn >= loc[w].turn
    BY <1>0, <1>1, <1>14 DEF Continuations
  <2>3. place \notin Driving /\ place # "indexRefs"
    BY DEF SettlePlaces, Driving, EnginePlaces
  <2> HIDE DEF last
  <2> QED  BY <1>8, <1>14, <2>1, <2>2, <2>3
<1>15. CASE ParkAgain(w)
  <2>1. End(w, "suspended", "settleDone")
    BY <1>15 DEF ParkAgain, End
  <2>2. pc[w] \in Driving /\ "suspended" \in ContStatus /\ "settleDone" \in SettlePlaces
    BY <1>15 DEF ParkAgain, Driving, EnginePlaces, ContStatus, SettlePlaces
  <2> QED  BY <1>14, <2>1, <2>2
<1>16. ASSUME MaxTurnsReached(w) \/ FinalAnswer(w) \/ Preempted(w) \/ ModelError(w)
       PROVE  SoleInv' /\ Advance
  <2>1. pc[w] \in Driving
    BY <1>16 DEF MaxTurnsReached, FinalAnswer, Preempted, ModelError, Driving, EnginePlaces
  <2>2. \E status \in {"done", "failed"}, place \in SettlePlaces : End(w, status, place)
    BY <1>16 DEF MaxTurnsReached, FinalAnswer, Preempted, ModelError, SettlePlaces
  <2> QED  BY <1>14, <2>1, <2>2 DEF ContStatus
<1>17. CASE FinishPark(w)
  <2>1. /\ pc[w] = "resolved" /\ pc' = [pc EXCEPT ![w] = StepPlace(Unparked(loc[w]))]
        /\ store' = [store EXCEPT ![ContOf(w)] = Unparked(loc[w])]
        /\ loc' = [loc EXCEPT ![w] = Unparked(loc[w])]
        /\ UNCHANGED <<ledger, queue, item, up>>
    BY <1>17 DEF FinishPark
  <2>2. loc[w] \in Continuations /\ loc[w].turn < MaxTurns
    BY <1>0, <1>1, <2>1 DEF TypeInv, InHand, OpenPlaces, Driving, EnginePlaces
  <2>3. /\ Unparked(loc[w]) \in Continuations
        /\ Unparked(loc[w]).epoch = loc[w].epoch /\ Unparked(loc[w]).turn >= loc[w].turn
        /\ Unparked(loc[w]).status \in Going
    BY <1>0, <2>2, UnparkedType, TurnFields DEF Continuations, Going
  <2>4. StepPlace(Unparked(loc[w])) \in {"turn", "maxTurns"}
    BY DEF StepPlace
  <2> QED  BY <1>8, <2>1, <2>3, <2>4 DEF Driving, EnginePlaces
<1>18. ASSUME NEW calls \in SUBSET Calls \ {{}}, AskTools(w, calls)
       PROVE  SoleInv' /\ Advance
  <2>1. loc' = [loc EXCEPT ![w] = loc[w]] /\ loc[w] \in Continuations
    BY <1>0, <1>1, <1>18 DEF AskTools, Driving, EnginePlaces
  <2> QED  BY <1>7, <1>18, <2>1 DEF AskTools, Driving, EnginePlaces
<1>19. CASE RunTools(w)
  <2>1. loc' = [loc EXCEPT ![w] = loc[w]] /\ loc[w] \in Continuations
    BY <1>0, <1>1, <1>19 DEF RunTools, Driving, EnginePlaces
  <2> QED  BY <1>7, <1>19, <2>1 DEF RunTools, Driving, EnginePlaces
<1>20. CASE Park(w)
  <2>1. /\ pc[w] = "saveTurn" /\ pc' = [pc EXCEPT ![w] = "indexRefs"]
        /\ store' = [store EXCEPT ![ContOf(w)] = Parked(w)]
        /\ loc' = [loc EXCEPT ![w] = Parked(w)]
        /\ UNCHANGED <<ledger, queue, item, up>>
    BY <1>20 DEF Park
  <2>2. loc[w] \in Continuations
    BY <1>1, <2>1 DEF Driving, EnginePlaces
  <2>3. /\ Parked(w).epoch = loc[w].epoch /\ Parked(w).turn >= loc[w].turn
        /\ Parked(w).status = "suspended"
    BY <1>0, <2>2 DEF Parked, Continuations
  <2>4. Parked(w) \in Continuations
    <3>1. loc'[w] = Parked(w) /\ pc'[w] \in CopyPlaces
      BY <1>0, <2>1 DEF TypeInv, TypeOK, CopyPlaces, EnginePlaces
    <3> QED  BY <1>0, <3>1 DEF TypeInv, TypeOK, InHand
  <2> QED  BY <1>8, <2>1, <2>3, <2>4 DEF Driving, EnginePlaces
<1>21. CASE IndexRefs(w)
  <2>1. /\ pc[w] = "indexRefs" /\ pc' = [pc EXCEPT ![w] = "settleDone"]
        /\ loc' = [loc EXCEPT ![w] = loc[w]]
        /\ UNCHANGED <<store, ledger, queue, item, up>>
    BY <1>0, <1>21 DEF IndexRefs
  <2>2. loc[w] \in Continuations /\ loc[w].turn >= loc[w].turn
    BY <1>0, <1>1, <2>1 DEF Driving, EnginePlaces, Continuations
  <2>3. "settleDone" \notin Driving /\ "settleDone" \in SettlePlaces /\ pc[w] \in Driving
    BY <2>1 DEF Driving, EnginePlaces, SettlePlaces
  <2> QED  BY <1>0, <2>1, <2>2, <2>3, DriverStep
<1>22. CASE SaveTools(w)
  <2>1. loc' = [loc EXCEPT ![w] = loc[w]]
    BY <1>0, <1>22 DEF SaveTools
  <2> QED  BY <1>9, <1>22, <2>1 DEF SaveTools, Driving, EnginePlaces
<1>23. CASE Continue(w)
  <2> DEFINE place == IF loc[w].turn + 1 < MaxTurns THEN AfterContinue(w) ELSE "maxTurns"
  <2>1. /\ pc[w] = "turnDone" /\ pc' = [pc EXCEPT ![w] = place]
        /\ store' = [store EXCEPT ![ContOf(w)] = NextTurn(loc[w])]
        /\ loc' = [loc EXCEPT ![w] = NextTurn(loc[w])]
        /\ UNCHANGED <<ledger, queue, item, up>>
    BY <1>23 DEF Continue
  <2>2. loc[w] \in Continuations /\ loc[w].turn < MaxTurns
    BY <1>0, <1>1, <2>1 DEF TypeInv, InHand, OpenPlaces, Driving, EnginePlaces
  <2>3. /\ NextTurn(loc[w]) \in Continuations
        /\ NextTurn(loc[w]).epoch = loc[w].epoch /\ NextTurn(loc[w]).turn >= loc[w].turn
        /\ NextTurn(loc[w]).status \in Going
    BY <1>0, <2>2, NextTurnType, TurnFields DEF Continuations, Going
  <2>4. place \in {"settleDone", "enqLoad", "maxTurns"}
    BY DEF AfterContinue
  <2> HIDE DEF place
  <2> QED  BY <1>8, <2>1, <2>3, <2>4 DEF Driving, EnginePlaces, SettlePlaces
<1> QED  BY <1>3, <1>4, <1>5, <1>6, <1>10, <1>11, <1>12, <1>13, <1>15, <1>16, <1>17, <1>18, <1>19,
            <1>20, <1>21, <1>22, <1>23 DEF EngineNext, EngineEnter, EngineTurn

\* The steps of the enqueuer: between the load and the push no other actor of
\* the process comes in between.
LEMMA EnqueueSole ==
    ASSUME OneProcess, TypeInv, TypeInv', SoleInv, NEW a \in Actors, Enqueue(a)
    PROVE  SoleInv' /\ Advance
<1>0. PICK c : c = ContOf(a)
  OBVIOUS
<1>1. CanStep(a) /\ pc[a] \in EnqueuePlaces /\ pc[a] # "idle"
  BY DEF Enqueue, EnqueueLoad, EnqueueSave, EnqueueUpsert, EnqueuePush, At, EnqueuePlaces
<1>2. /\ c \in Conts /\ store[c] \in Continuations /\ store[c] # None
      /\ loc \in [Actors -> Continuations \cup {None}]
      /\ store \in [Conts -> Continuations \cup {None}]
      /\ ledger \in [Conts -> Row \cup {None}]
      /\ pc \in [Actors -> Places]
  BY <1>0, <1>1, BusyActor, NoneAssumption DEF TypeInv, TypeOK
<1>3. a \in Workers => item[a] \in Entries
  BY <1>1 DEF Entries
<1>4. \A d \in Conts : store[d] # None => UpTo(d, store[d].epoch)
  BY DEF SoleInv
<1>5. ASSUME NEW place \in Bumping, pc[a] \in Bumping, pc' = [pc EXCEPT ![a] = place], item' = item
      PROVE  Taking(a)' => \A w \in Workers \ {a} : pc[w] \in Driving => ContOf(w) # c
  <2>1. pc'[a] = place /\ place \notin Driving
    BY <1>2, <1>5 DEF Bumping, EnqueuePlaces, Driving, EnginePlaces
  <2>2. Taking(a)' => Taking(a)
    BY <1>5, <2>1 DEF Taking
  <2> QED  BY <1>0, <2>2, TakerAlone
<1>6. ASSUME NEW place, place \in {"enqSave", "enqUpsert"}, pc' = [pc EXCEPT ![a] = place],
             \A b \in Actors \ {a} : loc'[b] = loc[b],
             UNCHANGED <<ledger, queue, item, up>>,
             \A d \in Conts : store[d] # None => store'[d].turn = store[d].turn
                                                   /\ store'[d].status = store[d].status
      PROVE  /\ \A d : BareOf(d)' \subseteq BareOf(d)
             /\ \A w \in Workers \ {a} : pc[w] \in Driving => Leads(w)'
             /\ a \in Clients => place \in EnqueuePlaces \cup {"idle"}
             /\ \A b \in Actors \ {a} : item'[b] = item[b]
             /\ place \notin Driving
  <2>1. \A b \in Actors \ {a} : item'[b] = item[b] /\ pc'[b] = pc[b]
    BY <1>2, <1>6
  <2>2. BagToSet(queue') \subseteq Entries /\ (a \in Workers => item'[a] \in Entries)
    BY <1>3, <1>6 DEF Entries
  <2>3. \A d : BareOf(d)' \subseteq BareOf(d)
    BY <1>6, <2>1, <2>2, FewerEntries
  <2>4. ASSUME NEW w \in Workers \ {a}, pc[w] \in Driving
        PROVE  Leads(w)'
    <3>1. PICK d : d = ContOf(w)
      OBVIOUS
    <3>2. d \in Conts /\ store[d] # None /\ w \in Actors
      BY <2>4, <3>1, BusyActor, NoneAssumption DEF Driving, EnginePlaces, Actors
    <3>3. BareOf(d)' \subseteq BareOf(d)
      BY <2>3
    <3>4. Claimable(ledger'[d]) => Rivalled(w)
      BY <1>6, <3>1 DEF Rivalled
    <3>5. pc'[a] \notin EnginePlaces /\ loc'[w] = loc[w]
      BY <1>2, <1>6, <3>2 DEF EnginePlaces
    <3>6. \A v \in Workers \ {a} : pc'[v] = pc[v] /\ item'[v] = item[v]
      BY <2>1 DEF Actors
    <3>7. ledger'[d].epoch = ledger[d].epoch
      BY <1>6
    <3>8. store'[d].turn = store[d].turn /\ store'[d].status = store[d].status
      BY <1>6, <3>2
    <3> QED  BY <2>4, <3>1, <3>3, <3>4, <3>5, <3>6, <3>7, <3>8, Onlooker
  <2> QED  BY <1>6, <2>1, <2>3, <2>4 DEF EnqueuePlaces, Driving, EnginePlaces
<1>7. CASE EnqueueLoad(a)
  <2>1. /\ pc[a] = "enqLoad" /\ pc' = [pc EXCEPT ![a] = "enqSave"]
        /\ loc' = [loc EXCEPT ![a] = [store[c] EXCEPT !.epoch = @ + 1]]
        /\ UNCHANGED <<store, ledger, queue, item, up>>
    BY <1>0, <1>7 DEF EnqueueLoad, At, Goto, SetLoc, history
  <2>2. \A b \in Actors \ {a} : loc'[b] = loc[b]
    BY <1>2, <2>1
  <2>3. /\ \A d : BareOf(d)' \subseteq BareOf(d)
        /\ \A w \in Workers \ {a} : pc[w] \in Driving => Leads(w)'
        /\ a \in Clients => "enqSave" \in EnqueuePlaces \cup {"idle"}
        /\ \A b \in Actors \ {a} : item'[b] = item[b]
        /\ "enqSave" \notin Driving
    BY <1>6, <2>1, <2>2
  <2>4. AtWork(a)'
    BY <1>0, <1>2, <2>1 DEF AtWork, ContOf
  <2>5. Taking(a)' => \A w \in Workers \ {a} : pc[w] \in Driving => ContOf(w) # item'[a].cont
    BY <1>0, <1>5, <2>1 DEF Bumping, EnqueuePlaces, ContOf
  <2>6. \A d \in Conts : store'[d] # None => UpTo(d, store[d].epoch)'
    BY <1>4, <2>1, <2>3 DEF UpTo
  <2>7. SoleInv'
    BY <1>1, <2>1, <2>2, <2>3, <2>4, <2>5, <2>6, LoneStep
  <2>8. Advance
    BY <2>1, EpochTypes DEF Advance
  <2> QED  BY <2>7, <2>8
<1>8. CASE EnqueueSave(a)
  <2>1. /\ pc[a] = "enqSave" /\ pc' = [pc EXCEPT ![a] = "enqUpsert"]
        /\ store' = [store EXCEPT ![c] = loc[a]]
        /\ UNCHANGED <<ledger, queue, item, loc, up>>
    BY <1>0, <1>8 DEF EnqueueSave, At, Goto, Save, history
  <2>2. loc[a] = [store[c] EXCEPT !.epoch = @ + 1]
    BY <1>0, <2>1 DEF SoleInv, AtWork
  <2>3. /\ loc[a].epoch = store[c].epoch + 1 /\ store[c].epoch \in Nat
        /\ loc[a].turn = store[c].turn /\ loc[a].status = store[c].status
    BY <1>2, <2>2 DEF Continuations
  <2>4. /\ store'[c] = loc[a]
        /\ \A d \in Conts \ {c} : store'[d] = store[d]
    BY <1>2, <2>1
  <2>5. \A d \in Conts : store[d] # None => store'[d].turn = store[d].turn
                                              /\ store'[d].status = store[d].status
    BY <2>3, <2>4
  <2>6. /\ \A d : BareOf(d)' \subseteq BareOf(d)
        /\ \A w \in Workers \ {a} : pc[w] \in Driving => Leads(w)'
        /\ a \in Clients => "enqUpsert" \in EnqueuePlaces \cup {"idle"}
        /\ \A b \in Actors \ {a} : item'[b] = item[b]
        /\ "enqUpsert" \notin Driving
    BY <1>6, <2>1, <2>5
  <2>7. /\ Below(c, loc[a].epoch) /\ UpTo(c, loc[a].epoch)
    <3>1. \A it \in BareOf(c) : it.epoch \in Nat /\ it.epoch <= store[c].epoch
      BY <1>2, <1>4, EpochTypes DEF UpTo
    <3> QED  BY <2>3, <3>1 DEF Below, UpTo
  <2>8. AtWork(a)'
    <3>1. ContOf(a)' = c /\ pc'[a] = "enqUpsert" /\ loc'[a] = store'[c]
      BY <1>0, <1>2, <2>1, <2>4 DEF ContOf
    <3>2. Below(c, loc[a].epoch)'
      BY <2>1, <2>6, <2>7 DEF Below
    <3> QED  BY <3>1, <3>2 DEF AtWork
  <2>9. Taking(a)' => \A w \in Workers \ {a} : pc[w] \in Driving => ContOf(w) # item'[a].cont
    BY <1>0, <1>5, <2>1 DEF Bumping, EnqueuePlaces, ContOf
  <2>10. \A d \in Conts : store'[d] # None => UpTo(d, store[d].epoch)'
    <3>1. \A d \in Conts : store'[d] # None => UpTo(d, store'[d].epoch)
      BY <1>4, <2>4, <2>7
    <3> QED  BY <2>6, <3>1 DEF UpTo
  <2>11. SoleInv'
    BY <1>1, <2>1, <2>6, <2>8, <2>9, <2>10, LoneStep
  <2>12. Advance
    BY <2>5, EpochTypes DEF Advance
  <2> QED  BY <2>11, <2>12
<1>9. CASE EnqueueUpsert(a)
  <2>1. /\ pc[a] = "enqUpsert" /\ pc' = [pc EXCEPT ![a] = "enqPush"]
        /\ ledger' = [ledger EXCEPT ![c] = UpsertQueued(@, loc[a].epoch)]
        /\ UNCHANGED <<store, queue, item, loc, up>>
    BY <1>0, <1>9 DEF EnqueueUpsert, At, Goto, history
  <2>2. loc[a] = store[c] /\ Below(c, loc[a].epoch) /\ loc[a].epoch \in Nat
    BY <1>0, <1>2, <2>1 DEF SoleInv, AtWork, Continuations
  <2>3. /\ ledger'[c].epoch = loc[a].epoch
        /\ \A d \in Conts \ {c} : ledger'[d] = ledger[d]
    BY <1>2, <2>1 DEF UpsertQueued
  <2>4. /\ pc'[a] = "enqPush"
        /\ \A b \in Actors \ {a} : pc'[b] = pc[b] /\ item'[b] = item[b] /\ loc'[b] = loc[b]
    BY <1>2, <2>1
  <2>5. NewEntry(a)' = NewEntry(a) /\ NewEntry(a).cont = c /\ NewEntry(a).epoch = loc[a].epoch
    BY <1>0, <2>1 DEF NewEntry, ContOf
  <2>6. Entries' \subseteq Entries \cup {NewEntry(a)}
    <3>1. \A b \in Actors : NewEntry(b)' = NewEntry(b)
      BY <2>1 DEF NewEntry, ContOf
    <3>2. \A w \in Workers : pc'[w] # "idle" => pc[w] # "idle"
      BY <1>1, <2>4 DEF Actors
    <3>3. \A b \in Actors : pc'[b] = "enqPush" => pc[b] = "enqPush" \/ b = a
      BY <2>4
    <3> QED  BY <2>1, <3>1, <3>2, <3>3 DEF Entries
  <2>7. \A d : BareOf(d)' \subseteq BareOf(d) \cup {NewEntry(a)}
    BY <2>6 DEF BareOf
  <2>8. \A d : d # c => BareOf(d)' \subseteq BareOf(d)
    BY <2>5, <2>6 DEF BareOf
  <2>9. ~Taking(a) => BareOf(c)' \subseteq BareOf(c)
    <3>1. SUFFICES ASSUME ~Taking(a)
                   PROVE  NewEntry(a).res # None
      BY <2>6 DEF BareOf
    <3>2. a \notin Workers /\ item[a].res # None
      BY <2>1, <3>1 DEF Taking, Bumping, EnqueuePlaces
    <3> QED  BY <3>2 DEF NewEntry
  <2>10. ASSUME NEW w \in Workers \ {a}, pc[w] \in Driving
         PROVE  Leads(w)'
    <3>1. PICK d : d = ContOf(w)
      OBVIOUS
    <3>2. d \in Conts /\ w \in Actors
      BY <2>10, <3>1, BusyActor DEF Driving, EnginePlaces, Actors
    <3>3. Taking(a) => d # c
      BY <1>0, <2>10, <3>1, TakerAlone
    <3>4. BareOf(d)' \subseteq BareOf(d)
      BY <2>8, <2>9, <3>3
    <3>5. CASE d = c
      <4>1. Below(d, ledger[d].epoch)'
        BY <2>2, <2>3, <3>4, <3>5 DEF Below
      <4>2. \A v \in Workers \ {a} : pc'[v] = pc[v] /\ item'[v] = item[v]
        BY <2>4 DEF Actors
      <4>3. loc'[w] = loc[w] /\ store' = store
        BY <2>1
      <4> QED  BY <2>10, <3>1, <3>4, <4>1, <4>2, <4>3, Onlooker
    <3>6. CASE d # c
      <4>1. ledger'[d] = ledger[d] /\ (Claimable(ledger'[d]) => Rivalled(w))
        BY <2>3, <3>1, <3>2, <3>6 DEF Rivalled
      <4>2. \A v \in Workers \ {a} : pc'[v] = pc[v] /\ item'[v] = item[v]
        BY <2>4 DEF Actors
      <4>3. loc'[w] = loc[w] /\ store' = store /\ pc'[a] \notin EnginePlaces
        BY <2>1, <2>4 DEF EnginePlaces
      <4> QED  BY <2>10, <3>1, <3>4, <4>1, <4>2, <4>3, Onlooker
    <3> QED  BY <3>5, <3>6
  <2>11. \A d \in Conts : store'[d] # None => UpTo(d, store[d].epoch)'
    <3>1. ASSUME NEW d \in Conts, store[d] # None
          PROVE  UpTo(d, store[d].epoch)'
      <4>1. UpTo(d, store[d].epoch)
        BY <1>4, <3>1
      <4>2. CASE d # c
        BY <2>1, <2>8, <4>1, <4>2 DEF UpTo
      <4>3. CASE d = c
        <5>1. NewEntry(a).epoch <= store[d].epoch
          BY <2>2, <2>5, <4>3
        <5> QED  BY <2>1, <2>7, <4>1, <5>1 DEF UpTo
      <4> QED  BY <4>2, <4>3
    <3> QED  BY <2>1, <3>1
  <2>12. ~Taking(a)' /\ AtWork(a)'
    BY <2>4 DEF Taking, Bumping, Driving, EnginePlaces, AtWork
  <2>13. a \in Clients => "enqPush" \in EnqueuePlaces \cup {"idle"}
    BY DEF EnqueuePlaces
  <2>14. "enqPush" \notin Driving
    BY DEF Driving, EnginePlaces
  <2>15. SoleInv'
    BY <1>1, <2>1, <2>4, <2>10, <2>11, <2>12, <2>13, <2>14, LoneStep
  <2>16. Advance
    BY <2>1, EpochTypes DEF Advance
  <2> QED  BY <2>15, <2>16
<1>10. CASE EnqueuePush(a)
  <2> DEFINE place == IF a \in Workers THEN "ack" ELSE "idle"
  <2>1. /\ pc[a] = "enqPush" /\ pc' = [pc EXCEPT ![a] = place]
        /\ queue' = queue (+) SetToBag({NewEntry(a)})
        /\ a \in Workers => item' = item
        /\ UNCHANGED <<store, ledger, up>>
    BY <1>10 DEF EnqueuePush, At, Goto, Release
  <2>2. \A b \in Actors \ {a} : item'[b] = item[b] /\ loc'[b] = loc[b]
    BY <1>10 DEF EnqueuePush, Release, SetLoc, TypeInv, TypeOK
  <2>3. BagToSet(queue') \subseteq Entries
    <3>1. BagToSet(queue') = BagToSet(queue) \cup {NewEntry(a)}
      BY <2>1, BagAdd DEF TypeInv, TypeOK
    <3> QED  BY <2>1, <3>1 DEF Entries
  <2>4. /\ place \in {"ack", "idle"} /\ (a \in Clients => place = "idle")
    BY RuntimeAssumption
  <2> HIDE DEF place
  <2>5. /\ place \notin Driving \cup {"enqSave", "enqUpsert", "enqPush", "starting"}
        /\ place \notin Bumping /\ place \notin EnginePlaces
    BY <2>4 DEF Driving, EnginePlaces, Bumping, EnqueuePlaces
  <2>6. \A w \in Workers : Claimable(ledger[ContOf(w)]) => Rivalled(w)
    BY DEF Rivalled
  <2> QED  BY <1>1, <1>3, <2>1, <2>2, <2>3, <2>4, <2>5, <2>6, PassiveStep
<1> QED  BY <1>7, <1>8, <1>9, <1>10 DEF Enqueue

\* An actor that drops what it was doing, or gives its entry back.
LEMMA DropSole ==
    ASSUME OneProcess, TypeInv, TypeInv', SoleInv,
           NEW a \in Actors, CanStep(a), Release(a),
           BagToSet(queue') \subseteq Entries,
           UNCHANGED <<store, ledger, up>>
    PROVE  SoleInv' /\ Advance
<1>1. /\ pc' = [pc EXCEPT ![a] = "idle"]
      /\ \A b \in Actors \ {a} : item'[b] = item[b] /\ loc'[b] = loc[b]
  BY DEF Release, Goto, SetLoc, TypeInv, TypeOK
<1>2. "idle" \notin Driving /\ "idle" \notin EnginePlaces /\ "idle" \notin Bumping
  BY DEF Driving, EnginePlaces, Bumping, EnqueuePlaces
<1>3. \A w \in Workers : Claimable(ledger[ContOf(w)]) => Rivalled(w)
  BY DEF Rivalled
<1> QED  BY <1>1, <1>2, <1>3, PassiveStep

\* A worker that moves on outside the engine, with the entry it has in hand,
\* and that perhaps gives up the row it had claimed.
LEMMA CarrySole ==
    ASSUME OneProcess, TypeInv, TypeInv', SoleInv,
           NEW w \in Workers, CanStep(w), pc[w] # "idle",
           NEW place \in {"ack", "nackAck", "nackPush"}, pc' = [pc EXCEPT ![w] = place],
           NEW row, ledger' = ledger \/ ledger' = [ledger EXCEPT ![ContOf(w)] = row],
           row.epoch = ledger[ContOf(w)].epoch,
           pc[w] \in EnginePlaces \/ ~Claimable(row),
           BagToSet(queue') \subseteq BagToSet(queue),
           UNCHANGED <<store, item, loc, up>>
    PROVE  SoleInv' /\ Advance
<1>1. /\ w \in Actors /\ w \notin Clients
      /\ place \notin Driving \cup {"enqSave", "enqUpsert", "enqPush"}
      /\ place \notin Bumping /\ place # "starting" /\ place \notin EnginePlaces
  BY RuntimeAssumption DEF Actors, Driving, EnginePlaces, Bumping, EnqueuePlaces
<1>2. BagToSet(queue') \subseteq Entries /\ item'[w] \in Entries
  BY DEF Entries
<1>3. ASSUME NEW v \in Workers \ {w}, pc[v] \in Driving
      PROVE  /\ ledger'[ContOf(v)].epoch = ledger[ContOf(v)].epoch
             /\ Claimable(ledger'[ContOf(v)]) => Rivalled(v)
  <2>1. ContOf(v) \in Conts /\ ledger \in [Conts -> Row \cup {None}]
    BY <1>3, BusyActor DEF Driving, EnginePlaces, Actors, TypeInv, TypeOK
  <2>2. CASE ledger'[ContOf(v)] = ledger[ContOf(v)]
    BY <2>2 DEF Rivalled
  <2>3. CASE ContOf(v) = ContOf(w) /\ ledger'[ContOf(v)] = row
    BY <2>3 DEF Rivalled
  <2> QED  BY <2>1, <2>2, <2>3
<1> QED  BY <1>1, <1>2, <1>3, PassiveStep

\* The steps of a worker outside the engine.
LEMMA WorkerSole ==
    ASSUME OneProcess, TypeInv, TypeInv', SoleInv, NEW w \in Workers, WorkerNext(w)
    PROVE  SoleInv' /\ Advance
<1>0. /\ w \in Actors /\ w \notin Clients
      /\ pc \in [Actors -> Places]
      /\ item \in [Actors -> Items \cup {None}]
      /\ ledger \in [Conts -> Row \cup {None}]
  BY RuntimeAssumption DEF Actors, TypeInv, TypeOK
<1> USE DEF history, At, Goto, Ledgered
<1>1. /\ BagToSet(Acked(w)) \subseteq BagToSet(queue)
      /\ BagToSet(queue) \subseteq Entries
  BY QueueLess DEF Entries
<1>2. ASSUME NEW it \in BagToSet(queue), Claim(w, it)
      PROVE  SoleInv' /\ Advance
  <2>1. /\ pc' = [pc EXCEPT ![w] = "claimed"] /\ CanStep(w)
        /\ item' = [item EXCEPT ![w] = it]
        /\ UNCHANGED <<store, ledger, queue, loc, up>>
    BY <1>2 DEF Claim
  <2>2. item'[w] = it /\ \A b \in Actors \ {w} : item'[b] = item[b] /\ loc'[b] = loc[b]
    BY <1>0, <2>1
  <2>3. it \in Entries /\ BagToSet(queue') \subseteq Entries
    BY <1>1, <2>1
  <2>4. "claimed" \notin Driving /\ "claimed" \notin EnginePlaces /\ "claimed" \notin Bumping
    BY DEF Driving, EnginePlaces, Bumping, EnqueuePlaces
  <2>5. \A v \in Workers : Claimable(ledger[ContOf(v)]) => Rivalled(v)
    BY DEF Rivalled
  <2> QED  BY <1>0, <2>1, <2>2, <2>3, <2>4, <2>5, PassiveStep
<1>3. CASE WinClaim(w)
  <2>1. /\ pc[w] = "claimed" /\ pc' = [pc EXCEPT ![w] = "starting"] /\ CanStep(w)
        /\ Claimable(ledger[ContOf(w)]) /\ ledger[ContOf(w)].epoch = item[w].epoch
        /\ ledger' = [ledger EXCEPT ![ContOf(w)] = MarkRunning(ledger[ContOf(w)])]
        /\ UNCHANGED <<store, queue, item, loc, up>>
    BY <1>3 DEF WinClaim, CanMarkRunning
  <2>2. /\ ContOf(w) \in Conts /\ ledger[ContOf(w)] \in Row
        /\ item'[w] \in Entries
    BY <1>0, <2>1, BusyActor DEF Claimable, Entries
  <2>3. LET row == ledger'[ContOf(w)]
        IN  /\ row.status = "running" /\ row.epoch = ledger[ContOf(w)].epoch
            /\ \A d \in Conts \ {ContOf(w)} : ledger'[d] = ledger[d]
    BY <1>0, <2>1, <2>2 DEF MarkRunning, Row
  <2>4. /\ "starting" \notin Driving \cup {"enqSave", "enqUpsert", "enqPush"}
        /\ "starting" \notin Bumping
    BY DEF Driving, Bumping, EnqueuePlaces
  <2>5. ASSUME NEW v \in Workers \ {w}, pc[v] \in Driving
        PROVE  LET d == ContOf(v)
               IN  /\ ledger'[d].epoch = ledger[d].epoch
                   /\ Claimable(ledger'[d]) \/ item'[w].cont = d => Rivalled(v)
    <3>1. ContOf(v) \in Conts /\ item'[w].cont = ContOf(w)
      BY <2>1, <2>5, BusyActor DEF Driving, EnginePlaces, Actors, ContOf
    <3> QED  BY <2>1, <2>3, <3>1 DEF Rivalled
  <2>6. BagToSet(queue') \subseteq Entries /\ item' = item /\ ContOf(w) = item'[w].cont
    BY <1>1, <2>1 DEF ContOf
  <2>7. /\ \A b \in Actors \ {w} : item'[b] = item[b] /\ loc'[b] = loc[b]
        /\ UNCHANGED <<store, up>>
    BY <2>1
  <2>8. LET row == ledger'[item'[w].cont]
        IN  row.status = "running" /\ row.epoch = item'[w].epoch
    BY <2>1, <2>3, <2>6
  <2> QED  BY <1>0, <2>1, <2>2, <2>4, <2>5, <2>6, <2>7, <2>8, PassiveStep
<1>4. CASE LoseClaim(w)
  BY <1>0, <1>1, <1>4, DropSole DEF LoseClaim
<1>5. CASE SettleDone(w)
  <2>1. /\ pc[w] = "settleDone" /\ pc' = [pc EXCEPT ![w] = "ack"] /\ CanStep(w)
        /\ ledger' = [ledger EXCEPT ![ContOf(w)] = Finalize(ledger[ContOf(w)], "done")]
        /\ UNCHANGED <<store, queue, item, loc, up>>
    BY <1>5 DEF SettleDone
  <2>2. ledger[ContOf(w)] \in Row \cup {None}
    BY <1>0, <2>1, BusyActor
  <2>3. /\ Finalize(ledger[ContOf(w)], "done").epoch = ledger[ContOf(w)].epoch
        /\ ~Claimable(Finalize(ledger[ContOf(w)], "done"))
    BY <2>2 DEF Finalize, Claimable, Row
  <2> HIDE DEF Goto, Ledgered
  <2> QED  BY <2>1, <2>3, CarrySole
<1>6. CASE SettleFailed(w)
  BY <1>0, <1>1, <1>6, DropSole DEF SettleFailed
<1>7. CASE Ack(w)
  BY <1>0, <1>1, <1>7, DropSole DEF Ack
<1>8. CASE NackAck(w)
  <2>1. /\ pc[w] = "nackAck" /\ pc' = [pc EXCEPT ![w] = "nackPush"] /\ CanStep(w)
        /\ BagToSet(queue') \subseteq BagToSet(queue)
        /\ UNCHANGED <<store, ledger, item, loc, up>>
    BY <1>1, <1>8 DEF NackAck
  <2>2. PICK row : row.epoch = ledger[ContOf(w)].epoch /\ ~Claimable(row)
    <3>1. ~Claimable([status |-> "done", epoch |-> ledger[ContOf(w)].epoch])
      BY DEF Claimable
    <3> QED  BY <3>1
  <2> QED  BY <2>1, <2>2, CarrySole
<1>9. CASE NackPush(w)
  <2>1. pc[w] = "nackPush" /\ CanStep(w) /\ queue' = queue (+) SetToBag({item[w]})
    BY <1>9 DEF NackPush, Entry
  <2>2. BagToSet(queue') \subseteq Entries
    <3>1. BagToSet(queue') = BagToSet(queue) \cup {item[w]}
      BY <2>1, BagAdd DEF TypeInv, TypeOK
    <3> QED  BY <1>0, <2>1, <3>1 DEF Entries
  <2> QED  BY <1>0, <1>9, <2>1, <2>2, DropSole DEF NackPush
<1> QED  BY <1>0, <1>2, <1>3, <1>4, <1>5, <1>6, <1>7, <1>8, <1>9, EnqueueSole
         DEF WorkerNext, WorkerClaim, WorkerSettle

\* The steps of a client.
LEMMA ClientSole ==
    ASSUME OneProcess, TypeInv, TypeInv', SoleInv, NEW cl \in Clients, ClientNext(cl)
    PROVE  SoleInv' /\ Advance
<1>0. /\ cl \in Actors /\ cl \notin Workers
      /\ pc \in [Actors -> Places]
      /\ item \in [Actors -> Items \cup {None}]
      /\ store \in [Conts -> Continuations \cup {None}]
  BY RuntimeAssumption DEF Actors, TypeInv, TypeOK
<1>1. cl \notin Direct /\ pc[cl] # "retry"
  BY DEF OneProcess, SoleInv, Serial, EnqueuePlaces
<1> USE DEF history, At, Goto
<1>2. ASSUME NEW c \in Conts, Invoke(cl, c)
      PROVE  SoleInv' /\ Advance
  <2> DEFINE it == [cont |-> c, epoch |-> 0, res |-> None]
  <2>1. /\ pc[cl] = "idle" /\ CanStep(cl) /\ store[c] = None
        /\ pc' = [pc EXCEPT ![cl] = "enqLoad"]
        /\ item' = [item EXCEPT ![cl] = it]
        /\ store' = [store EXCEPT ![c] = NewContinuation]
        /\ UNCHANGED <<ledger, queue, loc, up>>
    BY <1>2 DEF Invoke
  <2>2. /\ item'[cl] = it /\ it.cont = c
        /\ \A b \in Actors \ {cl} : item'[b] = item[b] /\ pc'[b] = pc[b] /\ loc'[b] = loc[b]
        /\ pc'[cl] = "enqLoad" /\ cl \in Actors
    BY <1>0, <2>1
  <2> HIDE DEF it
  <2>3. \A e \in Entries : store[e.cont] # None
    BY DEF Entries, TypeInv, InHand, Known, NewEntry, ContOf, Actors
  <2>4. \A d : BareOf(d)' \subseteq BareOf(d)
    <3>1. BagToSet(queue') \subseteq Entries
      BY <2>1 DEF Entries
    <3> QED  BY <1>0, <2>1, <2>2, <3>1, FewerEntries
  <2>5. BareOf(c)' = {}
    BY <2>1, <2>3, <2>4 DEF BareOf
  <2>6. \A w \in Workers : pc[w] \in Driving => store[ContOf(w)] # None
    BY DEF TypeInv, InHand, Driving, EnginePlaces, Actors
  <2>7. ASSUME NEW w \in Workers \ {cl}, pc[w] \in Driving
        PROVE  Leads(w)' /\ ContOf(w) # c
    <3>1. PICK d : d = ContOf(w)
      OBVIOUS
    <3>2. d # c /\ d \in Conts
      BY <2>1, <2>6, <2>7, <3>1, BusyActor DEF Driving, EnginePlaces, Actors
    <3>3. store'[d] = store[d] /\ loc'[w] = loc[w]
      BY <1>0, <2>1, <3>2
    <3>4. BareOf(d)' \subseteq BareOf(d)
      BY <2>4
    <3>5. ledger'[d] = ledger[d] /\ (Claimable(ledger'[d]) => Rivalled(w))
      BY <2>1, <3>1 DEF Rivalled
    <3>6. \A v \in Workers \ {cl} : pc'[v] = pc[v] /\ item'[v] = item[v]
      BY <2>2 DEF Actors
    <3> QED  BY <1>0, <2>7, <3>1, <3>2, <3>3, <3>4, <3>5, <3>6, Onlooker
  <2>8. \A d \in Conts : store'[d] # None => UpTo(d, store[d].epoch)'
    <3>1. ASSUME NEW d \in Conts, store'[d] # None
          PROVE  UpTo(d, store[d].epoch)'
      <4>1. CASE d = c
        BY <2>5, <4>1 DEF UpTo
      <4>2. CASE d # c
        <5>1. store'[d] = store[d] /\ UpTo(d, store[d].epoch)
          BY <1>0, <2>1, <3>1, <4>2 DEF SoleInv
        <5> QED  BY <2>4, <5>1 DEF UpTo
      <4> QED  BY <4>1, <4>2
    <3> QED  BY <3>1
  <2>9. AtWork(cl)'
    BY <1>0, <2>2 DEF AtWork
  <2>10. "enqLoad" \in EnqueuePlaces /\ "enqLoad" \notin Driving
    BY DEF EnqueuePlaces, Driving, EnginePlaces
  <2>11. SoleInv'
    BY <1>0, <2>1, <2>2, <2>7, <2>8, <2>9, <2>10, LoneStep
  <2>12. Advance
    BY <1>0, <2>1, EpochTypes DEF Advance
  <2> QED  BY <2>11, <2>12
<1>3. ASSUME NEW r \in refs, NEW out \in Outcomes, Answer(cl, r, out)
      PROVE  SoleInv' /\ Advance
  <2> DEFINE res == [ref |-> r, outcome |-> out]
             it == [cont |-> RunOf(r), epoch |-> 0, res |-> res]
  <2>1. /\ CanStep(cl) /\ pc' = [pc EXCEPT ![cl] = "enqLoad"]
        /\ item' = [item EXCEPT ![cl] = it]
        /\ UNCHANGED <<store, ledger, queue, loc, up>>
    BY <1>1, <1>3 DEF Answer
  <2>2. item'[cl].res # None /\ \A b \in Actors \ {cl} : item'[b] = item[b] /\ loc'[b] = loc[b]
    <3>1. r \in Refs
      BY DEF TypeInv, TypeOK
    <3>2. res \in Resolutions
      BY <3>1 DEF Resolutions
    <3> QED  BY <1>0, <2>1, <3>2, NoneAssumption
  <2>3. /\ "enqLoad" \in EnqueuePlaces
        /\ "enqLoad" \notin Driving \cup {"enqSave", "enqUpsert", "enqPush", "starting"}
    BY DEF EnqueuePlaces, Driving, EnginePlaces
  <2>4. BagToSet(queue') \subseteq Entries
    BY <2>1 DEF Entries
  <2>5. \A w \in Workers : Claimable(ledger[ContOf(w)]) => Rivalled(w)
    BY DEF Rivalled
  <2> HIDE DEF it
  <2> QED  BY <1>0, <2>1, <2>2, <2>3, <2>4, <2>5, PassiveStep
<1>4. ~RetryTask(cl) /\ ~TaskReturns(cl)
  BY <1>1 DEF RetryTask, TaskReturns
<1> QED  BY <1>0, <1>2, <1>3, <1>4, EnqueueSole DEF ClientNext

\* A step that leaves the actors and the tables alone, and only loses entries.
LEMMA QuietStep ==
    ASSUME TypeInv, SoleInv,
           BagToSet(queue') \subseteq BagToSet(queue),
           UNCHANGED <<store, ledger, pc, item, loc, up>>
    PROVE  SoleInv' /\ Advance
<1>1. \A a \in Actors : NewEntry(a)' = NewEntry(a)
  BY DEF NewEntry, ContOf
<1>2. \A d : BareOf(d)' \subseteq BareOf(d)
  BY <1>1 DEF BareOf, Entries
<1>3. \A a \in Actors : AtWork(a)'
  <2>1. \A a \in Actors : AtWork(a)
    BY DEF SoleInv
  <2>2. \A a \in Actors : Below(ContOf(a), loc[a].epoch) => Below(ContOf(a), loc[a].epoch)'
    BY <1>2 DEF Below, ContOf
  <2> QED  BY <2>1, <2>2 DEF AtWork, ContOf
<1>4. \A w \in Workers : pc'[w] \in Driving => Leads(w)'
  <2>1. ASSUME NEW w \in Workers, pc[w] \in Driving
        PROVE  Leads(w)'
    <3>1. PICK d : d = ContOf(w)
      OBVIOUS
    <3>2. Leads(w) /\ d = ContOf(w)' /\ BareOf(d)' \subseteq BareOf(d)
      BY <1>2, <2>1, <3>1 DEF SoleInv, ContOf
    <3>3. UpTo(d, loc[w].epoch)'
      BY <3>1, <3>2 DEF Leads, UpTo
    <3>4. Rivalled(w)' => Below(d, ledger[d].epoch)'
      <4>1. Rivalled(w)' => Rivalled(w)
        BY DEF Rivalled, ContOf
      <4> QED  BY <3>1, <3>2, <4>1 DEF Leads, Below
    <3> QED  BY <3>1, <3>2, <3>3, <3>4 DEF Leads
  <2> QED  BY <2>1
<1>5. Serial' /\ \A a, b \in Actors : Taking(a)' /\ Taking(b)' /\ ContOf(a)' = ContOf(b)' => a = b
  BY DEF SoleInv, Serial, Taking, ContOf
<1>6. \A d \in Conts : store'[d] # None => UpTo(d, store[d].epoch)'
  <2>1. \A d \in Conts : store[d] # None => UpTo(d, store[d].epoch)
    BY DEF SoleInv
  <2> QED  BY <1>2, <2>1 DEF UpTo
<1>7. Advance
  BY EpochTypes DEF Advance
<1> QED  BY <1>3, <1>4, <1>5, <1>6, <1>7 DEF SoleInv

\* The faults of a process that is not restarted.
LEMMA FaultSole ==
    ASSUME OneProcess, TypeInv, TypeInv', SoleInv, FaultNext
    PROVE  SoleInv' /\ Advance
<1>1. ASSUME NEW w \in Actors, Raise(w)
      PROVE  SoleInv' /\ Advance
  <2> DEFINE row == MarkRetryable(ledger[ContOf(w)])
             place == IF Exhausted(ledger[ContOf(w)]) THEN "ack" ELSE "nackAck"
  <2>1. /\ w \in Workers /\ pc[w] \in EnginePlaces /\ CanStep(w)
        /\ pc' = [pc EXCEPT ![w] = place]
        /\ ledger' = [ledger EXCEPT ![ContOf(w)] = row]
        /\ UNCHANGED <<store, queue, item, loc, up>>
    BY <1>1 DEF Raise, Goto, Ledgered
  <2>2. place \in {"ack", "nackAck", "nackPush"}
    OBVIOUS
  <2>3. pc[w] # "idle" /\ ledger[ContOf(w)] \in Row
    BY <2>1, BusyActor DEF TypeInv, TypeOK, Claimed, EnginePlaces, Actors
  <2>4. row.epoch = ledger[ContOf(w)].epoch
    BY <2>3 DEF MarkRetryable, Row
  <2> HIDE DEF row, place
  <2> QED  BY <2>1, <2>2, <2>3, <2>4, CarrySole
<1>2. ASSUME NEW a \in Actors, Abandon(a)
      PROVE  SoleInv' /\ Advance
  BY <1>2, DropSole DEF Abandon, Entries
<1>3. ASSUME NEW cl \in Actors, TaskError(cl)
      PROVE  FALSE
  BY <1>3 DEF TaskError, OneProcess
<1>4. ASSUME NEW h \in Hosts, Crash(h) \/ Boot(h)
      PROVE  FALSE
  BY <1>4 DEF Crash, Boot, Fault, OneProcess, SoleInv, Serial
<1>5. CASE Flush
  <2>1. /\ BagToSet(queue') = {} /\ UNCHANGED <<store, ledger, pc, item, loc, up>>
    BY <1>5, BagNone DEF Flush
  <2> QED  BY <2>1, QuietStep
<1> QED  BY <1>1, <1>2, <1>3, <1>4, <1>5 DEF FaultNext

\* Every step of the process keeps the invariant and takes no run back.
LEMMA NextSole ==
    ASSUME OneProcess
    PROVE  TypeInv /\ TypeInv' /\ SoleInv /\ [Next]_vars => SoleInv' /\ Advance
<1> SUFFICES ASSUME TypeInv, TypeInv', SoleInv, [Next]_vars
             PROVE  SoleInv' /\ Advance
  OBVIOUS
<1>1. ASSUME NEW a \in Workers \cup Direct, EngineNext(a)
      PROVE  SoleInv' /\ Advance
  BY <1>1, EngineSole DEF OneProcess
<1>2. CASE UNCHANGED vars
  BY <1>2, QuietStep DEF vars
<1> QED  BY <1>1, <1>2, WorkerSole, ClientSole, FaultSole DEF Next

\* The invariant holds at the start.
LEMMA InitSole == Init => SoleInv
<1> SUFFICES ASSUME Init PROVE SoleInv
  OBVIOUS
<1>1. /\ \A a \in Actors : pc[a] = "idle"
      /\ \A c \in Conts : store[c] = None
      /\ \A h \in Hosts : up[h]
  BY DEF Init, Start
<1>2. /\ "idle" \notin Section /\ "idle" \notin Driving /\ "idle" \notin Bumping
  BY DEF Section, Driving, Bumping, EnginePlaces, EnqueuePlaces, SettlePlaces
<1>3. Serial /\ \A a \in Actors : AtWork(a) /\ ~Taking(a)
  BY <1>1, <1>2 DEF Serial, AtWork, Taking, Actors
<1> QED  BY <1>1, <1>2, <1>3 DEF SoleInv, Actors

\* The two invariants hold in every state of the one process.
LEMMA SoleHolds ==
    ASSUME OneProcess
    PROVE  Spec => [](TypeInv /\ SoleInv)
BY InitType, NextType, InitSole, NextSole, PTL DEF Spec

\* In one process never two actors drive a run, however often its answers and
\* its entries are delivered (worker.py:74).
THEOREM OneDriverInOneProcess ==
    ASSUME OneProcess
    PROVE  Spec => []OneDriver
<1>1. TypeInv /\ SoleInv => OneDriver
  <2> SUFFICES ASSUME SoleInv, NEW a \in Actors, NEW b \in Actors,
                      pc[a] \in Driving, pc[b] \in Driving, ContOf(a) = ContOf(b)
               PROVE  a = b
    BY DEF OneDriver
  <2>1. Taking(a) /\ Taking(b)
    BY DEF SoleInv, Serial, Taking, Driving, EnginePlaces, EnqueuePlaces, Actors
  <2> QED  BY <2>1 DEF SoleInv
<1> QED  BY <1>1, SoleHolds, PTL

\* In one process no save takes a run back to an earlier turn
\* (engine.py step_index).
THEOREM TurnsForwardInOneProcess ==
    ASSUME OneProcess
    PROVE  Spec => TurnsForward
<1>1. TypeInv /\ TypeInv' /\ SoleInv /\ [Next]_vars
        => [\A c \in Conts : store[c] # None => store'[c].turn >= store[c].turn]_vars
  BY NextSole DEF Advance
<1> QED  BY <1>1, SoleHolds, PTL DEF Spec, TurnsForward

\* In one process no late save revives a run that is done or failed.
THEOREM OverIsFinalInOneProcess ==
    ASSUME OneProcess
    PROVE  Spec => OverIsFinal
<1>1. TypeInv /\ TypeInv' /\ SoleInv /\ [Next]_vars
        => [\A c \in Conts : Over(c) => store'[c].status = store[c].status]_vars
  BY NextSole DEF Advance, Over
<1> QED  BY <1>1, SoleHolds, PTL DEF Spec, OverIsFinal

----------------------------------------------------------------------------
(***************************************************************************)
(* The inductive invariant behind GatedDispatchedOnce.  A call whose tool  *)
(* was called is "executed" in every record the resume path may look at:   *)
(* in the table while the run is parked, and in the copy of the worker     *)
(* that resumes it.  It matters that a reply belongs to one run, and that  *)
(* one worker at a time drives that run.                                   *)
(***************************************************************************)
\* The gated calls that have run.
Spent == {r \in Refs : r.call \in Gated /\ ran[r] > 0}

\* Reply n, if there is one, is a reply of run c.
Owned(c, n) == n # 0 => n \in DOMAIN asked /\ asked[n].cont = c

Settles(cont, r) == cont.ask = r.ask => cont.calls[r.call] = "executed"

RunOnce(c) ==
    store[c] # None =>
      /\ Owned(c, store[c].ask)
      /\ store[c].status = "suspended" => \A r \in Spent : Settles(store[c], r)

CopyOnce(a) ==
    /\ pc[a] \in Driving => Owned(ContOf(a), loc[a].ask)
    /\ pc[a] \in ResumePlaces \cup {"resolved"} => \A r \in Spent : Settles(loc[a], r)
    /\ pc[a] = "gatedTool" => /\ item[a].res.ref.ask = loc[a].ask
                              /\ loc[a].calls[ResolvedCall(a)] # "executed"
    /\ pc[a] \in {"tools", "saveTurn"} =>
         Owned(ContOf(a), reply[a].ask) /\ \A r \in Spent : r.ask # reply[a].ask

OnceInv ==
    /\ \A c \in Conts : RunOnce(c)
    /\ \A a \in Actors : CopyOnce(a)
    /\ \A r \in Spent : ran[r] <= ToolAttempts /\ r.ask \in DOMAIN asked

\* A step that runs no gated call and asks for none: the actor's own copy and
\* the runs it saves are all there is to look at.
LEMMA OnceStep ==
    ASSUME OnceInv,
           NEW a,
           \A b \in Actors \ {a} : /\ pc'[b] = pc[b] /\ item'[b] = item[b]
                                   /\ loc'[b] = loc[b] /\ reply'[b] = reply[b],
           asked' = asked,
           \A r \in Refs : r.call \in Gated => ran'[r] = ran[r],
           \A c \in Conts : store'[c] = store[c] \/ RunOnce(c)',
           CopyOnce(a)'
    PROVE  OnceInv'
<1>1. Spent' = Spent
  BY DEF Spent
<1>2. \A c, n : Owned(c, n)' <=> Owned(c, n)
  BY DEF Owned
<1>3. ASSUME NEW c \in Conts
      PROVE  RunOnce(c)'
  <2>1. RunOnce(c)
    BY DEF OnceInv
  <2>2. CASE store'[c] = store[c]
    BY <1>1, <2>1, <2>2 DEF RunOnce, Owned
  <2> QED  BY <2>2
<1>4. ASSUME NEW b \in Actors
      PROVE  CopyOnce(b)'
  <2>1. CASE b = a
    BY <2>1
  <2>2. CASE b # a
    <3>1. /\ CopyOnce(b) /\ pc'[b] = pc[b] /\ item'[b] = item[b]
          /\ loc'[b] = loc[b] /\ reply'[b] = reply[b]
      BY <2>2 DEF OnceInv
    <3>2. ContOf(b)' = ContOf(b) /\ ResolvedCall(b)' = ResolvedCall(b)
      BY <3>1 DEF ContOf, ResolvedCall
    <3> QED  BY <1>1, <3>1, <3>2 DEF CopyOnce, Owned
  <2> QED  BY <2>1, <2>2
<1>5. \A r \in Spent' : ran'[r] <= ToolAttempts /\ r.ask \in DOMAIN asked'
  BY <1>1 DEF OnceInv, Spent
<1> QED  BY <1>3, <1>4, <1>5 DEF OnceInv

\* Outside the engine an actor's copy does not matter.
LEMMA OnceOutside ==
    ASSUME OnceInv, TypeInv, NEW a \in Actors,
           NEW place, place \notin Driving, pc' = [pc EXCEPT ![a] = place],
           \A b \in Actors \ {a} : /\ item'[b] = item[b]
                                   /\ loc'[b] = loc[b] /\ reply'[b] = reply[b],
           asked' = asked, ran' = ran,
           \A c \in Conts : store'[c] = store[c] \/ RunOnce(c)'
    PROVE  OnceInv'
<1>1. pc'[a] = place /\ \A b \in Actors \ {a} : pc'[b] = pc[b]
  BY DEF TypeInv, TypeOK
<1>2. CopyOnce(a)'
  BY <1>1 DEF CopyOnce, Driving, EnginePlaces, ResumePlaces
<1> QED  BY <1>1, <1>2, OnceStep

\* An actor that drops what it was doing.
LEMMA OnceRelease ==
    ASSUME OnceInv, TypeInv, NEW a \in Actors, Release(a),
           UNCHANGED <<store, asked, ran>>
    PROVE  OnceInv'
<1>1. "idle" \notin Driving
  BY DEF Driving, EnginePlaces
<1>2. /\ pc' = [pc EXCEPT ![a] = "idle"]
      /\ \A b \in Actors \ {a} : /\ item'[b] = item[b]
                                 /\ loc'[b] = loc[b] /\ reply'[b] = reply[b]
  BY DEF Release, Goto, SetLoc, TypeInv, TypeOK
<1> QED  BY <1>1, <1>2, OnceOutside

\* The enqueuer saves the run as it is, but for its epoch.
LEMMA EnqueueOnce ==
    ASSUME TypeInv, SoleInv, OnceInv, NEW a \in Actors, Enqueue(a)
    PROVE  OnceInv'
<1> USE DEF At, Goto, SetLoc, Save, history
<1>0. /\ {"enqSave", "enqUpsert", "enqPush", "ack"} \cap Driving = {}
      /\ loc \in [Actors -> Continuations \cup {None}]
  BY DEF Driving, EnginePlaces, TypeInv, TypeOK
<1>1. CASE EnqueueLoad(a)
  BY <1>0, <1>1, OnceOutside DEF EnqueueLoad
<1>2. CASE EnqueueSave(a)
  <2>1. PICK c : c = ContOf(a)
    OBVIOUS
  <2>2. /\ pc[a] = "enqSave" /\ pc' = [pc EXCEPT ![a] = "enqUpsert"]
        /\ store' = [store EXCEPT ![c] = loc[a]]
        /\ UNCHANGED <<item, loc, reply, asked, ran>>
    BY <1>2, <2>1 DEF EnqueueSave
  <2>3. c \in Conts /\ store[c] \in Continuations /\ store[c] # None
    BY <2>1, <2>2, BusyActor, NoneAssumption
  <2>4. loc[a] = [store[c] EXCEPT !.epoch = @ + 1]
    BY <2>1, <2>2 DEF SoleInv, AtWork
  <2>5. /\ loc[a].ask = store[c].ask /\ loc[a].calls = store[c].calls
        /\ loc[a].status = store[c].status
    BY <2>3, <2>4 DEF Continuations
  <2>6. store'[c] = loc[a] /\ \A d \in Conts \ {c} : store'[d] = store[d]
    BY <2>2, <2>3 DEF TypeInv, TypeOK
  <2>7. RunOnce(c)'
    <3>1. RunOnce(c) /\ Spent' = Spent
      BY <2>2, <2>3 DEF OnceInv, Spent
    <3> QED  BY <2>2, <2>3, <2>5, <2>6, <3>1 DEF RunOnce, Owned, Settles
  <2> QED  BY <1>0, <2>2, <2>6, <2>7, OnceOutside
<1>3. CASE EnqueueUpsert(a)
  BY <1>0, <1>3, OnceOutside DEF EnqueueUpsert
<1>4. CASE EnqueuePush(a)
  BY <1>0, <1>4, OnceOutside, OnceRelease DEF EnqueuePush
<1> QED  BY <1>1, <1>2, <1>3, <1>4 DEF Enqueue

\* The steps of the engine.
LEMMA EngineOnce ==
    ASSUME OneProcess, TypeInv, TypeInv', GrantInv, SoleInv, OnceInv,
           NEW w \in Workers, EngineNext(w)
    PROVE  OnceInv'
<1>0. PICK c : c = ContOf(w)
  OBVIOUS
<1>1. /\ w \in Actors /\ pc[w] \in EnginePlaces /\ c \in Conts
      /\ store[c] \in Continuations /\ store[c] # None
      /\ store \in [Conts -> Continuations \cup {None}]
      /\ loc \in [Actors -> Continuations \cup {None}]
      /\ item \in [Actors -> Items \cup {None}]
      /\ reply \in [Actors -> Replies \cup {None}]
      /\ ran \in [Refs -> Nat]
      /\ pc \in [Actors -> Places]
  <2>1. pc[w] \in EnginePlaces
    BY DEF EngineNext, EngineEnter, EngineTurn, DriveNothing, Drive, SaveRunning, ResumeNothing,
       Resume, SaveResuming, GatedTool, SaveResolved, ParkAgain, FinishPark, MaxTurnsReached,
       FinalAnswer, ModelError, AskTools, RunTools, Park, IndexRefs, SaveTools, Continue,
       Preempted, At, EnginePlaces
  <2>2. pc[w] # "idle" /\ w \in Actors
    BY <2>1 DEF EnginePlaces, Actors
  <2> QED  BY <1>0, <2>1, <2>2, BusyActor, NoneAssumption DEF TypeInv, TypeOK
<1>2. ASSUME pc[w] \in Driving
      PROVE  /\ loc[w] \in Continuations /\ Owned(c, loc[w].ask)
             /\ pc[w] # "indexRefs" => loc[w].status \in Going
             /\ pc[w] # "saveResuming" /\ pc[w] # "indexRefs" => store[c].status \in Going
  <2>1. pc[w] \in CopyPlaces
    BY <1>2 DEF Driving, CopyPlaces
  <2> QED  BY <1>0, <1>1, <1>2, <2>1, CopyHolder DEF SoleInv, Leads, OnceInv, CopyOnce
<1>3. RunOnce(c) /\ CopyOnce(w)
  BY <1>1 DEF OnceInv
<1> USE DEF At, Goto, SetLoc, Save, history
<1>4. /\ {"settleDone", "settleFailed", "enqLoad"} \cap Driving = {}
      /\ EnginePlaces \ {"starting"} \subseteq Driving
  BY DEF Driving, EnginePlaces
\* w goes on with a copy of the same reply, and perhaps saves such a copy of a
\* run that is not parked.
<1>5. ASSUME NEW place \in Places \ {"gatedTool", "tools", "saveTurn"},
             pc' = [pc EXCEPT ![w] = place],
             NEW copy, loc' = [loc EXCEPT ![w] = copy],
             place \in Driving => Owned(c, copy.ask),
             place \in ResumePlaces \cup {"resolved"} => \A r \in Spent : Settles(copy, r),
             \/ store' = store
             \/ \E saved : /\ store' = [store EXCEPT ![c] = saved]
                           /\ Owned(c, saved.ask) /\ saved.status # "suspended",
             UNCHANGED <<item, reply, asked, ran>>
      PROVE  OnceInv'
  <2>1. \A b \in Actors \ {w} : /\ pc'[b] = pc[b] /\ item'[b] = item[b]
                                /\ loc'[b] = loc[b] /\ reply'[b] = reply[b]
    BY <1>1, <1>5
  <2>2. pc'[w] = place /\ loc'[w] = copy /\ ContOf(w)' = c /\ Spent' = Spent
    BY <1>0, <1>1, <1>5 DEF ContOf, Spent
  <2>3. CopyOnce(w)'
    BY <1>5, <2>2 DEF CopyOnce, Owned
  <2>4. ASSUME NEW d \in Conts
        PROVE  store'[d] = store[d] \/ RunOnce(d)'
    <3>1. CASE store' = store
      BY <3>1
    <3>2. ASSUME NEW saved, store' = [store EXCEPT ![c] = saved],
                 Owned(c, saved.ask), saved.status # "suspended"
          PROVE  store'[d] = store[d] \/ RunOnce(d)'
      <4>1. CASE d = c
        <5>1. store'[d] = saved
          BY <1>1, <3>2, <4>1
        <5> QED  BY <1>5, <3>2, <4>1, <5>1 DEF RunOnce, Owned
      <4>2. CASE d # c
        BY <1>1, <3>2, <4>2
      <4> QED  BY <4>1, <4>2
    <3> QED  BY <1>5, <3>1, <3>2
  <2> QED  BY <1>5, <2>1, <2>3, <2>4, OnceStep
<1>6. CASE DriveNothing(w) \/ ResumeNothing(w)
  BY <1>1, <1>4, <1>6, OnceOutside DEF DriveNothing, ResumeNothing, Settled
<1>7. CASE Drive(w)
  <2>1. Owned(c, Redriven(store[c]).ask)
    BY <1>1, <1>3 DEF RunOnce, Redriven, Continuations
  <2>2. /\ "saveRunning" \in Places
        /\ "saveRunning" \notin ResumePlaces \cup {"resolved"}
    BY DEF Places, EnginePlaces, ResumePlaces
  <2> QED  BY <1>0, <1>5, <1>7, <2>1, <2>2 DEF Drive
<1>8. CASE Resume(w)
  <2> DEFINE copy == [store[c] EXCEPT !.status = "resuming"]
  <2>1. copy.ask = store[c].ask /\ copy.calls = store[c].calls /\ store[c].status = "suspended"
    BY <1>0, <1>1, <1>8 DEF Continuations, Resume, Resumable
  <2>2. /\ pc' = [pc EXCEPT ![w] = "saveResuming"] /\ loc' = [loc EXCEPT ![w] = copy]
        /\ UNCHANGED <<store, item, reply, asked, ran>>
    BY <1>0, <1>8 DEF Resume
  <2> HIDE DEF copy
  <2>3. Owned(c, copy.ask) /\ \A r \in Spent : Settles(copy, r)
    BY <1>1, <1>3, <2>1 DEF RunOnce, Settles
  <2>4. "saveResuming" \in Places \ {"gatedTool", "tools", "saveTurn"}
    BY DEF Places, EnginePlaces
  <2> QED  BY <1>5, <2>2, <2>3, <2>4
<1>9. CASE SaveRunning(w)
  <2>1. pc[w] \in Driving /\ pc[w] = "saveRunning"
    BY <1>4, <1>9 DEF SaveRunning, EnginePlaces
  <2>2. loc[w].status # "suspended" /\ Owned(c, loc[w].ask)
    BY <1>2, <2>1 DEF Going
  <2>3. /\ StepPlace(loc[w]) \in Places \ {"gatedTool", "tools", "saveTurn"}
        /\ StepPlace(loc[w]) \notin ResumePlaces \cup {"resolved"}
    BY DEF StepPlace, Places, EnginePlaces, ResumePlaces
  <2>4. loc' = [loc EXCEPT ![w] = loc[w]]
    BY <1>1, <1>9 DEF SaveRunning
  <2> QED  BY <1>0, <1>5, <1>9, <2>2, <2>3, <2>4 DEF SaveRunning
<1>10. CASE SaveResuming(w)
  <2> DEFINE place == AfterResuming(w)
             res == SetCall(loc[w], ResolvedCall(w),
                      IF item[w].res.outcome = "reject" THEN "rejected" ELSE "executed")
             copy == IF place = "saveResolved" THEN res ELSE loc[w]
  <2>1. /\ pc[w] = "saveResuming" /\ pc' = [pc EXCEPT ![w] = place]
        /\ store' = [store EXCEPT ![c] = loc[w]]
        /\ loc' = [loc EXCEPT ![w] = copy]
        /\ UNCHANGED <<item, reply, asked, ran>>
    BY <1>0, <1>10 DEF SaveResuming
  <2>2. pc[w] \in Driving
    BY <1>4, <2>1 DEF EnginePlaces
  <2>3. /\ loc[w] \in Continuations /\ Owned(c, loc[w].ask) /\ loc[w].status # "suspended"
        /\ \A r \in Spent : Settles(loc[w], r)
    BY <1>2, <1>3, <2>1, <2>2 DEF CopyOnce, ResumePlaces, Going
  <2>4. /\ place \in {"settleFailed", "resolved", "gatedTool", "saveResolved"}
        /\ place \in {"gatedTool", "saveResolved"} =>
             item[w].res.ref.ask = loc[w].ask /\ loc[w].calls[ResolvedCall(w)] # "executed"
    BY DEF AfterResuming, ResolvedStatus
  <2>5. /\ res.ask = loc[w].ask
        /\ \A k \in Calls \ {ResolvedCall(w)} : res.calls[k] = loc[w].calls[k]
    BY <2>3 DEF SetCall, Continuations, CallMap
  <2>6. place = "saveResolved" => \A r \in Spent : Settles(res, r)
    <3>1. SUFFICES ASSUME place = "saveResolved", NEW r \in Spent, res.ask = r.ask
                   PROVE  res.calls[r.call] = "executed"
      BY DEF Settles
    <3>2. loc[w].calls[r.call] = "executed"
      BY <2>3, <2>5, <3>1 DEF Settles
    <3>3. r.call # ResolvedCall(w) /\ r.call \in Calls
      BY <2>4, <3>1, <3>2 DEF Spent, Refs
    <3> QED  BY <2>5, <3>2, <3>3
  <2> HIDE DEF res, place
  <2>7. Owned(c, copy.ask) /\ \A r \in Spent : place # "settleFailed" => Settles(copy, r)
    BY <2>3, <2>5, <2>6
  <2>8. place = "gatedTool" => copy = loc[w]
    OBVIOUS
  <2> HIDE DEF copy
  <2>14. PICK cp : cp = copy
    OBVIOUS
  <2>9. \A b \in Actors \ {w} : /\ pc'[b] = pc[b] /\ item'[b] = item[b]
                                /\ loc'[b] = loc[b] /\ reply'[b] = reply[b]
    BY <1>1, <2>1
  <2>10. /\ pc'[w] = place /\ loc'[w] = cp /\ ContOf(w)' = c /\ Spent' = Spent
         /\ item'[w] = item[w] /\ ResolvedCall(w)' = ResolvedCall(w)
    BY <1>0, <1>1, <2>1, <2>14 DEF ContOf, Spent, ResolvedCall
  <2>11. CopyOnce(w)'
    <3>1. place \in Driving => place # "settleFailed"
      BY <1>4
    <3>2. place \notin {"tools", "saveTurn", "settleFailed"} \/ place = "settleFailed"
      BY <2>4
    <3>3. "settleFailed" \notin ResumePlaces \cup {"resolved"}
      BY DEF ResumePlaces
    <3>4. Owned(c, cp.ask)'
      BY <2>1, <2>7, <2>14 DEF Owned
    <3>5. Owned(ContOf(w), loc[w].ask)'
      BY <2>10, <3>4 DEF Owned
    <3>6. /\ \A r \in Spent : place # "settleFailed" => Settles(cp, r)
          /\ place = "gatedTool" => cp = loc[w]
      BY <2>7, <2>8, <2>14
    <3> QED  BY <2>4, <2>10, <3>1, <3>2, <3>3, <3>5, <3>6 DEF CopyOnce
  <2>12. store'[c] = loc[w] /\ \A d \in Conts \ {c} : store'[d] = store[d]
    BY <1>1, <2>1
  <2>13. RunOnce(c)'
    BY <2>1, <2>3, <2>12 DEF RunOnce, Owned
  <2> QED  BY <2>1, <2>9, <2>11, <2>12, <2>13, OnceStep
<1>11. CASE SaveResolved(w)
  <2>1. pc[w] = "saveResolved" /\ pc[w] \in Driving
    BY <1>4, <1>11 DEF SaveResolved, EnginePlaces
  <2>2. /\ loc[w].status # "suspended" /\ Owned(c, loc[w].ask)
        /\ \A r \in Spent : Settles(loc[w], r)
    BY <1>2, <1>3, <2>1 DEF Going, CopyOnce, ResumePlaces
  <2>3. "resolved" \in Places \ {"gatedTool", "tools", "saveTurn"}
    BY DEF Places, EnginePlaces
  <2>4. loc' = [loc EXCEPT ![w] = loc[w]]
    BY <1>1, <1>11 DEF SaveResolved
  <2> QED  BY <1>0, <1>5, <1>11, <2>2, <2>3, <2>4 DEF SaveResolved
<1>12. CASE ParkAgain(w)
  <2> DEFINE last == [loc[w] EXCEPT !.status = "suspended"]
  <2>1. /\ pc[w] = "resolved" /\ pc' = [pc EXCEPT ![w] = "settleDone"]
        /\ store' = [store EXCEPT ![c] = last]
        /\ loc' = [loc EXCEPT ![w] = last]
        /\ UNCHANGED <<item, reply, asked, ran>>
    BY <1>0, <1>12 DEF ParkAgain
  <2>2. pc[w] \in Driving
    BY <1>4, <2>1 DEF EnginePlaces
  <2>3. last.ask = loc[w].ask /\ last.calls = loc[w].calls
    BY <1>2, <2>2 DEF Continuations
  <2> HIDE DEF last
  <2>4. Owned(c, last.ask) /\ \A r \in Spent : Settles(last, r)
    BY <1>2, <1>3, <2>1, <2>2, <2>3 DEF CopyOnce, Settles
  <2>5. store'[c] = last /\ \A d \in Conts \ {c} : store'[d] = store[d]
    BY <1>1, <2>1
  <2>6. RunOnce(c)'
    <3>1. Spent' = Spent
      BY <2>1 DEF Spent
    <3> QED  BY <2>1, <2>4, <2>5, <3>1 DEF RunOnce, Owned
  <2>7. \A b \in Actors \ {w} : /\ item'[b] = item[b]
                                /\ loc'[b] = loc[b] /\ reply'[b] = reply[b]
    BY <1>1, <2>1
  <2> QED  BY <1>1, <1>4, <2>1, <2>5, <2>6, <2>7, OnceOutside
<1>13. ASSUME NEW place \in {"turn", "maxTurns", "turnDone", "settleDone", "settleFailed", "enqLoad"},
              NEW copy, pc[w] \in Driving, copy.ask = loc[w].ask, copy.status # "suspended",
              pc' = [pc EXCEPT ![w] = place],
              store' = [store EXCEPT ![c] = copy],
              loc' = [loc EXCEPT ![w] = copy],
              UNCHANGED <<item, reply, asked, ran>>
       PROVE  OnceInv'
  <2>1. /\ place \in Places \ {"gatedTool", "tools", "saveTurn"}
        /\ place \notin ResumePlaces \cup {"resolved"}
    BY DEF Places, EnginePlaces, SettlePlaces, EnqueuePlaces, ResumePlaces
  <2>2. Owned(c, copy.ask)
    BY <1>2, <1>13
  <2> QED  BY <1>5, <1>13, <2>1, <2>2
<1>14. CASE FinishPark(w)
  <2>1. pc[w] \in Driving
    BY <1>4, <1>14 DEF FinishPark, EnginePlaces
  <2>2. Unparked(loc[w]).ask = loc[w].ask /\ Unparked(loc[w]).status # "suspended"
    BY <1>2, <2>1 DEF Unparked, NextTurn, Continuations
  <2>3. StepPlace(Unparked(loc[w])) \in {"turn", "maxTurns"}
    BY DEF StepPlace
  <2> QED  BY <1>0, <1>13, <1>14, <2>1, <2>2, <2>3 DEF FinishPark
<1>15. CASE Continue(w)
  <2>1. pc[w] \in Driving
    BY <1>4, <1>15 DEF Continue, EnginePlaces
  <2>2. NextTurn(loc[w]).ask = loc[w].ask /\ NextTurn(loc[w]).status # "suspended"
    BY <1>2, <2>1 DEF NextTurn, Continuations
  <2>3. (IF loc[w].turn + 1 < MaxTurns THEN AfterContinue(w) ELSE "maxTurns")
          \in {"settleDone", "enqLoad", "maxTurns"}
    BY DEF AfterContinue
  <2> QED  BY <1>0, <1>13, <1>15, <2>1, <2>2, <2>3 DEF Continue
<1>16. ASSUME NEW status \in {"done", "failed"}, NEW place \in {"settleDone", "settleFailed"},
              pc[w] \in Driving, End(w, status, place)
       PROVE  OnceInv'
  <2> DEFINE last == [loc[w] EXCEPT !.status = status]
  <2>1. last.ask = loc[w].ask /\ last.status # "suspended"
    BY <1>2, <1>16 DEF Continuations
  <2>2. /\ pc' = [pc EXCEPT ![w] = place]
        /\ store' = [store EXCEPT ![c] = last]
        /\ loc' = [loc EXCEPT ![w] = last]
        /\ UNCHANGED <<item, reply, asked, ran>>
    BY <1>0, <1>16 DEF End
  <2> HIDE DEF last
  <2> QED  BY <1>13, <1>16, <2>1, <2>2
<1>17. CASE MaxTurnsReached(w) \/ FinalAnswer(w) \/ Preempted(w) \/ ModelError(w)
  BY <1>4, <1>16, <1>17 DEF MaxTurnsReached, FinalAnswer, Preempted, ModelError, EnginePlaces
<1>18. CASE SaveTools(w)
  <2>1. pc[w] = "saveTurn" /\ pc[w] \in Driving /\ loc' = [loc EXCEPT ![w] = loc[w]]
    BY <1>1, <1>4, <1>18 DEF SaveTools, EnginePlaces
  <2>2. loc[w].status # "suspended"
    BY <1>2, <2>1 DEF Going
  <2> QED  BY <1>0, <1>13, <1>18, <2>1, <2>2 DEF SaveTools
<1>19. CASE IndexRefs(w)
  BY <1>1, <1>4, <1>19, OnceOutside DEF IndexRefs
<1>20. CASE Park(w)
  <2>1. /\ pc[w] = "saveTurn" /\ pc' = [pc EXCEPT ![w] = "indexRefs"]
        /\ store' = [store EXCEPT ![c] = Parked(w)]
        /\ loc' = [loc EXCEPT ![w] = Parked(w)]
        /\ UNCHANGED <<item, reply, asked, ran>>
    BY <1>0, <1>20 DEF Park
  <2>2. pc[w] \in Driving
    BY <1>4, <2>1 DEF EnginePlaces
  <2>3. Parked(w).ask = reply[w].ask
    BY <1>2, <2>2 DEF Parked, Continuations
  <2>4. Owned(c, Parked(w).ask) /\ \A r \in Spent : Settles(Parked(w), r)
    BY <1>0, <1>3, <2>1, <2>3 DEF CopyOnce, Settles
  <2>5. PICK saved : saved = Parked(w)
    OBVIOUS
  <2>6. store'[c] = saved /\ \A d \in Conts \ {c} : store'[d] = store[d]
    BY <1>1, <2>1, <2>5
  <2>7. RunOnce(c)'
    <3>1. Spent' = Spent
      BY <2>1 DEF Spent
    <3> QED  BY <2>1, <2>4, <2>5, <2>6, <3>1 DEF RunOnce, Owned
  <2>8. \A b \in Actors \ {w} : /\ pc'[b] = pc[b] /\ item'[b] = item[b]
                                /\ loc'[b] = loc[b] /\ reply'[b] = reply[b]
    BY <1>1, <2>1
  <2>9. CopyOnce(w)'
    <3>1. pc'[w] = "indexRefs" /\ loc'[w] = saved /\ ContOf(w)' = c
      BY <1>0, <1>1, <2>1, <2>5 DEF ContOf
    <3>2. Owned(c, saved.ask)'
      BY <2>1, <2>4, <2>5 DEF Owned
    <3> QED  BY <3>1, <3>2 DEF CopyOnce, ResumePlaces
  <2> QED  BY <2>1, <2>6, <2>7, <2>8, <2>9, OnceStep
<1>21. CASE RunTools(w)
  <2>1. /\ pc[w] = "tools" /\ pc' = [pc EXCEPT ![w] = "saveTurn"]
        /\ UNCHANGED <<store, item, loc, reply, asked>>
    BY <1>21 DEF RunTools
  <2>2. pc[w] \in Driving /\ reply[w] # None
    BY <1>1, <1>4, <2>1 DEF EnginePlaces, TypeInv, InHand, ReplyPlaces
  <2>3. \A k \in With(reply[w], "executed") : k \notin Gated
    BY <1>1, <2>2 DEF With, GrantInv
  <2>4. \A r \in Refs : r.call \in Gated => ran'[r] = ran[r]
    BY <1>21, <2>3 DEF RunTools, RefOf
  <2>5. Spent' = Spent
    BY <2>4 DEF Spent
  <2>6. CopyOnce(w)'
    <3>1. pc'[w] = "saveTurn" /\ ContOf(w)' = ContOf(w)
      BY <1>1, <2>1 DEF ContOf
    <3> QED  BY <1>3, <2>1, <2>2, <2>5, <3>1 DEF CopyOnce, ResumePlaces, Owned
  <2>7. \A b \in Actors \ {w} : /\ pc'[b] = pc[b] /\ item'[b] = item[b]
                                /\ loc'[b] = loc[b] /\ reply'[b] = reply[b]
    BY <1>1, <2>1
  <2> QED  BY <2>1, <2>4, <2>6, <2>7, OnceStep
<1>22. ASSUME NEW calls \in SUBSET Calls \ {{}}, AskTools(w, calls)
       PROVE  OnceInv'
  <2>0. PICK n : n = Len(asked) + 1
    OBVIOUS
  <2>1. /\ pc[w] = "turn" /\ pc' = [pc EXCEPT ![w] = "tools"]
        /\ asked' = Append(asked, [cont |-> c, turn |-> loc[w].turn])
        /\ reply'[w].ask = n
        /\ \A b \in Actors \ {w} : reply'[b] = reply[b]
        /\ UNCHANGED <<store, item, loc, ran>>
    BY <1>0, <1>1, <1>22, <2>0 DEF AskTools
  <2>2. /\ DOMAIN asked = 1 .. Len(asked) /\ Len(asked) \in Nat
        /\ asked \in Seq([cont: Conts, turn: 0 .. MaxTurns])
    BY AskedTyped DEF TypeInv, TypeOK
  <2>3. /\ DOMAIN asked \subseteq DOMAIN asked' /\ n \in DOMAIN asked' /\ n \notin DOMAIN asked
        /\ asked'[n].cont = c
        /\ \A k \in DOMAIN asked : asked'[k] = asked[k]
    <3>1. loc[w].turn \in 0 .. MaxTurns
      BY <1>2, <1>4, <2>1 DEF EnginePlaces, Continuations
    <3>2. [cont |-> c, turn |-> loc[w].turn] \in [cont: Conts, turn: 0 .. MaxTurns]
      BY <1>1, <3>1
    <3> QED  BY <2>0, <2>1, <2>2, <3>2
  <2>4. \A d, k : Owned(d, k) => Owned(d, k)'
    BY <2>3 DEF Owned
  <2>5. Spent' = Spent
    BY <2>1 DEF Spent
  <2>6. \A d \in Conts : RunOnce(d)'
    BY <2>1, <2>4, <2>5 DEF OnceInv, RunOnce
  <2>7. ASSUME NEW b \in Actors
        PROVE  CopyOnce(b)'
    <3>1. CopyOnce(b) /\ ContOf(b)' = ContOf(b) /\ ResolvedCall(b)' = ResolvedCall(b)
      BY <2>1 DEF OnceInv, ContOf, ResolvedCall
    <3>2. CASE b = w
      <4>1. pc'[b] = "tools" /\ pc[b] \in Driving /\ Owned(c, n)'
        BY <1>1, <1>4, <2>1, <2>3, <3>2 DEF Owned, EnginePlaces
      <4>2. \A r \in Spent : r.ask # n
        BY <2>3 DEF OnceInv
      <4>3. ContOf(b)' = c /\ reply'[b].ask = n
        BY <1>0, <2>1, <3>1, <3>2
      <4>4. Owned(c, loc[b].ask)'
        BY <1>0, <2>1, <2>4, <3>1, <3>2, <4>1 DEF CopyOnce
      <4>5. Owned(ContOf(b), reply[b].ask)' /\ Owned(ContOf(b), loc[b].ask)'
        BY <4>1, <4>3, <4>4 DEF Owned
      <4> QED  BY <2>5, <4>1, <4>2, <4>3, <4>5 DEF CopyOnce, ResumePlaces
    <3>3. CASE b # w
      <4>1. pc'[b] = pc[b] /\ loc'[b] = loc[b] /\ item'[b] = item[b] /\ reply'[b] = reply[b]
        BY <1>1, <2>1, <3>3
      <4>2. \A k : Owned(ContOf(b), k) => Owned(ContOf(b), k)'
        BY <2>1, <2>4, <3>1 DEF Owned
      <4>3. /\ Owned(ContOf(b), loc[b].ask) => Owned(ContOf(b), loc[b].ask)'
            /\ Owned(ContOf(b), reply[b].ask) => Owned(ContOf(b), reply[b].ask)'
        BY <2>3, <3>1, <4>1 DEF Owned
      <4> QED  BY <2>5, <3>1, <4>1, <4>3 DEF CopyOnce
    <3> QED  BY <3>2, <3>3
  <2>8. \A r \in Spent' : ran'[r] <= ToolAttempts /\ r.ask \in DOMAIN asked'
    BY <2>1, <2>3, <2>5 DEF OnceInv
  <2> QED  BY <2>6, <2>7, <2>8 DEF OnceInv
<1>23. ASSUME NEW times \in 0 .. ToolAttempts, GatedTool(w, times)
       PROVE  OnceInv'
  <2> DEFINE r == item[w].res.ref
             copy == SetCall(loc[w], ResolvedCall(w), "executed")
  <2>1. /\ pc[w] = "gatedTool" /\ pc' = [pc EXCEPT ![w] = "saveResolved"]
        /\ ran' = [ran EXCEPT ![r] = @ + times]
        /\ loc' = [loc EXCEPT ![w] = copy]
        /\ UNCHANGED <<store, item, asked, reply>>
    BY <1>23 DEF GatedTool
  <2>2. pc[w] \in Driving /\ item[w].res # None
    BY <1>1, <1>4, <2>1 DEF EnginePlaces, TypeInv, InHand, ResumePlaces
  <2>3. item[w] \in Items /\ r \in Refs /\ r.call = ResolvedCall(w)
    <3>1. item[w] \in Items
      BY <1>1, <2>2, BusyActor DEF Driving, EnginePlaces
    <3> QED  BY <2>2, <3>1 DEF Items, Resolutions, ResolvedCall
  <2>4. /\ loc[w] \in Continuations /\ Owned(c, loc[w].ask) /\ store[c].status # "suspended"
        /\ r.ask = loc[w].ask /\ loc[w].calls[r.call] # "executed"
        /\ \A s \in Spent : Settles(loc[w], s)
    BY <1>2, <1>3, <2>1, <2>2, <2>3 DEF CopyOnce, ResumePlaces, Going
  <2>5. /\ copy.ask = loc[w].ask /\ copy.calls[r.call] = "executed"
        /\ \A k \in Calls \ {r.call} : copy.calls[k] = loc[w].calls[k]
    BY <2>3, <2>4 DEF SetCall, Continuations, CallMap, Refs
  <2>6. r \notin Spent /\ r.ask # 0
    BY <2>3, <2>4 DEF Settles, Refs, Asks
  <2>7. r.ask \in DOMAIN asked /\ asked[r.ask].cont = c
    BY <2>4, <2>6 DEF Owned
  <2>8. PICK s : s = r
    OBVIOUS
  <2>9. PICK cp : cp = copy
    OBVIOUS
  <2>10. Spent' \subseteq Spent \cup {s}
    BY <1>1, <2>1, <2>8 DEF Spent
  <2>11. /\ cp.ask = loc[w].ask /\ \A q \in Spent \cup {s} : Settles(cp, q)
    <3>1. \A q \in Spent : Settles(cp, q)
      <4>1. \A q \in Spent : q.call \in Calls
        BY DEF Spent, Refs
      <4> QED  BY <2>4, <2>5, <2>9, <4>1 DEF Settles
    <3>2. Settles(cp, s)
      BY <2>5, <2>8, <2>9 DEF Settles
    <3> QED  BY <2>5, <2>9, <3>1, <3>2
  <2>12. /\ s \notin Spent /\ s.ask \in DOMAIN asked /\ asked[s.ask].cont = c /\ s \in Refs /\ s.ask # 0
         /\ loc' = [loc EXCEPT ![w] = cp]
         /\ ran' = [ran EXCEPT ![s] = @ + times]
    BY <2>1, <2>3, <2>6, <2>7, <2>8, <2>9
  <2> HIDE DEF r, copy
  <2>13. ASSUME NEW d \in Conts
         PROVE  RunOnce(d)'
    <3>1. RunOnce(d) /\ store'[d] = store[d]
      BY <2>1 DEF OnceInv
    <3>2. store[d] # None /\ store[d].status = "suspended" => store[d].ask # s.ask
      BY <2>4, <2>12, <3>1 DEF RunOnce, Owned
    <3> QED  BY <2>1, <2>10, <3>1, <3>2 DEF RunOnce, Owned, Settles
  <2>14. ASSUME NEW b \in Actors
         PROVE  CopyOnce(b)'
    <3>1. CopyOnce(b) /\ ContOf(b)' = ContOf(b) /\ ResolvedCall(b)' = ResolvedCall(b)
      BY <2>1 DEF OnceInv, ContOf, ResolvedCall
    <3>2. CASE b = w
      <4>1. pc'[b] = "saveResolved" /\ loc'[b] = cp
        BY <1>1, <2>1, <2>12, <3>2
      <4>2. Owned(ContOf(b), loc[b].ask)'
        BY <1>0, <2>1, <2>4, <2>11, <3>1, <3>2, <4>1 DEF Owned
      <4> QED  BY <2>10, <2>11, <4>1, <4>2 DEF CopyOnce
    <3>3. CASE b # w
      <4>1. pc'[b] = pc[b] /\ loc'[b] = loc[b] /\ item'[b] = item[b] /\ reply'[b] = reply[b]
        BY <1>1, <2>1, <3>3
      <4>2. pc[b] \in Driving => ContOf(b) # c
        <5>1. pc[b] \in Driving => b \in Workers
          BY DEF SoleInv, Serial, Driving, EnginePlaces, EnqueuePlaces, Actors
        <5>2. Taking(w)
          BY <2>2 DEF Taking
        <5> QED  BY <1>0, <1>1, <3>3, <5>1, <5>2, TakerAlone
      <4>3. /\ pc[b] \in ResumePlaces \cup {"resolved"} => pc[b] \in Driving
            /\ pc[b] \in {"tools", "saveTurn"} => pc[b] \in Driving
        BY DEF Driving, EnginePlaces, ResumePlaces
      <4>4. pc[b] \in Driving => loc[b].ask # s.ask
        BY <2>12, <3>1, <4>2 DEF CopyOnce, Owned
      <4>5. pc[b] \in {"tools", "saveTurn"} => reply[b].ask # s.ask
        BY <2>12, <3>1, <4>2, <4>3 DEF CopyOnce, Owned
      <4>6. \A q \in Spent' : q \in Spent \/ q = s
        BY <2>10
      <4>7. /\ Owned(ContOf(b), loc[b].ask)' <=> Owned(ContOf(b), loc[b].ask)
            /\ Owned(ContOf(b), reply[b].ask)' <=> Owned(ContOf(b), reply[b].ask)
        BY <2>1, <3>1, <4>1 DEF Owned
      <4> QED  BY <3>1, <4>1, <4>3, <4>4, <4>5, <4>6, <4>7 DEF CopyOnce, Settles
    <3> QED  BY <3>2, <3>3
  <2>15. ASSUME NEW q \in Spent'
         PROVE  ran'[q] <= ToolAttempts /\ q.ask \in DOMAIN asked'
    <3>1. CASE q \in Spent
      <4>1. q # s /\ q \in Refs
        BY <2>12, <3>1 DEF Spent
      <4>2. ran'[q] = ran[q]
        BY <1>1, <2>12, <4>1
      <4> QED  BY <2>1, <3>1, <4>2 DEF OnceInv
    <3>2. CASE q \notin Spent
      <4>1. q = s /\ q.call \in Gated /\ ran'[q] > 0
        BY <2>10, <3>2 DEF Spent
      <4>2. ran[q] = 0
        BY <1>1, <2>12, <3>2, <4>1 DEF Spent
      <4>3. ran'[q] = times
        BY <1>1, <2>12, <4>1, <4>2, RuntimeAssumption
      <4> QED  BY <2>1, <2>12, <4>1, <4>3, RuntimeAssumption
    <3> QED  BY <3>1, <3>2
  <2> QED  BY <2>13, <2>14, <2>15 DEF OnceInv
<1> QED  BY <1>6, <1>7, <1>8, <1>9, <1>10, <1>11, <1>12, <1>14, <1>15, <1>17, <1>18, <1>19, <1>20,
            <1>21, <1>22, <1>23 DEF EngineNext, EngineEnter, EngineTurn

\* A worker outside the engine drives nothing.
LEMMA WorkerOnce ==
    ASSUME TypeInv, SoleInv, OnceInv, NEW w \in Workers, WorkerNext(w)
    PROVE  OnceInv'
<1>0. /\ w \in Actors
      /\ {"claimed", "starting", "ack", "nackPush"} \cap Driving = {}
      /\ item \in [Actors -> Items \cup {None}]
  BY DEF Actors, Driving, EnginePlaces, TypeInv, TypeOK
<1> USE DEF history, At, Goto
<1>1. ASSUME NEW it \in BagToSet(queue), Claim(w, it)
      PROVE  OnceInv'
  <2>1. /\ pc' = [pc EXCEPT ![w] = "claimed"]
        /\ \A b \in Actors \ {w} : /\ item'[b] = item[b]
                                   /\ loc'[b] = loc[b] /\ reply'[b] = reply[b]
        /\ UNCHANGED <<store, asked, ran>>
    BY <1>0, <1>1 DEF Claim
  <2> QED  BY <1>0, <2>1, OnceOutside
<1>2. CASE WinClaim(w) \/ SettleDone(w) \/ NackAck(w)
  <2>1. PICK place \in {"starting", "ack", "nackPush"} : pc' = [pc EXCEPT ![w] = place]
    BY <1>2 DEF WinClaim, SettleDone, NackAck
  <2>2. UNCHANGED <<store, item, loc, reply, asked, ran>>
    BY <1>2 DEF WinClaim, SettleDone, NackAck
  <2> QED  BY <1>0, <2>1, <2>2, OnceOutside
<1>3. CASE LoseClaim(w) \/ SettleFailed(w) \/ Ack(w) \/ NackPush(w)
  <2>1. Release(w) /\ UNCHANGED <<store, asked, ran>>
    BY <1>3 DEF LoseClaim, SettleFailed, Ack, NackPush
  <2> QED  BY <1>0, <2>1, OnceRelease
<1> QED  BY <1>0, <1>1, <1>2, <1>3, EnqueueOnce DEF WorkerNext, WorkerClaim, WorkerSettle

\* A new run has no reply yet.
LEMMA ClientOnce ==
    ASSUME OneProcess, TypeInv, SoleInv, OnceInv, NEW cl \in Clients, ClientNext(cl)
    PROVE  OnceInv'
<1>0. /\ cl \in Actors /\ "enqLoad" \notin Driving
      /\ item \in [Actors -> Items \cup {None}]
      /\ store \in [Conts -> Continuations \cup {None}]
  BY DEF Actors, Driving, EnginePlaces, TypeInv, TypeOK
<1>1. cl \notin Direct /\ pc[cl] # "retry"
  BY DEF OneProcess, SoleInv, Serial, EnqueuePlaces
<1> USE DEF history, At, Goto
<1>2. ASSUME NEW c \in Conts, Invoke(cl, c)
      PROVE  OnceInv'
  <2>1. /\ pc' = [pc EXCEPT ![cl] = "enqLoad"]
        /\ store' = [store EXCEPT ![c] = NewContinuation]
        /\ \A b \in Actors \ {cl} : item'[b] = item[b]
        /\ UNCHANGED <<loc, reply, asked, ran>>
    BY <1>0, <1>2 DEF Invoke
  <2>2. /\ store'[c].ask = 0 /\ store'[c].status = "running"
        /\ \A d \in Conts \ {c} : store'[d] = store[d]
    BY <1>0, <2>1 DEF NewContinuation
  <2>3. RunOnce(c)'
    BY <2>2 DEF RunOnce, Owned
  <2> QED  BY <1>0, <2>1, <2>2, <2>3, OnceOutside
<1>3. ASSUME NEW r \in refs, NEW out \in Outcomes, Answer(cl, r, out)
      PROVE  OnceInv'
  <2>1. /\ pc' = [pc EXCEPT ![cl] = "enqLoad"]
        /\ \A b \in Actors \ {cl} : item'[b] = item[b]
        /\ UNCHANGED <<store, loc, reply, asked, ran>>
    BY <1>0, <1>1, <1>3 DEF Answer
  <2> QED  BY <1>0, <2>1, OnceOutside
<1>4. ~RetryTask(cl) /\ ~TaskReturns(cl)
  BY <1>1 DEF RetryTask, TaskReturns
<1> QED  BY <1>0, <1>2, <1>3, <1>4, EnqueueOnce DEF ClientNext

\* A step that leaves the actors, the runs and the replies alone.
LEMMA QuietOnce ==
    ASSUME OnceInv, UNCHANGED <<store, pc, item, loc, reply, asked, ran>>
    PROVE  OnceInv'
BY DEF OnceInv, RunOnce, CopyOnce, Owned, Settles, Spent, ContOf, ResolvedCall

\* A fault saves nothing and runs nothing.
LEMMA FaultOnce ==
    ASSUME OneProcess, TypeInv, SoleInv, OnceInv, FaultNext
    PROVE  OnceInv'
<1>1. ASSUME NEW w \in Actors, Raise(w)
      PROVE  OnceInv'
  <2>1. PICK place \in {"ack", "nackAck"} : pc' = [pc EXCEPT ![w] = place]
    BY <1>1 DEF Raise, Goto
  <2>2. UNCHANGED <<store, item, loc, reply, asked, ran>>
    BY <1>1 DEF Raise
  <2>3. place \notin Driving
    BY DEF Driving, EnginePlaces
  <2> QED  BY <2>1, <2>2, <2>3, OnceOutside
<1>2. ASSUME NEW a \in Actors, Abandon(a)
      PROVE  OnceInv'
  BY <1>2, OnceRelease DEF Abandon
<1>3. ASSUME NEW cl \in Actors, TaskError(cl)
      PROVE  FALSE
  BY <1>3 DEF TaskError, OneProcess
<1>4. ASSUME NEW h \in Hosts, Crash(h) \/ Boot(h)
      PROVE  FALSE
  BY <1>4 DEF Crash, Boot, Fault, OneProcess, SoleInv, Serial
<1>5. CASE Flush
  BY <1>5, QuietOnce DEF Flush
<1> QED  BY <1>1, <1>2, <1>3, <1>4, <1>5 DEF FaultNext

\* Every step of the process keeps the invariant.
LEMMA NextOnce ==
    ASSUME OneProcess
    PROVE  TypeInv /\ TypeInv' /\ GrantInv /\ SoleInv /\ OnceInv /\ [Next]_vars => OnceInv'
<1> SUFFICES ASSUME TypeInv, TypeInv', GrantInv, SoleInv, OnceInv, [Next]_vars
             PROVE  OnceInv'
  OBVIOUS
<1>1. ASSUME NEW a \in Workers \cup Direct, EngineNext(a)
      PROVE  OnceInv'
  BY <1>1, EngineOnce DEF OneProcess
<1>2. CASE UNCHANGED vars
  BY <1>2, QuietOnce DEF vars
<1> QED  BY <1>1, <1>2, WorkerOnce, ClientOnce, FaultOnce DEF Next

\* The invariant holds at the start.
LEMMA InitOnce == Init => OnceInv
<1> SUFFICES ASSUME Init PROVE OnceInv
  OBVIOUS
<1>1. Spent = {} /\ \A c \in Conts : store[c] = None
  BY DEF Init, Start, Spent
<1>2. \A a \in Actors : pc[a] = "idle"
  BY DEF Init, Start
<1>3. \A a \in Actors : CopyOnce(a)
  BY <1>2 DEF CopyOnce, Driving, EnginePlaces, ResumePlaces
<1> QED  BY <1>1, <1>3 DEF OnceInv, RunOnce

\* In one process an approved call is dispatched at most once, whatever is
\* answered twice, delivered twice or retried (engine.py:270, "do NOT run the
\* tool again"): its tool is called no more often than one dispatch tries it.
THEOREM GatedDispatchedOnceInOneProcess ==
    ASSUME OneProcess
    PROVE  Spec => []GatedDispatchedOnce
<1>1. Spec => [](TypeInv /\ GrantInv /\ SoleInv /\ OnceInv)
  BY InitType, NextType, InitGrant, NextGrant, InitSole, NextSole, InitOnce, NextOnce, PTL DEF Spec
<1>2. TypeInv /\ OnceInv => GatedDispatchedOnce
  <2> SUFFICES ASSUME TypeInv, OnceInv, NEW r \in Refs, r.call \in Gated
               PROVE  ran[r] <= ToolAttempts
    BY DEF GatedDispatchedOnce
  <2>1. ran[r] \in Nat /\ (ran[r] > 0 => ran[r] <= ToolAttempts)
    BY DEF TypeInv, TypeOK, OnceInv, Spent
  <2> QED  BY <2>1, RuntimeAssumption
<1> QED  BY <1>1, <1>2, PTL

----------------------------------------------------------------------------
(***************************************************************************)
(* When a parked run can be driven again.  A run that waits for an answer  *)
(* is calm: an entry without a resolution cannot win its row, because the  *)
(* row carries a later epoch than any such entry, or nobody may win it.    *)
(***************************************************************************)
\* A worker has won the row of run c, or may win it.
Contested(c) ==
    \/ Claimable(ledger[c])
    \/ \E v \in Workers : pc[v] \in EnginePlaces /\ ContOf(v) = c

Calm(c) == Contested(c) => Below(c, ledger[c].epoch)

\* Somebody is about to give run c an entry without a resolution.
Requeued(c) == \E a \in Actors : Taking(a) /\ pc[a] = "enqUpsert" /\ ContOf(a) = c

CalmStays == \A c \in Conts : Calm(c) => Calm(c)' \/ Requeued(c)

\* A run stays calm if it gets no new bare entry, its row keeps its epoch and
\* nobody else comes to contest it.
LEMMA CalmKept ==
    ASSUME NEW c, Calm(c), BareOf(c)' \subseteq BareOf(c),
           ledger'[c].epoch = ledger[c].epoch, Contested(c)' => Contested(c)
    PROVE  Calm(c)'
<1> SUFFICES ASSUME Contested(c)' PROVE Below(c, ledger[c].epoch)'
  BY DEF Calm
<1>1. Below(c, ledger[c].epoch)
  BY DEF Calm
<1> QED  BY <1>1 DEF Below

\* One actor moves on, without coming to push an entry.
LEMMA CalmMove ==
    ASSUME TypeInv, NEW a \in Actors, NEW place, place # "enqPush",
           pc' = [pc EXCEPT ![a] = place],
           \A b \in Actors \ {a} : item'[b] = item[b] /\ loc'[b] = loc[b],
           BagToSet(queue') \subseteq Entries,
           a \in Workers /\ place # "idle" => item'[a] \in Entries,
           a \in Workers /\ place \in EnginePlaces => Contested(item'[a].cont),
           \A d \in Conts : /\ ledger'[d].epoch = ledger[d].epoch
                            /\ Claimable(ledger'[d]) => Contested(d)
    PROVE  CalmStays
<1>1. \A d : BareOf(d)' \subseteq BareOf(d)
  BY FewerEntries
<1>2. pc'[a] = place /\ \A b \in Actors \ {a} : pc'[b] = pc[b]
  BY DEF TypeInv, TypeOK
<1>3. ASSUME NEW d \in Conts, Contested(d)'
      PROVE  Contested(d)
  <2>1. CASE Claimable(ledger'[d])
    BY <2>1
  <2>2. CASE \E v \in Workers : pc'[v] \in EnginePlaces /\ item'[v].cont = d
    <3>1. PICK v \in Workers : pc'[v] \in EnginePlaces /\ item'[v].cont = d
      BY <2>2
    <3>2. CASE v = a
      BY <1>2, <3>1, <3>2
    <3>3. CASE v # a
      <4>1. pc[v] \in EnginePlaces /\ item[v].cont = d
        BY <1>2, <3>1, <3>3 DEF Actors
      <4> QED  BY <4>1 DEF Contested, ContOf
    <3> QED  BY <3>2, <3>3
  <2> QED  BY <1>3, <2>1, <2>2 DEF Contested, ContOf
<1> QED  BY <1>1, <1>3, CalmKept DEF CalmStays

\* An actor that drops what it was doing.
LEMMA CalmRelease ==
    ASSUME TypeInv, NEW a \in Actors, Release(a), BagToSet(queue') \subseteq Entries,
           ledger' = ledger
    PROVE  CalmStays
<1>1. /\ pc' = [pc EXCEPT ![a] = "idle"]
      /\ \A b \in Actors \ {a} : item'[b] = item[b] /\ loc'[b] = loc[b]
  BY DEF Release, Goto, SetLoc, TypeInv, TypeOK
<1>2. "idle" \notin EnginePlaces
  BY DEF EnginePlaces
<1> QED  BY <1>1, <1>2, CalmMove DEF Contested

\* The enqueuer: a resolution comes with an epoch of its own.
LEMMA CalmEnqueue ==
    ASSUME TypeInv, SoleInv, NEW a \in Actors, Enqueue(a)
    PROVE  CalmStays
<1>0. PICK c : c = ContOf(a)
  OBVIOUS
<1>1. /\ pc[a] # "idle" /\ c \in Conts
      /\ loc \in [Actors -> Continuations \cup {None}]
      /\ ledger \in [Conts -> Row \cup {None}]
      /\ pc \in [Actors -> Places]
      /\ a \in Workers => item[a] \in Entries
      /\ BagToSet(queue) \subseteq Entries
  <2>1. pc[a] # "idle"
    BY DEF Enqueue, EnqueueLoad, EnqueueSave, EnqueueUpsert, EnqueuePush, At
  <2> QED  BY <1>0, <2>1, BusyActor DEF TypeInv, TypeOK, Entries
<1>2. CASE EnqueueLoad(a) \/ EnqueueSave(a)
  <2>1. PICK place \in {"enqSave", "enqUpsert"} : pc' = [pc EXCEPT ![a] = place]
    BY <1>2 DEF EnqueueLoad, EnqueueSave, Goto
  <2>2. /\ UNCHANGED <<ledger, queue, item>>
        /\ \A b \in Actors \ {a} : loc'[b] = loc[b]
    BY <1>1, <1>2 DEF EnqueueLoad, EnqueueSave, SetLoc
  <2>3. place \notin EnginePlaces
    BY DEF EnginePlaces
  <2> QED  BY <1>1, <2>1, <2>2, <2>3, CalmMove DEF Contested
<1>3. CASE EnqueueUpsert(a)
  <2>1. /\ pc[a] = "enqUpsert" /\ pc' = [pc EXCEPT ![a] = "enqPush"]
        /\ ledger' = [ledger EXCEPT ![c] = UpsertQueued(@, loc[a].epoch)]
        /\ UNCHANGED <<queue, item, loc>>
    BY <1>0, <1>3 DEF EnqueueUpsert, At, Goto, history
  <2>2. Below(c, loc[a].epoch)
    BY <1>0, <2>1 DEF SoleInv, AtWork
  <2>3. ledger'[c].epoch = loc[a].epoch /\ \A d \in Conts \ {c} : ledger'[d] = ledger[d]
    BY <1>1, <2>1 DEF UpsertQueued
  <2>4. pc'[a] = "enqPush" /\ \A b \in Actors \ {a} : pc'[b] = pc[b]
    BY <1>1, <2>1
  <2>5. Entries' \subseteq Entries \cup {NewEntry(a)}
    <3>1. \A b \in Actors : NewEntry(b)' = NewEntry(b)
      BY <2>1 DEF NewEntry, ContOf
    <3>2. \A w \in Workers : pc'[w] # "idle" => pc[w] # "idle"
      BY <1>1, <2>4 DEF Actors
    <3>3. \A b \in Actors : pc'[b] = "enqPush" => pc[b] = "enqPush" \/ b = a
      BY <2>4
    <3> QED  BY <2>1, <3>1, <3>2, <3>3 DEF Entries
  <2>6. NewEntry(a).cont = c /\ (~Taking(a) => NewEntry(a).res # None)
    BY <1>0, <2>1 DEF NewEntry, Taking, Bumping, EnqueuePlaces
  <2>7. ASSUME NEW d \in Conts, Calm(d), ~Requeued(d)
        PROVE  Calm(d)'
    <3>1. BareOf(d)' \subseteq BareOf(d)
      <4>1. d = c => ~Taking(a)
        BY <1>0, <2>1, <2>7 DEF Requeued
      <4> QED  BY <2>5, <2>6, <4>1 DEF BareOf
    <3>2. CASE d = c
      <4>1. Below(d, ledger[d].epoch)'
        BY <2>2, <2>3, <3>1, <3>2 DEF Below
      <4> QED  BY <4>1 DEF Calm
    <3>3. CASE d # c
      <4>1. Contested(d)' => Contested(d)
        <5>1. \A v \in Workers : pc'[v] \in EnginePlaces => pc[v] \in EnginePlaces
          BY <2>4 DEF Actors, EnginePlaces
        <5> QED  BY <2>1, <2>3, <3>3, <5>1 DEF Contested, ContOf
      <4> QED  BY <2>3, <2>7, <3>1, <3>3, <4>1, CalmKept
    <3> QED  BY <3>2, <3>3
  <2> QED  BY <2>7 DEF CalmStays
<1>4. CASE EnqueuePush(a)
  <2>1. pc[a] = "enqPush" /\ queue' = queue (+) SetToBag({NewEntry(a)}) /\ ledger' = ledger
    BY <1>4 DEF EnqueuePush, At
  <2>2. BagToSet(queue') \subseteq Entries
    <3>1. BagToSet(queue') = BagToSet(queue) \cup {NewEntry(a)}
      BY <2>1, BagAdd DEF TypeInv, TypeOK
    <3> QED  BY <2>1, <3>1 DEF Entries
  <2>3. CASE a \in Workers
    <3>1. pc' = [pc EXCEPT ![a] = "ack"] /\ UNCHANGED <<item, loc>>
      BY <1>4, <2>3 DEF EnqueuePush, Goto
    <3>2. "ack" \notin EnginePlaces
      BY DEF EnginePlaces
    <3> QED  BY <1>1, <2>1, <2>2, <3>1, <3>2, CalmMove DEF Contested
  <2>4. CASE a \notin Workers
    BY <1>4, <2>1, <2>2, <2>4, CalmRelease DEF EnqueuePush
  <2> QED  BY <2>3, <2>4
<1> QED  BY <1>2, <1>3, <1>4 DEF Enqueue

\* A worker outside the engine.
LEMMA CalmWorker ==
    ASSUME TypeInv, SoleInv, NEW w \in Workers, WorkerNext(w)
    PROVE  CalmStays
<1>0. /\ w \in Actors
      /\ item \in [Actors -> Items \cup {None}]
      /\ ledger \in [Conts -> Row \cup {None}]
      /\ BagToSet(Acked(w)) \subseteq Entries /\ BagToSet(queue) \subseteq Entries
  BY QueueLess DEF Actors, TypeInv, TypeOK, Entries
<1>1. {"claimed", "ack", "nackPush"} \cap EnginePlaces = {}
  BY DEF EnginePlaces
<1>2. pc[w] # "idle" => item[w] \in Entries /\ ContOf(w) \in Conts
                          /\ ledger[ContOf(w)] \in Row \cup {None}
  BY <1>0, BusyActor DEF Entries
<1> USE DEF history, At, Goto, Ledgered
<1>3. ASSUME NEW it \in BagToSet(queue), Claim(w, it)
      PROVE  CalmStays
  <2>1. /\ pc' = [pc EXCEPT ![w] = "claimed"] /\ item'[w] = it
        /\ \A b \in Actors \ {w} : item'[b] = item[b]
        /\ UNCHANGED <<ledger, queue, loc>>
    BY <1>0, <1>3 DEF Claim
  <2> QED  BY <1>0, <1>1, <2>1, CalmMove DEF Contested
<1>4. CASE WinClaim(w)
  <2>1. /\ pc[w] = "claimed" /\ pc' = [pc EXCEPT ![w] = "starting"]
        /\ Claimable(ledger[ContOf(w)])
        /\ ledger' = [ledger EXCEPT ![ContOf(w)] = MarkRunning(ledger[ContOf(w)])]
        /\ UNCHANGED <<queue, item, loc>>
    BY <1>4 DEF WinClaim, CanMarkRunning
  <2>2. ledger[ContOf(w)] \in Row
    BY <1>2, <2>1 DEF Claimable
  <2>3. MarkRunning(ledger[ContOf(w)]).epoch = ledger[ContOf(w)].epoch
    BY <2>2 DEF MarkRunning, Row
  <2>4. Contested(ContOf(w))
    BY <2>1 DEF Contested
  <2>5. \A d \in Conts : /\ ledger'[d].epoch = ledger[d].epoch
                         /\ Claimable(ledger'[d]) => Contested(d)
    BY <1>0, <1>2, <2>1, <2>3, <2>4 DEF Contested
  <2>6. item'[w] = item[w] /\ item'[w] \in Entries /\ Contested(item'[w].cont)
    BY <1>2, <2>1, <2>4 DEF ContOf
  <2> QED  BY <1>0, <2>1, <2>5, <2>6, CalmMove
<1>5. CASE LoseClaim(w) \/ SettleFailed(w) \/ Ack(w)
  BY <1>0, <1>5, CalmRelease DEF LoseClaim, SettleFailed, Ack
<1>6. CASE SettleDone(w)
  <2>1. /\ pc[w] = "settleDone" /\ pc' = [pc EXCEPT ![w] = "ack"]
        /\ ledger' = [ledger EXCEPT ![ContOf(w)] = Finalize(ledger[ContOf(w)], "done")]
        /\ UNCHANGED <<queue, item, loc>>
    BY <1>6 DEF SettleDone
  <2>2. /\ Finalize(ledger[ContOf(w)], "done").epoch = ledger[ContOf(w)].epoch
        /\ ~Claimable(Finalize(ledger[ContOf(w)], "done"))
    BY <1>2, <2>1 DEF Finalize, Claimable, Row
  <2>3. \A d \in Conts : /\ ledger'[d].epoch = ledger[d].epoch
                         /\ Claimable(ledger'[d]) => Contested(d)
    BY <1>0, <1>2, <2>1, <2>2 DEF Contested
  <2> QED  BY <1>0, <1>1, <1>2, <2>1, <2>3, CalmMove
<1>7. CASE NackAck(w)
  <2>1. /\ pc[w] = "nackAck" /\ pc' = [pc EXCEPT ![w] = "nackPush"]
        /\ BagToSet(queue') \subseteq Entries /\ UNCHANGED <<ledger, item, loc>>
    BY <1>0, <1>7 DEF NackAck
  <2> QED  BY <1>0, <1>1, <1>2, <2>1, CalmMove DEF Contested
<1>8. CASE NackPush(w)
  <2>1. pc[w] = "nackPush" /\ Release(w) /\ queue' = queue (+) SetToBag({item[w]}) /\ ledger' = ledger
    BY <1>8 DEF NackPush, Entry
  <2>2. BagToSet(queue') = BagToSet(queue) \cup {item[w]}
    BY <1>2, <2>1, BagAdd DEF TypeInv, TypeOK
  <2> QED  BY <1>0, <1>2, <2>1, <2>2, CalmRelease
<1> QED  BY <1>0, <1>3, <1>4, <1>5, <1>6, <1>7, <1>8, CalmEnqueue
         DEF WorkerNext, WorkerClaim, WorkerSettle

\* A client.
LEMMA CalmClient ==
    ASSUME OneProcess, TypeInv, SoleInv, NEW cl \in Clients, ClientNext(cl)
    PROVE  CalmStays
<1>0. /\ cl \in Actors /\ cl \notin Workers /\ "enqLoad" \notin EnginePlaces
      /\ item \in [Actors -> Items \cup {None}]
      /\ BagToSet(queue) \subseteq Entries
  BY RuntimeAssumption DEF Actors, EnginePlaces, TypeInv, TypeOK, Entries
<1>1. cl \notin Direct /\ pc[cl] # "retry"
  BY DEF OneProcess, SoleInv, Serial, EnqueuePlaces
<1>2. ASSUME \/ \E c \in Conts : Invoke(cl, c)
             \/ \E r \in refs, out \in Outcomes : Answer(cl, r, out)
      PROVE  CalmStays
  <2>1. /\ pc' = [pc EXCEPT ![cl] = "enqLoad"]
        /\ \A b \in Actors \ {cl} : item'[b] = item[b]
        /\ UNCHANGED <<ledger, queue, loc>>
    BY <1>0, <1>1, <1>2 DEF Invoke, Answer, Goto
  <2> QED  BY <1>0, <2>1, CalmMove DEF Contested
<1>3. ~RetryTask(cl) /\ ~TaskReturns(cl)
  BY <1>1 DEF RetryTask, TaskReturns, At
<1> QED  BY <1>0, <1>2, <1>3, CalmEnqueue DEF ClientNext

\* The engine works on a run whose row its worker has won.
LEMMA CalmEngine ==
    ASSUME TypeInv, NEW w \in Workers, EngineNext(w)
    PROVE  CalmStays
<1>0. /\ w \in Actors /\ loc \in [Actors -> Continuations \cup {None}]
      /\ BagToSet(queue) \subseteq Entries
  BY DEF Actors, TypeInv, TypeOK, Entries
<1> USE DEF history, At, Goto, SetLoc
<1>1. /\ pc[w] \in EnginePlaces
      /\ UNCHANGED <<ledger, queue, item>>
      /\ \A b \in Actors \ {w} : loc'[b] = loc[b]
      /\ \E place \in Places \ {"enqPush"} : pc' = [pc EXCEPT ![w] = place]
  <2> USE DEF EnginePlaces, EnqueuePlaces, SettlePlaces, Places
  <2>1. CASE DriveNothing(w) \/ ResumeNothing(w)
    BY <2>1 DEF DriveNothing, ResumeNothing, Settled
  <2>2. CASE Drive(w) \/ Resume(w)
    BY <1>0, <2>2 DEF Drive, Resume
  <2>3. CASE SaveRunning(w) \/ SaveResuming(w)
    BY <1>0, <2>3 DEF SaveRunning, SaveResuming, StepPlace, AfterResuming
  <2>4. CASE \E times \in 0 .. ToolAttempts : GatedTool(w, times)
    BY <1>0, <2>4 DEF GatedTool
  <2>5. CASE SaveResolved(w) \/ ParkAgain(w) \/ FinishPark(w)
    BY <1>0, <2>5 DEF SaveResolved, ParkAgain, FinishPark, StepPlace
  <2>6. CASE MaxTurnsReached(w) \/ FinalAnswer(w) \/ ModelError(w) \/ Preempted(w)
    BY <1>0, <2>6 DEF MaxTurnsReached, FinalAnswer, ModelError, Preempted, End
  <2>7. CASE \/ \E calls \in SUBSET Calls \ {{}} : AskTools(w, calls)
             \/ RunTools(w)
    BY <1>0, <2>7 DEF AskTools, RunTools
  <2>8. CASE Park(w) \/ IndexRefs(w) \/ SaveTools(w)
    BY <1>0, <2>8 DEF Park, IndexRefs, SaveTools
  <2>9. CASE Continue(w)
    BY <1>0, <2>9 DEF Continue, AfterContinue
  <2> QED  BY <2>1, <2>2, <2>3, <2>4, <2>5, <2>6, <2>7, <2>8, <2>9
           DEF EngineNext, EngineEnter, EngineTurn
<1>2. Contested(item'[w].cont) /\ item'[w] \in Entries
  <2>1. pc[w] # "idle" /\ item'[w] = item[w]
    BY <1>1 DEF EnginePlaces
  <2> QED  BY <1>1, <2>1 DEF Contested, ContOf, Entries
<1>3. BagToSet(queue') \subseteq Entries
  BY <1>0, <1>1
<1>4. PICK place \in Places \ {"enqPush"} : pc' = [pc EXCEPT ![w] = place]
  BY <1>1
<1>5. \A d \in Conts : /\ ledger'[d].epoch = ledger[d].epoch
                       /\ Claimable(ledger'[d]) => Contested(d)
  BY <1>1 DEF Contested
<1> QED  BY <1>0, <1>1, <1>2, <1>3, <1>4, <1>5, CalmMove

\* A step that leaves the actors and the ledger alone, and only loses entries.
LEMMA CalmQuiet ==
    ASSUME BagToSet(queue') \subseteq BagToSet(queue), UNCHANGED <<ledger, pc, item, loc>>
    PROVE  CalmStays
<1>1. \A a \in Actors : NewEntry(a)' = NewEntry(a)
  BY DEF NewEntry, ContOf
<1>2. \A d : BareOf(d)' \subseteq BareOf(d)
  BY <1>1 DEF BareOf, Entries
<1>3. \A d : Contested(d)' => Contested(d)
  BY DEF Contested, ContOf
<1> QED  BY <1>2, <1>3, CalmKept DEF CalmStays

\* The faults of a process that is not restarted: a task that raises gives up
\* a row that it held.
LEMMA CalmFault ==
    ASSUME OneProcess, TypeInv, SoleInv, FaultNext
    PROVE  CalmStays
<1>0. BagToSet(queue) \subseteq Entries
  BY DEF Entries
<1>1. ASSUME NEW w \in Actors, Raise(w)
      PROVE  CalmStays
  <2> DEFINE row == MarkRetryable(ledger[ContOf(w)])
             place == IF Exhausted(ledger[ContOf(w)]) THEN "ack" ELSE "nackAck"
  <2>1. /\ w \in Workers /\ pc[w] \in EnginePlaces
        /\ pc' = [pc EXCEPT ![w] = place]
        /\ ledger' = [ledger EXCEPT ![ContOf(w)] = row]
        /\ UNCHANGED <<queue, item, loc>>
    BY <1>1 DEF Raise, Goto, Ledgered
  <2>2. place \in {"ack", "nackAck"}
    OBVIOUS
  <2>3. /\ pc[w] # "idle" /\ ledger[ContOf(w)] \in Row /\ ContOf(w) \in Conts
        /\ ledger \in [Conts -> Row \cup {None}]
    BY <2>1, BusyActor DEF TypeInv, TypeOK, Claimed, EnginePlaces, Actors
  <2>4. row.epoch = ledger[ContOf(w)].epoch
    BY <2>3 DEF MarkRetryable, Row
  <2> HIDE DEF row, place
  <2>5. Contested(ContOf(w)) /\ item'[w] \in Entries
    BY <2>1, <2>3 DEF Contested, Entries
  <2>6. \A d \in Conts : /\ ledger'[d].epoch = ledger[d].epoch
                         /\ Claimable(ledger'[d]) => Contested(d)
    BY <2>1, <2>3, <2>4, <2>5 DEF Contested
  <2>7. place \notin EnginePlaces /\ place # "enqPush"
    BY <2>2 DEF EnginePlaces
  <2> QED  BY <1>0, <2>1, <2>5, <2>6, <2>7, CalmMove
<1>2. ASSUME NEW a \in Actors, Abandon(a)
      PROVE  CalmStays
  BY <1>0, <1>2, CalmRelease DEF Abandon
<1>3. ASSUME NEW cl \in Actors, TaskError(cl)
      PROVE  FALSE
  BY <1>3 DEF TaskError, OneProcess
<1>4. ASSUME NEW h \in Hosts, Crash(h) \/ Boot(h)
      PROVE  FALSE
  BY <1>4 DEF Crash, Boot, Fault, OneProcess, SoleInv, Serial
<1>5. CASE Flush
  <2>1. BagToSet(queue') \subseteq BagToSet(queue) /\ UNCHANGED <<ledger, pc, item, loc>>
    BY <1>5, BagNone DEF Flush
  <2> QED  BY <2>1, CalmQuiet
<1> QED  BY <1>1, <1>2, <1>3, <1>4, <1>5 DEF FaultNext

\* Every step of the process.
LEMMA CalmSteps ==
    ASSUME OneProcess
    PROVE  TypeInv /\ SoleInv /\ [Next]_vars => CalmStays
<1> SUFFICES ASSUME TypeInv, SoleInv, [Next]_vars
             PROVE  CalmStays
  OBVIOUS
<1>1. ASSUME NEW a \in Workers \cup Direct, EngineNext(a)
      PROVE  CalmStays
  BY <1>1, CalmEngine DEF OneProcess
<1>2. CASE UNCHANGED vars
  BY <1>2, CalmQuiet DEF vars
<1> QED  BY <1>1, <1>2, CalmWorker, CalmClient, CalmFault DEF Next

----------------------------------------------------------------------------
(***************************************************************************)
(* The inductive invariant behind ParkedTurnIsKept.  A run whose calls     *)
(* were put to a human has moved on to a later turn, or is over, or still  *)
(* waits (or takes an answer) and is calm; so whoever drives a turn of it  *)
(* drives a later one.                                                     *)
(***************************************************************************)
Standing == {"suspended", "resuming"}

\* The run of r has left the turn r is from, or all turns references are from.
Past(r) == store[RunOf(r)].turn > asked[r.ask].turn
Later(c) == \A r \in refs : RunOf(r) = c => Past(r)

Held(r) ==
    \/ Past(r)
    \/ /\ store[RunOf(r)].turn = asked[r.ask].turn
       /\ \/ Over(RunOf(r))
          \/ store[RunOf(r)].status \in Standing /\ Calm(RunOf(r))

\* Where a run is taken to a turn that has not been parked.
AheadPlaces == (Driving \cup Bumping) \ (ResumePlaces \cup {"resolved", "indexRefs"})
Ahead(a) == Taking(a) /\ pc[a] \in AheadPlaces => Later(ContOf(a))

\* A driver's copy and its reply: the reply is the last one of its run, and of
\* the turn the copy is at.
Noted(w) ==
    /\ pc[w] \in ResumePlaces \cup {"resolved"} => loc[w].status = "resuming"
    /\ pc[w] \in {"tools", "saveTurn", "indexRefs"} =>
         /\ asked[reply[w].ask] = [cont |-> ContOf(w), turn |-> loc[w].turn]
         /\ \A k \in DOMAIN asked : k > reply[w].ask => asked[k].cont # ContOf(w)

ParkInv ==
    /\ ParkedTurnIsKept
    /\ \A r \in refs : Held(r)
    /\ \A a \in Actors : Ahead(a)
    /\ \A w \in Workers : Noted(w)

\* What a step may do to a run whose calls wait.
Steady(c) ==
    \/ Later(c)
    \/ store'[c].turn > store[c].turn
    \/ /\ store'[c].turn = store[c].turn
       /\ store'[c].status = store[c].status \/ store'[c].status \in Standing

\* A reference names a reply of a run.
LEMMA RefFields ==
    ASSUME TypeInv, NEW r \in refs
    PROVE  /\ r.ask \in DOMAIN asked /\ r.ask \in Nat
           /\ RunOf(r) \in Conts /\ asked[r.ask].turn \in Nat
           /\ store[RunOf(r)] \in Continuations /\ store[RunOf(r)] # None
           /\ store[RunOf(r)].turn \in Nat
<1>1. r.ask \in DOMAIN asked /\ RuntimeAssumption
  BY RuntimeAssumption DEF TypeInv, Known
<1>2. DOMAIN asked = 1 .. Len(asked) /\ asked[r.ask] \in [cont: Conts, turn: 0 .. MaxTurns]
  <2>1. DOMAIN asked = 1 .. Len(asked) /\ asked \in Seq([cont: Conts, turn: 0 .. MaxTurns])
    BY AskedTyped DEF TypeInv, TypeOK
  <2>2. r.ask \in 1 .. Len(asked)
    BY <1>1, <2>1
  <2> QED  BY <2>1, <2>2, SeqElement
<1>3. store[RunOf(r)] # None /\ RunOf(r) \in Conts
  BY <1>1, <1>2 DEF TypeInv, Known, RunOf
<1>4. store[RunOf(r)] \in Continuations
  BY <1>3 DEF TypeInv, TypeOK
<1> QED  BY <1>1, <1>2, <1>3, <1>4, RuntimeAssumption DEF Continuations

\* A turn that was left stays left.
LEMMA PastStays ==
    ASSUME TypeInv, TypeInv', Advance, NEW r \in refs, Past(r), r \in refs',
           asked'[r.ask] = asked[r.ask]
    PROVE  Past(r)'
<1>1. PICK c : c = RunOf(r)
  OBVIOUS
<1>2. /\ c \in Conts /\ store[c] # None /\ store[c].turn \in Nat
      /\ store[c].turn > asked[r.ask].turn /\ asked[r.ask].turn \in Nat
  BY <1>1, RefFields DEF Past
<1>3. RunOf(r)' = c /\ store'[c].turn >= store[c].turn
  BY <1>1, <1>2 DEF RunOf, Advance
<1>4. store'[c].turn \in Nat
  <2>1. store'[c] # None /\ RuntimeAssumption
    BY <1>1, <1>3, RuntimeAssumption DEF TypeInv, Known, RunOf
  <2> QED  BY <1>2, <2>1 DEF TypeInv, TypeOK, Continuations, RuntimeAssumption
<1> QED  BY <1>2, <1>3, <1>4 DEF Past

\* A reference that is held stays so.
LEMMA HeldStays ==
    ASSUME TypeInv, TypeInv', Advance, CalmStays, NEW r \in refs, r \in refs', Held(r),
           asked'[r.ask] = asked[r.ask],
           Steady(RunOf(r)), Requeued(RunOf(r)) => Past(r)
    PROVE  Held(r)'
<1>1. CASE Past(r)
  BY <1>1, PastStays DEF Held
<1>2. CASE ~Past(r)
  <2>1. PICK c : c = RunOf(r)
    OBVIOUS
  <2>2. /\ c \in Conts /\ store[c] # None /\ store[c].turn \in Nat /\ RunOf(r)' = c
        /\ store[c].turn = asked[r.ask].turn
        /\ Over(c) \/ (store[c].status \in Standing /\ Calm(c))
        /\ ~Later(c) /\ ~Requeued(c)
    BY <1>2, <2>1, RefFields DEF Held, Later, RunOf
  <2>3. /\ store'[c].turn >= store[c].turn /\ store'[c] # None
        /\ store'[c].turn \in Nat
    <3>1. store'[c].turn >= store[c].turn /\ store'[c] # None
      BY <2>1, <2>2 DEF Advance, TypeInv, Known, RunOf
    <3> QED  BY <2>2, <3>1, RuntimeAssumption DEF TypeInv, TypeOK, Continuations
  <2>4. Past(r)' \/ store'[c].turn = asked'[r.ask].turn
    BY <2>2, <2>3 DEF Past
  <2>5. CASE Over(c)
    <3>1. store'[c].status \in {"done", "failed"}
      BY <2>2, <2>5 DEF Advance, Over
    <3> QED  BY <2>2, <2>3, <2>4, <3>1 DEF Held, Over
  <2>6. CASE store[c].status \in Standing /\ Calm(c)
    <3>1. Calm(c)'
      BY <2>2, <2>6 DEF CalmStays
    <3>2. store'[c].turn > store[c].turn \/ store'[c].status \in Standing
      BY <2>1, <2>2, <2>6 DEF Steady
    <3>3. CASE store'[c].turn > store[c].turn
      BY <2>2, <2>3, <3>3 DEF Past, Held
    <3>4. CASE store'[c].status \in Standing
      BY <2>2, <2>4, <3>1, <3>4 DEF Held
    <3> QED  BY <3>2, <3>3, <3>4
  <2> QED  BY <2>2, <2>5, <2>6
<1> QED  BY <1>1, <1>2

\* Only runs that are taken to a later turn are given a bare entry.
LEMMA RequeuedIsPast ==
    ASSUME ParkInv, NEW r \in refs, Requeued(RunOf(r))
    PROVE  Past(r)
<1>1. PICK a \in Actors : Taking(a) /\ pc[a] = "enqUpsert" /\ ContOf(a) = RunOf(r)
  BY DEF Requeued
<1>2. "enqUpsert" \in AheadPlaces
  BY DEF AheadPlaces, Bumping, EnqueuePlaces, ResumePlaces
<1> QED  BY <1>1, <1>2 DEF ParkInv, Ahead, Later

\* One actor steps, without a new reply and without a new reference.
LEMMA ParkStep ==
    ASSUME TypeInv, TypeInv', ParkInv, Advance, CalmStays, NEW a,
           \A b \in Actors \ {a} : /\ pc'[b] = pc[b] /\ item'[b] = item[b]
                                   /\ loc'[b] = loc[b] /\ reply'[b] = reply[b],
           UNCHANGED <<refs, asked>>,
           \A c \in Conts : Steady(c),
           Ahead(a)',
           a \in Workers => Noted(a)'
    PROVE  ParkInv'
<1>1. \A r \in refs : Held(r)'
  BY RefFields, RequeuedIsPast, HeldStays DEF ParkInv
<1>2. \A r \in refs : Past(r) => Past(r)'
  BY PastStays
<1>3. ASSUME NEW b \in Actors
      PROVE  Ahead(b)'
  <2>1. CASE b = a
    BY <2>1
  <2>2. CASE b # a
    <3>1. Ahead(b) /\ pc'[b] = pc[b] /\ item'[b] = item[b]
      BY <2>2 DEF ParkInv
    <3> QED  BY <1>2, <3>1 DEF Ahead, Taking, Later, RunOf, ContOf
  <2> QED  BY <2>1, <2>2
<1>4. ASSUME NEW w \in Workers
      PROVE  Noted(w)'
  <2>1. CASE w = a
    BY <2>1
  <2>2. CASE w # a
    BY <2>2 DEF ParkInv, Noted, ContOf, Actors
  <2> QED  BY <2>1, <2>2
<1>5. ParkedTurnIsKept'
  BY DEF ParkInv, ParkedTurnIsKept
<1> QED  BY <1>1, <1>3, <1>4, <1>5 DEF ParkInv

\* An actor that goes where nothing is driven and nothing is requeued.
LEMMA ParkOutside ==
    ASSUME TypeInv, TypeInv', ParkInv, Advance, CalmStays, NEW a \in Actors,
           NEW place, place \notin Driving \cup Bumping, pc' = [pc EXCEPT ![a] = place],
           \A b \in Actors \ {a} : /\ item'[b] = item[b]
                                   /\ loc'[b] = loc[b] /\ reply'[b] = reply[b],
           UNCHANGED <<refs, asked>>,
           \A c \in Conts : Steady(c)
    PROVE  ParkInv'
<1>1. pc'[a] = place /\ \A b \in Actors \ {a} : pc'[b] = pc[b]
  BY DEF TypeInv, TypeOK
<1>2. Ahead(a)' /\ Noted(a)'
  BY <1>1 DEF Ahead, AheadPlaces, Noted, Driving, EnginePlaces, ResumePlaces
<1> QED  BY <1>1, <1>2, ParkStep

\* An actor that drops what it was doing.
LEMMA ParkRelease ==
    ASSUME TypeInv, TypeInv', ParkInv, Advance, CalmStays, NEW a \in Actors, Release(a),
           UNCHANGED <<store, refs, asked>>
    PROVE  ParkInv'
<1>1. "idle" \notin Driving \cup Bumping
  BY DEF Driving, EnginePlaces, Bumping, EnqueuePlaces
<1>2. /\ pc' = [pc EXCEPT ![a] = "idle"]
      /\ \A b \in Actors \ {a} : /\ item'[b] = item[b]
                                 /\ loc'[b] = loc[b] /\ reply'[b] = reply[b]
  BY DEF Release, Goto, SetLoc, TypeInv, TypeOK
<1>3. \A c \in Conts : Steady(c)
  BY DEF Steady
<1> QED  BY <1>1, <1>2, <1>3, ParkOutside

\* What all references of a run are from stays behind it.
LEMMA LaterStays ==
    ASSUME TypeInv, TypeInv', Advance, UNCHANGED <<refs, asked>>, NEW c, Later(c)
    PROVE  Later(c)'
BY PastStays DEF Later, RunOf

\* The enqueuer does not change what turn a run is at.
LEMMA EnqueuePark ==
    ASSUME TypeInv, TypeInv', SoleInv, ParkInv, Advance, CalmStays, NEW a \in Actors, Enqueue(a)
    PROVE  ParkInv'
<1>0. PICK c : c = ContOf(a)
  OBVIOUS
<1>1. /\ pc[a] # "idle" /\ c \in Conts /\ store[c] \in Continuations
      /\ store \in [Conts -> Continuations \cup {None}]
      /\ loc \in [Actors -> Continuations \cup {None}]
      /\ pc \in [Actors -> Places]
  <2>1. pc[a] # "idle"
    BY DEF Enqueue, EnqueueLoad, EnqueueSave, EnqueueUpsert, EnqueuePush, At
  <2> QED  BY <1>0, <2>1, BusyActor DEF TypeInv, TypeOK
<1> USE DEF At, Goto, SetLoc, Save, history
<1>2. store' = store => \A d \in Conts : Steady(d)
  BY DEF Steady
<1>3. ASSUME NEW place \in {"enqSave", "enqUpsert"}, pc[a] \in {"enqLoad", "enqSave"},
             pc' = [pc EXCEPT ![a] = place],
             \A b \in Actors \ {a} : loc'[b] = loc[b],
             UNCHANGED <<item, reply, refs, asked>>,
             \A d \in Conts : Steady(d)
      PROVE  ParkInv'
  <2>1. pc'[a] = place /\ item'[a] = item[a] /\ \A b \in Actors \ {a} : pc'[b] = pc[b]
    BY <1>1, <1>3
  <2>2. {"enqLoad", "enqSave"} \subseteq AheadPlaces \cap Bumping /\ place \notin Driving
    BY DEF AheadPlaces, Bumping, EnqueuePlaces, ResumePlaces, Driving, EnginePlaces
  <2>3. Taking(a)' => Taking(a)
    BY <1>3, <2>1, <2>2 DEF Taking
  <2>4. Taking(a)' => Later(c)
    BY <1>0, <1>3, <2>2, <2>3 DEF ParkInv, Ahead
  <2>5. Ahead(a)'
    <3>1. ContOf(a)' = c /\ (Later(c) => Later(c)')
      BY <1>0, <1>3, LaterStays DEF ContOf
    <3> QED  BY <2>4, <3>1 DEF Ahead, Later
  <2>6. Noted(a)'
    BY <2>1 DEF Noted, ResumePlaces
  <2> QED  BY <1>3, <2>1, <2>5, <2>6, ParkStep
<1>4. CASE EnqueueLoad(a)
  <2>1. \A b \in Actors \ {a} : loc'[b] = loc[b]
    BY <1>1, <1>4 DEF EnqueueLoad
  <2> QED  BY <1>2, <1>3, <1>4, <2>1 DEF EnqueueLoad
<1>5. CASE EnqueueSave(a)
  <2>1. /\ pc[a] = "enqSave" /\ pc' = [pc EXCEPT ![a] = "enqUpsert"]
        /\ store' = [store EXCEPT ![c] = loc[a]]
        /\ UNCHANGED <<loc, item, reply, refs, asked>>
    BY <1>0, <1>5 DEF EnqueueSave
  <2>2. loc[a] = [store[c] EXCEPT !.epoch = @ + 1]
    BY <1>0, <2>1 DEF SoleInv, AtWork
  <2>3. loc[a].turn = store[c].turn /\ loc[a].status = store[c].status
    BY <1>1, <2>2 DEF Continuations
  <2>4. \A d \in Conts : Steady(d)
    BY <1>1, <2>1, <2>3 DEF Steady
  <2> QED  BY <1>3, <2>1, <2>4
<1>6. "enqPush" \notin Driving \cup Bumping /\ "ack" \notin Driving \cup Bumping
  BY DEF Driving, EnginePlaces, Bumping, EnqueuePlaces
<1>7. CASE EnqueueUpsert(a)
  BY <1>2, <1>6, <1>7, ParkOutside DEF EnqueueUpsert
<1>8. CASE EnqueuePush(a)
  BY <1>2, <1>6, <1>8, ParkOutside, ParkRelease DEF EnqueuePush
<1> QED  BY <1>4, <1>5, <1>7, <1>8 DEF Enqueue

\* The steps of the engine.
LEMMA EnginePark ==
    ASSUME OneProcess, TypeInv, TypeInv', SoleInv, ParkInv, Advance, CalmStays,
           NEW w \in Workers, EngineNext(w)
    PROVE  ParkInv'
<1>0. PICK c : c = ContOf(w)
  OBVIOUS
<1>1. /\ w \in Actors /\ pc[w] \in EnginePlaces /\ c \in Conts
      /\ store[c] \in Continuations /\ store[c] # None
      /\ store \in [Conts -> Continuations \cup {None}]
      /\ loc \in [Actors -> Continuations \cup {None}]
      /\ reply \in [Actors -> Replies \cup {None}]
      /\ pc \in [Actors -> Places]
      /\ MaxTurns \in Nat
  <2>1. pc[w] \in EnginePlaces
    BY DEF EngineNext, EngineEnter, EngineTurn, DriveNothing, Drive, SaveRunning, ResumeNothing,
       Resume, SaveResuming, GatedTool, SaveResolved, ParkAgain, FinishPark, MaxTurnsReached,
       FinalAnswer, ModelError, AskTools, RunTools, Park, IndexRefs, SaveTools, Continue,
       Preempted, At, EnginePlaces
  <2>2. pc[w] # "idle" /\ w \in Actors
    BY <2>1 DEF EnginePlaces, Actors
  <2> QED  BY <1>0, <2>1, <2>2, BusyActor, NoneAssumption, RuntimeAssumption DEF TypeInv, TypeOK
<1>2. ASSUME pc[w] \in Driving
      PROVE  /\ loc[w] \in Continuations /\ loc[w].turn \in Nat
             /\ loc[w].turn = store[c].turn
             /\ Taking(w) /\ Noted(w)
             /\ pc[w] \in AheadPlaces => Later(c)
  <2>1. pc[w] \in CopyPlaces
    BY <1>2 DEF Driving, CopyPlaces
  <2> QED  BY <1>0, <1>1, <1>2, <2>1, CopyHolder DEF SoleInv, Leads, ParkInv, Ahead, Taking, Continuations
<1> USE DEF At, Goto, SetLoc, Save, history
<1>3. /\ EnginePlaces \ {"starting"} \subseteq Driving
      /\ {"saveRunning", "turn", "tools", "saveTurn", "turnDone", "maxTurns"}
           \subseteq AheadPlaces \cap Driving
      /\ {"settleDone", "settleFailed"} \cap (Driving \cup Bumping) = {}
  BY DEF Driving, AheadPlaces, Bumping, EnginePlaces, EnqueuePlaces, ResumePlaces
<1>4. store' = store => \A d \in Conts : Steady(d)
  BY DEF Steady
\* w goes on with the same entry and the same reply.
<1>5. ASSUME NEW place \in Places, pc' = [pc EXCEPT ![w] = place],
             NEW copy, loc' = [loc EXCEPT ![w] = copy],
             UNCHANGED <<item, reply, refs, asked>>,
             \A d \in Conts : Steady(d),
             place \in AheadPlaces => Later(c)',
             place \in ResumePlaces \cup {"resolved"} => copy.status = "resuming",
             place \in {"tools", "saveTurn", "indexRefs"} =>
               /\ asked[reply[w].ask] = [cont |-> c, turn |-> copy.turn]
               /\ \A k \in DOMAIN asked : k > reply[w].ask => asked[k].cont # c
      PROVE  ParkInv'
  <2>1. \A b \in Actors \ {w} : /\ pc'[b] = pc[b] /\ item'[b] = item[b]
                                /\ loc'[b] = loc[b] /\ reply'[b] = reply[b]
    BY <1>1, <1>5
  <2>2. pc'[w] = place /\ loc'[w] = copy /\ ContOf(w)' = c
    BY <1>0, <1>1, <1>5 DEF ContOf
  <2>3. Ahead(w)'
    BY <1>5, <2>2 DEF Ahead, Later
  <2>4. Noted(w)'
    BY <1>5, <2>2 DEF Noted
  <2> QED  BY <1>5, <2>1, <2>3, <2>4, ParkStep
\* w runs a turn that has not been parked, and goes on with it or ends it.
<1>6. ASSUME pc[w] \in {"saveRunning", "turn", "saveTurn", "turnDone", "maxTurns"},
             NEW place \in {"turn", "maxTurns", "turnDone", "settleDone", "settleFailed", "enqLoad"},
             pc' = [pc EXCEPT ![w] = place],
             NEW copy, loc' = [loc EXCEPT ![w] = copy],
             store' = store \/ store' = [store EXCEPT ![c] = copy],
             UNCHANGED <<item, reply, refs, asked>>
      PROVE  ParkInv'
  <2>1. Later(c)
    BY <1>2, <1>3, <1>6
  <2>2. \A d \in Conts : Steady(d)
    BY <1>1, <1>6, <2>1 DEF Steady
  <2>3. Later(c)'
    BY <1>6, <2>1, LaterStays
  <2>4. /\ place \in Places /\ place \notin ResumePlaces \cup {"resolved"}
        /\ place \notin {"tools", "saveTurn", "indexRefs"}
    BY DEF Places, EnginePlaces, SettlePlaces, EnqueuePlaces, ResumePlaces
  <2> QED  BY <1>5, <1>6, <2>2, <2>3, <2>4
<1>7. CASE DriveNothing(w) \/ ResumeNothing(w)
  BY <1>1, <1>3, <1>4, <1>7, ParkOutside DEF DriveNothing, ResumeNothing, Settled
<1>8. CASE Drive(w)
  <2>1. /\ pc[w] = "starting" /\ item[w].res = None /\ Drivable(c)
        /\ pc' = [pc EXCEPT ![w] = "saveRunning"]
        /\ loc' = [loc EXCEPT ![w] = Redriven(store[c])]
        /\ UNCHANGED <<store, item, reply, refs, asked>>
    BY <1>0, <1>8 DEF Drive
  <2>2. ~Calm(c)
    <3>1. ledger[c].epoch = item[w].epoch
      BY <1>0, <1>1, <2>1 DEF SoleInv, AtWork
    <3>2. item[w] \in BareOf(c)
      BY <1>0, <2>1 DEF BareOf, Entries, ContOf
    <3>3. Contested(c)
      BY <1>0, <1>1 DEF Contested
    <3>4. item[w].epoch \in Nat
      BY <3>2, EpochTypes
    <3> QED  BY <3>1, <3>2, <3>3, <3>4 DEF Calm, Below
  <2>3. Later(c)
    <3>1. SUFFICES ASSUME NEW r \in refs, RunOf(r) = c
                   PROVE  Past(r)
      BY DEF Later
    <3>2. ~Over(c)
      BY <2>1 DEF Over, Drivable
    <3> QED  BY <2>2, <3>1, <3>2 DEF ParkInv, Held
  <2>4. Later(c)'
    BY <2>1, <2>3, LaterStays
  <2>5. "saveRunning" \in Places /\ "saveRunning" \notin ResumePlaces \cup {"resolved"}
    BY DEF Places, EnginePlaces, ResumePlaces
  <2> QED  BY <1>4, <1>5, <2>1, <2>4, <2>5
<1>9. CASE Resume(w)
  <2>1. /\ pc' = [pc EXCEPT ![w] = "saveResuming"]
        /\ loc' = [loc EXCEPT ![w] = [store[c] EXCEPT !.status = "resuming"]]
        /\ UNCHANGED <<store, item, reply, refs, asked>>
    BY <1>0, <1>9 DEF Resume
  <2>2. PICK copy : copy = [store[c] EXCEPT !.status = "resuming"]
    OBVIOUS
  <2>3. "saveResuming" \in Places /\ "saveResuming" \notin AheadPlaces
    BY DEF Places, EnginePlaces, AheadPlaces, ResumePlaces
  <2>4. copy.status = "resuming"
    BY <1>1, <2>2 DEF Continuations
  <2> QED  BY <1>4, <1>5, <2>1, <2>2, <2>3, <2>4
<1>10. CASE SaveRunning(w)
  <2>1. /\ pc[w] = "saveRunning" /\ pc' = [pc EXCEPT ![w] = StepPlace(loc[w])]
        /\ store' = [store EXCEPT ![c] = loc[w]]
        /\ loc' = [loc EXCEPT ![w] = loc[w]]
        /\ UNCHANGED <<item, reply, refs, asked>>
    BY <1>0, <1>1, <1>10 DEF SaveRunning
  <2>2. StepPlace(loc[w]) \in {"turn", "maxTurns"}
    BY DEF StepPlace
  <2> QED  BY <1>6, <2>1, <2>2
\* w takes an answer: the run stays at its turn until all calls are resolved.
<1>11. ASSUME pc[w] \in ResumePlaces \cup {"resolved"},
              NEW place \in ResumePlaces \cup {"resolved", "settleDone", "settleFailed"},
              pc' = [pc EXCEPT ![w] = place],
              NEW copy, loc' = [loc EXCEPT ![w] = copy],
              place \in ResumePlaces \cup {"resolved"} => copy.status = "resuming",
              \/ store' = store
              \/ \E saved : /\ store' = [store EXCEPT ![c] = saved]
                            /\ saved.turn = loc[w].turn /\ saved.status \in Standing,
              UNCHANGED <<item, reply, refs, asked>>
       PROVE  ParkInv'
  <2>1. pc[w] \in Driving
    BY <1>3, <1>11 DEF ResumePlaces, EnginePlaces
  <2>2. \A d \in Conts : Steady(d)
    BY <1>1, <1>2, <1>4, <1>11, <2>1 DEF Steady
  <2>3. place \in Places /\ place \notin AheadPlaces /\ place \notin {"tools", "saveTurn", "indexRefs"}
    BY <1>3 DEF Places, EnginePlaces, SettlePlaces, ResumePlaces, AheadPlaces
  <2> QED  BY <1>5, <1>11, <2>2, <2>3
<1>12. ASSUME pc[w] \in ResumePlaces \cup {"resolved"}
       PROVE  /\ loc[w] \in Continuations /\ loc[w].status = "resuming" /\ loc[w].status \in Standing
              /\ \A k, s : LET set == SetCall(loc[w], k, s)
                           IN  set.status = "resuming" /\ set.turn = loc[w].turn
  <2>1. pc[w] \in Driving
    BY <1>3, <1>12 DEF ResumePlaces, EnginePlaces
  <2> QED  BY <1>2, <1>12, <2>1 DEF Noted, Standing, SetCall, Continuations
<1>13. CASE SaveResuming(w)
  <2>1. /\ pc[w] = "saveResuming" /\ pc' = [pc EXCEPT ![w] = AfterResuming(w)]
        /\ store' = [store EXCEPT ![c] = loc[w]]
        /\ UNCHANGED <<item, reply, refs, asked>>
    BY <1>0, <1>13 DEF SaveResuming
  <2>2. pc[w] \in ResumePlaces
    BY <2>1 DEF ResumePlaces
  <2>3. AfterResuming(w) \in ResumePlaces \cup {"resolved", "settleFailed"}
    BY DEF AfterResuming, ResumePlaces
  <2>4. PICK copy : loc' = [loc EXCEPT ![w] = copy] /\ copy.status = "resuming"
    BY <1>12, <1>13, <2>2 DEF SaveResuming
  <2> QED  BY <1>11, <1>12, <2>1, <2>2, <2>3, <2>4
<1>14. ASSUME NEW times \in 0 .. ToolAttempts, GatedTool(w, times)
       PROVE  ParkInv'
  <2>1. /\ pc[w] = "gatedTool" /\ pc' = [pc EXCEPT ![w] = "saveResolved"]
        /\ loc' = [loc EXCEPT ![w] = SetCall(loc[w], ResolvedCall(w), "executed")]
        /\ UNCHANGED <<store, item, reply, refs, asked>>
    BY <1>14 DEF GatedTool
  <2>2. pc[w] \in ResumePlaces /\ "saveResolved" \in ResumePlaces
    BY <2>1 DEF ResumePlaces
  <2> QED  BY <1>11, <1>12, <2>1, <2>2
<1>15. CASE SaveResolved(w)
  <2>1. /\ pc[w] = "saveResolved" /\ pc' = [pc EXCEPT ![w] = "resolved"]
        /\ store' = [store EXCEPT ![c] = loc[w]]
        /\ loc' = [loc EXCEPT ![w] = loc[w]]
        /\ UNCHANGED <<item, reply, refs, asked>>
    BY <1>0, <1>1, <1>15 DEF SaveResolved
  <2>2. pc[w] \in ResumePlaces
    BY <2>1 DEF ResumePlaces
  <2> QED  BY <1>11, <1>12, <2>1, <2>2
<1>16. CASE ParkAgain(w)
  <2>1. /\ pc[w] = "resolved" /\ pc' = [pc EXCEPT ![w] = "settleDone"]
        /\ store' = [store EXCEPT ![c] = [loc[w] EXCEPT !.status = "suspended"]]
        /\ loc' = [loc EXCEPT ![w] = [loc[w] EXCEPT !.status = "suspended"]]
        /\ UNCHANGED <<item, reply, refs, asked>>
    BY <1>0, <1>16 DEF ParkAgain
  <2>2. PICK last : last = [loc[w] EXCEPT !.status = "suspended"]
    OBVIOUS
  <2>3. "settleDone" \notin ResumePlaces \cup {"resolved"}
    BY DEF ResumePlaces
  <2>4. last.turn = loc[w].turn /\ last.status \in Standing
    BY <1>12, <2>1, <2>2 DEF Continuations, Standing
  <2> QED  BY <1>11, <2>1, <2>2, <2>3, <2>4
<1>17. CASE FinishPark(w)
  <2>1. /\ pc[w] = "resolved" /\ pc' = [pc EXCEPT ![w] = StepPlace(Unparked(loc[w]))]
        /\ store' = [store EXCEPT ![c] = Unparked(loc[w])]
        /\ loc' = [loc EXCEPT ![w] = Unparked(loc[w])]
        /\ UNCHANGED <<item, reply, refs, asked>>
    BY <1>0, <1>17 DEF FinishPark
  <2>2. pc[w] \in Driving
    BY <1>3, <2>1 DEF EnginePlaces
  <2>3. Unparked(loc[w]).turn = store[c].turn + 1 /\ store[c].turn \in Nat
    BY <1>2, <2>2, TurnFields
  <2>4. store'[c].turn = store[c].turn + 1 /\ \A d \in Conts \ {c} : store'[d] = store[d]
    BY <1>1, <2>1, <2>3
  <2>5. \A d \in Conts : Steady(d)
    BY <2>3, <2>4 DEF Steady
  <2>6. Later(c)'
    <3>1. SUFFICES ASSUME NEW r \in refs, RunOf(r) = c
                   PROVE  store'[c].turn > asked[r.ask].turn
      BY <2>1 DEF Later, Past, RunOf
    <3>2. Held(r) /\ asked[r.ask].turn \in Nat
      BY <3>1, RefFields DEF ParkInv
    <3> QED  BY <2>3, <2>4, <3>1, <3>2 DEF Held, Past
  <2>7. /\ StepPlace(Unparked(loc[w])) \in Places
        /\ StepPlace(Unparked(loc[w])) \notin ResumePlaces \cup {"resolved"}
        /\ StepPlace(Unparked(loc[w])) \notin {"tools", "saveTurn", "indexRefs"}
    BY DEF StepPlace, Places, EnginePlaces, ResumePlaces
  <2> QED  BY <1>5, <2>1, <2>5, <2>6, <2>7
<1>18. CASE MaxTurnsReached(w) \/ FinalAnswer(w) \/ Preempted(w) \/ ModelError(w)
  <2>1. PICK status \in {"done", "failed"}, place \in {"settleDone", "settleFailed"} :
          /\ End(w, status, place) /\ pc[w] \in {"maxTurns", "turn", "turnDone"}
    BY <1>18 DEF MaxTurnsReached, FinalAnswer, Preempted, ModelError
  <2>2. PICK last : last = [loc[w] EXCEPT !.status = status]
    OBVIOUS
  <2>3. /\ pc' = [pc EXCEPT ![w] = place] /\ store' = [store EXCEPT ![c] = last]
        /\ loc' = [loc EXCEPT ![w] = last]
        /\ UNCHANGED <<item, reply, refs, asked>>
    BY <1>0, <2>1, <2>2 DEF End
  <2> QED  BY <1>6, <2>1, <2>3
<1>19. CASE SaveTools(w)
  <2>1. /\ pc[w] = "saveTurn" /\ pc' = [pc EXCEPT ![w] = "turnDone"]
        /\ store' = [store EXCEPT ![c] = loc[w]] /\ loc' = [loc EXCEPT ![w] = loc[w]]
        /\ UNCHANGED <<item, reply, refs, asked>>
    BY <1>0, <1>1, <1>19 DEF SaveTools
  <2> QED  BY <1>6, <2>1
<1>20. CASE Continue(w)
  <2>1. PICK place \in {"settleDone", "enqLoad", "maxTurns"} : pc' = [pc EXCEPT ![w] = place]
    BY <1>20 DEF Continue, AfterContinue
  <2>2. /\ pc[w] = "turnDone" /\ store' = [store EXCEPT ![c] = NextTurn(loc[w])]
        /\ loc' = [loc EXCEPT ![w] = NextTurn(loc[w])]
        /\ UNCHANGED <<item, reply, refs, asked>>
    BY <1>0, <1>20 DEF Continue
  <2> QED  BY <1>6, <2>1, <2>2
<1>21. CASE RunTools(w)
  <2>1. /\ pc[w] = "tools" /\ pc' = [pc EXCEPT ![w] = "saveTurn"]
        /\ loc' = [loc EXCEPT ![w] = loc[w]]
        /\ UNCHANGED <<store, item, reply, refs, asked>>
    BY <1>1, <1>21 DEF RunTools
  <2>2. Noted(w) /\ Later(c)'
    BY <1>2, <1>3, <2>1, LaterStays
  <2>3. "saveTurn" \in Places /\ "saveTurn" \notin ResumePlaces \cup {"resolved"}
    BY DEF Places, EnginePlaces, ResumePlaces
  <2> QED  BY <1>0, <1>4, <1>5, <2>1, <2>2, <2>3 DEF Noted
<1>22. CASE Park(w)
  <2>1. /\ pc[w] = "saveTurn" /\ pc' = [pc EXCEPT ![w] = "indexRefs"]
        /\ store' = [store EXCEPT ![c] = Parked(w)]
        /\ loc' = [loc EXCEPT ![w] = Parked(w)]
        /\ UNCHANGED <<item, reply, refs, asked>>
    BY <1>0, <1>22 DEF Park
  <2>2. Noted(w) /\ Later(c) /\ Parked(w).turn = loc[w].turn
    BY <1>2, <1>3, <2>1 DEF Parked, Continuations
  <2>3. \A d \in Conts : Steady(d)
    BY <1>1, <2>1, <2>2 DEF Steady
  <2>4. "indexRefs" \in Places /\ "indexRefs" \notin ResumePlaces \cup {"resolved"} \cup AheadPlaces
    BY DEF Places, EnginePlaces, ResumePlaces, AheadPlaces
  <2> QED  BY <1>0, <1>5, <2>1, <2>2, <2>3, <2>4 DEF Noted
\* A parked run becomes one that can be found: it waits, and it is calm.
<1>23. CASE IndexRefs(w)
  <2>1. /\ pc[w] = "indexRefs" /\ pc' = [pc EXCEPT ![w] = "settleDone"]
        /\ \A r \in refs' : r \in refs \/ r.ask = reply[w].ask
        /\ refs \subseteq refs'
        /\ UNCHANGED <<store, ledger, queue, item, loc, reply, asked>>
    BY <1>23 DEF IndexRefs, RefOf
  <2>2. pc'[w] = "settleDone" /\ \A b \in Actors \ {w} : pc'[b] = pc[b]
    BY <1>1, <2>1
  <2>3. /\ pc[w] \in Driving /\ Leads(w)
    BY <1>3, <2>1 DEF EnginePlaces, SoleInv
  <2>4. /\ asked[reply[w].ask].cont = c /\ asked[reply[w].ask].turn = store[c].turn
        /\ store[c].status = "suspended"
        /\ \A k \in DOMAIN asked : k > reply[w].ask => asked[k].cont # c
    BY <1>0, <1>2, <2>1, <2>3 DEF Noted, Leads
  <2>5. Calm(c)'
    <3>1. \A d : BareOf(d)' \subseteq BareOf(d)
      <4>1. BagToSet(queue') \subseteq Entries /\ item'[w] \in Entries
        BY <2>1 DEF Entries
      <4> QED  BY <1>1, <2>1, <4>1, FewerEntries
    <3>2. Contested(c)' => Rivalled(w)
      BY <1>0, <2>1, <2>2 DEF Contested, Rivalled, ContOf, Actors, EnginePlaces
    <3>3. Rivalled(w) => Below(c, ledger[c].epoch)
      BY <1>0, <2>3 DEF Leads
    <3> QED  BY <2>1, <3>1, <3>2, <3>3 DEF Calm, Below
  <2>6. ASSUME NEW r \in refs'
        PROVE  Held(r)' /\ \A k \in DOMAIN asked : k > r.ask => asked[k] # asked[r.ask]
    <3>1. CASE r \in refs
      <4>1. Held(r)'
        <5>1. RunOf(r) \in Conts /\ (Requeued(RunOf(r)) => Past(r))
          BY <3>1, RefFields, RequeuedIsPast
        <5> QED  BY <1>4, <2>1, <3>1, <5>1, HeldStays DEF ParkInv
      <4> QED  BY <3>1, <4>1 DEF ParkInv, ParkedTurnIsKept
    <3>2. CASE r \notin refs
      <4>1. r.ask = reply[w].ask
        BY <2>1, <3>2
      <4>2. Held(r)'
        BY <2>1, <2>4, <2>5, <4>1 DEF Held, Standing, RunOf
      <4> QED  BY <2>4, <4>1, <4>2
    <3> QED  BY <3>1, <3>2
  <2>7. ASSUME NEW b \in Actors
        PROVE  Ahead(b)'
    <3>1. CASE b = w
      BY <1>3, <2>2, <3>1 DEF Ahead, AheadPlaces
    <3>2. CASE b # w
      <4>1. pc'[b] = pc[b] /\ item'[b] = item[b] /\ Ahead(b) /\ (Taking(b)' => Taking(b))
        BY <2>1, <2>2, <3>2 DEF ParkInv, Taking
      <4>2. Taking(b) => ContOf(b) # c
        BY <1>0, <1>1, <1>2, <2>3, <3>2 DEF SoleInv
      <4>3. Later(ContOf(b)) /\ ContOf(b) # c => Later(ContOf(b))'
        BY <2>1, <2>4 DEF Later, Past, RunOf, ContOf
      <4> QED  BY <4>1, <4>2, <4>3 DEF Ahead
    <3> QED  BY <3>1, <3>2
  <2>8. ASSUME NEW v \in Workers
        PROVE  Noted(v)'
    <3>1. CASE v = w
      BY <2>2, <3>1 DEF Noted, ResumePlaces
    <3>2. CASE v # w
      BY <2>1, <2>2, <3>2 DEF ParkInv, Noted, ContOf, Actors
    <3> QED  BY <3>1, <3>2
  <2>9. ParkedTurnIsKept'
    BY <2>1, <2>6 DEF ParkedTurnIsKept
  <2> QED  BY <2>6, <2>7, <2>8, <2>9 DEF ParkInv
\* A new reply, of a turn that has not been parked.
<1>24. ASSUME NEW calls \in SUBSET Calls \ {{}}, AskTools(w, calls)
       PROVE  ParkInv'
  <2>0. PICK n : n = Len(asked) + 1
    OBVIOUS
  <2>1. /\ pc[w] = "turn" /\ pc' = [pc EXCEPT ![w] = "tools"]
        /\ asked' = Append(asked, [cont |-> c, turn |-> loc[w].turn])
        /\ reply'[w].ask = n
        /\ \A b \in Actors \ {w} : reply'[b] = reply[b]
        /\ UNCHANGED <<store, refs, item, loc>>
    BY <1>0, <1>1, <1>24, <2>0 DEF AskTools
  <2>2. /\ pc[w] \in Driving /\ pc[w] \in AheadPlaces /\ Later(c)
        /\ loc[w].turn = store[c].turn
    BY <1>2, <1>3, <2>1
  <2>3. /\ DOMAIN asked = 1 .. Len(asked) /\ Len(asked) \in Nat
        /\ DOMAIN asked' = DOMAIN asked \cup {n} /\ n \notin DOMAIN asked
        /\ asked'[n] = [cont |-> c, turn |-> store[c].turn]
        /\ \A k \in DOMAIN asked : asked'[k] = asked[k] /\ k < n
    <3>1. /\ DOMAIN asked = 1 .. Len(asked) /\ Len(asked) \in Nat
          /\ asked \in Seq([cont: Conts, turn: 0 .. MaxTurns])
      BY AskedTyped DEF TypeInv, TypeOK
    <3>2. [cont |-> c, turn |-> loc[w].turn] \in [cont: Conts, turn: 0 .. MaxTurns]
      BY <1>1, <1>2, <2>2 DEF Continuations
    <3>3. /\ Len(asked') = n
          /\ asked'[n] = [cont |-> c, turn |-> loc[w].turn]
          /\ \A k \in 1 .. Len(asked) : asked'[k] = asked[k]
          /\ DOMAIN asked' = 1 .. n
      BY <2>0, <2>1, <3>1, <3>2
    <3> QED  BY <2>0, <2>2, <3>1, <3>3
  <2>4. /\ pc'[w] = "tools" /\ \A b \in Actors \ {w} : pc'[b] = pc[b]
        /\ \A b \in Actors : ContOf(b)' = ContOf(b)
    BY <1>1, <2>1 DEF ContOf
  <2>5. ASSUME NEW r \in refs
        PROVE  /\ r.ask \in DOMAIN asked /\ RunOf(r)' = RunOf(r)
               /\ Held(r)' /\ (Past(r) => Past(r)')
    <3>1. r.ask \in DOMAIN asked /\ RunOf(r) \in Conts
      BY RefFields
    <3>2. asked'[r.ask] = asked[r.ask] /\ RunOf(r)' = RunOf(r) /\ r \in refs'
      BY <2>1, <2>3, <3>1 DEF RunOf
    <3>3. Past(r) => Past(r)'
      BY <3>2, PastStays
    <3> QED  BY <1>4, <2>1, <3>1, <3>2, <3>3, RequeuedIsPast, HeldStays DEF ParkInv
  <2>6. ASSUME NEW r \in refs, NEW k \in DOMAIN asked', k > r.ask
        PROVE  asked'[k] # asked'[r.ask]
    <3>1. r.ask \in DOMAIN asked /\ asked'[r.ask] = asked[r.ask]
      BY <2>3, <2>5
    <3>2. CASE k \in DOMAIN asked
      BY <2>3, <2>6, <3>1, <3>2 DEF ParkInv, ParkedTurnIsKept
    <3>3. CASE k = n
      <4>1. RunOf(r) = c => store[c].turn > asked[r.ask].turn
        BY <2>2, <2>6 DEF Later, Past
      <4>2. asked[r.ask].turn \in Nat
        BY <2>6, RefFields
      <4> QED  BY <2>3, <3>1, <3>3, <4>1, <4>2 DEF RunOf
    <3> QED  BY <2>3, <3>2, <3>3
  <2>7. ASSUME NEW b \in Actors
        PROVE  Ahead(b)'
    <3>1. Later(ContOf(b)) => Later(ContOf(b))'
      BY <2>1, <2>4, <2>5 DEF Later
    <3>2. CASE b = w
      BY <1>0, <2>2, <3>1, <3>2 DEF Ahead
    <3>3. CASE b # w
      <4>1. Ahead(b) /\ pc'[b] = pc[b] /\ (Taking(b)' => Taking(b))
        BY <2>1, <2>4, <3>3 DEF ParkInv, Taking
      <4> QED  BY <3>1, <4>1 DEF Ahead
    <3> QED  BY <3>2, <3>3
  <2>8. ASSUME NEW v \in Workers
        PROVE  Noted(v)'
    <3>1. CASE v = w
      <4>1. asked'[reply'[v].ask] = [cont |-> ContOf(v)', turn |-> loc'[v].turn]
        BY <1>0, <2>1, <2>2, <2>3, <2>4, <3>1 DEF Actors
      <4>2. \A k \in DOMAIN asked' : ~(k > reply'[v].ask)
        BY <2>1, <2>3, <3>1, <2>0
      <4> QED  BY <2>4, <3>1, <4>1, <4>2 DEF Noted, ResumePlaces
    <3>2. CASE v # w
      <4>1. /\ v \in Actors /\ Noted(v) /\ pc'[v] = pc[v] /\ reply'[v] = reply[v]
            /\ loc'[v] = loc[v] /\ ContOf(v)' = ContOf(v)
        BY <2>1, <2>4, <3>2 DEF ParkInv, Actors
      <4>2. ASSUME pc[v] \in {"tools", "saveTurn", "indexRefs"}
            PROVE  ContOf(v) # c /\ reply[v].ask \in DOMAIN asked
        <5>1. pc[v] \in Driving
          BY <1>3, <4>2 DEF EnginePlaces
        <5>2. reply[v] # None
          BY <4>1, <4>2 DEF TypeInv, InHand, ReplyPlaces
        <5> QED  BY <1>0, <1>1, <1>2, <2>2, <3>2, <4>1, <5>1, <5>2, TakerAlone DEF TypeInv, Known
      <4>3. ASSUME pc[v] \in {"tools", "saveTurn", "indexRefs"}
            PROVE  /\ asked'[reply'[v].ask] = [cont |-> ContOf(v)', turn |-> loc'[v].turn]
                   /\ \A k \in DOMAIN asked' : k > reply'[v].ask => asked'[k].cont # ContOf(v)'
        BY <2>3, <4>1, <4>2, <4>3 DEF Noted
      <4> QED  BY <4>1, <4>3 DEF Noted
    <3> QED  BY <3>1, <3>2
  <2>9. ParkedTurnIsKept'
    BY <2>1, <2>6 DEF ParkedTurnIsKept
  <2> QED  BY <2>1, <2>5, <2>7, <2>8, <2>9 DEF ParkInv
<1> QED  BY <1>7, <1>8, <1>9, <1>10, <1>13, <1>14, <1>15, <1>16, <1>17, <1>18, <1>19, <1>20, <1>21,
            <1>22, <1>23, <1>24 DEF EngineNext, EngineEnter, EngineTurn

\* A worker outside the engine drives nothing.
LEMMA WorkerPark ==
    ASSUME TypeInv, TypeInv', SoleInv, ParkInv, Advance, CalmStays,
           NEW w \in Workers, WorkerNext(w)
    PROVE  ParkInv'
<1>0. /\ w \in Actors
      /\ {"claimed", "starting", "ack", "nackPush"} \cap (Driving \cup Bumping) = {}
      /\ item \in [Actors -> Items \cup {None}]
  BY DEF Actors, Driving, EnginePlaces, Bumping, EnqueuePlaces, TypeInv, TypeOK
<1>1. store' = store => \A d \in Conts : Steady(d)
  BY DEF Steady
<1> USE DEF history, At, Goto
<1>2. ASSUME NEW it \in BagToSet(queue), Claim(w, it)
      PROVE  ParkInv'
  <2>1. /\ pc' = [pc EXCEPT ![w] = "claimed"]
        /\ \A b \in Actors \ {w} : /\ item'[b] = item[b]
                                   /\ loc'[b] = loc[b] /\ reply'[b] = reply[b]
        /\ UNCHANGED <<store, refs, asked>>
    BY <1>0, <1>2 DEF Claim
  <2> QED  BY <1>0, <1>1, <2>1, ParkOutside
<1>3. CASE WinClaim(w) \/ SettleDone(w) \/ NackAck(w)
  <2>1. PICK place \in {"starting", "ack", "nackPush"} : pc' = [pc EXCEPT ![w] = place]
    BY <1>3 DEF WinClaim, SettleDone, NackAck
  <2>2. UNCHANGED <<store, refs, item, loc, reply, asked>>
    BY <1>3 DEF WinClaim, SettleDone, NackAck
  <2> QED  BY <1>0, <1>1, <2>1, <2>2, ParkOutside
<1>4. CASE LoseClaim(w) \/ SettleFailed(w) \/ Ack(w) \/ NackPush(w)
  <2>1. Release(w) /\ UNCHANGED <<store, refs, asked>>
    BY <1>4 DEF LoseClaim, SettleFailed, Ack, NackPush
  <2> QED  BY <1>0, <2>1, ParkRelease
<1>5. CASE Enqueue(w)
  BY <1>0, <1>5, EnqueuePark
<1> QED  BY <1>2, <1>3, <1>4, <1>5 DEF WorkerNext, WorkerClaim, WorkerSettle

\* A new run has no references yet, and an answer brings a resolution.
LEMMA ClientPark ==
    ASSUME OneProcess, TypeInv, TypeInv', SoleInv, ParkInv, Advance, CalmStays,
           NEW cl \in Clients, ClientNext(cl)
    PROVE  ParkInv'
<1>0. /\ cl \in Actors /\ cl \notin Workers
      /\ item \in [Actors -> Items \cup {None}]
      /\ store \in [Conts -> Continuations \cup {None}]
      /\ pc \in [Actors -> Places]
      /\ "enqLoad" \in EnqueuePlaces
  BY RuntimeAssumption DEF Actors, EnqueuePlaces, TypeInv, TypeOK
<1>1. cl \notin Direct /\ pc[cl] # "retry"
  BY DEF OneProcess, SoleInv, Serial, EnqueuePlaces
<1> USE DEF history, At, Goto
<1>2. ASSUME NEW c \in Conts, Invoke(cl, c)
      PROVE  ParkInv'
  <2>1. /\ pc' = [pc EXCEPT ![cl] = "enqLoad"] /\ store[c] = None
        /\ store' = [store EXCEPT ![c] = NewContinuation]
        /\ item'[cl].cont = c
        /\ \A b \in Actors \ {cl} : item'[b] = item[b]
        /\ UNCHANGED <<loc, reply, refs, asked>>
    BY <1>0, <1>2 DEF Invoke
  <2>2. \A r \in refs : RunOf(r) # c
    BY <2>1, RefFields
  <2>3. \A d \in Conts : Steady(d)
    <3>1. \A d \in Conts \ {c} : store'[d] = store[d]
      BY <1>0, <2>1
    <3> QED  BY <2>2, <3>1 DEF Steady, Later
  <2>4. Ahead(cl)'
    BY <2>1, <2>2 DEF Ahead, Later, RunOf, ContOf
  <2>5. \A b \in Actors \ {cl} : pc'[b] = pc[b]
    BY <1>0, <2>1
  <2> QED  BY <1>0, <2>1, <2>3, <2>4, <2>5, ParkStep
<1>3. ASSUME NEW r \in refs, NEW out \in Outcomes, Answer(cl, r, out)
      PROVE  ParkInv'
  <2>1. /\ pc' = [pc EXCEPT ![cl] = "enqLoad"]
        /\ item'[cl].res = [ref |-> r, outcome |-> out]
        /\ \A b \in Actors \ {cl} : item'[b] = item[b]
        /\ UNCHANGED <<store, loc, reply, refs, asked>>
    BY <1>0, <1>1, <1>3 DEF Answer
  <2>2. \A d \in Conts : Steady(d)
    BY <2>1 DEF Steady
  <2>3. pc'[cl] = "enqLoad" /\ \A b \in Actors \ {cl} : pc'[b] = pc[b]
    BY <1>0, <2>1
  <2>4. item'[cl].res # None
    BY <1>3, <2>1, NoneAssumption DEF Resolutions, TypeInv, TypeOK
  <2>5. Ahead(cl)'
    BY <1>0, <2>3, <2>4 DEF Ahead, Taking, Driving, EnginePlaces
  <2> QED  BY <1>0, <2>1, <2>2, <2>3, <2>5, ParkStep
<1>4. ~RetryTask(cl) /\ ~TaskReturns(cl)
  BY <1>1 DEF RetryTask, TaskReturns
<1>5. CASE Enqueue(cl)
  BY <1>0, <1>5, EnqueuePark
<1> QED  BY <1>2, <1>3, <1>4, <1>5 DEF ClientNext

\* A step that leaves the actors, the runs and the references alone.
LEMMA QuietPark ==
    ASSUME TypeInv, TypeInv', ParkInv, Advance, CalmStays,
           UNCHANGED <<store, refs, pc, item, loc, reply, asked>>
    PROVE  ParkInv'
<1>1. \A d \in Conts : Steady(d)
  BY DEF Steady
<1>2. \A r \in refs : Held(r)'
  BY <1>1, RefFields, RequeuedIsPast, HeldStays DEF ParkInv
<1>3. ASSUME NEW a \in Actors
      PROVE  Ahead(a)'
  <2>1. Later(ContOf(a)) => Later(ContOf(a))'
    BY DEF Later, Past, RunOf, ContOf
  <2>2. Ahead(a)
    BY DEF ParkInv
  <2> QED  BY <2>1, <2>2 DEF Ahead, Taking
<1>4. \A w \in Workers : Noted(w)'
  BY DEF ParkInv, Noted, ContOf
<1> QED  BY <1>2, <1>3, <1>4 DEF ParkInv, ParkedTurnIsKept

\* A fault saves nothing and drives nothing.
LEMMA FaultPark ==
    ASSUME OneProcess, TypeInv, TypeInv', SoleInv, ParkInv, Advance, CalmStays, FaultNext
    PROVE  ParkInv'
<1>1. ASSUME NEW w \in Actors, Raise(w)
      PROVE  ParkInv'
  <2>1. PICK place \in {"ack", "nackAck"} : pc' = [pc EXCEPT ![w] = place]
    BY <1>1 DEF Raise, Goto
  <2>2. UNCHANGED <<store, refs, item, loc, reply, asked>>
    BY <1>1 DEF Raise
  <2>3. place \notin Driving \cup Bumping
    BY DEF Driving, EnginePlaces, Bumping, EnqueuePlaces
  <2>4. \A d \in Conts : Steady(d)
    BY <2>2 DEF Steady
  <2> QED  BY <2>1, <2>2, <2>3, <2>4, ParkOutside
<1>2. ASSUME NEW a \in Actors, Abandon(a)
      PROVE  ParkInv'
  BY <1>2, ParkRelease DEF Abandon
<1>3. ASSUME NEW cl \in Actors, TaskError(cl)
      PROVE  FALSE
  BY <1>3 DEF TaskError, OneProcess
<1>4. ASSUME NEW h \in Hosts, Crash(h) \/ Boot(h)
      PROVE  FALSE
  BY <1>4 DEF Crash, Boot, Fault, OneProcess, SoleInv, Serial
<1>5. CASE Flush
  BY <1>5, QuietPark DEF Flush
<1> QED  BY <1>1, <1>2, <1>3, <1>4, <1>5 DEF FaultNext

\* Every step of the process keeps the invariant.
LEMMA NextPark ==
    ASSUME OneProcess
    PROVE  TypeInv /\ TypeInv' /\ SoleInv /\ ParkInv /\ [Next]_vars => ParkInv'
<1> SUFFICES ASSUME TypeInv, TypeInv', SoleInv, ParkInv, [Next]_vars
             PROVE  ParkInv'
  OBVIOUS
<1>1. Advance /\ CalmStays
  BY NextSole, CalmSteps
<1>2. ASSUME NEW a \in Workers \cup Direct, EngineNext(a)
      PROVE  ParkInv'
  BY <1>1, <1>2, EnginePark DEF OneProcess
<1>3. CASE UNCHANGED vars
  BY <1>1, <1>3, QuietPark DEF vars
<1> QED  BY <1>1, <1>2, <1>3, WorkerPark, ClientPark, FaultPark DEF Next

\* The invariant holds at the start.
LEMMA InitPark == Init => ParkInv
<1> SUFFICES ASSUME Init PROVE ParkInv
  OBVIOUS
<1>1. refs = {} /\ \A a \in Actors : pc[a] = "idle"
  BY DEF Init, Start
<1>2. \A a \in Actors : Ahead(a) /\ Noted(a)
  BY <1>1 DEF Ahead, Later, Noted, ResumePlaces
<1> QED  BY <1>1, <1>2 DEF ParkInv, ParkedTurnIsKept, Actors

\* In one process a turn that was put to a human is never run again: the run
\* waits for the answers and goes on at the next turn (worker.py:12).
THEOREM ParkedTurnIsKeptInOneProcess ==
    ASSUME OneProcess
    PROVE  Spec => []ParkedTurnIsKept
<1>1. Spec => [](TypeInv /\ SoleInv /\ ParkInv)
  BY InitType, NextType, InitSole, NextSole, InitPark, NextPark, PTL DEF Spec
<1>2. ParkInv => ParkedTurnIsKept
  BY DEF ParkInv
<1> QED  BY <1>1, <1>2, PTL

----------------------------------------------------------------------------
(***************************************************************************)
(* What is put to a human.  Only gated calls wait for an answer, so only   *)
(* gated calls are referred to, answered and approved; this holds for any  *)
(* processes and faults.                                                   *)
(***************************************************************************)
PutInv ==
    /\ \A r \in refs \cup granted : r.call \in Gated
    /\ \A a \in Actors : reply[a] # None => Pending(reply[a]) \subseteq Gated
    /\ \A cl \in Clients : item[cl] # None /\ item[cl].res # None
                             => item[cl].res.ref.call \in Gated

\* A step that refers to nothing new and asks for nothing.
LEMMA PutKept ==
    ASSUME PutInv, UNCHANGED <<refs, granted>>,
           \A a \in Actors : reply'[a] = reply[a] \/ reply'[a] = None,
           \A cl \in Clients : item'[cl] = item[cl] \/ item'[cl] = None
    PROVE  PutInv'
BY DEF PutInv, Pending, With

LEMMA PutRelease ==
    ASSUME TypeInv, PutInv, NEW a \in Actors, Release(a), UNCHANGED <<refs, granted>>
    PROVE  PutInv'
<1>1. /\ \A b \in Actors : reply'[b] = reply[b] \/ reply'[b] = None
      /\ \A cl \in Clients : item'[cl] = item[cl] \/ item'[cl] = None
  BY DEF Release, TypeInv, TypeOK, Actors
<1> QED  BY <1>1, PutKept

LEMMA EnqueuePut ==
    ASSUME TypeInv, PutInv, NEW a \in Actors, Enqueue(a)
    PROVE  PutInv'
<1>1. CASE EnqueueLoad(a) \/ EnqueueSave(a) \/ EnqueueUpsert(a)
  BY <1>1, PutKept DEF EnqueueLoad, EnqueueSave, EnqueueUpsert, history
<1>2. CASE EnqueuePush(a)
  <2>1. /\ refs' = refs
        /\ \A b \in Actors : reply'[b] = reply[b] \/ reply'[b] = None
        /\ \A cl \in Clients : item'[cl] = item[cl] \/ item'[cl] = None
    BY <1>2 DEF EnqueuePush, Release, TypeInv, TypeOK, Actors
  <2>2. ASSUME NEW r \in granted' PROVE r.call \in Gated
    <3>1. CASE r \in granted
      BY <3>1 DEF PutInv
    <3>2. CASE r \notin granted
      <4>1. a \notin Workers /\ item[a].res # None /\ r = item[a].res.ref
        BY <1>2, <2>2, <3>2 DEF EnqueuePush, Approved
      <4>2. pc[a] # "idle" /\ a \in Clients
        BY <1>2, <4>1 DEF EnqueuePush, At, Actors
      <4> QED  BY <4>1, <4>2 DEF PutInv, TypeInv, InHand
    <3> QED  BY <3>1, <3>2
  <2> QED  BY <2>1, <2>2 DEF PutInv, Pending, With
<1> QED  BY <1>1, <1>2 DEF Enqueue

LEMMA ClientPut ==
    ASSUME TypeInv, PutInv, NEW cl \in Clients, ClientNext(cl)
    PROVE  PutInv'
<1>0. cl \in Actors /\ item \in [Actors -> Items \cup {None}] /\ Clients \subseteq Actors
  BY DEF Actors, TypeInv, TypeOK
<1>1. ASSUME NEW c \in Conts, Invoke(cl, c)
      PROVE  PutInv'
  <2>1. /\ UNCHANGED <<refs, granted, reply>>
        /\ item'[cl].res = None /\ \A b \in Actors \ {cl} : item'[b] = item[b]
    BY <1>0, <1>1 DEF Invoke, history
  <2> QED  BY <1>0, <2>1 DEF PutInv, Pending, With
<1>2. ASSUME NEW r \in refs, NEW out \in Outcomes, Answer(cl, r, out)
      PROVE  PutInv'
  <2>1. /\ UNCHANGED <<refs, reply>>
        /\ item'[cl].res.ref = r /\ \A b \in Actors \ {cl} : item'[b] = item[b]
        /\ granted' \subseteq granted \cup {r}
    BY <1>0, <1>2 DEF Answer, Approved
  <2>2. r.call \in Gated
    BY DEF PutInv
  <2> QED  BY <1>0, <2>1, <2>2 DEF PutInv, Pending, With
<1>3. CASE RetryTask(cl)
  BY <1>0, <1>3, PutKept, PutRelease DEF RetryTask, history
<1>4. CASE TaskReturns(cl)
  BY <1>0, <1>4, PutRelease DEF TaskReturns, history
<1> QED  BY <1>0, <1>1, <1>2, <1>3, <1>4, EnqueuePut DEF ClientNext

LEMMA WorkerPut ==
    ASSUME TypeInv, PutInv, NEW w \in Workers, WorkerNext(w)
    PROVE  PutInv'
<1>0. w \in Actors /\ item \in [Actors -> Items \cup {None}] /\ w \notin Clients
      /\ Clients \subseteq Actors
  BY RuntimeAssumption DEF Actors, TypeInv, TypeOK
<1> USE DEF history
<1>1. ASSUME NEW it \in BagToSet(queue), Claim(w, it)
      PROVE  PutInv'
  <2>1. /\ UNCHANGED <<refs, granted, reply>>
        /\ \A cl \in Clients : item'[cl] = item[cl]
    BY <1>0, <1>1 DEF Claim
  <2> QED  BY <2>1, PutKept
<1>2. CASE WinClaim(w) \/ SettleDone(w) \/ NackAck(w)
  BY <1>2, PutKept DEF WinClaim, SettleDone, NackAck
<1>3. CASE LoseClaim(w) \/ SettleFailed(w) \/ Ack(w) \/ NackPush(w)
  BY <1>0, <1>3, PutRelease DEF LoseClaim, SettleFailed, Ack, NackPush
<1> QED  BY <1>0, <1>1, <1>2, <1>3, EnqueuePut DEF WorkerNext, WorkerClaim, WorkerSettle

LEMMA EnginePut ==
    ASSUME TypeInv, PutInv, NEW w \in Workers \cup Direct, EngineNext(w)
    PROVE  PutInv'
<1>0. w \in Actors /\ reply \in [Actors -> Replies \cup {None}]
  BY RuntimeAssumption DEF Actors, TypeInv, TypeOK
<1> USE DEF history
<1>1. CASE DriveNothing(w) \/ Drive(w) \/ SaveRunning(w) \/ ResumeNothing(w) \/ Resume(w) \/ SaveResuming(w)
  BY <1>1, PutKept DEF DriveNothing, Settled, Drive, SaveRunning, ResumeNothing, Resume, SaveResuming
<1>2. CASE \/ \E times \in 0 .. ToolAttempts : GatedTool(w, times)
           \/ SaveResolved(w) \/ ParkAgain(w) \/ FinishPark(w)
  BY <1>2, PutKept DEF GatedTool, SaveResolved, ParkAgain, FinishPark
<1>3. CASE MaxTurnsReached(w) \/ FinalAnswer(w) \/ ModelError(w) \/ Preempted(w)
  BY <1>3, PutKept DEF MaxTurnsReached, FinalAnswer, ModelError, Preempted, End
<1>4. CASE RunTools(w) \/ Park(w) \/ SaveTools(w) \/ Continue(w)
  BY <1>4, PutKept DEF RunTools, Park, SaveTools, Continue
<1>5. ASSUME NEW calls \in SUBSET Calls \ {{}}, AskTools(w, calls)
      PROVE  PutInv'
  <2>1. /\ UNCHANGED <<refs, granted, item>>
        /\ \A b \in Actors \ {w} : reply'[b] = reply[b]
        /\ \A k \in Calls \ Gated : reply'[w].calls[k] # "pending"
    BY <1>0, <1>5 DEF AskTools
  <2> QED  BY <2>1 DEF PutInv, Pending, With
<1>6. CASE IndexRefs(w)
  <2>1. /\ refs' = refs \cup {RefOf(reply[w], k) : k \in Pending(reply[w])}
        /\ UNCHANGED <<granted, item, reply>>
        /\ pc[w] = "indexRefs"
    BY <1>6 DEF IndexRefs, At
  <2>2. Pending(reply[w]) \subseteq Gated
    BY <1>0, <2>1 DEF PutInv, TypeInv, InHand, ReplyPlaces
  <2>3. \A r \in refs' : r.call \in Gated
    BY <2>1, <2>2 DEF PutInv, RefOf
  <2> QED  BY <2>1, <2>3 DEF PutInv, Pending, With
<1> QED  BY <1>1, <1>2, <1>3, <1>4, <1>5, <1>6 DEF EngineNext, EngineEnter, EngineTurn

LEMMA FaultPut ==
    ASSUME TypeInv, PutInv, FaultNext
    PROVE  PutInv'
<1>1. ASSUME NEW w \in Actors, Raise(w)
      PROVE  PutInv'
  BY <1>1, PutKept DEF Raise
<1>2. ASSUME NEW a \in Actors, Abandon(a)
      PROVE  PutInv'
  BY <1>2, PutRelease DEF Abandon
<1>3. ASSUME NEW cl \in Actors, TaskError(cl)
      PROVE  PutInv'
  <2>1. \A a \in Actors : reply'[a] = reply[a] \/ reply'[a] = None
    BY <1>3 DEF TaskError, TypeInv, TypeOK
  <2> QED  BY <1>3, <2>1, PutKept DEF TaskError
<1>4. ASSUME NEW h \in Hosts, Crash(h)
      PROVE  PutInv'
  <2>1. /\ \A a \in Actors : reply'[a] = reply[a] \/ reply'[a] = None
        /\ \A a \in Actors : item'[a] = item[a] \/ item'[a] = None
    BY <1>4 DEF Crash
  <2> QED  BY <1>4, <2>1, PutKept DEF Crash, Actors
<1>5. ASSUME NEW h \in Hosts, Boot(h)
      PROVE  PutInv'
  BY <1>5, PutKept DEF Boot, history
<1>6. CASE Flush
  BY <1>6, PutKept DEF Flush
<1> QED  BY <1>1, <1>2, <1>3, <1>4, <1>5, <1>6 DEF FaultNext

LEMMA NextPut == TypeInv /\ PutInv /\ [Next]_vars => PutInv'
<1> SUFFICES ASSUME TypeInv, PutInv, [Next]_vars
             PROVE  PutInv'
  OBVIOUS
<1>1. CASE UNCHANGED vars
  BY <1>1, PutKept DEF vars, history
<1> QED  BY <1>1, WorkerPut, ClientPut, EnginePut, FaultPut DEF Next

LEMMA InitPut == Init => PutInv
BY DEF Init, Start, PutInv, Actors

----------------------------------------------------------------------------
(***************************************************************************)
(* The inductive invariant behind RetriesBounded.  The tools of a turn run *)
(* once more only where fewer replies of it have run than the budget       *)
(* allows, and no more than its row has crashes; a raise adds a crash,     *)
(* and the last one makes the row one that nobody can win.                 *)
(***************************************************************************)
Crashes(c) == IF ledger[c] = None THEN 0 ELSE ledger[c].crashes
Count(c) == Cardinality(Repeats(c, store[c].turn))
Few(c) == Count(c) <= Crashes(c) /\ Count(c) < MaxCrashes

\* The next to drive the run finds few repeats; or there is no next.
Driven(c) == \E w \in Workers : pc[w] \in Driving /\ ContOf(w) = c
InOrder(c) == Few(c) \/ Calm(c) \/ store[c].status \notin Going \/ Driven(c)

Tally(c) ==
    /\ \A t \in 0 .. MaxTurns : /\ Cardinality(Repeats(c, t)) <= MaxCrashes
                                /\ t > store[c].turn => Repeats(c, t) = {}
    /\ Count(c) <= Crashes(c) + 1
    /\ InOrder(c)

\* Where the tools of the turn have not run yet.
FreshPlaces == {"saveRunning", "turn", "tools"} \cup Bumping
Fresh(a) == Taking(a) /\ pc[a] \in FreshPlaces => Few(ContOf(a))

RetryInv ==
    /\ \A r \in Refs : ran[r] > 0 => r.ask \in DOMAIN asked
    /\ \A c \in Conts : store[c] # None => Tally(c)
    /\ \A a \in Actors : Fresh(a)

\* A step after which no more replies of run c have run, and no crash of it is
\* forgotten.
Eased(c) ==
    /\ \A t \in 0 .. MaxTurns : Repeats(c, t)' \subseteq Repeats(c, t)
    /\ Crashes(c)' >= Crashes(c)

\* How many replies of a turn have run is a number.
LEMMA RepeatsCount ==
    ASSUME TypeInv
    PROVE  \A c, t : /\ IsFiniteSet(Repeats(c, t))
                     /\ Cardinality(Repeats(c, t)) \in Nat
<1> SUFFICES ASSUME NEW c, NEW t
             PROVE  IsFiniteSet(Repeats(c, t)) /\ Cardinality(Repeats(c, t)) \in Nat
  OBVIOUS
<1>1. DOMAIN asked = 1 .. Len(asked) /\ Len(asked) \in Nat
  BY AskedTyped
<1>2. IsFiniteSet(DOMAIN asked)
  BY <1>1, FS_Interval
<1>3. Repeats(c, t) \subseteq DOMAIN asked
  BY DEF Repeats
<1>4. IsFiniteSet(Repeats(c, t))
  BY <1>2, <1>3, FS_Subset
<1> QED  BY <1>4, FS_CardinalityType

LEMMA RepeatsLess ==
    ASSUME TypeInv, NEW c, NEW t, Repeats(c, t)' \subseteq Repeats(c, t)
    PROVE  Cardinality(Repeats(c, t)') <= Cardinality(Repeats(c, t))
<1>1. IsFiniteSet(Repeats(c, t))
  BY RepeatsCount
<1> QED  BY <1>1, FS_Subset

\* A run that does not exist has no replies.
LEMMA RepeatsOfNone ==
    ASSUME TypeInv, NEW c, store[c] = None, NEW t
    PROVE  Repeats(c, t) = {}
BY DEF TypeInv, Known, Repeats

\* The numbers of a run.
LEMMA TallyTypes ==
    ASSUME TypeInv, NEW c \in Conts
    PROVE  /\ Crashes(c) \in Nat /\ MaxCrashes \in Nat /\ MaxCrashes > 0
           /\ Count(c) \in Nat
           /\ store[c] # None => store[c].turn \in Nat /\ store[c].turn \in 0 .. MaxTurns
<1>1. ledger[c] # None => ledger[c] \in Row
  BY DEF TypeInv, TypeOK
<1>2. Crashes(c) \in Nat
  BY <1>1 DEF Crashes, Row
<1>3. store[c] # None => store[c].turn \in Nat /\ store[c].turn \in 0 .. MaxTurns
  BY DEF TypeInv, TypeOK, Continuations
<1>4. Count(c) \in Nat
  BY RepeatsCount DEF Count
<1> QED  BY <1>2, <1>3, <1>4, MaxCrashesAssumption

\* A turn that has just been reached has no replies.
LEMMA FewLater ==
    ASSUME TypeInv, TypeInv', NEW c \in Conts, store'[c] # None,
           store[c] # None => Tally(c) /\ store'[c].turn > store[c].turn,
           Eased(c)
    PROVE  Few(c)' /\ Count(c)' = 0
<1>1. PICK t : t = store'[c].turn
  OBVIOUS
<1>2. t \in 0 .. MaxTurns
  BY <1>1, TallyTypes DEF TypeInv, TypeOK, Continuations
<1>3. Repeats(c, t) = {}
  BY <1>1, <1>2, RepeatsOfNone DEF Tally
<1>4. Repeats(c, t)' = {}
  BY <1>2, <1>3 DEF Eased
<1>5. Count(c)' = Cardinality(Repeats(c, t)')
  BY <1>1 DEF Count
<1>6. Count(c)' = 0
  BY <1>4, <1>5, FS_EmptySet
<1>7. Crashes(c)' \in Nat /\ MaxCrashes > 0
  <2>1. ledger'[c] # None => ledger'[c] \in Row
    BY DEF TypeInv, TypeOK
  <2> QED  BY <2>1, MaxCrashesAssumption DEF Crashes, Row
<1> QED  BY <1>6, <1>7 DEF Few

\* Few repeats stay few.
LEMMA CountStays ==
    ASSUME TypeInv, TypeInv', NEW c \in Conts, Eased(c), store[c] # None, store'[c] # None,
           store'[c].turn = store[c].turn
    PROVE  Count(c)' <= Count(c) /\ Count(c)' \in Nat /\ Crashes(c)' \in Nat
<1>1. PICK t : t = store[c].turn
  OBVIOUS
<1>2. t \in 0 .. MaxTurns
  BY <1>1, TallyTypes
<1>3. Cardinality(Repeats(c, t)') <= Cardinality(Repeats(c, t))
  BY <1>2, RepeatsLess DEF Eased
<1>4. Count(c)' = Cardinality(Repeats(c, t)')
  BY <1>1 DEF Count
<1>5. Count(c)' \in Nat
  <2>1. IsFiniteSet(Repeats(c, t)')
    BY <1>2, RepeatsCount, FS_Subset DEF Eased
  <2> QED  BY <1>4, <2>1, FS_CardinalityType
<1>6. Crashes(c)' \in Nat
  <2>1. ledger'[c] # None => ledger'[c] \in Row
    BY DEF TypeInv, TypeOK
  <2> QED  BY <2>1 DEF Crashes, Row
<1> QED  BY <1>1, <1>3, <1>4, <1>5, <1>6 DEF Count

LEMMA FewStays ==
    ASSUME TypeInv, TypeInv', Advance, NEW c \in Conts, Eased(c), store[c] # None,
           store'[c] # None, Tally(c), Few(c)
    PROVE  Few(c)'
<1>1. CASE store'[c].turn = store[c].turn
  BY <1>1, CountStays, TallyTypes DEF Few, Eased
<1>2. CASE store'[c].turn # store[c].turn
  <2>1. store'[c].turn \in Nat /\ store[c].turn \in Nat /\ store'[c].turn >= store[c].turn
    BY DEF TypeInv, TypeOK, Continuations, Advance
  <2> QED  BY <1>2, <2>1, FewLater
<1> QED  BY <1>1, <1>2

\* The tally of a run is kept if it stays in order.
LEMMA TallyStays ==
    ASSUME TypeInv, TypeInv', Advance, NEW c \in Conts, Eased(c), store'[c] # None,
           store[c] # None => Tally(c),
           InOrder(c)'
    PROVE  Tally(c)'
<1>1. MaxCrashes \in Nat
  BY TallyTypes
<1>2. store[c] # None => /\ store'[c].turn \in Nat /\ store[c].turn \in Nat
                         /\ store'[c].turn >= store[c].turn
  BY DEF TypeInv, TypeOK, Continuations, Advance
<1>3. ASSUME NEW t \in 0 .. MaxTurns
      PROVE  /\ Cardinality(Repeats(c, t)') <= MaxCrashes
             /\ t > store'[c].turn => Repeats(c, t)' = {}
  <2>1. Repeats(c, t)' \subseteq Repeats(c, t)
    BY DEF Eased
  <2>2. Cardinality(Repeats(c, t)') <= Cardinality(Repeats(c, t))
    BY <2>1, RepeatsLess
  <2>3. CASE store[c] = None
    <3>1. Repeats(c, t)' = {}
      BY <2>1, <2>3, RepeatsOfNone
    <3> QED  BY <1>1, <3>1, FS_EmptySet
  <2>4. CASE store[c] # None
    <3>1. Cardinality(Repeats(c, t)') <= MaxCrashes
      <4>1. /\ Cardinality(Repeats(c, t)) <= MaxCrashes
            /\ Cardinality(Repeats(c, t)) \in Nat
        BY <2>4, RepeatsCount DEF Tally
      <4>2. Cardinality(Repeats(c, t)') \in Nat
        BY <2>1, RepeatsCount, FS_Subset, FS_CardinalityType
      <4> QED  BY <1>1, <2>2, <4>1, <4>2
    <3>2. t > store'[c].turn => t > store[c].turn
      BY <1>2, <2>4
    <3>3. t > store[c].turn => Repeats(c, t) = {}
      BY <2>4 DEF Tally
    <3> QED  BY <2>1, <3>1, <3>2, <3>3
  <2> QED  BY <2>3, <2>4
<1>4. Count(c)' <= Crashes(c)' + 1
  <2>1. CASE store[c] # None /\ store'[c].turn = store[c].turn
    <3>1. Count(c) <= Crashes(c) + 1
      BY <2>1 DEF Tally
    <3>2. /\ Count(c)' <= Count(c) /\ Count(c)' \in Nat /\ Crashes(c)' \in Nat
          /\ Count(c) \in Nat /\ Crashes(c) \in Nat /\ Crashes(c)' >= Crashes(c)
      BY <2>1, CountStays, TallyTypes DEF Eased
    <3> QED  BY <3>1, <3>2
  <2>2. CASE ~(store[c] # None /\ store'[c].turn = store[c].turn)
    <3>1. Count(c)' = 0
      BY <1>2, <2>2, FewLater
    <3>2. Crashes(c)' \in Nat
      <4>1. ledger'[c] # None => ledger'[c] \in Row
        BY DEF TypeInv, TypeOK
      <4> QED  BY <4>1 DEF Crashes, Row
    <3> QED  BY <3>1, <3>2
  <2> QED  BY <2>1, <2>2
<1>5. \A t \in 0 .. MaxTurns : /\ Cardinality(Repeats(c, t))' <= MaxCrashes
                               /\ (t > store[c].turn)' => (Repeats(c, t) = {})'
  BY <1>3
<1> QED  BY <1>4, <1>5 DEF Tally

\* Nothing runs: no reply is added and no tool is counted.
LEMMA EasedBy ==
    ASSUME NEW c, asked' = asked, ran' = ran, Crashes(c)' >= Crashes(c)
    PROVE  Eased(c)
BY DEF Eased, Repeats

LEMMA EasedLedger ==
    ASSUME TypeInv, asked' = asked, ran' = ran, ledger' = ledger
    PROVE  \A c \in Conts : Eased(c)
<1> SUFFICES ASSUME NEW c \in Conts PROVE Eased(c)
  OBVIOUS
<1>1. Crashes(c)' = Crashes(c) /\ Crashes(c) \in Nat
  BY TallyTypes DEF Crashes
<1> QED  BY <1>1, EasedBy

\* The step of actor a leaves run c where it is, and whoever drives it.
Unmoved(a, c) ==
    /\ store[c] # None
    /\ store'[c].turn = store[c].turn /\ store'[c].status = store[c].status
    /\ ~(a \in Workers /\ pc[a] \in Driving /\ ContOf(a) = c)

LEMMA InOrderStays ==
    ASSUME TypeInv, TypeInv', Advance, CalmStays, RetryInv, NEW a,
           \A b \in Actors \ {a} : pc'[b] = pc[b] /\ item'[b] = item[b],
           NEW c \in Conts, Eased(c), store'[c] # None, Unmoved(a, c)
    PROVE  InOrder(c)'
<1>0. store[c] # None /\ Tally(c)
  BY DEF RetryInv, Unmoved
<1>1. CASE Few(c)
  BY <1>0, <1>1, FewStays DEF InOrder
<1>2. CASE Calm(c)
  <2>1. CASE Requeued(c)
    <3>1. PICK b \in Actors : Taking(b) /\ pc[b] = "enqUpsert" /\ ContOf(b) = c
      BY <2>1 DEF Requeued
    <3>2. Few(c)
      BY <3>1 DEF RetryInv, Fresh, FreshPlaces, Bumping, EnqueuePlaces
    <3> QED  BY <1>1, <3>2
  <2>2. CASE Calm(c)'
    BY <2>2 DEF InOrder
  <2> QED  BY <1>2, <2>1, <2>2 DEF CalmStays
<1>3. CASE store[c].status \notin Going
  BY <1>3 DEF Unmoved, InOrder
<1>4. CASE Driven(c)
  <2>1. PICK w \in Workers : pc[w] \in Driving /\ ContOf(w) = c
    BY <1>4 DEF Driven
  <2>2. w # a /\ w \in Actors
    BY <2>1 DEF Unmoved, Actors
  <2>3. pc'[w] \in Driving /\ item'[w].cont = c
    BY <2>1, <2>2 DEF ContOf
  <2> QED  BY <2>3 DEF InOrder, Driven, ContOf
<1> QED  BY <1>0, <1>1, <1>2, <1>3, <1>4 DEF Tally, InOrder

\* One actor steps and runs no tool.
LEMMA RetryStep ==
    ASSUME TypeInv, TypeInv', Advance, CalmStays, RetryInv, NEW a,
           \A b \in Actors \ {a} : pc'[b] = pc[b] /\ item'[b] = item[b],
           \A c \in Conts : Eased(c),
           \A r \in Refs : ran'[r] > 0 => r.ask \in DOMAIN asked',
           \A c \in Conts : store'[c] # None => InOrder(c)' \/ Unmoved(a, c),
           Fresh(a)'
    PROVE  RetryInv'
<1>1. ASSUME NEW c \in Conts, store'[c] # None
      PROVE  Tally(c)'
  <2>1. InOrder(c)'
    BY <1>1, InOrderStays
  <2> QED  BY <1>1, <2>1, TallyStays DEF RetryInv
<1>2. ASSUME NEW b \in Actors
      PROVE  Fresh(b)'
  <2>1. CASE b = a
    BY <2>1
  <2>2. CASE b # a
    <3>1. pc'[b] = pc[b] /\ item'[b] = item[b]
      BY <2>2
    <3>2. SUFFICES ASSUME Taking(b), pc[b] \in FreshPlaces
                   PROVE  Few(ContOf(b))'
      BY <3>1 DEF Fresh, Taking
    <3>3. PICK c : c = ContOf(b)
      OBVIOUS
    <3>4. pc[b] # "idle"
      BY <3>2 DEF FreshPlaces, Bumping, EnqueuePlaces
    <3>5. c \in Conts /\ store[c] # None /\ ContOf(b)' = c /\ store'[c] # None
      BY <3>1, <3>3, <3>4, BusyActor DEF TypeInv, InHand, ContOf
    <3>6. Few(c) /\ Tally(c)
      BY <3>2, <3>3, <3>5 DEF RetryInv, Fresh
    <3>7. Few(c)'
      BY <3>5, <3>6, FewStays
    <3> QED  BY <3>5, <3>7 DEF Few, Count, Crashes
  <2> QED  BY <2>1, <2>2
<1> QED  BY <1>1, <1>2 DEF RetryInv

\* An actor that drives nothing goes where nothing is driven or requeued.
LEMMA RetryOutside ==
    ASSUME TypeInv, TypeInv', Advance, CalmStays, RetryInv, NEW a \in Actors,
           ~(a \in Workers /\ pc[a] \in Driving),
           NEW place, place \notin Driving \cup Bumping, pc' = [pc EXCEPT ![a] = place],
           \A b \in Actors \ {a} : item'[b] = item[b],
           UNCHANGED <<store, asked, ran>>,
           \A c \in Conts : Crashes(c)' >= Crashes(c)
    PROVE  RetryInv'
<1>1. pc'[a] = place /\ \A b \in Actors \ {a} : pc'[b] = pc[b]
  BY DEF TypeInv, TypeOK
<1>2. Fresh(a)'
  BY <1>1 DEF Fresh, Taking
<1>3. \A c \in Conts : store'[c] # None => Unmoved(a, c)
  BY DEF Unmoved
<1>4. \A r \in Refs : ran'[r] > 0 => r.ask \in DOMAIN asked'
  BY DEF RetryInv
<1> QED  BY <1>1, <1>2, <1>3, <1>4, EasedBy, RetryStep

\* An actor that drops what it was doing.
LEMMA RetryRelease ==
    ASSUME TypeInv, TypeInv', Advance, CalmStays, RetryInv, NEW a \in Actors,
           ~(a \in Workers /\ pc[a] \in Driving), Release(a),
           UNCHANGED <<store, ledger, asked, ran>>
    PROVE  RetryInv'
<1>1. "idle" \notin Driving \cup Bumping
  BY DEF Driving, EnginePlaces, Bumping, EnqueuePlaces
<1>2. pc' = [pc EXCEPT ![a] = "idle"] /\ \A b \in Actors \ {a} : item'[b] = item[b]
  BY DEF Release, Goto, TypeInv, TypeOK
<1>3. \A c \in Conts : Crashes(c)' >= Crashes(c)
  BY TallyTypes DEF Crashes
<1> QED  BY <1>1, <1>2, <1>3, RetryOutside

\* The enqueuer keeps the crashes of the row it rewrites.
LEMMA EnqueueRetry ==
    ASSUME TypeInv, TypeInv', SoleInv, Advance, CalmStays, RetryInv,
           NEW a \in Actors, Enqueue(a)
    PROVE  RetryInv'
<1>0. PICK c : c = ContOf(a)
  OBVIOUS
<1>1. /\ pc[a] \in EnqueuePlaces /\ c \in Conts /\ store[c] \in Continuations /\ store[c] # None
      /\ store \in [Conts -> Continuations \cup {None}]
      /\ ledger \in [Conts -> Row \cup {None}]
      /\ pc \in [Actors -> Places]
      /\ pc[a] \notin Driving
  <2>1. pc[a] \in EnqueuePlaces
    BY DEF Enqueue, EnqueueLoad, EnqueueSave, EnqueueUpsert, EnqueuePush, At, EnqueuePlaces
  <2>2. pc[a] # "idle" /\ pc[a] \notin Driving
    BY <2>1 DEF EnqueuePlaces, Driving, EnginePlaces
  <2> QED  BY <1>0, <2>1, <2>2, BusyActor, NoneAssumption DEF TypeInv, TypeOK
<1> USE DEF At, Goto, Save, history
<1>2. ASSUME NEW place \in {"enqSave", "enqUpsert"}, pc[a] \in {"enqLoad", "enqSave"},
             pc' = [pc EXCEPT ![a] = place],
             UNCHANGED <<ledger, item, asked, ran>>,
             \A d \in Conts : store'[d] # None => Unmoved(a, d)
      PROVE  RetryInv'
  <2>1. pc'[a] = place /\ item'[a] = item[a] /\ \A b \in Actors \ {a} : pc'[b] = pc[b]
    BY <1>1, <1>2
  <2>2. {"enqLoad", "enqSave"} \subseteq FreshPlaces \cap Bumping /\ place \notin Driving
    BY DEF FreshPlaces, Bumping, EnqueuePlaces, Driving, EnginePlaces
  <2>3. Taking(a)' => Taking(a)
    BY <1>2, <2>1, <2>2 DEF Taking
  <2>4. \A d \in Conts : Eased(d)
    BY <1>2, EasedLedger
  <2>5. Taking(a)' => Few(c)'
    <3>1. SUFFICES ASSUME Taking(a)' PROVE Few(c)'
      OBVIOUS
    <3>2. Few(c) /\ Tally(c) /\ store'[c] # None
      <4>1. Taking(a) /\ pc[a] \in FreshPlaces /\ item'[a] = item[a] /\ pc'[a] # "idle"
        BY <1>2, <2>1, <2>2, <2>3, <3>1
      <4> QED  BY <1>0, <1>1, <4>1 DEF RetryInv, Fresh, TypeInv, InHand, ContOf
    <3> QED  BY <1>1, <2>4, <3>2, FewStays
  <2>6. Fresh(a)'
    <3>1. ContOf(a)' = c
      BY <1>0, <2>1 DEF ContOf
    <3> QED  BY <2>5, <3>1 DEF Fresh, Few, Count, Crashes
  <2>7. \A r \in Refs : ran'[r] > 0 => r.ask \in DOMAIN asked'
    BY <1>2 DEF RetryInv
  <2> QED  BY <1>2, <2>1, <2>4, <2>6, <2>7, RetryStep
<1>3. CASE EnqueueLoad(a)
  BY <1>1, <1>2, <1>3 DEF EnqueueLoad, Unmoved
<1>4. CASE EnqueueSave(a)
  <2>1. /\ pc[a] = "enqSave" /\ pc' = [pc EXCEPT ![a] = "enqUpsert"]
        /\ store' = [store EXCEPT ![c] = loc[a]]
        /\ UNCHANGED <<ledger, item, asked, ran>>
    BY <1>0, <1>4 DEF EnqueueSave
  <2>2. loc[a] = [store[c] EXCEPT !.epoch = @ + 1]
    BY <1>0, <2>1 DEF SoleInv, AtWork
  <2>3. loc[a].turn = store[c].turn /\ loc[a].status = store[c].status
    BY <1>1, <2>2 DEF Continuations
  <2>4. \A d \in Conts : store'[d] # None => Unmoved(a, d)
    BY <1>1, <2>1, <2>3 DEF Unmoved
  <2> QED  BY <1>2, <2>1, <2>4
<1>5. "enqPush" \notin Driving \cup Bumping /\ "ack" \notin Driving \cup Bumping
  BY DEF Driving, EnginePlaces, Bumping, EnqueuePlaces
<1>6. CASE EnqueueUpsert(a)
  <2>1. /\ pc' = [pc EXCEPT ![a] = "enqPush"]
        /\ ledger' = [ledger EXCEPT ![c] = UpsertQueued(ledger[c], loc[a].epoch)]
        /\ UNCHANGED <<store, item, asked, ran>>
    BY <1>0, <1>6 DEF EnqueueUpsert
  <2>2. UpsertQueued(ledger[c], loc[a].epoch).crashes = Crashes(c)
    BY DEF UpsertQueued, Crashes
  <2>3. UpsertQueued(ledger[c], loc[a].epoch) # None
    <3>1. ledger'[c] \in Row \cup {None} /\ pc'[a] = "enqPush"
      BY <1>1, <2>1 DEF TypeInv, TypeOK
    <3>2. ledger'[c] = UpsertQueued(ledger[c], loc[a].epoch)
      BY <1>1, <2>1
    <3>3. loc[a].epoch \in Nat
      BY <1>1, <1>6, CopyHolder DEF EnqueueUpsert, CopyPlaces, Continuations
    <3>4. UpsertQueued(ledger[c], loc[a].epoch) \in Row
      BY <1>1, <3>3 DEF UpsertQueued, Row, RowStatus
    <3> QED  BY <3>4, NoneAssumption
  <2>4. \A d \in Conts : Crashes(d)' >= Crashes(d)
    <3>1. \A d \in Conts : Crashes(d)' = Crashes(d)
      BY <1>1, <2>1, <2>2, <2>3 DEF Crashes
    <3> QED  BY <3>1, TallyTypes
  <2> QED  BY <1>1, <1>5, <2>1, <2>4, RetryOutside
<1>7. CASE EnqueuePush(a)
  <2>1. \A d \in Conts : Crashes(d)' >= Crashes(d)
    BY <1>7, TallyTypes DEF EnqueuePush, Crashes
  <2> QED  BY <1>1, <1>5, <1>7, <2>1, RetryOutside, RetryRelease DEF EnqueuePush
<1> QED  BY <1>3, <1>4, <1>6, <1>7 DEF Enqueue

\* A driver that lets go of its run leaves it calm: whoever else may win the
\* row needs an entry of a later epoch.
LEMMA LeaveCalm ==
    ASSUME TypeInv, SoleInv, NEW w \in Workers, pc[w] \in Driving,
           NEW place, place \notin EnginePlaces, place # "enqPush", place # "idle",
           pc' = [pc EXCEPT ![w] = place],
           \A b \in Actors \ {w} : loc'[b] = loc[b],
           UNCHANGED <<queue, item>>,
           ledger'[ContOf(w)].epoch = ledger[ContOf(w)].epoch,
           Claimable(ledger'[ContOf(w)]) => Claimable(ledger[ContOf(w)])
    PROVE  Calm(ContOf(w))'
<1>0. PICK c : c = ContOf(w)
  OBVIOUS
<1>1. w \in Actors /\ pc[w] # "idle" /\ Workers \subseteq Actors
  BY DEF Actors, Driving, EnginePlaces
<1>2. pc'[w] = place /\ \A b \in Actors \ {w} : pc'[b] = pc[b]
  BY <1>1 DEF TypeInv, TypeOK
<1>3. BareOf(c)' \subseteq BareOf(c)
  <2>1. BagToSet(queue') \subseteq Entries /\ item'[w] \in Entries
    BY <1>1 DEF Entries
  <2> QED  BY <1>1, <2>1, FewerEntries
<1>4. Contested(c)' => Rivalled(w)
  BY <1>0, <1>1, <1>2 DEF Contested, Rivalled, ContOf
<1>5. Rivalled(w) => Below(c, ledger[c].epoch)
  BY <1>0 DEF SoleInv, Leads
<1>6. Contested(c)' => Below(c, ledger[c].epoch)'
  BY <1>0, <1>3, <1>4, <1>5 DEF Below
<1>7. ContOf(w)' = c
  BY <1>0 DEF ContOf
<1>8. Calm(c)'
  BY <1>6 DEF Calm, Below
<1> QED  BY <1>7, <1>8 DEF Calm, Contested, Below

\* Whoever comes to drive a run is the only one: its entry has the epoch of
\* the row, so the run is not calm and nobody drives it.
LEMMA DriveIsFirst ==
    ASSUME TypeInv, SoleInv, NEW w \in Workers, pc[w] = "starting", item[w].res = None
    PROVE  ~Calm(ContOf(w)) /\ ~Driven(ContOf(w))
<1>0. PICK c : c = ContOf(w)
  OBVIOUS
<1>1. "starting" \in EnginePlaces /\ "starting" \notin Driving /\ w \in Actors
  BY DEF EnginePlaces, Driving, Actors
<1>2. ledger[c].epoch = item[w].epoch
  BY <1>0, <1>1 DEF SoleInv, AtWork
<1>3. item[w] \in BareOf(c)
  BY <1>0 DEF BareOf, Entries, ContOf
<1>4. ~Below(c, ledger[c].epoch)
  <2>1. item[w].epoch \in Nat
    BY <1>3, EpochTypes
  <2> QED  BY <1>2, <1>3, <2>1 DEF Below
<1>5. Contested(c)
  BY <1>0, <1>1 DEF Contested
<1>6. ASSUME NEW v \in Workers, pc[v] \in Driving, ContOf(v) = c
      PROVE  FALSE
  <2>1. v # w
    BY <1>1, <1>6
  <2>2. Rivalled(v)
    BY <1>0, <1>1, <1>6, <2>1 DEF Rivalled
  <2>3. Leads(v)
    BY <1>6 DEF SoleInv
  <2> QED  BY <1>4, <1>6, <2>2, <2>3 DEF Leads
<1> QED  BY <1>0, <1>4, <1>5, <1>6 DEF Calm, Driven

\* The steps of the engine.
LEMMA EngineRetry ==
    ASSUME OneProcess, TypeInv, TypeInv', GrantInv, PutInv, SoleInv, OnceInv, ParkInv,
           Advance, CalmStays, RetryInv,
           NEW w \in Workers, EngineNext(w)
    PROVE  RetryInv'
<1>0. PICK c : c = ContOf(w)
  OBVIOUS
<1>1. /\ w \in Actors /\ pc[w] \in EnginePlaces /\ c \in Conts
      /\ store[c] \in Continuations /\ store[c] # None
      /\ store \in [Conts -> Continuations \cup {None}]
      /\ loc \in [Actors -> Continuations \cup {None}]
      /\ pc \in [Actors -> Places]
      /\ Tally(c)
  <2>1. pc[w] \in EnginePlaces
    BY DEF EngineNext, EngineEnter, EngineTurn, DriveNothing, Drive, SaveRunning, ResumeNothing,
       Resume, SaveResuming, GatedTool, SaveResolved, ParkAgain, FinishPark, MaxTurnsReached,
       FinalAnswer, ModelError, AskTools, RunTools, Park, IndexRefs, SaveTools, Continue,
       Preempted, At, EnginePlaces
  <2>2. pc[w] # "idle" /\ w \in Actors
    BY <2>1 DEF EnginePlaces, Actors
  <2>3. /\ c \in Conts /\ store[c] \in Continuations /\ store[c] # None
        /\ store \in [Conts -> Continuations \cup {None}]
        /\ loc \in [Actors -> Continuations \cup {None}]
        /\ pc \in [Actors -> Places]
    BY <1>0, <2>2, BusyActor, NoneAssumption DEF TypeInv, TypeOK
  <2> QED  BY <2>1, <2>2, <2>3 DEF RetryInv
<1>2. EnginePlaces \ {"starting"} = Driving /\ "starting" \notin Driving
  BY DEF Driving
<1> USE DEF At, Goto, SetLoc, Save, history
\* w moves on and runs no tool.
<1>3. ASSUME NEW place, pc' = [pc EXCEPT ![w] = place],
             UNCHANGED item,
             \A d \in Conts : Eased(d),
             \A r \in Refs : ran'[r] > 0 => r.ask \in DOMAIN asked',
             store' = store \/ \E cont : store' = [store EXCEPT ![c] = cont],
             place \in Driving \/ InOrder(c)' \/ (store' = store /\ pc[w] \notin Driving),
             place \in FreshPlaces => Few(c)'
      PROVE  RetryInv'
  <2>1. /\ \A b \in Actors \ {w} : pc'[b] = pc[b] /\ item'[b] = item[b]
        /\ pc'[w] = place /\ ContOf(w)' = c
    BY <1>0, <1>1, <1>3 DEF ContOf
  <2>2. Fresh(w)'
    BY <1>3, <2>1 DEF Fresh, Few, Count, Crashes
  <2>3. InOrder(c)' \/ Unmoved(w, c)
    <3>1. CASE place \in Driving
      BY <2>1, <3>1 DEF InOrder, Driven
    <3>2. CASE InOrder(c)'
      BY <3>2
    <3>3. CASE store' = store /\ pc[w] \notin Driving
      BY <1>1, <3>3 DEF Unmoved
    <3> QED  BY <1>3, <3>1, <3>2, <3>3
  <2>4. ASSUME NEW d \in Conts \ {c}, store'[d] # None
        PROVE  Unmoved(w, d)
    <3>1. store'[d] = store[d]
      BY <1>1, <1>3, <2>4
    <3> QED  BY <1>0, <2>4, <3>1 DEF Unmoved
  <2> QED  BY <1>3, <2>1, <2>2, <2>3, <2>4, RetryStep
\* w lets go of the run.
<1>4. ASSUME pc[w] \in Driving,
             NEW place, place \in {"settleDone", "settleFailed", "enqLoad"},
             pc' = [pc EXCEPT ![w] = place],
             \A b \in Actors \ {w} : loc'[b] = loc[b],
             UNCHANGED <<ledger, queue, item, asked, ran>>,
             store' = store \/ \E cont : store' = [store EXCEPT ![c] = cont],
             place = "enqLoad" => Few(c)'
      PROVE  RetryInv'
  <2>1. place \notin EnginePlaces /\ place # "enqPush" /\ place # "idle"
    BY <1>4 DEF EnginePlaces
  <2>2. Calm(ContOf(w))'
    BY <1>4, <2>1, LeaveCalm
  <2>3. InOrder(c)'
    <3>1. ContOf(w)' = c
      BY <1>0, <1>4 DEF ContOf
    <3> QED  BY <2>2, <3>1 DEF InOrder, Calm, Contested, Below
  <2>4. place \in FreshPlaces => Few(c)'
    BY <1>4 DEF FreshPlaces, Bumping, EnqueuePlaces
  <2>5. \A r \in Refs : ran'[r] > 0 => r.ask \in DOMAIN asked'
    BY <1>4 DEF RetryInv
  <2> QED  BY <1>3, <1>4, <2>3, <2>4, <2>5, EasedLedger
\* w goes on with the run.
<1>5. ASSUME NEW place \in Driving, pc' = [pc EXCEPT ![w] = place],
             UNCHANGED <<ledger, item, asked, ran>>,
             store' = store \/ \E cont : store' = [store EXCEPT ![c] = cont],
             place \in FreshPlaces => Few(c)'
      PROVE  RetryInv'
  <2>1. \A r \in Refs : ran'[r] > 0 => r.ask \in DOMAIN asked'
    BY <1>5 DEF RetryInv
  <2> QED  BY <1>3, <1>5, <2>1, EasedLedger
<1>6. ASSUME Few(c), \A d \in Conts : Eased(d),
             NEW place, place # "idle", pc' = [pc EXCEPT ![w] = place], item' = item
      PROVE  Few(c)'
  <2>1. store'[c] # None
    <3>1. pc'[w] = place /\ item'[w] = item[w]
      BY <1>1, <1>6
    <3> QED  BY <1>0, <1>1, <1>6, <3>1 DEF TypeInv, InHand, ContOf
  <2>2. c \in Conts /\ store[c] # None /\ Tally(c) /\ Few(c) /\ Eased(c)
    BY <1>1, <1>6
  <2> QED  BY <2>1, <2>2, FewStays
<1>7. /\ {"saveRunning", "saveResuming", "gatedTool", "saveResolved", "resolved", "maxTurns",
          "turn", "tools", "saveTurn", "turnDone", "indexRefs"} = Driving
      /\ {"saveResuming", "gatedTool", "saveResolved", "resolved", "maxTurns",
          "saveTurn", "turnDone", "indexRefs", "settleDone", "settleFailed"} \cap FreshPlaces = {}
      /\ {"saveRunning", "turn", "tools"} \subseteq FreshPlaces
      /\ "idle" \notin Driving
  BY DEF Driving, EnginePlaces, FreshPlaces, Bumping, EnqueuePlaces
<1>8. pc[w] \in {"saveRunning", "turn", "tools"} => Few(c)
  <2>1. Fresh(w)
    BY <1>1 DEF RetryInv
  <2> QED  BY <1>0, <1>7, <2>1 DEF Fresh, Taking
\* A turn that ends is followed by a new one.
<1>9. ASSUME pc[w] \in Driving,
             NEW cont, cont.turn = loc[w].turn + 1, store' = [store EXCEPT ![c] = cont],
             NEW place, place # "idle", pc' = [pc EXCEPT ![w] = place], item' = item,
             UNCHANGED <<ledger, asked, ran>>
      PROVE  Few(c)'
  <2>1. store'[c] # None
    <3>1. pc'[w] = place /\ item'[w] = item[w]
      BY <1>1, <1>9
    <3> QED  BY <1>0, <1>1, <1>9, <3>1 DEF TypeInv, InHand, ContOf
  <2>2. store'[c].turn = store[c].turn + 1 /\ store[c].turn \in Nat
    <3>1. loc[w].turn = store[c].turn
      BY <1>0, <1>9 DEF SoleInv, Leads
    <3> QED  BY <1>1, <1>9, <3>1 DEF Continuations
  <2>3. store'[c].turn > store[c].turn
    BY <2>2
  <2>4. Eased(c)
    BY <1>1, <1>9, EasedLedger
  <2> QED  BY <1>1, <2>1, <2>3, <2>4, FewLater
<1>10. \A d \in Conts : UNCHANGED <<ledger, asked, ran>> => Eased(d)
  BY EasedLedger
<1>11. CASE DriveNothing(w) \/ ResumeNothing(w)
  <2>1. PICK place \in {"settleDone", "settleFailed"} : pc' = [pc EXCEPT ![w] = place]
    BY <1>11 DEF DriveNothing, ResumeNothing, Settled
  <2>2. pc[w] = "starting" /\ UNCHANGED <<store, ledger, item, asked, ran>>
    BY <1>11 DEF DriveNothing, ResumeNothing, Settled
  <2>3. \A r \in Refs : ran'[r] > 0 => r.ask \in DOMAIN asked'
    BY <2>2 DEF RetryInv
  <2> QED  BY <1>2, <1>3, <1>7, <1>10, <2>1, <2>2, <2>3
<1>12. CASE Drive(w)
  <2>1. /\ pc[w] = "starting" /\ item[w].res = None /\ Drivable(c)
        /\ pc' = [pc EXCEPT ![w] = "saveRunning"]
        /\ UNCHANGED <<store, ledger, item, asked, ran>>
    BY <1>0, <1>12 DEF Drive
  <2>2. ~Calm(c) /\ ~Driven(c)
    BY <1>0, <2>1, DriveIsFirst
  <2>3. store[c].status \in Going
    BY <1>1, <2>1 DEF Drivable, Going, Continuations, ContStatus
  <2>4. Few(c)
    BY <1>1, <2>2, <2>3 DEF Tally, InOrder
  <2>5. Few(c)'
    BY <1>6, <1>10, <2>1, <2>4
  <2> QED  BY <1>5, <1>7, <2>1, <2>5
<1>13. CASE Resume(w)
  <2>1. /\ pc' = [pc EXCEPT ![w] = "saveResuming"]
        /\ UNCHANGED <<store, ledger, item, asked, ran>>
    BY <1>13 DEF Resume
  <2> QED  BY <1>5, <1>7, <2>1
<1>14. CASE SaveRunning(w)
  <2>1. /\ pc[w] = "saveRunning" /\ store' = [store EXCEPT ![c] = loc[w]]
        /\ UNCHANGED <<ledger, item, asked, ran>>
    BY <1>0, <1>14 DEF SaveRunning
  <2>2. PICK place \in {"turn", "maxTurns"} : pc' = [pc EXCEPT ![w] = place]
    BY <1>14 DEF SaveRunning, StepPlace
  <2>3. Few(c)'
    BY <1>6, <1>8, <1>10, <2>1, <2>2
  <2> QED  BY <1>5, <1>7, <2>1, <2>2, <2>3
<1>15. CASE SaveResuming(w)
  <2>1. /\ pc[w] = "saveResuming" /\ store' = [store EXCEPT ![c] = loc[w]]
        /\ \A b \in Actors \ {w} : loc'[b] = loc[b]
        /\ UNCHANGED <<ledger, queue, item, asked, ran>>
    BY <1>0, <1>1, <1>15 DEF SaveResuming
  <2>2. PICK place \in {"settleFailed", "resolved", "gatedTool", "saveResolved"} :
          pc' = [pc EXCEPT ![w] = place]
    BY <1>15 DEF SaveResuming, AfterResuming
  <2>3. CASE place = "settleFailed"
    BY <1>4, <1>7, <2>1, <2>2, <2>3
  <2>4. CASE place # "settleFailed"
    BY <1>5, <1>7, <2>1, <2>2, <2>4
  <2> QED  BY <2>3, <2>4
\* An approved tool is a gated one, so it counts for no repeat.
<1>16. ASSUME NEW times \in 0 .. ToolAttempts, GatedTool(w, times)
       PROVE  RetryInv'
  <2>1. PICK ref : ref = item[w].res.ref
    OBVIOUS
  <2>2. /\ pc[w] = "gatedTool" /\ pc' = [pc EXCEPT ![w] = "saveResolved"]
        /\ ran' = [ran EXCEPT ![ref] = @ + times]
        /\ UNCHANGED <<store, ledger, item, asked>>
    BY <1>16, <2>1 DEF GatedTool
  <2>3. item[w] # None /\ item[w] \in Items /\ item[w].res # None /\ item[w].res.outcome = "accept"
    <3>1. pc[w] # "idle" /\ pc[w] \in ResumePlaces
      BY <2>2 DEF ResumePlaces
    <3>2. item[w] \in Items /\ item[w].res # None
      BY <1>1, <3>1, BusyActor DEF TypeInv, InHand
    <3> QED  BY <1>1, <2>2, <3>2, NoneAssumption DEF GrantInv
  <2>4. ref \in granted
    BY <1>1, <2>1, <2>3 DEF GrantInv, Accepted
  <2>5. ref.call \in Gated
    BY <2>4 DEF PutInv
  <2>6. ref \in Refs /\ ref.ask \in DOMAIN asked
    <3>1. ref \in Refs /\ ref.ask # 0
      BY <2>1, <2>3 DEF Items, Resolutions, Refs, Asks
    <3>2. ref.ask = loc[w].ask /\ Owned(c, loc[w].ask)
      BY <1>0, <1>1, <1>7, <2>1, <2>2 DEF OnceInv, CopyOnce
    <3> QED  BY <3>1, <3>2 DEF Owned
  <2>7. \A r \in Refs \ {ref} : ran'[r] = ran[r]
    BY <2>2 DEF TypeInv, TypeOK
  <2>8. \A d \in Conts : Eased(d)
    <3>1. \A d, t : Repeats(d, t)' \subseteq Repeats(d, t)
      BY <2>2, <2>5, <2>7 DEF Repeats
    <3>2. \A d \in Conts : Crashes(d)' >= Crashes(d)
      BY <2>2, TallyTypes DEF Crashes
    <3> QED  BY <3>1, <3>2 DEF Eased
  <2>9. \A r \in Refs : ran'[r] > 0 => r.ask \in DOMAIN asked'
    BY <2>2, <2>6, <2>7 DEF RetryInv
  <2> QED  BY <1>3, <1>7, <2>2, <2>8, <2>9
<1>17. CASE SaveResolved(w)
  <2>1. /\ pc' = [pc EXCEPT ![w] = "resolved"] /\ store' = [store EXCEPT ![c] = loc[w]]
        /\ UNCHANGED <<ledger, item, asked, ran>>
    BY <1>0, <1>17 DEF SaveResolved
  <2> QED  BY <1>5, <1>7, <2>1
<1>18. CASE ParkAgain(w)
  <2>1. PICK last : last = [loc[w] EXCEPT !.status = "suspended"]
    OBVIOUS
  <2>2. /\ pc[w] = "resolved" /\ pc' = [pc EXCEPT ![w] = "settleDone"]
        /\ store' = [store EXCEPT ![c] = last]
        /\ \A b \in Actors \ {w} : loc'[b] = loc[b]
        /\ UNCHANGED <<ledger, queue, item, asked, ran>>
    BY <1>0, <1>1, <1>18, <2>1 DEF ParkAgain
  <2> QED  BY <1>4, <1>7, <2>2
<1>19. CASE FinishPark(w)
  <2>1. PICK cont : cont = Unparked(loc[w])
    OBVIOUS
  <2>2. /\ pc[w] = "resolved" /\ store' = [store EXCEPT ![c] = cont]
        /\ UNCHANGED <<ledger, item, asked, ran>>
    BY <1>0, <1>19, <2>1 DEF FinishPark
  <2>3. PICK place \in {"turn", "maxTurns"} : pc' = [pc EXCEPT ![w] = place]
    BY <1>19 DEF FinishPark, StepPlace
  <2>4. cont.turn = loc[w].turn + 1
    <3>1. pc[w] \in CopyPlaces
      BY <2>2 DEF CopyPlaces, EnginePlaces
    <3> QED  BY <1>1, <2>1, <3>1, CopyHolder, TurnFields
  <2>5. Few(c)'
    BY <1>7, <1>9, <2>2, <2>3, <2>4
  <2> QED  BY <1>5, <1>7, <2>2, <2>3, <2>5
<1>20. CASE MaxTurnsReached(w) \/ FinalAnswer(w) \/ Preempted(w) \/ ModelError(w)
  <2>1. PICK status \in {"done", "failed"}, place \in {"settleDone", "settleFailed"} :
          /\ End(w, status, place) /\ pc[w] \in {"maxTurns", "turn", "turnDone"}
    BY <1>20 DEF MaxTurnsReached, FinalAnswer, Preempted, ModelError
  <2>2. PICK last : last = [loc[w] EXCEPT !.status = status]
    OBVIOUS
  <2>3. /\ pc' = [pc EXCEPT ![w] = place] /\ store' = [store EXCEPT ![c] = last]
        /\ \A b \in Actors \ {w} : loc'[b] = loc[b]
        /\ UNCHANGED <<ledger, queue, item, asked, ran>>
    BY <1>0, <1>1, <2>1, <2>2 DEF End
  <2> QED  BY <1>4, <1>7, <2>1, <2>3
<1>21. CASE Park(w) \/ SaveTools(w)
  <2>1. PICK place \in {"indexRefs", "turnDone"} : pc' = [pc EXCEPT ![w] = place]
    BY <1>21 DEF Park, SaveTools
  <2>2. /\ \E cont : store' = [store EXCEPT ![c] = cont]
        /\ UNCHANGED <<ledger, item, asked, ran>>
    BY <1>0, <1>21 DEF Park, SaveTools
  <2> QED  BY <1>5, <1>7, <2>1, <2>2
<1>22. CASE IndexRefs(w)
  <2>1. /\ pc[w] = "indexRefs" /\ pc' = [pc EXCEPT ![w] = "settleDone"]
        /\ UNCHANGED <<store, ledger, queue, item, loc, asked, ran>>
    BY <1>22 DEF IndexRefs
  <2> QED  BY <1>4, <1>7, <2>1
<1>23. CASE Continue(w)
  <2>1. PICK cont : cont = NextTurn(loc[w])
    OBVIOUS
  <2>2. /\ pc[w] = "turnDone" /\ store' = [store EXCEPT ![c] = cont]
        /\ \A b \in Actors \ {w} : loc'[b] = loc[b]
        /\ UNCHANGED <<ledger, queue, item, asked, ran>>
    BY <1>0, <1>1, <1>23, <2>1 DEF Continue
  <2>3. PICK place \in {"settleDone", "enqLoad", "maxTurns"} : pc' = [pc EXCEPT ![w] = place]
    BY <1>23 DEF Continue, AfterContinue
  <2>4. cont.turn = loc[w].turn + 1
    <3>1. pc[w] \in CopyPlaces
      BY <2>2 DEF CopyPlaces, EnginePlaces
    <3> QED  BY <1>1, <2>1, <3>1, CopyHolder, TurnFields
  <2>5. Few(c)'
    BY <1>7, <1>9, <2>2, <2>3, <2>4
  <2>6. CASE place = "maxTurns"
    BY <1>5, <1>7, <2>2, <2>3, <2>6
  <2>7. CASE place # "maxTurns"
    BY <1>4, <1>7, <2>2, <2>3, <2>5, <2>7
  <2> QED  BY <2>6, <2>7
\* A reply that has just been numbered has run nothing.
<1>24. ASSUME NEW calls \in SUBSET Calls \ {{}}, AskTools(w, calls)
       PROVE  RetryInv'
  <2>1. /\ pc[w] = "turn" /\ pc' = [pc EXCEPT ![w] = "tools"]
        /\ asked' = Append(asked, [cont |-> c, turn |-> loc[w].turn])
        /\ UNCHANGED <<store, ledger, item, ran>>
    BY <1>0, <1>24 DEF AskTools
  <2>2. /\ DOMAIN asked \subseteq DOMAIN asked'
        /\ \A k \in DOMAIN asked : asked'[k] = asked[k]
    <3>1. asked \in Seq([cont: Conts, turn: 0 .. MaxTurns])
      BY DEF TypeInv, TypeOK
    <3>2. [cont |-> c, turn |-> loc[w].turn] \in [cont: Conts, turn: 0 .. MaxTurns]
      <4>1. pc[w] \in CopyPlaces
        BY <2>1 DEF CopyPlaces, EnginePlaces
      <4> QED  BY <1>1, <4>1, CopyHolder DEF Continuations
    <3>3. /\ DOMAIN asked = 1 .. Len(asked) /\ DOMAIN asked' = 1 .. Len(asked) + 1
          /\ Len(asked) \in Nat
          /\ \A k \in 1 .. Len(asked) : asked'[k] = asked[k]
      BY <2>1, <3>1, <3>2
    <3> QED  BY <3>3
  <2>3. \A r \in Refs : ran'[r] > 0 => ran[r] > 0 /\ r.ask \in DOMAIN asked
    BY <2>1 DEF RetryInv
  <2>4. \A d \in Conts : Eased(d)
    <3>1. \A d, t : Repeats(d, t)' \subseteq Repeats(d, t)
      BY <2>2, <2>3 DEF Repeats
    <3>2. \A d \in Conts : Crashes(d)' >= Crashes(d)
      BY <2>1, TallyTypes DEF Crashes
    <3> QED  BY <3>1, <3>2 DEF Eased
  <2>5. Few(c)'
    BY <1>6, <1>8, <2>1, <2>4
  <2>6. \A r \in Refs : ran'[r] > 0 => r.ask \in DOMAIN asked'
    BY <2>2, <2>3
  <2> QED  BY <1>3, <1>7, <2>1, <2>4, <2>5, <2>6
\* The tools run: one more reply of the turn the run is at.
<1>25. CASE RunTools(w)
  <2>0. PICK n, t : n = reply[w].ask /\ t = store[c].turn
    OBVIOUS
  <2>1. /\ pc[w] = "tools" /\ pc' = [pc EXCEPT ![w] = "saveTurn"]
        /\ \A r \in Refs : ran'[r] > 0 => ran[r] > 0 \/ r.ask = n
        /\ UNCHANGED <<store, ledger, item, asked>>
    BY <1>25, <2>0 DEF RunTools, RefOf
  <2>2. asked[n] = [cont |-> c, turn |-> t] /\ n \in DOMAIN asked /\ t \in 0 .. MaxTurns
    <3>1. Noted(w) /\ Leads(w)
      BY <1>7, <2>1 DEF ParkInv, SoleInv
    <3>2. reply[w] # None
      BY <1>1, <2>1 DEF TypeInv, InHand, ReplyPlaces
    <3> QED  BY <1>0, <1>1, <2>0, <2>1, <3>1, <3>2, TallyTypes DEF Noted, Leads, TypeInv, Known
  <2>3. \A d, s : /\ Repeats(d, s)' \subseteq Repeats(d, s) \cup {n}
                  /\ d # c \/ s # t => Repeats(d, s)' \subseteq Repeats(d, s)
    BY <2>1, <2>2 DEF Repeats
  <2>4. /\ pc'[w] = "saveTurn"
        /\ \A b \in Actors \ {w} : pc'[b] = pc[b] /\ item'[b] = item[b]
        /\ ContOf(w)' = c
    BY <1>0, <1>1, <2>1 DEF ContOf
  <2>5. ASSUME NEW d \in Conts \ {c}
        PROVE  Eased(d)
    BY <2>1, <2>3, TallyTypes DEF Eased, Crashes
  <2>6. ASSUME NEW d \in Conts \ {c}, store'[d] # None
        PROVE  Tally(d)'
    <3>1. store[d] # None /\ Unmoved(w, d)
      BY <1>0, <2>1, <2>6 DEF Unmoved
    <3>2. InOrder(d)'
      BY <2>4, <2>5, <2>6, <3>1, InOrderStays
    <3> QED  BY <2>5, <2>6, <3>1, <3>2, TallyStays DEF RetryInv
  <2>7. Tally(c)'
    <3>1. Few(c)
      BY <1>8, <2>1
    <3>2. /\ Count(c) = Cardinality(Repeats(c, t)) /\ Count(c)' = Cardinality(Repeats(c, t)')
          /\ Crashes(c)' = Crashes(c)
      BY <2>0, <2>1 DEF Count, Crashes
    <3>3. Cardinality(Repeats(c, t)') <= Cardinality(Repeats(c, t)) + 1
      <4>1. IsFiniteSet(Repeats(c, t)) /\ Cardinality(Repeats(c, t)) \in Nat
        BY RepeatsCount
      <4>2. /\ IsFiniteSet(Repeats(c, t) \cup {n})
            /\ Cardinality(Repeats(c, t) \cup {n}) <= Cardinality(Repeats(c, t)) + 1
        <5>1. PICK S : S = Repeats(c, t)
          OBVIOUS
        <5>2. /\ IsFiniteSet(S \cup {n})
              /\ Cardinality(S \cup {n}) = IF n \in S THEN Cardinality(S) ELSE Cardinality(S) + 1
          BY <4>1, <5>1, FS_AddElement
        <5> QED  BY <4>1, <5>1, <5>2
      <4>3. Cardinality(Repeats(c, t)') <= Cardinality(Repeats(c, t) \cup {n})
        BY <2>3, <4>2, FS_Subset
      <4>4. /\ Cardinality(Repeats(c, t) \cup {n}) \in Nat
            /\ Cardinality(Repeats(c, t)') \in Nat
        BY <2>3, <4>2, FS_Subset, FS_CardinalityType
      <4> QED  BY <4>1, <4>2, <4>3, <4>4
    <3>4. /\ Count(c) \in Nat /\ Crashes(c) \in Nat /\ MaxCrashes \in Nat
          /\ Cardinality(Repeats(c, t)') \in Nat
      <4>1. Cardinality(Repeats(c, t)') \in Nat
        <5>1. IsFiniteSet(Repeats(c, t) \cup {n})
          BY RepeatsCount, FS_AddElement
        <5> QED  BY <2>3, <5>1, FS_Subset, FS_CardinalityType
      <4> QED  BY <1>1, <4>1, TallyTypes
    <3>5. Count(c)' <= Crashes(c)' + 1 /\ Cardinality(Repeats(c, t)') <= MaxCrashes
      BY <3>1, <3>2, <3>3, <3>4 DEF Few
    <3>6. ASSUME NEW s \in 0 .. MaxTurns
          PROVE  /\ Cardinality(Repeats(c, s)') <= MaxCrashes
                 /\ s > store'[c].turn => Repeats(c, s)' = {}
      <4>1. CASE s = t
        <5>1. t \in Nat /\ store'[c].turn = t
          BY <2>0, <2>1, <2>2
        <5> QED  BY <3>5, <4>1, <5>1
      <4>2. CASE s # t
        <5>1. Repeats(c, s)' \subseteq Repeats(c, s)
          BY <2>3, <4>2
        <5>2. Cardinality(Repeats(c, s)') <= Cardinality(Repeats(c, s))
          BY <5>1, RepeatsLess
        <5>3. /\ Cardinality(Repeats(c, s)) <= MaxCrashes
              /\ s > store[c].turn => Repeats(c, s) = {}
          BY <1>1 DEF Tally
        <5>4. /\ Cardinality(Repeats(c, s)) \in Nat
              /\ Cardinality(Repeats(c, s)') \in Nat
          BY <5>1, RepeatsCount, FS_Subset, FS_CardinalityType
        <5> QED  BY <2>1, <3>4, <5>1, <5>2, <5>3, <5>4
      <4> QED  BY <4>1, <4>2
    <3>7. InOrder(c)'
      BY <1>7, <2>4 DEF InOrder, Driven
    <3>8. \A s \in 0 .. MaxTurns : /\ Cardinality(Repeats(c, s))' <= MaxCrashes
                                   /\ (s > store[c].turn)' => (Repeats(c, s) = {})'
      BY <3>6
    <3> QED  BY <3>5, <3>7, <3>8 DEF Tally
  <2>8. ASSUME NEW b \in Actors
        PROVE  Fresh(b)'
    <3>1. CASE b = w
      BY <1>7, <2>4, <3>1 DEF Fresh
    <3>2. CASE b # w
      <4>1. PICK d : d = ContOf(b)
        OBVIOUS
      <4>2. pc'[b] = pc[b] /\ item'[b] = item[b] /\ ContOf(b)' = d
        BY <2>4, <3>2, <4>1 DEF ContOf
      <4>3. SUFFICES ASSUME Taking(b), pc[b] \in FreshPlaces
                     PROVE  Few(d)'
        BY <4>2 DEF Fresh, Taking, Few, Count, Crashes
      <4>4. pc[b] # "idle"
        BY <4>3 DEF FreshPlaces, Bumping, EnqueuePlaces
      <4>5. d \in Conts /\ store[d] # None
        BY <4>1, <4>4, BusyActor DEF TypeInv, InHand
      <4>6. d # c
        BY <1>0, <1>7, <2>1, <3>2, <4>1, <4>3, TakerAlone
      <4>7. Few(d) /\ Tally(d)
        BY <4>1, <4>3, <4>5 DEF RetryInv, Fresh
      <4> QED  BY <2>1, <2>5, <4>5, <4>6, <4>7, FewStays
    <3> QED  BY <3>1, <3>2
  <2>9. \A r \in Refs : ran'[r] > 0 => r.ask \in DOMAIN asked'
    BY <2>1, <2>2 DEF RetryInv
  <2> QED  BY <2>6, <2>7, <2>8, <2>9 DEF RetryInv
<1> QED  BY <1>11, <1>12, <1>13, <1>14, <1>15, <1>16, <1>17, <1>18, <1>19, <1>20, <1>21, <1>22,
            <1>23, <1>24, <1>25 DEF EngineNext, EngineEnter, EngineTurn

\* A row that is rewritten with no fewer crashes.
LEMMA CrashesKept ==
    ASSUME TypeInv, NEW c \in Conts, NEW row \in Row, row.crashes >= Crashes(c),
           ledger' = [ledger EXCEPT ![c] = row]
    PROVE  \A d \in Conts : Crashes(d)' >= Crashes(d)
<1>1. row # None /\ ledger \in [Conts -> Row \cup {None}]
  BY NoneAssumption DEF TypeInv, TypeOK
<1>2. ledger'[c] = row /\ \A d \in Conts \ {c} : ledger'[d] = ledger[d]
  BY <1>1
<1>3. Crashes(c)' = row.crashes
  BY <1>1, <1>2 DEF Crashes
<1>4. \A d \in Conts \ {c} : Crashes(d)' = Crashes(d)
  BY <1>2 DEF Crashes
<1> QED  BY <1>3, <1>4, TallyTypes

\* A worker outside the engine drives nothing.
LEMMA WorkerRetry ==
    ASSUME TypeInv, TypeInv', SoleInv, Advance, CalmStays, RetryInv,
           NEW w \in Workers, WorkerNext(w)
    PROVE  RetryInv'
<1>0. /\ w \in Actors
      /\ {"claimed", "starting", "ack", "nackPush"} \cap (Driving \cup Bumping) = {}
      /\ {"idle", "claimed", "settleDone", "settleFailed", "ack", "nackAck", "nackPush"}
            \cap Driving = {}
      /\ item \in [Actors -> Items \cup {None}]
      /\ ledger \in [Conts -> Row \cup {None}]
  BY DEF Actors, Driving, EnginePlaces, Bumping, EnqueuePlaces, TypeInv, TypeOK
<1>1. ledger' = ledger => \A d \in Conts : Crashes(d)' >= Crashes(d)
  BY TallyTypes DEF Crashes
<1> USE DEF history, At, Goto
<1>2. ASSUME NEW it \in BagToSet(queue), Claim(w, it)
      PROVE  RetryInv'
  <2>1. /\ pc[w] = "idle" /\ pc' = [pc EXCEPT ![w] = "claimed"]
        /\ \A b \in Actors \ {w} : item'[b] = item[b]
        /\ UNCHANGED <<store, ledger, asked, ran>>
    BY <1>0, <1>2 DEF Claim
  <2> QED  BY <1>0, <1>1, <2>1, RetryOutside
<1>3. CASE WinClaim(w)
  <2>0. PICK c : c = ContOf(w)
    OBVIOUS
  <2>1. /\ pc[w] = "claimed" /\ pc' = [pc EXCEPT ![w] = "starting"]
        /\ ledger' = [ledger EXCEPT ![c] = MarkRunning(ledger[c])]
        /\ ledger[c] # None
        /\ UNCHANGED <<store, item, asked, ran>>
    BY <1>3, <2>0 DEF WinClaim, Ledgered, CanMarkRunning, Claimable
  <2>2. c \in Conts /\ ledger[c] \in Row
    BY <1>0, <2>0, <2>1, BusyActor
  <2>3. MarkRunning(ledger[c]) \in Row /\ MarkRunning(ledger[c]).crashes = ledger[c].crashes
    BY <2>2 DEF MarkRunning, Row, RowStatus
  <2>4. MarkRunning(ledger[c]).crashes >= Crashes(c)
    BY <2>1, <2>2, <2>3 DEF Crashes, Row
  <2>5. \A d \in Conts : Crashes(d)' >= Crashes(d)
    BY <2>1, <2>2, <2>3, <2>4, CrashesKept
  <2> QED  BY <1>0, <2>1, <2>5, RetryOutside
<1>4. CASE SettleDone(w)
  <2>0. PICK c : c = ContOf(w)
    OBVIOUS
  <2>1. /\ pc[w] = "settleDone" /\ pc' = [pc EXCEPT ![w] = "ack"]
        /\ ledger' = [ledger EXCEPT ![c] = Finalize(ledger[c], "done")]
        /\ UNCHANGED <<store, item, asked, ran>>
    BY <1>4, <2>0 DEF SettleDone, Ledgered
  <2>2. c \in Conts
    BY <1>0, <2>0, <2>1, BusyActor
  <2>3. \A d \in Conts : Crashes(d)' >= Crashes(d)
    <3>1. CASE ledger[c] = None
      BY <1>0, <1>1, <2>1, <2>2, <3>1 DEF Finalize
    <3>2. CASE ledger[c] # None
      <4>1. ledger[c] \in Row
        BY <1>0, <2>2, <3>2
      <4>2. /\ Finalize(ledger[c], "done") \in Row
            /\ Finalize(ledger[c], "done").crashes = ledger[c].crashes
        BY <3>2, <4>1 DEF Finalize, Row, RowStatus
      <4>3. Finalize(ledger[c], "done").crashes >= Crashes(c)
        BY <3>2, <4>1, <4>2 DEF Crashes, Row
      <4> QED  BY <2>1, <2>2, <4>2, <4>3, CrashesKept
    <3> QED  BY <3>1, <3>2
  <2> QED  BY <1>0, <2>1, <2>3, RetryOutside
<1>5. CASE NackAck(w)
  BY <1>0, <1>1, <1>5, RetryOutside DEF NackAck
<1>6. CASE LoseClaim(w) \/ SettleFailed(w) \/ Ack(w) \/ NackPush(w)
  <2>1. /\ Release(w) /\ UNCHANGED <<store, ledger, asked, ran>>
        /\ pc[w] \in {"claimed", "settleFailed", "ack", "nackPush"}
    BY <1>6 DEF LoseClaim, SettleFailed, Ack, NackPush
  <2>2. pc[w] \notin Driving
    BY <1>0, <2>1
  <2> QED  BY <1>0, <2>1, <2>2, RetryRelease
<1>7. CASE Enqueue(w)
  BY <1>0, <1>7, EnqueueRetry
<1> QED  BY <1>2, <1>3, <1>4, <1>5, <1>6, <1>7 DEF WorkerNext, WorkerClaim, WorkerSettle

\* A new run has no replies yet, and an answer takes no run forward.
LEMMA ClientRetry ==
    ASSUME OneProcess, TypeInv, TypeInv', SoleInv, Advance, CalmStays, RetryInv,
           NEW cl \in Clients, ClientNext(cl)
    PROVE  RetryInv'
<1>0. /\ cl \in Actors /\ cl \notin Workers
      /\ item \in [Actors -> Items \cup {None}]
      /\ store \in [Conts -> Continuations \cup {None}]
      /\ pc \in [Actors -> Places]
      /\ "enqLoad" \in EnqueuePlaces
  BY RuntimeAssumption DEF Actors, EnqueuePlaces, TypeInv, TypeOK
<1>1. cl \notin Direct /\ pc[cl] # "retry"
  BY DEF OneProcess, SoleInv, Serial, EnqueuePlaces
<1> USE DEF history, At, Goto
<1>2. ASSUME NEW c \in Conts, Invoke(cl, c)
      PROVE  RetryInv'
  <2>1. /\ pc' = [pc EXCEPT ![cl] = "enqLoad"] /\ store[c] = None
        /\ store' = [store EXCEPT ![c] = NewContinuation]
        /\ item'[cl].cont = c
        /\ \A b \in Actors \ {cl} : item'[b] = item[b]
        /\ UNCHANGED <<ledger, asked, ran>>
    BY <1>0, <1>2 DEF Invoke
  <2>2. pc'[cl] = "enqLoad" /\ \A b \in Actors \ {cl} : pc'[b] = pc[b]
    BY <1>0, <2>1
  <2>3. \A d \in Conts : Eased(d)
    BY <2>1, EasedLedger
  <2>4. store'[c] # None
    BY <1>0, <2>1, <2>2 DEF TypeInv, InHand, ContOf
  <2>5. Few(c)'
    BY <2>1, <2>3, <2>4, FewLater
  <2>6. Fresh(cl)'
    <3>1. ContOf(cl)' = c
      BY <2>1 DEF ContOf
    <3> QED  BY <2>5, <3>1 DEF Fresh, Few, Count, Crashes
  <2>7. ASSUME NEW d \in Conts, store'[d] # None
        PROVE  InOrder(d)' \/ Unmoved(cl, d)
    <3>1. CASE d = c
      BY <2>5, <3>1 DEF InOrder
    <3>2. CASE d # c
      BY <1>0, <2>1, <2>7, <3>2 DEF Unmoved
    <3> QED  BY <3>1, <3>2
  <2>8. \A r \in Refs : ran'[r] > 0 => r.ask \in DOMAIN asked'
    BY <2>1 DEF RetryInv
  <2> QED  BY <2>1, <2>2, <2>3, <2>6, <2>7, <2>8, RetryStep
<1>3. ASSUME NEW r \in refs, NEW out \in Outcomes, Answer(cl, r, out)
      PROVE  RetryInv'
  <2>1. /\ pc' = [pc EXCEPT ![cl] = "enqLoad"]
        /\ item'[cl].res = [ref |-> r, outcome |-> out]
        /\ \A b \in Actors \ {cl} : item'[b] = item[b]
        /\ UNCHANGED <<store, ledger, asked, ran>>
    BY <1>0, <1>1, <1>3 DEF Answer
  <2>2. pc'[cl] = "enqLoad" /\ \A b \in Actors \ {cl} : pc'[b] = pc[b]
    BY <1>0, <2>1
  <2>3. item'[cl].res # None
    BY <1>3, <2>1, NoneAssumption DEF Resolutions, TypeInv, TypeOK
  <2>4. Fresh(cl)'
    BY <1>0, <2>3 DEF Fresh, Taking
  <2>5. \A d \in Conts : Eased(d)
    BY <2>1, EasedLedger
  <2>6. \A d \in Conts : store'[d] # None => Unmoved(cl, d)
    BY <1>0, <2>1 DEF Unmoved
  <2>7. \A s \in Refs : ran'[s] > 0 => s.ask \in DOMAIN asked'
    BY <2>1 DEF RetryInv
  <2> QED  BY <2>1, <2>2, <2>4, <2>5, <2>6, <2>7, RetryStep
<1>4. ~RetryTask(cl) /\ ~TaskReturns(cl)
  BY <1>1 DEF RetryTask, TaskReturns
<1>5. CASE Enqueue(cl)
  BY <1>0, <1>5, EnqueueRetry
<1> QED  BY <1>2, <1>3, <1>4, <1>5 DEF ClientNext

\* A step that leaves the runs, the rows and the actors alone.
LEMMA QuietRetry ==
    ASSUME TypeInv, TypeInv', Advance, CalmStays, RetryInv,
           UNCHANGED <<store, ledger, pc, item, asked, ran>>
    PROVE  RetryInv'
<1>1. PICK a : a \notin Actors
  <2>1. \E a : a \notin Actors
    BY NoSetContainsEverything
  <2> QED  BY <2>1
<1>2. \A d \in Conts : Eased(d)
  BY EasedLedger
<1>3. \A d \in Conts : store'[d] # None => Unmoved(a, d)
  BY <1>1 DEF Unmoved, Actors
<1>4. ASSUME NEW b \in Actors
      PROVE  Fresh(b)'
  <2>1. PICK c : c = ContOf(b)
    OBVIOUS
  <2>2. SUFFICES ASSUME Taking(b), pc[b] \in FreshPlaces
                 PROVE  Few(c)'
    BY <2>1 DEF Fresh, Taking, ContOf, Few, Count, Crashes
  <2>3. pc[b] # "idle"
    BY <2>2 DEF FreshPlaces, Bumping, EnqueuePlaces
  <2>4. c \in Conts /\ store[c] # None
    BY <2>1, <2>3, BusyActor DEF TypeInv, InHand
  <2>5. Few(c) /\ Tally(c)
    BY <2>1, <2>2, <2>4 DEF RetryInv, Fresh
  <2> QED  BY <1>2, <2>4, <2>5, FewStays
<1>5. ASSUME NEW c \in Conts, store'[c] # None
      PROVE  Tally(c)'
  <2>1. \A b \in Actors \ {a} : pc'[b] = pc[b] /\ item'[b] = item[b]
    OBVIOUS
  <2>2. InOrder(c)'
    BY <1>2, <1>3, <1>5, <2>1, InOrderStays
  <2>3. store[c] # None => Tally(c)
    BY DEF RetryInv
  <2> QED  BY <1>2, <1>5, <2>2, <2>3, TallyStays
<1>6. \A r \in Refs : ran'[r] > 0 => r.ask \in DOMAIN asked'
  BY DEF RetryInv
<1> QED  BY <1>4, <1>5, <1>6 DEF RetryInv

\* The last crash makes the row one that nobody wins; after any other one the
\* row has a crash for each reply that ran, and fewer ran than the budget.
LEMMA RaiseRetry ==
    ASSUME TypeInv, TypeInv', SoleInv, Advance, CalmStays, RetryInv,
           NEW w \in Actors, Raise(w)
    PROVE  RetryInv'
<1>0. PICK c : c = ContOf(w)
  OBVIOUS
<1>1. PICK place : /\ place = (IF Exhausted(ledger[c]) THEN "ack" ELSE "nackAck")
                   /\ pc' = [pc EXCEPT ![w] = place]
  BY <1>0 DEF Raise, Goto
<1>2. /\ w \in Workers /\ pc[w] \in EnginePlaces
      /\ ledger' = [ledger EXCEPT ![c] = MarkRetryable(ledger[c])]
      /\ UNCHANGED <<store, queue, item, loc, asked, ran>>
  BY <1>0 DEF Raise, Ledgered
<1>3. /\ place \notin Driving \cup Bumping /\ place \notin EnginePlaces
      /\ place # "enqPush" /\ place # "idle"
  BY <1>1 DEF Driving, EnginePlaces, Bumping, EnqueuePlaces
<1>4. c \in Conts /\ store[c] # None
  <2>1. pc[w] # "idle"
    BY <1>2 DEF EnginePlaces
  <2> QED  BY <1>0, <2>1, BusyActor, NoneAssumption DEF TypeInv, InHand
<1>5. ledger[c] \in Row /\ ledger[c] # None /\ ledger \in [Conts -> Row \cup {None}]
  BY <1>0, <1>2, <1>4 DEF TypeInv, TypeOK, Claimed
<1>6. PICK row : row = MarkRetryable(ledger[c])
  OBVIOUS
<1>7. /\ row \in Row /\ row.epoch = ledger[c].epoch /\ row.crashes = ledger[c].crashes + 1
      /\ row.status = IF Exhausted(ledger[c]) THEN "dead" ELSE "retryable"
      /\ ledger[c].crashes \in Nat
  <2>1. PICK s : s = IF Exhausted(ledger[c]) THEN "dead" ELSE "retryable"
    OBVIOUS
  <2>2. row = [ledger[c] EXCEPT !.crashes = @ + 1, !.status = s]
    BY <1>6, <2>1 DEF MarkRetryable
  <2>3. s \in RowStatus
    BY <2>1 DEF RowStatus
  <2>4. ledger[c].crashes \in Nat /\ ledger[c].crashes + 1 \in Nat
    BY <1>5 DEF Row
  <2>5. /\ row \in Row /\ row.epoch = ledger[c].epoch
        /\ row.crashes = ledger[c].crashes + 1 /\ row.status = s
    BY <1>5, <2>2, <2>3, <2>4 DEF Row
  <2> QED  BY <2>1, <2>4, <2>5
<1>8. ledger'[c] = row /\ row # None
  BY <1>2, <1>4, <1>5, <1>6, <1>7, NoneAssumption
<1>9. Crashes(c) = ledger[c].crashes /\ Crashes(c)' = row.crashes
  BY <1>5, <1>8 DEF Crashes
<1>10. \A d \in Conts : Crashes(d)' >= Crashes(d)
  <2>1. row.crashes >= Crashes(c)
    BY <1>7, <1>9
  <2> QED  BY <1>2, <1>4, <1>6, <1>7, <2>1, CrashesKept
<1>11. \A d \in Conts : Eased(d)
  BY <1>2, <1>10, EasedBy
<1>12. CASE pc[w] \notin Driving
  BY <1>1, <1>2, <1>3, <1>10, <1>12, RetryOutside
<1>13. CASE pc[w] \in Driving
  <2>1. InOrder(c)'
    <3>1. CASE Exhausted(ledger[c])
      <4>1. ~Claimable(ledger'[c])
        BY <1>7, <1>8, <3>1 DEF Claimable
      <4>2. ledger'[ContOf(w)].epoch = ledger[ContOf(w)].epoch
        BY <1>0, <1>7, <1>8
      <4>3. Claimable(ledger'[ContOf(w)]) => Claimable(ledger[ContOf(w)])
        BY <1>0, <4>1
      <4>4. Calm(ContOf(w))'
        BY <1>1, <1>2, <1>3, <1>13, <4>2, <4>3, LeaveCalm
      <4>5. ContOf(w)' = c
        BY <1>0, <1>2 DEF ContOf
      <4> QED  BY <4>4, <4>5 DEF InOrder, Calm, Contested, Below
    <3>2. CASE ~Exhausted(ledger[c])
      <4>1. Count(c) <= Crashes(c) + 1 /\ Count(c) \in Nat
        BY <1>4, TallyTypes DEF RetryInv, Tally
      <4>2. Count(c)' <= Count(c) /\ Count(c)' \in Nat
        BY <1>2, <1>4, <1>11, CountStays
      <4>3. ~(ledger[c].crashes + 1 >= MaxCrashes) /\ MaxCrashes \in Nat
        BY <3>2, MaxCrashesAssumption DEF Exhausted
      <4>4. Count(c)' <= Crashes(c)' /\ Count(c)' < MaxCrashes
        BY <1>7, <1>9, <4>1, <4>2, <4>3
      <4> QED  BY <4>4 DEF InOrder, Few
    <3> QED  BY <3>1, <3>2
  <2>2. ASSUME NEW d \in Conts, store'[d] # None
        PROVE  InOrder(d)' \/ Unmoved(w, d)
    <3>1. CASE d = c
      BY <2>1, <3>1
    <3>2. CASE d # c
      BY <1>0, <1>2, <2>2, <3>2 DEF Unmoved
    <3> QED  BY <3>1, <3>2
  <2>3. pc'[w] = place /\ \A b \in Actors \ {w} : pc'[b] = pc[b] /\ item'[b] = item[b]
    BY <1>1, <1>2 DEF TypeInv, TypeOK
  <2>4. Fresh(w)'
    BY <1>3, <2>3 DEF Fresh, Taking
  <2>5. \A r \in Refs : ran'[r] > 0 => r.ask \in DOMAIN asked'
    BY <1>2 DEF RetryInv
  <2> QED  BY <1>11, <2>2, <2>3, <2>4, <2>5, RetryStep
<1> QED  BY <1>12, <1>13

LEMMA FaultRetry ==
    ASSUME OneProcess, TypeInv, TypeInv', SoleInv, Advance, CalmStays, RetryInv, FaultNext
    PROVE  RetryInv'
<1>1. ASSUME NEW w \in Actors, Raise(w)
      PROVE  RetryInv'
  BY <1>1, RaiseRetry
<1>2. ASSUME NEW a \in Actors, Abandon(a)
      PROVE  RetryInv'
  <2>1. ~(a \in Workers /\ pc[a] \in Driving)
    BY <1>2 DEF Abandon, Driving
  <2> QED  BY <1>2, <2>1, RetryRelease DEF Abandon
<1>3. ASSUME NEW cl \in Actors, TaskError(cl)
      PROVE  FALSE
  BY <1>3 DEF TaskError, OneProcess
<1>4. ASSUME NEW h \in Hosts, Crash(h) \/ Boot(h)
      PROVE  FALSE
  BY <1>4 DEF Crash, Boot, Fault, OneProcess, SoleInv, Serial
<1>5. CASE Flush
  BY <1>5, QuietRetry DEF Flush
<1> QED  BY <1>1, <1>2, <1>3, <1>4, <1>5 DEF FaultNext

\* Every step of the process keeps the invariant.
LEMMA NextRetry ==
    ASSUME OneProcess
    PROVE  /\ TypeInv /\ TypeInv' /\ GrantInv /\ PutInv /\ SoleInv /\ OnceInv /\ ParkInv
           /\ RetryInv /\ [Next]_vars
           => RetryInv'
<1> SUFFICES ASSUME TypeInv, TypeInv', GrantInv, PutInv, SoleInv, OnceInv, ParkInv,
                    RetryInv, [Next]_vars
             PROVE  RetryInv'
  OBVIOUS
<1>1. Advance /\ CalmStays
  BY NextSole, CalmSteps
<1>2. ASSUME NEW a \in Workers \cup Direct, EngineNext(a)
      PROVE  RetryInv'
  BY <1>1, <1>2, EngineRetry DEF OneProcess
<1>3. CASE UNCHANGED vars
  BY <1>1, <1>3, QuietRetry DEF vars
<1> QED  BY <1>1, <1>2, <1>3, WorkerRetry, ClientRetry, FaultRetry DEF Next

\* The invariant holds at the start.
LEMMA InitRetry == Init => RetryInv
<1> SUFFICES ASSUME Init PROVE RetryInv
  OBVIOUS
<1>1. /\ \A r \in Refs : ~(ran[r] > 0)
      /\ \A c \in Conts : store[c] = None
      /\ \A a \in Actors : pc[a] = "idle"
  BY DEF Init, Start
<1>2. "idle" \notin FreshPlaces
  BY DEF FreshPlaces, Bumping, EnqueuePlaces
<1> QED  BY <1>1, <1>2 DEF RetryInv, Fresh

\* In one process the tools of a turn never run for more replies than the
\* crash budget allows, whatever raises and is retried, however often the run
\* is answered and whatever Redis loses (worker.py MAX_CRASHES).
THEOREM RetriesBoundedInOneProcess ==
    ASSUME OneProcess
    PROVE  Spec => []RetriesBounded
<1>1. Spec => [](TypeInv /\ GrantInv /\ PutInv /\ SoleInv /\ OnceInv /\ ParkInv /\ RetryInv)
  BY InitType, NextType, InitGrant, NextGrant, InitPut, NextPut, InitSole, NextSole,
     InitOnce, NextOnce, InitPark, NextPark, InitRetry, NextRetry, PTL DEF Spec
<1>2. TypeInv /\ RetryInv => RetriesBounded
  <2> SUFFICES ASSUME TypeInv, RetryInv, NEW c \in Conts, NEW t \in 0 .. MaxTurns
               PROVE  Cardinality(Repeats(c, t)) <= MaxCrashes
    BY DEF RetriesBounded
  <2>1. CASE store[c] = None
    <3>1. Repeats(c, t) = {}
      BY <2>1, RepeatsOfNone
    <3>2. MaxCrashes \in Nat
      BY MaxCrashesAssumption
    <3> QED  BY <3>1, <3>2, FS_EmptySet
  <2>2. CASE store[c] # None
    BY <2>2 DEF RetryInv, Tally
  <2> QED  BY <2>1, <2>2
<1> QED  BY <1>1, <1>2, PTL

=============================================================================
