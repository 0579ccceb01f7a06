---------------------- MODULE DurableRuntimeAnswerProofs ----------------------
(***************************************************************************)
(* What becomes of a human's answer.  For one process that is not          *)
(* restarted, when a run is answered only while no earlier answer to it is *)
(* on its way: the ledger keeps the epoch of the run; and when nothing     *)
(* fails, no run is stranded and no approval is lost.  The invariants of   *)
(* DurableRuntimeProofs hold in every state of it and are built upon here. *)
(***************************************************************************)
EXTENDS DurableRuntimeProofs

-----------------------------------------------------------------------------
(***************************************************************************)
(* What an entry, and what an actor has in hand, resolves: a reference     *)
(* that was indexed, of the very run it is for; and what a human approved  *)
(* was indexed.  This holds for any processes and faults.                  *)
(***************************************************************************)
AboutRun(it) == it.res # None => it.res.ref \in refs /\ RunOf(it.res.ref) = it.cont

RefInv ==
    /\ \A it \in BagToSet(queue) : AboutRun(it)
    /\ \A a \in Actors : item[a] # None => AboutRun(item[a])
    /\ granted \subseteq refs

\* A reference keeps its run: replies are only added.
LEMMA RunKept ==
    ASSUME TypeInv, NEW x, asked' = asked \/ asked' = Append(asked, x)
    PROVE  \A r \in refs : RunOf(r)' = RunOf(r)
<1>1. /\ \A r \in refs : r.ask \in 1 .. Len(asked)
      /\ asked \in Seq([cont: Conts, turn: 0 .. MaxTurns])
  BY AskedTyped DEF TypeInv, TypeOK, Known
<1>2. \A k \in 1 .. Len(asked) : asked'[k] = asked[k]
  BY <1>1
<1> QED  BY <1>1, <1>2 DEF RunOf

\* A step that brings in nothing but what is about a run.
LEMMA RefStep ==
    ASSUME TypeInv, RefInv, refs \subseteq refs', granted' \subseteq refs,
           NEW x, asked' = asked \/ asked' = Append(asked, x),
           \A it \in BagToSet(queue') : it \in BagToSet(queue) \/ AboutRun(it),
           \A a \in Actors : item'[a] = item[a] \/ item'[a] = None \/ AboutRun(item'[a])
    PROVE  RefInv'
<1>1. \A it : AboutRun(it) => AboutRun(it)'
  BY RunKept DEF AboutRun, RunOf
<1>2. \A it \in BagToSet(queue') : AboutRun(it)'
  BY <1>1 DEF RefInv
<1>3. \A a \in Actors : item'[a] # None => AboutRun(item[a])'
  <2>1. ASSUME NEW a \in Actors, item'[a] # None
        PROVE  AboutRun(item[a])'
    <3>1. PICK it : it = item'[a]
      OBVIOUS
    <3>2. AboutRun(it)
      BY <2>1, <3>1 DEF RefInv
    <3>3. it.res # None => it.res.ref \in refs' /\ RunOf(it.res.ref)' = it.cont
      BY <1>1, <3>2 DEF AboutRun
    <3> QED  BY <3>1, <3>3 DEF AboutRun
  <2> QED  BY <2>1
<1> QED  BY <1>2, <1>3 DEF RefInv

LEMMA RefRelease ==
    ASSUME TypeInv, RefInv, NEW a \in Actors, Release(a),
           \A it \in BagToSet(queue') : it \in BagToSet(queue) \/ AboutRun(it),
           granted' \subseteq refs, UNCHANGED <<refs, asked>>
    PROVE  RefInv'
<1>1. \A b \in Actors : item'[b] = item[b] \/ item'[b] = None
  BY DEF Release, TypeInv, TypeOK
<1> QED  BY <1>1, RefStep

\* What the enqueuer pushes is what it was given.
LEMMA EnqueueRef ==
    ASSUME TypeInv, RefInv, NEW a \in Actors, Enqueue(a)
    PROVE  RefInv'
<1>1. granted \subseteq refs
  BY DEF RefInv
<1>2. CASE EnqueueLoad(a) \/ EnqueueSave(a) \/ EnqueueUpsert(a)
  BY <1>1, <1>2, RefStep DEF EnqueueLoad, EnqueueSave, EnqueueUpsert, history
<1>3. CASE EnqueuePush(a)
  <2>1. /\ pc[a] = "enqPush" /\ queue' = queue (+) SetToBag({NewEntry(a)})
        /\ UNCHANGED <<refs, asked>>
        /\ granted' = granted \/ granted' = Approved(item[a])
    BY <1>3 DEF EnqueuePush, At
  <2>2. item[a] # None /\ AboutRun(item[a])
    BY <2>1 DEF RefInv, TypeInv, InHand
  <2>3. AboutRun(NewEntry(a))
    BY <2>2 DEF AboutRun, NewEntry, ContOf
  <2>4. \A it \in BagToSet(queue') : it \in BagToSet(queue) \/ AboutRun(it)
    <3>1. BagToSet(queue') = BagToSet(queue) \cup {NewEntry(a)}
      BY <2>1, BagAdd DEF TypeInv, TypeOK
    <3> QED  BY <2>3, <3>1
  <2>5. granted' \subseteq refs
    BY <1>1, <2>1, <2>2 DEF Approved, AboutRun
  <2>6. \A b \in Actors : item'[b] = item[b] \/ item'[b] = None
    BY <1>3 DEF EnqueuePush, Release, TypeInv, TypeOK
  <2> QED  BY <2>1, <2>4, <2>5, <2>6, RefStep
<1> QED  BY <1>2, <1>3 DEF Enqueue

\* An answer is for a reference that is found, and for its run.
LEMMA ClientRef ==
    ASSUME TypeInv, RefInv, NEW cl \in Clients, ClientNext(cl)
    PROVE  RefInv'
<1>0. /\ cl \in Actors /\ item \in [Actors -> Items \cup {None}]
      /\ granted \subseteq refs
  BY DEF Actors, TypeInv, TypeOK, RefInv
<1>1. ASSUME NEW c \in Conts, Invoke(cl, c)
      PROVE  RefInv'
  <2>1. /\ UNCHANGED <<refs, asked, granted, queue>>
        /\ item'[cl].res = None /\ \A b \in Actors \ {cl} : item'[b] = item[b]
    BY <1>0, <1>1 DEF Invoke, history
  <2>2. AboutRun(item'[cl])
    BY <2>1 DEF AboutRun
  <2> QED  BY <1>0, <2>1, <2>2, RefStep
<1>2. ASSUME NEW r \in refs, NEW out \in Outcomes, Answer(cl, r, out)
      PROVE  RefInv'
  <2>1. /\ UNCHANGED <<refs, asked, queue>>
        /\ item'[cl].res.ref = r /\ item'[cl].cont = RunOf(r)
        /\ \A b \in Actors \ {cl} : item'[b] = item[b]
        /\ granted' \subseteq granted \cup {r}
    BY <1>0, <1>2 DEF Answer, Approved
  <2>2. AboutRun(item'[cl])
    BY <2>1 DEF AboutRun
  <2> QED  BY <1>0, <2>1, <2>2, RefStep
<1>3. CASE RetryTask(cl)
  BY <1>0, <1>3, RefStep, RefRelease DEF RetryTask, history
<1>4. CASE TaskReturns(cl)
  BY <1>0, <1>4, RefRelease DEF TaskReturns, history
<1> QED  BY <1>0, <1>1, <1>2, <1>3, <1>4, EnqueueRef DEF ClientNext

LEMMA WorkerRef ==
    ASSUME TypeInv, RefInv, NEW w \in Workers, WorkerNext(w)
    PROVE  RefInv'
<1>0. /\ w \in Actors /\ item \in [Actors -> Items \cup {None}]
      /\ granted \subseteq refs
      /\ BagToSet(Acked(w)) \subseteq BagToSet(queue)
  BY QueueLess DEF Actors, TypeInv, TypeOK, RefInv
<1> USE DEF history
<1>1. ASSUME NEW it \in BagToSet(queue), Claim(w, it)
      PROVE  RefInv'
  <2>1. /\ UNCHANGED <<refs, asked, granted, queue>>
        /\ item'[w] = it /\ \A b \in Actors \ {w} : item'[b] = item[b]
    BY <1>0, <1>1 DEF Claim
  <2>2. AboutRun(item'[w])
    BY <2>1 DEF RefInv
  <2> QED  BY <1>0, <2>1, <2>2, RefStep
<1>2. CASE WinClaim(w) \/ SettleDone(w) \/ NackAck(w)
  BY <1>0, <1>2, RefStep DEF WinClaim, SettleDone, NackAck
<1>3. CASE LoseClaim(w) \/ SettleFailed(w) \/ Ack(w)
  BY <1>0, <1>3, RefRelease DEF LoseClaim, SettleFailed, Ack
<1>4. CASE NackPush(w)
  <2>1. item[w] # None /\ AboutRun(item[w])
    BY <1>0, <1>4 DEF NackPush, At, RefInv, TypeInv, InHand
  <2>2. \A it \in BagToSet(queue') : it \in BagToSet(queue) \/ AboutRun(it)
    <3>1. BagToSet(queue') = BagToSet(queue) \cup {item[w]}
      BY <1>4, BagAdd DEF NackPush, Entry, TypeInv, TypeOK
    <3> QED  BY <2>1, <3>1
  <2> QED  BY <1>0, <1>4, <2>2, RefRelease DEF NackPush
<1> QED  BY <1>0, <1>1, <1>2, <1>3, <1>4, EnqueueRef DEF WorkerNext, WorkerClaim, WorkerSettle

LEMMA EngineRef ==
    ASSUME TypeInv, RefInv, NEW w \in Workers \cup Direct, EngineNext(w)
    PROVE  RefInv'
<1>0. granted \subseteq refs
  BY DEF RefInv
<1> USE DEF history
<1>1. CASE DriveNothing(w) \/ Drive(w) \/ SaveRunning(w) \/ ResumeNothing(w) \/ Resume(w) \/ SaveResuming(w)
  BY <1>0, <1>1, RefStep DEF DriveNothing, Settled, Drive, SaveRunning, ResumeNothing, Resume, SaveResuming
<1>2. CASE \/ \E times \in 0 .. ToolAttempts : GatedTool(w, times)
           \/ SaveResolved(w) \/ ParkAgain(w) \/ FinishPark(w)
  BY <1>0, <1>2, RefStep DEF GatedTool, SaveResolved, ParkAgain, FinishPark
<1>3. CASE MaxTurnsReached(w) \/ FinalAnswer(w) \/ ModelError(w) \/ Preempted(w)
  BY <1>0, <1>3, RefStep DEF MaxTurnsReached, FinalAnswer, ModelError, Preempted, End
<1>4. CASE RunTools(w) \/ Park(w) \/ SaveTools(w) \/ Continue(w)
  BY <1>0, <1>4, RefStep DEF RunTools, Park, SaveTools, Continue
<1>5. ASSUME NEW calls \in SUBSET Calls \ {{}}, AskTools(w, calls)
      PROVE  RefInv'
  BY <1>0, <1>5, RefStep DEF AskTools
<1>6. CASE IndexRefs(w)
  BY <1>0, <1>6, RefStep DEF IndexRefs
<1> QED  BY <1>1, <1>2, <1>3, <1>4, <1>5, <1>6 DEF EngineNext, EngineEnter, EngineTurn

LEMMA FaultRef ==
    ASSUME TypeInv, RefInv, FaultNext
    PROVE  RefInv'
<1>0. granted \subseteq refs
  BY DEF RefInv
<1>1. ASSUME NEW w \in Actors, Raise(w)
      PROVE  RefInv'
  BY <1>0, <1>1, RefStep DEF Raise
<1>2. ASSUME NEW a \in Actors, Abandon(a)
      PROVE  RefInv'
  BY <1>0, <1>2, RefRelease DEF Abandon
<1>3. ASSUME NEW cl \in Actors, TaskError(cl)
      PROVE  RefInv'
  BY <1>0, <1>3, RefStep DEF TaskError
<1>4. ASSUME NEW h \in Hosts, Crash(h)
      PROVE  RefInv'
  <2>1. \A a \in Actors : item'[a] = item[a] \/ item'[a] = None
    BY <1>4 DEF Crash
  <2> QED  BY <1>0, <1>4, <2>1, RefStep DEF Crash
<1>5. ASSUME NEW h \in Hosts, Boot(h)
      PROVE  RefInv'
  <2>1. BagToSet(queue') = BagToSet(queue) \cup Rebuilt
    BY <1>5, BagAdd DEF Boot, TypeInv, TypeOK
  <2>2. \A it \in Rebuilt : AboutRun(it)
    BY DEF Rebuilt, AboutRun
  <2> QED  BY <1>0, <1>5, <2>1, <2>2, RefStep DEF Boot, history
<1>6. CASE Flush
  BY <1>0, <1>6, BagNone, RefStep DEF Flush
<1> QED  BY <1>1, <1>2, <1>3, <1>4, <1>5, <1>6 DEF FaultNext

LEMMA NextRef == TypeInv /\ RefInv /\ [Next]_vars => RefInv'
<1> SUFFICES ASSUME TypeInv, RefInv, [Next]_vars
             PROVE  RefInv'
  OBVIOUS
<1>1. CASE UNCHANGED vars
  <2>1. granted \subseteq refs
    BY DEF RefInv
  <2> QED  BY <1>1, <2>1, RefStep DEF vars
<1> QED  BY <1>1, WorkerRef, ClientRef, EngineRef, FaultRef DEF Next

LEMMA InitRef == Init => RefInv
BY BagNone DEF Init, Start, RefInv, Actors

----------------------------------------------------------------------------
(***************************************************************************)
(* When a human answers a run at most once at a time.                      *)
(*                                                                         *)
(* Two answers to one run that are on their way together may overtake each *)
(* other in the enqueuer, also in one process: the first is pushed with an *)
(* epoch the second has already taken further.  When a run is only         *)
(* answered while no earlier answer to it is on its way, at most one actor *)
(* has the run in hand, and the epoch of the ledger is that of the run.    *)
(***************************************************************************)
\* The hypothesis: who answers waits for what was answered before.
OneAnswerAtATime ==
    \A cl \in Clients, r \in refs, out \in Outcomes :
        Answer(cl, r, out) => \A s \in refs : RunOf(s) = RunOf(r) => ~Carried(s)

\* The entries that are queued or in a worker's hands.
Issued == BagToSet(queue) \cup {item[w] : w \in {v \in Workers : pc[v] # "idle"}}
IssuedTo(c) == {it \in Issued : it.cont = c}

BusyPlaces == EnginePlaces \cup SettlePlaces \cup EnqueuePlaces
Upserting(c) == \E a \in Actors : pc[a] = "enqUpsert" /\ ContOf(a) = c

\* The run the driver's copy was taken from, and what it has done with it.
RunningPlaces == {"saveRunning", "maxTurns", "turn", "tools", "saveTurn", "turnDone"}
TakingPlaces == {"gatedTool", "saveResolved", "resolved"}
Matches(call, place, copy, cont) ==
    /\ place = "saveResuming" => copy = [cont EXCEPT !.status = "resuming"]
    /\ place = "saveResolved" =>
         \E status \in {"executed", "rejected"} : copy = SetCall(cont, call, status)
    /\ place \in Driving \ {"saveResuming", "saveResolved"} => copy = cont
    /\ place \in RunningPlaces => cont.status = "running"
    /\ place \in TakingPlaces => cont.status = "resuming"

\* At most one actor has a run in hand.
Alone ==
    \A a, b \in Actors :
        pc[a] \in BusyPlaces /\ pc[b] \in BusyPlaces /\ ContOf(a) = ContOf(b) => a = b

\* No entry is ahead of its run, no two have the same epoch, and the ledger
\* keeps up; calls are on record only while the run waits or takes an answer.
RunInOrder(c) ==
    /\ store[c] = None => ledger[c] = None
    /\ \A it \in IssuedTo(c) : it.epoch <= store[c].epoch
    /\ \A it, jt \in IssuedTo(c) : it.epoch = jt.epoch => it = jt
    /\ ledger[c] # None => ledger[c].epoch = store[c].epoch \/ Upserting(c)
    /\ store[c] # None /\ store[c].status \notin Standing => store[c].calls = NoCalls
    /\ \A it \in IssuedTo(c) :
          it.res = None /\ it.epoch = store[c].epoch => store[c].status # "resuming"

\* The entry an actor is to push is newer than all others, the one it drives
\* is the current one, and its row is its own.
ActorInOrder(a) ==
    LET c == ContOf(a)
    IN  /\ pc[a] \in {"enqUpsert", "enqPush"} =>
             /\ loc[a].epoch = store[c].epoch
             /\ \A it \in IssuedTo(c) : it.epoch < store[c].epoch
        /\ pc[a] = "enqPush" => CanMarkRunning(ledger[c], loc[a].epoch)
        /\ pc[a] \in EnginePlaces => item[a].epoch = store[c].epoch
        /\ Matches(ResolvedCall(a), pc[a], loc[a], store[c])
        /\ a \in Workers /\ pc[a] \in BusyPlaces \ {"enqPush"} =>
             ledger[c] # None /\ ledger[c].status = "running"
        /\ pc[a] \in EnqueuePlaces /\ (a \in Workers \/ item[a].res = None) =>
             store[c].status = "running"

EpochInv ==
    /\ Alone
    /\ \A c \in Conts : RunInOrder(c)
    /\ \A a \in Actors : ActorInOrder(a)

\* Entries that are issued are well formed, of runs that exist.
LEMMA IssuedTypes ==
    ASSUME TypeInv
    PROVE  /\ \A it \in Issued : it.epoch \in Nat /\ it.cont \in Conts /\ store[it.cont] # None
           /\ \A c \in Conts : store[c] # None => store[c].epoch \in Nat
<1>1. \A it \in Issued : it \in Items /\ store[it.cont] # None
  BY BusyActor DEF Issued, Actors, TypeInv, TypeOK, Known, InHand, ContOf
<1> QED  BY <1>1, EpochTypes DEF Items

\* Nothing is asked of an actor that has no run in hand.
LEMMA NotBusy ==
    ASSUME NEW call, NEW place, place \notin BusyPlaces, NEW copy, NEW cont
    PROVE  /\ Matches(call, place, copy, cont)
           /\ place \notin EnginePlaces /\ place \notin EnqueuePlaces
           /\ place \notin {"enqUpsert", "enqPush"} /\ place # "enqPush"
BY DEF Matches, BusyPlaces, EnginePlaces, EnqueuePlaces, Driving, RunningPlaces, TakingPlaces

\* Actor a steps with the run c, which nobody else has in hand.
LEMMA OrderStep ==
    ASSUME TypeInv, EpochInv, NEW a \in Actors, NEW c \in Conts,
           \A b \in Actors \ {a} : pc'[b] = pc[b] /\ item'[b] = item[b] /\ loc'[b] = loc[b],
           \A d \in Conts \ {c} : /\ store'[d] = store[d] /\ ledger'[d] = ledger[d]
                                  /\ IssuedTo(d)' \subseteq IssuedTo(d),
           pc[a] \in BusyPlaces => ContOf(a) = c,
           pc'[a] \in BusyPlaces => item'[a].cont = c,
           \A b \in Actors \ {a} : pc[b] \in BusyPlaces => ContOf(b) # c,
           RunInOrder(c)', ActorInOrder(a)'
    PROVE  EpochInv'
<1>1. Alone'
  BY DEF EpochInv, Alone, ContOf
<1>2. ASSUME NEW d \in Conts
      PROVE  RunInOrder(d)'
  <2>1. CASE d = c
    BY <2>1
  <2>2. CASE d # c
    <3>1. RunInOrder(d) /\ store'[d] = store[d] /\ ledger'[d] = ledger[d]
      BY <2>2 DEF EpochInv
    <3>2. IssuedTo(d)' \subseteq IssuedTo(d)
      BY <2>2
    <3>3. Upserting(d) => Upserting(d)'
      BY <2>2 DEF Upserting, ContOf, BusyPlaces, EnqueuePlaces
    <3> QED  BY <3>1, <3>2, <3>3 DEF RunInOrder
  <2> QED  BY <2>1, <2>2
<1>3. ASSUME NEW b \in Actors
      PROVE  ActorInOrder(b)'
  <2>1. CASE b = a
    BY <2>1
  <2>2. CASE b # a /\ pc[b] \notin BusyPlaces
    <3>1. pc'[b] \notin BusyPlaces
      BY <2>2
    <3> QED  BY <3>1, NotBusy DEF ActorInOrder
  <2>3. CASE b # a /\ pc[b] \in BusyPlaces
    <3>1. PICK d : d = ContOf(b)
      OBVIOUS
    <3>2. d # c /\ d \in Conts
      BY <2>3, <3>1, BusyActor DEF BusyPlaces, EnginePlaces, SettlePlaces, EnqueuePlaces
    <3>3. /\ store'[d] = store[d] /\ ledger'[d] = ledger[d] /\ IssuedTo(d)' \subseteq IssuedTo(d)
          /\ pc'[b] = pc[b] /\ item'[b] = item[b] /\ loc'[b] = loc[b] /\ ContOf(b)' = d
      BY <2>3, <3>1, <3>2 DEF ContOf
    <3>4. ActorInOrder(b)
      BY DEF EpochInv
    <3>5. ResolvedCall(b)' = ResolvedCall(b)
      BY <3>3 DEF ResolvedCall
    <3> QED  BY <3>1, <3>3, <3>4, <3>5 DEF ActorInOrder
  <2> QED  BY <2>1, <2>2, <2>3
<1> QED  BY <1>1, <1>2, <1>3 DEF EpochInv

\* Nobody takes up a run, the tables stay, and no entry appears.
LEMMA OrderAside ==
    ASSUME TypeInv, EpochInv, UNCHANGED <<store, ledger>>,
           Issued' \subseteq Issued,
           \A b \in Actors : \/ pc'[b] = pc[b] /\ item'[b] = item[b] /\ loc'[b] = loc[b]
                             \/ pc'[b] \notin BusyPlaces /\ pc[b] # "enqUpsert"
    PROVE  EpochInv'
<1>1. Alone'
  BY DEF EpochInv, Alone, ContOf
<1>2. \A d : IssuedTo(d)' \subseteq IssuedTo(d)
  BY DEF IssuedTo
<1>3. ASSUME NEW d \in Conts
      PROVE  RunInOrder(d)'
  <2>1. Upserting(d) => Upserting(d)'
    BY DEF Upserting, ContOf
  <2> QED  BY <1>2, <2>1 DEF EpochInv, RunInOrder
<1>4. ASSUME NEW b \in Actors
      PROVE  ActorInOrder(b)'
  <2>1. CASE pc'[b] \notin BusyPlaces
    BY <2>1, NotBusy DEF ActorInOrder
  <2>2. CASE pc'[b] = pc[b] /\ item'[b] = item[b] /\ loc'[b] = loc[b]
    <3>1. ActorInOrder(b) /\ ContOf(b)' = ContOf(b) /\ ResolvedCall(b)' = ResolvedCall(b)
      BY <2>2 DEF EpochInv, ContOf, ResolvedCall
    <3> QED  BY <1>2, <2>2, <3>1 DEF ActorInOrder
  <2> QED  BY <2>1, <2>2
<1> QED  BY <1>1, <1>3, <1>4 DEF EpochInv

\* No entry appears where workers keep what they have and the queue grows by
\* nothing they do not have.
LEMMA IssuedStays ==
    ASSUME TypeInv, NEW a \in Actors,
           BagToSet(queue') \subseteq Issued,
           \A b \in Actors \ {a} : pc'[b] = pc[b] /\ item'[b] = item[b],
           a \in Workers /\ pc'[a] # "idle" => item'[a] \in Issued
    PROVE  Issued' \subseteq Issued /\ \A d : IssuedTo(d)' \subseteq IssuedTo(d)
<1>1. Issued' \subseteq Issued
  BY DEF Issued, Actors
<1> QED  BY <1>1 DEF IssuedTo

\* Whom an actor leaves alone with its run.
LEMMA LeftAlone ==
    ASSUME EpochInv, NEW a \in Actors, pc[a] \in BusyPlaces
    PROVE  \A b \in Actors \ {a} : pc[b] \in BusyPlaces => ContOf(b) # ContOf(a)
BY DEF EpochInv, Alone

\* Where a run rests, or has its next turn to do, there is no copy to match.
LEMMA MatchesNone ==
    ASSUME NEW call, NEW place \in SettlePlaces \cup EnqueuePlaces, NEW copy, NEW cont
    PROVE  Matches(call, place, copy, cont)
BY DEF Matches, EnginePlaces, SettlePlaces, EnqueuePlaces, Driving, RunningPlaces, TakingPlaces

\* The engine's worker has its entry, the current one, and nobody else has it.
LEMMA EngineOwner ==
    ASSUME TypeInv, EpochInv, NEW w \in Workers, pc[w] \in EnginePlaces, NEW c, c = ContOf(w)
    PROVE  /\ w \in Actors /\ c \in Conts /\ store[c] \in Continuations /\ store[c] # None
           /\ pc[w] \in BusyPlaces /\ pc[w] # "idle"
           /\ item[w] \in IssuedTo(c) /\ item[w].epoch = store[c].epoch
           /\ ledger[c] # None /\ ledger[c].status = "running"
           /\ RunInOrder(c)
<1>1. w \in Actors /\ pc[w] \in BusyPlaces /\ pc[w] # "idle" /\ pc[w] # "enqPush"
  BY DEF Actors, BusyPlaces, EnginePlaces
<1>2. c \in Conts /\ store[c] \in Continuations /\ store[c] # None
  BY <1>1, BusyActor, NoneAssumption
<1>3. item[w] \in IssuedTo(c)
  BY <1>1 DEF IssuedTo, Issued, ContOf
<1>4. ActorInOrder(w) /\ RunInOrder(c)
  BY <1>1, <1>2 DEF EpochInv
<1> QED  BY <1>1, <1>2, <1>3, <1>4 DEF ActorInOrder

\* An engine step: the worker saves its run, or leaves it as it is.
LEMMA EngineMove ==
    ASSUME TypeInv, TypeInv', EpochInv, NEW w \in Workers, pc[w] \in EnginePlaces,
           NEW c, c = ContOf(w),
           NEW place \in Driving \cup SettlePlaces \cup {"enqLoad"},
           pc' = [pc EXCEPT ![w] = place],
           NEW copy, loc' = [loc EXCEPT ![w] = copy],
           NEW cont \in Continuations, store' = [store EXCEPT ![c] = cont],
           UNCHANGED <<ledger, queue, item>>,
           cont.epoch = store[c].epoch,
           cont.status \notin Standing => cont.calls = NoCalls,
           cont.status = "resuming" => item[w].res # None \/ store[c].status = "resuming",
           place = "enqLoad" => cont.status = "running",
           Matches(ResolvedCall(w), place, copy, cont)
    PROVE  EpochInv'
<1>1. /\ w \in Actors /\ c \in Conts /\ store[c] # None /\ pc[w] \in BusyPlaces
      /\ item[w] \in IssuedTo(c) /\ item[w].epoch = store[c].epoch
      /\ ledger[c] # None /\ ledger[c].status = "running" /\ RunInOrder(c)
      /\ cont # None
  BY EngineOwner, NoneAssumption
<1>2. /\ pc'[w] = place /\ loc'[w] = copy /\ store'[c] = cont /\ item' = item
      /\ ContOf(w)' = c /\ ResolvedCall(w)' = ResolvedCall(w)
      /\ \A d \in Conts \ {c} : store'[d] = store[d]
      /\ \A b \in Actors \ {w} : pc'[b] = pc[b] /\ item'[b] = item[b] /\ loc'[b] = loc[b]
  BY <1>1 DEF TypeInv, TypeOK, ContOf, ResolvedCall
<1>3. \A d : IssuedTo(d)' \subseteq IssuedTo(d)
  <2>1. BagToSet(queue') \subseteq Issued /\ item'[w] \in Issued
    BY <1>1 DEF Issued, IssuedTo
  <2> QED  BY <1>1, <1>2, <2>1, IssuedStays
<1>4. RunInOrder(c)'
  <2>1. ~Upserting(c)
    BY <1>1, LeftAlone DEF Upserting, BusyPlaces, EnqueuePlaces, EnginePlaces
  <2>2. \A it \in IssuedTo(c) :
          it.res = None /\ it.epoch = cont.epoch => cont.status # "resuming"
    BY <1>1 DEF RunInOrder
  <2> QED  BY <1>1, <1>2, <1>3, <2>1, <2>2 DEF RunInOrder
<1>5. ActorInOrder(w)'
  <2>1. place \notin {"enqUpsert", "enqPush"} /\ place # "enqPush"
        /\ (place \in EnqueuePlaces => place = "enqLoad")
    BY DEF Driving, EnginePlaces, SettlePlaces, EnqueuePlaces
  <2> QED  BY <1>1, <1>2, <2>1 DEF ActorInOrder
<1>6. \A b \in Actors \ {w} : pc[b] \in BusyPlaces => ContOf(b) # c
  BY <1>1, LeftAlone
<1>7. \A d \in Conts \ {c} : /\ store'[d] = store[d] /\ ledger'[d] = ledger[d]
                            /\ IssuedTo(d)' \subseteq IssuedTo(d)
  BY <1>2, <1>3
<1>8. item'[w].cont = c /\ ContOf(w) = c
  BY <1>2 DEF ContOf
<1> QED  BY <1>1, <1>2, <1>4, <1>5, <1>6, <1>7, <1>8, OrderStep

\* The steps of the engine.
LEMMA EngineOrder ==
    ASSUME OneProcess, TypeInv, TypeInv', EpochInv, NEW w \in Workers, EngineNext(w)
    PROVE  EpochInv'
<1>0. PICK c : c = ContOf(w)
  OBVIOUS
<1>1. pc[w] \in EnginePlaces
  BY DEF EngineNext, EngineEnter, EngineTurn, DriveNothing, Drive, SaveRunning, ResumeNothing,
     Resume, SaveResuming, GatedTool, SaveResolved, ParkAgain, FinishPark, MaxTurnsReached,
     FinalAnswer, ModelError, AskTools, RunTools, Park, IndexRefs, SaveTools, Continue,
     Preempted, At, EnginePlaces
<1>2. /\ w \in Actors /\ c \in Conts /\ store[c] \in Continuations /\ store[c] # None
      /\ item[w] \in IssuedTo(c) /\ item[w].epoch = store[c].epoch /\ RunInOrder(c)
      /\ store \in [Conts -> Continuations \cup {None}]
      /\ store' \in [Conts -> Continuations \cup {None}]
      /\ loc \in [Actors -> Continuations \cup {None}]
      /\ loc' \in [Actors -> Continuations \cup {None}]
      /\ pc \in [Actors -> Places]
  BY <1>0, <1>1, EngineOwner DEF TypeInv, TypeOK
<1>3. /\ Matches(ResolvedCall(w), pc[w], loc[w], store[c])
      /\ store[c].status \notin Standing => store[c].calls = NoCalls
  BY <1>0, <1>2 DEF EpochInv, ActorInOrder, RunInOrder
<1>4. pc[w] \in Driving => loc[w] \in Continuations
  BY <1>2, CopyHolder DEF Driving, CopyPlaces
<1>5. /\ store = [store EXCEPT ![c] = store[c]]
      /\ loc = [loc EXCEPT ![w] = loc[w]]
  BY <1>2
<1>6. pc[w] \in {"turn", "tools", "saveTurn", "turnDone", "maxTurns", "saveRunning"} =>
        /\ loc[w] = store[c] /\ store[c].status = "running" /\ store[c].calls = NoCalls
  BY <1>3 DEF Matches, Driving, EnginePlaces, RunningPlaces, Standing
<1>7. pc[w] \in ResumePlaces => item[w].res # None
  BY <1>2 DEF TypeInv, InHand
<1> USE DEF history, At, Goto, SetLoc, Save
<1>8. ASSUME NEW place \in SettlePlaces, Settled(w, place)
      PROVE  EpochInv'
  <2>1. /\ pc' = [pc EXCEPT ![w] = place] /\ UNCHANGED <<store, ledger, queue, item, loc>>
    BY <1>8 DEF Settled
  <2>2. /\ place \in Driving \cup SettlePlaces \cup {"enqLoad"} /\ place # "enqLoad"
        /\ Matches(ResolvedCall(w), place, loc[w], store[c])
    BY MatchesNone DEF SettlePlaces
  <2>3. loc' = [loc EXCEPT ![w] = loc[w]] /\ store' = [store EXCEPT ![c] = store[c]]
    BY <1>5, <2>1
  <2> QED  BY <1>0, <1>1, <1>2, <1>3, <2>1, <2>2, <2>3, EngineMove
<1>9. CASE DriveNothing(w)
  BY <1>8, <1>9 DEF DriveNothing, SettlePlaces
<1>10. CASE ResumeNothing(w)
  BY <1>8, <1>10 DEF ResumeNothing, SettlePlaces
<1>11. ASSUME NEW place \in Driving,
              pc' = [pc EXCEPT ![w] = place],
              NEW copy, loc' = [loc EXCEPT ![w] = copy],
              UNCHANGED <<store, ledger, queue, item>>,
              Matches(ResolvedCall(w), place, copy, store[c])
       PROVE  EpochInv'
  <2>1. store' = [store EXCEPT ![c] = store[c]] /\ place # "enqLoad"
    BY <1>5, <1>11 DEF Driving, EnginePlaces
  <2> QED  BY <1>0, <1>1, <1>2, <1>3, <1>11, <2>1, EngineMove
<1>12. CASE Drive(w)
  <2>1. /\ item[w].res = None /\ Drivable(c)
        /\ pc' = [pc EXCEPT ![w] = "saveRunning"]
        /\ loc' = [loc EXCEPT ![w] = Redriven(store[c])]
        /\ UNCHANGED <<store, ledger, queue, item>>
    BY <1>0, <1>12 DEF Drive
  <2>2. store[c].status # "resuming"
    BY <1>2, <2>1 DEF RunInOrder
  <2>3. store[c].status = "running"
    BY <1>2, <2>1, <2>2 DEF Drivable, Continuations, ContStatus
  <2>4. Redriven(store[c]) = store[c]
    BY <1>2, <2>3 DEF Redriven, Continuations
  <2>5. /\ Matches(ResolvedCall(w), "saveRunning", store[c], store[c])
        /\ "saveRunning" \in Driving
    BY <2>3 DEF Matches, Driving, EnginePlaces, RunningPlaces, TakingPlaces
  <2> QED  BY <1>11, <2>1, <2>4, <2>5
<1>13. CASE Resume(w)
  <2> DEFINE copy == [store[c] EXCEPT !.status = "resuming"]
  <2>1. /\ pc' = [pc EXCEPT ![w] = "saveResuming"]
        /\ loc' = [loc EXCEPT ![w] = copy]
        /\ UNCHANGED <<store, ledger, queue, item>>
    BY <1>0, <1>13 DEF Resume
  <2>2. Matches(ResolvedCall(w), "saveResuming", copy, store[c]) /\ "saveResuming" \in Driving
    BY DEF Matches, Driving, EnginePlaces, RunningPlaces, TakingPlaces
  <2> HIDE DEF copy
  <2> QED  BY <1>11, <2>1, <2>2
<1>14. CASE SaveRunning(w)
  <2>1. /\ pc[w] = "saveRunning" /\ pc' = [pc EXCEPT ![w] = StepPlace(loc[w])]
        /\ store' = [store EXCEPT ![c] = loc[w]]
        /\ UNCHANGED <<ledger, queue, item, loc>>
    BY <1>0, <1>14 DEF SaveRunning
  <2>2. loc[w] = store[c] /\ store[c].status = "running" /\ StepPlace(loc[w]) \in {"turn", "maxTurns"}
    BY <1>6, <2>1 DEF StepPlace
  <2>3. \A place \in {"turn", "maxTurns"} :
            Matches(ResolvedCall(w), place, store[c], store[c]) /\ place \in Driving
    BY <2>2 DEF Matches, Driving, EnginePlaces, RunningPlaces, TakingPlaces
  <2> QED  BY <1>5, <1>11, <2>1, <2>2, <2>3
<1>15. CASE SaveResuming(w)
  <2> DEFINE set == SetCall(loc[w], ResolvedCall(w),
                      IF item[w].res.outcome = "reject" THEN "rejected" ELSE "executed")
             place == AfterResuming(w)
             copy == IF place = "saveResolved" THEN set ELSE loc[w]
  <2>1. /\ pc[w] = "saveResuming" /\ pc' = [pc EXCEPT ![w] = place]
        /\ store' = [store EXCEPT ![c] = loc[w]]
        /\ loc' = [loc EXCEPT ![w] = copy]
        /\ UNCHANGED <<ledger, queue, item>>
    BY <1>0, <1>15 DEF SaveResuming
  <2>2. place \in {"settleFailed", "resolved", "gatedTool", "saveResolved"}
    BY DEF AfterResuming
  <2>3. /\ loc[w] \in Continuations /\ loc[w].epoch = store[c].epoch
        /\ loc[w].status = "resuming" /\ item[w].res # None
    BY <1>2, <1>3, <1>4, <1>7, <2>1 DEF Matches, Driving, EnginePlaces, Continuations, ResumePlaces
  <2>4. place # "saveResolved" => copy = loc[w]
    OBVIOUS
  <2>5. place = "saveResolved" =>
          \E status \in {"executed", "rejected"} : copy = SetCall(loc[w], ResolvedCall(w), status)
    OBVIOUS
  <2> HIDE DEF copy
  <2>6. Matches(ResolvedCall(w), place, copy, loc[w])
    BY <2>2, <2>3, <2>4, <2>5
       DEF Matches, Driving, EnginePlaces, RunningPlaces, TakingPlaces
  <2> HIDE DEF place
  <2>7. place \in Driving \cup SettlePlaces \cup {"enqLoad"} /\ place # "enqLoad"
    BY <2>2 DEF Driving, EnginePlaces, SettlePlaces
  <2>8. loc[w].status \in Standing
    BY <2>3 DEF Standing
  <2> QED  BY <1>0, <1>1, <2>1, <2>3, <2>6, <2>7, <2>8, EngineMove
<1>16. ASSUME NEW times \in 0 .. ToolAttempts, GatedTool(w, times)
       PROVE  EpochInv'
  <2> DEFINE copy == SetCall(loc[w], ResolvedCall(w), "executed")
  <2>1. /\ pc[w] = "gatedTool" /\ pc' = [pc EXCEPT ![w] = "saveResolved"]
        /\ loc' = [loc EXCEPT ![w] = copy]
        /\ UNCHANGED <<store, ledger, queue, item>>
    BY <1>0, <1>16 DEF GatedTool
  <2>2. loc[w] = store[c] /\ store[c].status = "resuming"
    BY <1>3, <2>1 DEF Matches, Driving, EnginePlaces, TakingPlaces
  <2>3. Matches(ResolvedCall(w), "saveResolved", copy, store[c]) /\ "saveResolved" \in Driving
    BY <2>2 DEF Matches, Driving, EnginePlaces, RunningPlaces, TakingPlaces
  <2> HIDE DEF copy
  <2> QED  BY <1>11, <2>1, <2>3
<1>17. CASE SaveResolved(w)
  <2>1. /\ pc[w] = "saveResolved" /\ pc' = [pc EXCEPT ![w] = "resolved"]
        /\ store' = [store EXCEPT ![c] = loc[w]]
        /\ UNCHANGED <<ledger, queue, item, loc>>
    BY <1>0, <1>17 DEF SaveResolved
  <2>2. /\ store[c].status = "resuming" /\ loc[w] \in Continuations
        /\ \E status \in {"executed", "rejected"} : loc[w] = SetCall(store[c], ResolvedCall(w), status)
    BY <1>3, <1>4, <2>1 DEF Matches, Driving, EnginePlaces, TakingPlaces
  <2>3. loc[w].epoch = store[c].epoch /\ loc[w].status = "resuming"
    BY <1>2, <2>2 DEF SetCall, Continuations
  <2>4. Matches(ResolvedCall(w), "resolved", loc[w], loc[w]) /\ "resolved" \in Driving
    BY <2>3 DEF Matches, Driving, EnginePlaces, RunningPlaces, TakingPlaces
  <2>5. loc' = [loc EXCEPT ![w] = loc[w]] /\ loc[w].status \in Standing
    BY <1>5, <2>1, <2>3 DEF Standing
  <2> QED  BY <1>0, <1>1, <2>1, <2>2, <2>3, <2>4, <2>5, EngineMove
<1>18. ASSUME NEW status \in {"done", "failed", "suspended"}, NEW place \in SettlePlaces,
              pc[w] \in {"resolved", "turn", "turnDone", "maxTurns"},
              pc[w] = "resolved" => status = "suspended",
              End(w, status, place)
       PROVE  EpochInv'
  <2> DEFINE last == [loc[w] EXCEPT !.status = status]
  <2>1. /\ pc' = [pc EXCEPT ![w] = place]
        /\ store' = [store EXCEPT ![c] = last]
        /\ loc' = [loc EXCEPT ![w] = last]
        /\ UNCHANGED <<ledger, queue, item>>
    BY <1>0, <1>18 DEF End
  <2>2. loc[w] = store[c]
    BY <1>3, <1>18 DEF Matches, Driving, EnginePlaces
  <2>3. /\ last \in Continuations /\ last.epoch = store[c].epoch
        /\ last.status = status /\ last.calls = store[c].calls
    BY <1>2, <2>2 DEF Continuations, ContStatus
  <2>4. last.status \notin Standing => last.calls = NoCalls
    BY <1>6, <1>18, <2>3 DEF Standing
  <2>5. Matches(ResolvedCall(w), place, last, last) /\ place # "enqLoad"
    BY MatchesNone DEF SettlePlaces
  <2> HIDE DEF last
  <2> QED  BY <1>0, <1>1, <1>18, <2>1, <2>3, <2>4, <2>5, EngineMove
<1>19. CASE ParkAgain(w)
  <2>1. pc[w] = "resolved" /\ End(w, "suspended", "settleDone")
    BY <1>19 DEF ParkAgain, End
  <2> QED  BY <1>18, <2>1 DEF SettlePlaces
<1>20. ASSUME MaxTurnsReached(w) \/ FinalAnswer(w) \/ Preempted(w) \/ ModelError(w)
       PROVE  EpochInv'
  <2>1. pc[w] \in {"turn", "turnDone", "maxTurns"}
    BY <1>20 DEF MaxTurnsReached, FinalAnswer, Preempted, ModelError
  <2>2. \E status \in {"done", "failed"}, place \in SettlePlaces : End(w, status, place)
    BY <1>20 DEF MaxTurnsReached, FinalAnswer, Preempted, ModelError, SettlePlaces
  <2> QED  BY <1>18, <2>1, <2>2
<1>21. CASE FinishPark(w)
  <2>1. /\ pc[w] = "resolved" /\ pc' = [pc EXCEPT ![w] = StepPlace(Unparked(loc[w]))]
        /\ store' = [store EXCEPT ![c] = Unparked(loc[w])]
        /\ loc' = [loc EXCEPT ![w] = Unparked(loc[w])]
        /\ UNCHANGED <<ledger, queue, item>>
    BY <1>0, <1>21 DEF FinishPark
  <2>2. loc[w] \in Continuations /\ loc[w].turn < MaxTurns /\ loc[w] = store[c]
    BY <1>2, <1>3, <1>4, <2>1 DEF TypeInv, InHand, OpenPlaces, Driving, EnginePlaces, Matches
  <2>3. /\ Unparked(loc[w]) \in Continuations
        /\ Unparked(loc[w]).epoch = store[c].epoch
        /\ Unparked(loc[w]).status = "running"
    BY <1>2, <2>2, UnparkedType, TurnFields, RuntimeAssumption
  <2>4. Unparked(loc[w]).calls = NoCalls
    BY <2>2 DEF Unparked, NextTurn, Continuations
  <2>5. StepPlace(Unparked(loc[w])) \in {"turn", "maxTurns"}
    BY DEF StepPlace
  <2>6. \A place \in {"turn", "maxTurns"} :
          /\ Matches(ResolvedCall(w), place, Unparked(loc[w]), Unparked(loc[w]))
          /\ place \in Driving /\ place # "enqLoad"
    BY <2>3 DEF Matches, Driving, EnginePlaces, RunningPlaces, TakingPlaces
  <2> QED  BY <1>0, <1>1, <2>1, <2>3, <2>4, <2>5, <2>6, EngineMove
<1>22. ASSUME \/ \E calls \in SUBSET Calls \ {{}} : AskTools(w, calls)
              \/ RunTools(w)
       PROVE  EpochInv'
  <2>1. PICK place \in {"tools", "saveTurn"} :
          /\ pc[w] \in {"turn", "tools"} /\ pc' = [pc EXCEPT ![w] = place]
          /\ UNCHANGED <<store, ledger, queue, item, loc>>
    BY <1>22 DEF AskTools, RunTools
  <2>2. Matches(ResolvedCall(w), place, store[c], store[c]) /\ place \in Driving
    BY <1>6, <2>1 DEF Matches, Driving, EnginePlaces, RunningPlaces, TakingPlaces
  <2> QED  BY <1>5, <1>6, <1>11, <2>1, <2>2
<1>23. CASE Park(w)
  <2>1. /\ pc[w] = "saveTurn" /\ pc' = [pc EXCEPT ![w] = "indexRefs"]
        /\ store' = [store EXCEPT ![c] = Parked(w)]
        /\ loc' = [loc EXCEPT ![w] = Parked(w)]
        /\ UNCHANGED <<ledger, queue, item>>
    BY <1>0, <1>23 DEF Park
  <2>2. /\ Parked(w).epoch = store[c].epoch /\ Parked(w).status = "suspended"
    BY <1>2, <1>6, <2>1 DEF Parked, Continuations
  <2>3. Parked(w) \in Continuations
    <3>1. loc'[w] = Parked(w) /\ pc'[w] \in CopyPlaces
      BY <1>2, <2>1 DEF TypeInv, TypeOK, CopyPlaces, EnginePlaces
    <3> QED  BY <1>2, <3>1 DEF TypeInv, TypeOK, InHand
  <2>4. Matches(ResolvedCall(w), "indexRefs", Parked(w), Parked(w)) /\ "indexRefs" \in Driving
    BY DEF Matches, Driving, EnginePlaces, RunningPlaces, TakingPlaces
  <2>5. Parked(w).status \in Standing
    BY <2>2 DEF Standing
  <2> QED  BY <1>0, <1>1, <2>1, <2>2, <2>3, <2>4, <2>5, EngineMove
<1>24. CASE IndexRefs(w)
  <2>1. /\ pc' = [pc EXCEPT ![w] = "settleDone"] /\ UNCHANGED <<store, ledger, queue, item, loc>>
    BY <1>24 DEF IndexRefs
  <2>2. Matches(ResolvedCall(w), "settleDone", loc[w], store[c])
        /\ "settleDone" \in SettlePlaces /\ "settleDone" # "enqLoad"
    BY MatchesNone DEF SettlePlaces
  <2>3. /\ loc' = [loc EXCEPT ![w] = loc[w]] /\ store' = [store EXCEPT ![c] = store[c]]
        /\ UNCHANGED <<ledger, queue, item>>
    BY <1>5, <2>1
  <2>4. /\ store[c] \in Continuations /\ store[c].epoch = store[c].epoch
        /\ store[c].status \notin Standing => store[c].calls = NoCalls
        /\ store[c].status = "resuming" => item[w].res # None \/ store[c].status = "resuming"
    BY <1>2, <1>3
  <2>5. pc' = [pc EXCEPT ![w] = "settleDone"]
        /\ "settleDone" \in Driving \cup SettlePlaces \cup {"enqLoad"}
    BY <2>1, <2>2
  <2> QED  BY <1>0, <1>1, <2>2, <2>3, <2>4, <2>5, EngineMove
<1>25. CASE SaveTools(w)
  <2>1. /\ pc[w] = "saveTurn" /\ pc' = [pc EXCEPT ![w] = "turnDone"]
        /\ store' = [store EXCEPT ![c] = loc[w]]
        /\ UNCHANGED <<ledger, queue, item, loc>>
    BY <1>0, <1>25 DEF SaveTools
  <2>2. Matches(ResolvedCall(w), "turnDone", store[c], store[c]) /\ "turnDone" \in Driving
    BY <1>6, <2>1 DEF Matches, Driving, EnginePlaces, RunningPlaces, TakingPlaces
  <2> QED  BY <1>5, <1>6, <1>11, <2>1, <2>2
<1>26. CASE Continue(w)
  <2> DEFINE place == IF loc[w].turn + 1 < MaxTurns THEN AfterContinue(w) ELSE "maxTurns"
  <2>1. /\ pc[w] = "turnDone" /\ pc' = [pc EXCEPT ![w] = place]
        /\ store' = [store EXCEPT ![c] = NextTurn(loc[w])]
        /\ loc' = [loc EXCEPT ![w] = NextTurn(loc[w])]
        /\ UNCHANGED <<ledger, queue, item>>
    BY <1>0, <1>26 DEF Continue
  <2>2. /\ loc[w] \in Continuations /\ loc[w].turn < MaxTurns
        /\ loc[w] = store[c] /\ store[c].calls = NoCalls
    BY <1>2, <1>4, <1>6, <2>1 DEF TypeInv, InHand, OpenPlaces, Driving, EnginePlaces
  <2>3. /\ NextTurn(loc[w]) \in Continuations
        /\ NextTurn(loc[w]).epoch = store[c].epoch
        /\ NextTurn(loc[w]).status = "running"
    BY <1>2, <2>2, NextTurnType, TurnFields, RuntimeAssumption
  <2>4. NextTurn(loc[w]).calls = NoCalls
    BY <2>2 DEF NextTurn, Continuations
  <2>5. place \in {"enqLoad", "maxTurns"}
    BY DEF AfterContinue, OneProcess
  <2> HIDE DEF place
  <2>6. /\ Matches(ResolvedCall(w), place, NextTurn(loc[w]), NextTurn(loc[w]))
        /\ place \in Driving \cup SettlePlaces \cup {"enqLoad"}
    BY <2>3, <2>5 DEF Matches, Driving, EnginePlaces, RunningPlaces, TakingPlaces
  <2> QED  BY <1>0, <1>1, <2>1, <2>3, <2>4, <2>6, EngineMove
<1> QED  BY <1>9, <1>10, <1>12, <1>13, <1>14, <1>15, <1>16, <1>17, <1>19, <1>20, <1>21, <1>22, <1>23,
            <1>24, <1>25, <1>26 DEF EngineNext, EngineEnter, EngineTurn

\* The steps of the enqueuer: it takes the run's epoch and the ledger's along.
LEMMA EnqueueOrder ==
    ASSUME TypeInv, TypeInv', SoleInv, EpochInv, NEW a \in Actors, Enqueue(a)
    PROVE  EpochInv'
<1>0. PICK c : c = ContOf(a)
  OBVIOUS
<1>1. pc[a] \in EnqueuePlaces /\ pc[a] \in BusyPlaces /\ pc[a] # "idle"
  BY DEF Enqueue, EnqueueLoad, EnqueueSave, EnqueueUpsert, EnqueuePush, At, EnqueuePlaces, BusyPlaces
<1>2. /\ c \in Conts /\ store[c] \in Continuations /\ store[c] # None /\ store[c].epoch \in Nat
      /\ store \in [Conts -> Continuations \cup {None}]
      /\ store' \in [Conts -> Continuations \cup {None}]
      /\ loc \in [Actors -> Continuations \cup {None}]
      /\ item \in [Actors -> Items \cup {None}]
      /\ ledger \in [Conts -> Row \cup {None}]
      /\ pc \in [Actors -> Places]
  BY <1>0, <1>1, BusyActor, NoneAssumption, EpochTypes DEF TypeInv, TypeOK
<1>3. /\ RunInOrder(c) /\ ActorInOrder(a) /\ AtWork(a)
      /\ \A b \in Actors \ {a} : pc[b] \in BusyPlaces => ContOf(b) # c
  BY <1>0, <1>1, <1>2, LeftAlone DEF EpochInv, SoleInv
<1>4. a \in Workers => item[a] \in Issued
  BY <1>1 DEF Issued
<1>5. \A it \in IssuedTo(c) : it.epoch \in Nat
  BY IssuedTypes DEF IssuedTo
<1> USE DEF history, At, Goto, SetLoc, Save
<1>6. ASSUME NEW place, place \in {"enqSave", "enqUpsert", "enqPush"}, pc' = [pc EXCEPT ![a] = place],
             \A b \in Actors \ {a} : loc'[b] = loc[b],
             UNCHANGED <<queue, item>>,
             \A d \in Conts \ {c} : store'[d] = store[d] /\ ledger'[d] = ledger[d],
             RunInOrder(c)', ActorInOrder(a)'
      PROVE  EpochInv'
  <2>1. /\ \A b \in Actors \ {a} : pc'[b] = pc[b] /\ item'[b] = item[b]
        /\ pc'[a] = place /\ place # "idle"
    BY <1>2, <1>6
  <2>2. \A d : IssuedTo(d)' \subseteq IssuedTo(d)
    <3>1. BagToSet(queue') \subseteq Issued /\ (a \in Workers => item'[a] \in Issued)
      BY <1>4, <1>6 DEF Issued
    <3> QED  BY <2>1, <3>1, IssuedStays
  <2>3. item'[a].cont = c /\ ContOf(a) = c
    BY <1>0, <1>6 DEF ContOf
  <2> QED  BY <1>2, <1>3, <1>6, <2>1, <2>2, <2>3, OrderStep
<1>7. CASE EnqueueLoad(a)
  <2>1. /\ pc[a] = "enqLoad" /\ pc' = [pc EXCEPT ![a] = "enqSave"] /\ UNCHANGED <<store, ledger, queue, item>>
        /\ \A b \in Actors \ {a} : loc'[b] = loc[b]
    BY <1>2, <1>7 DEF EnqueueLoad
  <2>2. /\ pc'[a] = "enqSave" /\ IssuedTo(c)' = IssuedTo(c) /\ ContOf(a)' = c
    BY <1>0, <1>2, <2>1 DEF IssuedTo, Issued, ContOf
  <2>3. RunInOrder(c)'
    <3>1. Upserting(c) => Upserting(c)'
      BY <1>2, <2>1 DEF Upserting, ContOf
    <3> QED  BY <1>3, <2>1, <2>2, <3>1 DEF RunInOrder
  <2>4. ActorInOrder(a)'
    <3>1. Matches(ResolvedCall(a)', "enqSave", loc'[a], store'[c])
      BY MatchesNone DEF EnqueuePlaces
    <3>2. "enqSave" \notin EnginePlaces /\ "enqSave" \in BusyPlaces \ {"enqPush"}
      BY DEF EnginePlaces, BusyPlaces, EnqueuePlaces
    <3>3. pc[a] \in BusyPlaces \ {"enqPush"}
      BY <1>1, <2>1
    <3> QED  BY <1>0, <1>1, <1>3, <2>1, <2>2, <3>1, <3>2, <3>3 DEF ActorInOrder
  <2> QED  BY <1>6, <2>1, <2>3, <2>4
<1>8. CASE EnqueueSave(a)
  <2>1. /\ pc[a] = "enqSave" /\ pc' = [pc EXCEPT ![a] = "enqUpsert"]
        /\ store' = [store EXCEPT ![c] = loc[a]]
        /\ UNCHANGED <<ledger, queue, item, loc>>
    BY <1>0, <1>8 DEF EnqueueSave
  <2>2. loc[a] = [store[c] EXCEPT !.epoch = @ + 1]
    BY <1>0, <1>3, <2>1 DEF AtWork
  <2>3. /\ loc[a].epoch = store[c].epoch + 1 /\ loc[a].status = store[c].status
        /\ loc[a].calls = store[c].calls /\ loc[a] # None
    BY <1>2, <2>1, <2>2 DEF Continuations, TypeInv, InHand, CopyPlaces
  <2>4. /\ pc'[a] = "enqUpsert" /\ store'[c] = loc[a] /\ IssuedTo(c)' = IssuedTo(c)
        /\ ContOf(a)' = c /\ loc' = loc /\ item' = item
        /\ \A d \in Conts \ {c} : store'[d] = store[d] /\ ledger'[d] = ledger[d]
    BY <1>0, <1>2, <2>1 DEF IssuedTo, Issued, ContOf
  <2>5. \A it \in IssuedTo(c) : it.epoch < loc[a].epoch
    BY <1>2, <1>3, <1>5, <2>3 DEF RunInOrder
  <2>6. \A it \in IssuedTo(c) : it.epoch <= loc[a].epoch /\ it.epoch # loc[a].epoch
    BY <1>2, <1>5, <2>3, <2>5
  <2>7. RunInOrder(c)'
    <3>1. Upserting(c)'
      BY <2>4 DEF Upserting
    <3>2. \A it, jt \in IssuedTo(c)' : it.epoch = jt.epoch => it = jt
      BY <1>3, <2>4 DEF RunInOrder
    <3>3. store'[c] # None /\ store'[c].status \notin Standing => store'[c].calls = NoCalls
      BY <1>2, <1>3, <2>3, <2>4 DEF RunInOrder
    <3>4. \A it \in IssuedTo(c)' : it.epoch <= store'[c].epoch /\ it.epoch # store'[c].epoch
      BY <2>4, <2>6
    <3> QED  BY <2>3, <2>4, <3>1, <3>2, <3>3, <3>4 DEF RunInOrder
  <2>8. ActorInOrder(a)'
    <3>1. Matches(ResolvedCall(a)', "enqUpsert", loc'[a], store'[c])
      BY MatchesNone DEF EnqueuePlaces
    <3>2. "enqUpsert" \notin EnginePlaces /\ pc[a] \in BusyPlaces \ {"enqPush"}
      BY <1>1, <2>1 DEF EnginePlaces
    <3> QED  BY <1>0, <1>1, <1>3, <2>1, <2>3, <2>4, <2>5, <3>1, <3>2 DEF ActorInOrder
  <2> QED  BY <1>6, <2>1, <2>4, <2>7, <2>8
<1>9. CASE EnqueueUpsert(a)
  <2> DEFINE row == UpsertQueued(ledger[c], loc[a].epoch)
  <2>1. /\ pc[a] = "enqUpsert" /\ pc' = [pc EXCEPT ![a] = "enqPush"]
        /\ ledger' = [ledger EXCEPT ![c] = row]
        /\ UNCHANGED <<store, queue, item, loc>>
    BY <1>0, <1>9 DEF EnqueueUpsert
  <2>2. /\ row.status = "queued" /\ row.epoch = loc[a].epoch
        /\ loc[a].epoch = store[c].epoch
        /\ \A it \in IssuedTo(c) : it.epoch < store[c].epoch
    BY <1>0, <1>3, <2>1 DEF UpsertQueued, ActorInOrder
  <2>3. /\ ledger'[c] = row /\ row \in Row /\ row # None
    <3>1. ledger'[c] = row
      BY <1>2, <2>1
    <3>2. row \in Row
      BY <1>2, <2>2 DEF UpsertQueued, Row, RowStatus
    <3> QED  BY <3>1, <3>2, NoneAssumption
  <2> HIDE DEF row
  <2>4. /\ pc'[a] = "enqPush" /\ IssuedTo(c)' = IssuedTo(c) /\ ContOf(a)' = c
        /\ \A d \in Conts \ {c} : store'[d] = store[d] /\ ledger'[d] = ledger[d]
    BY <1>0, <1>2, <2>1 DEF IssuedTo, Issued, ContOf
  <2>5. RunInOrder(c)'
    BY <1>2, <1>3, <2>1, <2>2, <2>3, <2>4 DEF RunInOrder
  <2>6. ActorInOrder(a)'
    <3>1. Matches(ResolvedCall(a)', "enqPush", loc'[a], store'[c])
      BY MatchesNone DEF EnqueuePlaces
    <3>2. CanMarkRunning(row, loc[a].epoch)
      BY <2>2, <2>3 DEF CanMarkRunning, Claimable
    <3>3. "enqPush" \notin EnginePlaces
      BY DEF EnginePlaces
    <3> QED  BY <1>0, <1>1, <1>3, <2>1, <2>2, <2>3, <2>4, <3>1, <3>2, <3>3 DEF ActorInOrder
  <2> QED  BY <1>6, <2>1, <2>4, <2>5, <2>6
<1>10. CASE EnqueuePush(a)
  <2>1. /\ pc[a] = "enqPush" /\ queue' = queue (+) SetToBag({NewEntry(a)})
        /\ UNCHANGED <<store, ledger>>
    BY <1>10 DEF EnqueuePush
  <2>2. /\ pc'[a] \in {"ack", "idle"} /\ pc'[a] \notin BusyPlaces
        /\ a \in Workers => item' = item
        /\ \A b \in Actors \ {a} : pc'[b] = pc[b] /\ item'[b] = item[b] /\ loc'[b] = loc[b]
    BY <1>2, <1>10 DEF EnqueuePush, Release, BusyPlaces, EnginePlaces, SettlePlaces, EnqueuePlaces
  <2>3. BagToSet(queue') = BagToSet(queue) \cup {NewEntry(a)}
    BY <2>1, BagAdd DEF TypeInv, TypeOK
  <2>4. Issued' \subseteq Issued \cup {NewEntry(a)}
    BY <1>4, <2>2, <2>3 DEF Issued, Actors
  <2>5. NewEntry(a).cont = c /\ NewEntry(a).epoch = loc[a].epoch
    BY <1>0 DEF NewEntry
  <2>6. /\ \A d : d # c => IssuedTo(d)' \subseteq IssuedTo(d)
        /\ IssuedTo(c)' \subseteq IssuedTo(c) \cup {NewEntry(a)}
    BY <2>4, <2>5 DEF IssuedTo
  <2>7. /\ loc[a].epoch = store[c].epoch
        /\ \A it \in IssuedTo(c) : it.epoch < store[c].epoch /\ it.epoch # loc[a].epoch
        /\ CanMarkRunning(ledger[c], loc[a].epoch)
        /\ NewEntry(a).res = None => store[c].status = "running"
    <3>1. /\ loc[a].epoch = store[c].epoch
          /\ \A it \in IssuedTo(c) : it.epoch < store[c].epoch
          /\ CanMarkRunning(ledger[c], loc[a].epoch)
      BY <1>0, <1>3, <2>1 DEF ActorInOrder
    <3>2. NewEntry(a).res = None => store[c].status = "running"
      BY <1>0, <1>1, <1>3 DEF ActorInOrder, NewEntry
    <3> QED  BY <1>2, <1>5, <3>1, <3>2
  <2>8. RunInOrder(c)'
    <3>1. ledger[c].epoch = store[c].epoch
      BY <2>7 DEF CanMarkRunning
    <3>2. \A it \in IssuedTo(c)' : it.epoch <= store[c].epoch
      BY <1>2, <1>3, <2>5, <2>6, <2>7 DEF RunInOrder
    <3>3. \A it, jt \in IssuedTo(c)' : it.epoch = jt.epoch => it = jt
      BY <1>3, <2>5, <2>6, <2>7 DEF RunInOrder
    <3>4. \A it \in IssuedTo(c)' :
             it.res = None /\ it.epoch = store[c].epoch => store[c].status # "resuming"
      BY <1>3, <2>5, <2>6, <2>7 DEF RunInOrder
    <3> QED  BY <1>3, <2>1, <3>1, <3>2, <3>3, <3>4 DEF RunInOrder
  <2>9. ActorInOrder(a)'
    BY <2>2, NotBusy DEF ActorInOrder
  <2>10. \A d \in Conts \ {c} : /\ store'[d] = store[d] /\ ledger'[d] = ledger[d]
                                /\ IssuedTo(d)' \subseteq IssuedTo(d)
    BY <2>1, <2>6
  <2> QED  BY <1>0, <1>2, <1>3, <2>2, <2>8, <2>9, <2>10, OrderStep
<1> QED  BY <1>7, <1>8, <1>9, <1>10 DEF Enqueue

\* Two entries that can win the row of a run are one, and nobody else has it.
LEMMA WinnerAlone ==
    ASSUME OneProcess, TypeInv, SoleInv, EpochInv, NEW w \in Workers, CanStep(w),
           pc[w] = "claimed", CanMarkRunning(ledger[ContOf(w)], item[w].epoch)
    PROVE  /\ \A b \in Actors \ {w} : pc[b] \in BusyPlaces => ContOf(b) # ContOf(w)
           /\ item[w].epoch = store[ContOf(w)].epoch
<1>0. PICK c : c = ContOf(w)
  OBVIOUS
<1>1. /\ w \in Actors /\ c \in Conts /\ item[w] \in IssuedTo(c)
      /\ item[w].epoch \in Nat
  <2>1. w \in Actors /\ pc[w] # "idle"
    BY DEF Actors
  <2> QED  BY <1>0, <2>1, BusyActor DEF IssuedTo, Issued, ContOf, Items
<1>2. \A b \in Actors : pc[b] # "enqUpsert"
  BY <1>1, OthersWait DEF Section, EnqueuePlaces
<1>3. item[w].epoch = store[c].epoch
  BY <1>0, <1>1, <1>2 DEF EpochInv, RunInOrder, CanMarkRunning, Claimable, Upserting
<1>4. ASSUME NEW b \in Actors \ {w}, pc[b] \in BusyPlaces, ContOf(b) = c
      PROVE  FALSE
  <2>1. ActorInOrder(b) /\ pc[b] \notin Section
    BY <1>1, OthersWait DEF EpochInv
  <2>2. CASE pc[b] = "enqPush"
    <3>1. item[w].epoch < store[c].epoch
      BY <1>1, <1>4, <2>1, <2>2 DEF ActorInOrder
    <3> QED  BY <1>1, <1>3, <3>1
  <2>3. CASE pc[b] # "enqPush" /\ b \in Workers
    BY <1>0, <1>4, <2>1, <2>3 DEF ActorInOrder, CanMarkRunning, Claimable
  <2>4. CASE pc[b] # "enqPush" /\ b \in Clients
    <3>1. pc[b] \in EnqueuePlaces
      BY <1>4, <2>4 DEF SoleInv, Serial, BusyPlaces, EnginePlaces, SettlePlaces, EnqueuePlaces
    <3> QED  BY <2>1, <2>4, <3>1 DEF Section
  <2> QED  BY <2>2, <2>3, <2>4 DEF Actors
<1> QED  BY <1>0, <1>3, <1>4

\* A worker changes the row of the run it has in hand.
LEMMA RowOrder ==
    ASSUME TypeInv, TypeInv', EpochInv, NEW w \in Workers, pc[w] # "idle",
           NEW c, c = ContOf(w),
           \A b \in Actors \ {w} : pc[b] \in BusyPlaces => ContOf(b) # c,
           NEW place \in {"starting", "ack", "nackAck"}, pc' = [pc EXCEPT ![w] = place],
           pc[w] # "enqUpsert",
           NEW row \in Row, ledger' = [ledger EXCEPT ![c] = row],
           ledger[c] # None, row.epoch = ledger[c].epoch,
           place = "starting" => item[w].epoch = store[c].epoch /\ row.status = "running",
           UNCHANGED <<store, queue, item, loc>>
    PROVE  EpochInv'
<1>1. /\ w \in Actors /\ c \in Conts /\ store[c] # None /\ row # None
  BY BusyActor, NoneAssumption DEF Actors
<1>2. /\ pc'[w] = place /\ ledger'[c] = row /\ ContOf(w)' = c
      /\ \A b \in Actors \ {w} : pc'[b] = pc[b] /\ item'[b] = item[b] /\ loc'[b] = loc[b]
      /\ \A d \in Conts \ {c} : store'[d] = store[d] /\ ledger'[d] = ledger[d]
  BY <1>1 DEF TypeInv, TypeOK, ContOf
<1>3. \A d : IssuedTo(d)' \subseteq IssuedTo(d)
  <2>1. BagToSet(queue') \subseteq Issued /\ item'[w] \in Issued
    BY DEF Issued
  <2> QED  BY <1>1, <1>2, <2>1, IssuedStays
<1>4. RunInOrder(c)'
  <2>1. RunInOrder(c) /\ ~Upserting(c)
    BY <1>1 DEF EpochInv, Upserting, BusyPlaces, EnqueuePlaces
  <2> QED  BY <1>1, <1>2, <1>3, <2>1 DEF RunInOrder
<1>5. ActorInOrder(w)'
  <2>1. CASE place # "starting"
    <3>1. place \notin BusyPlaces
      BY <2>1 DEF BusyPlaces, EnginePlaces, SettlePlaces, EnqueuePlaces
    <3> QED  BY <1>2, <3>1, NotBusy DEF ActorInOrder
  <2>2. CASE place = "starting"
    <3>1. place \notin EnqueuePlaces /\ place \notin {"enqUpsert", "enqPush"} /\ place # "enqPush"
      BY <2>2 DEF EnqueuePlaces
    <3>2. Matches(ResolvedCall(w)', place, loc'[w], store'[c])
      BY <2>2 DEF Matches, Driving, RunningPlaces, TakingPlaces
    <3> QED  BY <1>1, <1>2, <2>2, <3>1, <3>2 DEF ActorInOrder
  <2> QED  BY <2>1, <2>2
<1>6. item'[w].cont = c /\ ContOf(w) = c
  BY <1>2 DEF ContOf
<1>7. \A d \in Conts \ {c} : /\ store'[d] = store[d] /\ ledger'[d] = ledger[d]
                            /\ IssuedTo(d)' \subseteq IssuedTo(d)
  BY <1>2, <1>3
<1> QED  BY <1>1, <1>2, <1>4, <1>5, <1>6, <1>7, OrderStep

\* The steps of a worker outside the engine.
LEMMA WorkerOrder ==
    ASSUME OneProcess, TypeInv, TypeInv', SoleInv, EpochInv, NEW w \in Workers, WorkerNext(w)
    PROVE  EpochInv'
<1>0. /\ w \in Actors
      /\ pc \in [Actors -> Places]
      /\ item \in [Actors -> Items \cup {None}]
      /\ ledger \in [Conts -> Row \cup {None}]
      /\ "idle" \notin BusyPlaces /\ "claimed" \notin BusyPlaces /\ "nackPush" \notin BusyPlaces
  BY DEF Actors, TypeInv, TypeOK, BusyPlaces, EnginePlaces, SettlePlaces, EnqueuePlaces
<1> USE DEF history, At, Goto, Ledgered
<1>1. /\ BagToSet(Acked(w)) \subseteq Issued
      /\ BagToSet(queue) \subseteq Issued
      /\ pc[w] # "idle" => item[w] \in Issued
  BY QueueLess DEF Issued
<1>2. ASSUME UNCHANGED <<store, ledger>>, BagToSet(queue') \subseteq Issued,
             pc[w] # "enqUpsert", pc'[w] \notin BusyPlaces,
             \A b \in Actors \ {w} : pc'[b] = pc[b] /\ item'[b] = item[b] /\ loc'[b] = loc[b],
             pc'[w] # "idle" => item'[w] \in Issued
      PROVE  EpochInv'
  <2>1. Issued' \subseteq Issued
    BY <1>0, <1>2, IssuedStays
  <2> QED  BY <1>2, <2>1, OrderAside
<1>3. ASSUME Release(w), UNCHANGED <<store, ledger>>, BagToSet(queue') \subseteq Issued,
             pc[w] # "enqUpsert"
      PROVE  EpochInv'
  <2>1. /\ pc'[w] = "idle"
        /\ \A b \in Actors \ {w} : pc'[b] = pc[b] /\ item'[b] = item[b] /\ loc'[b] = loc[b]
    BY <1>0, <1>3 DEF Release, SetLoc
  <2> QED  BY <1>0, <1>2, <1>3, <2>1
<1>4. ASSUME NEW it \in BagToSet(queue), Claim(w, it)
      PROVE  EpochInv'
  <2>1. /\ pc[w] = "idle" /\ pc'[w] = "claimed" /\ item'[w] = it
        /\ \A b \in Actors \ {w} : pc'[b] = pc[b] /\ item'[b] = item[b] /\ loc'[b] = loc[b]
        /\ UNCHANGED <<store, ledger, queue>>
    BY <1>0, <1>4 DEF Claim
  <2> QED  BY <1>0, <1>1, <1>2, <2>1
<1>5. CASE LoseClaim(w) \/ SettleFailed(w) \/ Ack(w)
  BY <1>1, <1>3, <1>5 DEF LoseClaim, SettleFailed, Ack
<1>6. CASE NackAck(w)
  <2>1. /\ pc[w] = "nackAck" /\ pc'[w] = "nackPush" /\ item' = item /\ loc' = loc
        /\ \A b \in Actors \ {w} : pc'[b] = pc[b]
        /\ queue' = Acked(w) /\ UNCHANGED <<store, ledger>>
    BY <1>0, <1>6 DEF NackAck
  <2> QED  BY <1>0, <1>1, <1>2, <2>1
<1>7. CASE NackPush(w)
  <2>1. pc[w] = "nackPush" /\ Release(w) /\ queue' = queue (+) SetToBag({item[w]})
        /\ UNCHANGED <<store, ledger>>
    BY <1>7 DEF NackPush, Entry
  <2>2. BagToSet(queue') = BagToSet(queue) \cup {item[w]}
    BY <2>1, BagAdd DEF TypeInv, TypeOK
  <2> QED  BY <1>1, <1>3, <2>1, <2>2
<1>8. CASE WinClaim(w)
  <2>0. PICK c : c = ContOf(w)
    OBVIOUS
  <2> DEFINE row == MarkRunning(ledger[c])
  <2>1. /\ pc[w] = "claimed" /\ CanStep(w) /\ pc' = [pc EXCEPT ![w] = "starting"]
        /\ CanMarkRunning(ledger[c], item[w].epoch)
        /\ ledger' = [ledger EXCEPT ![c] = row]
        /\ UNCHANGED <<store, queue, item, loc>>
    BY <1>8, <2>0 DEF WinClaim
  <2>2. c \in Conts /\ ledger[c] # None /\ ledger[c] \in Row
    BY <1>0, <2>0, <2>1, BusyActor DEF CanMarkRunning, Claimable
  <2>3. row \in Row /\ row.status = "running" /\ row.epoch = ledger[c].epoch
    BY <2>2 DEF MarkRunning, Row, RowStatus
  <2> HIDE DEF row
  <2>4. /\ \A b \in Actors \ {w} : pc[b] \in BusyPlaces => ContOf(b) # c
        /\ item[w].epoch = store[c].epoch
    BY <2>0, <2>1, WinnerAlone
  <2> QED  BY <2>0, <2>1, <2>2, <2>3, <2>4, RowOrder
<1>9. CASE SettleDone(w)
  <2>0. PICK c : c = ContOf(w)
    OBVIOUS
  <2> DEFINE row == Finalize(ledger[c], "done")
  <2>1. /\ pc[w] = "settleDone" /\ pc' = [pc EXCEPT ![w] = "ack"]
        /\ ledger' = [ledger EXCEPT ![c] = row]
        /\ UNCHANGED <<store, queue, item, loc>>
    BY <1>9, <2>0 DEF SettleDone
  <2>2. pc[w] \in BusyPlaces /\ pc[w] # "enqPush" /\ ActorInOrder(w)
    BY <1>0, <2>1 DEF BusyPlaces, SettlePlaces, EpochInv
  <2>3. c \in Conts /\ ledger[c] # None /\ ledger[c] \in Row
    BY <1>0, <2>0, <2>1, <2>2, BusyActor DEF ActorInOrder
  <2>4. row \in Row /\ row.epoch = ledger[c].epoch
    BY <2>3 DEF Finalize, Row, RowStatus
  <2> HIDE DEF row
  <2>5. \A b \in Actors \ {w} : pc[b] \in BusyPlaces => ContOf(b) # c
    BY <1>0, <2>0, <2>2, LeftAlone
  <2> QED  BY <2>0, <2>1, <2>3, <2>4, <2>5, RowOrder
<1> QED  BY <1>0, <1>4, <1>5, <1>6, <1>7, <1>8, <1>9, EnqueueOrder
         DEF WorkerNext, WorkerClaim, WorkerSettle

\* A human who waits for earlier answers answers a run that rests.
LEMMA AnswerAlone ==
    ASSUME OneProcess, OneAnswerAtATime, TypeInv, SoleInv, RefInv, EpochInv,
           NEW cl \in Clients, NEW r \in refs, NEW out \in Outcomes, Answer(cl, r, out)
    PROVE  /\ \A b \in Actors \ {cl} : pc[b] \in BusyPlaces => ContOf(b) # RunOf(r)
           /\ store[RunOf(r)].status \in Standing
<1>0. PICK c : c = RunOf(r)
  OBVIOUS
<1>1. /\ cl \in Actors /\ CanStep(cl) /\ Found(r)
      /\ c \in Conts /\ store[c] # None /\ r.call \in Calls
  BY <1>0, RefFields DEF Actors, Answer, At, TypeInv, TypeOK, Refs
<1>2. store[c].status \in Standing
  <2>1. store[c].calls # NoCalls
    BY <1>0, <1>1 DEF Found, NoCalls
  <2> QED  BY <1>1, <2>1 DEF EpochInv, RunInOrder
<1>3. ASSUME NEW b \in Actors \ {cl}, pc[b] \in BusyPlaces, ContOf(b) = c
      PROVE  FALSE
  <2>1. /\ ActorInOrder(b) /\ pc[b] \notin Section
        /\ pc[b] # "idle" /\ pc[b] \notin {"claimed", "ack"} /\ item[b] # None
    BY <1>1, <1>3, OthersWait
       DEF EpochInv, BusyPlaces, EnginePlaces, SettlePlaces, EnqueuePlaces, TypeInv, InHand
  <2>2. item[b].res = None
    <3>1. SUFFICES ASSUME item[b].res # None
                   PROVE  FALSE
      OBVIOUS
    <3>2. item[b].res.ref \in refs /\ RunOf(item[b].res.ref) = c
      BY <1>3, <2>1, <3>1 DEF RefInv, AboutRun, ContOf
    <3>3. Carried(item[b].res.ref)
      BY <2>1, <3>1 DEF Carried
    <3> QED  BY <1>0, <3>2, <3>3 DEF OneAnswerAtATime
  <2>3. pc[b] # "gatedTool"
    BY <2>1, <2>2 DEF TypeInv, InHand, ResumePlaces
  <2>4. pc[b] \in {"turn", "tools", "enqPush"}
    BY <1>3, <2>1, <2>3 DEF BusyPlaces, Section
  <2>5. store[c].status = "running"
    BY <1>3, <2>1, <2>2, <2>4 DEF ActorInOrder, Matches, RunningPlaces, EnqueuePlaces
  <2> QED  BY <1>2, <2>5 DEF Standing
<1> QED  BY <1>0, <1>2, <1>3

\* The steps of a client.
LEMMA ClientOrder ==
    ASSUME OneProcess, OneAnswerAtATime, TypeInv, TypeInv', SoleInv, RefInv, EpochInv,
           NEW cl \in Clients, ClientNext(cl)
    PROVE  EpochInv'
<1>0. /\ cl \in Actors /\ cl \notin Workers
      /\ pc \in [Actors -> Places]
      /\ item \in [Actors -> Items \cup {None}]
      /\ store \in [Conts -> Continuations \cup {None}]
  BY RuntimeAssumption DEF Actors, TypeInv, TypeOK
<1>1. cl \notin Direct /\ pc[cl] # "retry"
  BY DEF OneProcess, SoleInv, Serial, EnqueuePlaces
<1> USE DEF history, At, Goto
<1>2. ASSUME pc[cl] = "idle", pc' = [pc EXCEPT ![cl] = "enqLoad"],
             NEW c \in Conts,
             item'[cl].cont = c, \A b \in Actors \ {cl} : item'[b] = item[b],
             item'[cl].res = None => store'[c].status = "running",
             \A b \in Actors \ {cl} : pc[b] \in BusyPlaces => ContOf(b) # c,
             \A d \in Conts \ {c} : store'[d] = store[d],
             IssuedTo(c)' \subseteq IssuedTo(c) => RunInOrder(c)',
             UNCHANGED <<ledger, queue, loc>>
      PROVE  EpochInv'
  <2>1. /\ pc'[cl] = "enqLoad" /\ ContOf(cl)' = c /\ pc[cl] \notin BusyPlaces
        /\ \A b \in Actors \ {cl} : pc'[b] = pc[b]
    BY <1>0, <1>2 DEF ContOf, BusyPlaces, EnginePlaces, SettlePlaces, EnqueuePlaces
  <2>2. \A d : IssuedTo(d)' \subseteq IssuedTo(d)
    <3>1. BagToSet(queue') \subseteq Issued
      BY <1>2 DEF Issued
    <3> QED  BY <1>0, <1>2, <2>1, <3>1, IssuedStays
  <2>3. ActorInOrder(cl)'
    <3>1. Matches(ResolvedCall(cl)', "enqLoad", loc'[cl], store'[c])
      BY MatchesNone DEF EnqueuePlaces
    <3>2. "enqLoad" \notin EnginePlaces
      BY DEF EnginePlaces
    <3> QED  BY <1>0, <1>2, <2>1, <3>1, <3>2 DEF ActorInOrder
  <2>4. \A d \in Conts \ {c} : /\ store'[d] = store[d] /\ ledger'[d] = ledger[d]
                              /\ IssuedTo(d)' \subseteq IssuedTo(d)
    BY <1>2, <2>2
  <2>5. /\ RunInOrder(c)'
        /\ \A b \in Actors \ {cl} : pc'[b] = pc[b] /\ item'[b] = item[b] /\ loc'[b] = loc[b]
    BY <1>2, <2>1, <2>2
  <2> QED  BY <1>0, <1>2, <2>1, <2>3, <2>4, <2>5, OrderStep
<1>3. ASSUME NEW c \in Conts, Invoke(cl, c)
      PROVE  EpochInv'
  <2>1. /\ pc[cl] = "idle" /\ store[c] = None
        /\ pc' = [pc EXCEPT ![cl] = "enqLoad"]
        /\ item'[cl].cont = c /\ \A b \in Actors \ {cl} : item'[b] = item[b]
        /\ store' = [store EXCEPT ![c] = NewContinuation]
        /\ UNCHANGED <<ledger, queue, loc>>
    BY <1>0, <1>3 DEF Invoke
  <2>2. /\ store'[c] = NewContinuation /\ NewContinuation.status = "running"
        /\ NewContinuation.calls = NoCalls /\ NewContinuation # None
        /\ \A d \in Conts \ {c} : store'[d] = store[d]
    <3>1. NewContinuation \in Continuations
      <4>1. store'[c] = NewContinuation /\ item'[cl] # None /\ pc'[cl] # "idle" /\ ContOf(cl)' = c
        BY <1>0, <1>3, <2>1 DEF Invoke, ContOf, TypeInv, InHand
      <4> QED  BY <1>0, <4>1 DEF TypeInv, TypeOK, InHand
    <3> QED  BY <1>0, <2>1, <3>1, NoneAssumption DEF NewContinuation
  <2>3. \A b \in Actors : pc[b] \in BusyPlaces => ContOf(b) # c
    BY <2>1 DEF TypeInv, InHand, BusyPlaces, EnginePlaces, SettlePlaces, EnqueuePlaces
  <2>4. ASSUME IssuedTo(c)' \subseteq IssuedTo(c)
        PROVE  RunInOrder(c)'
    <3>1. IssuedTo(c)' = {}
      BY <2>1, <2>4, IssuedTypes DEF IssuedTo
    <3>2. ledger'[c] = None
      BY <2>1 DEF EpochInv, RunInOrder
    <3> QED  BY <2>2, <3>1, <3>2 DEF RunInOrder
  <2> QED  BY <1>2, <2>1, <2>2, <2>3, <2>4
<1>4. ASSUME NEW r \in refs, NEW out \in Outcomes, Answer(cl, r, out)
      PROVE  EpochInv'
  <2>0. PICK c : c = RunOf(r)
    OBVIOUS
  <2>1. /\ pc[cl] = "idle" /\ pc' = [pc EXCEPT ![cl] = "enqLoad"]
        /\ item'[cl].cont = c /\ \A b \in Actors \ {cl} : item'[b] = item[b]
        /\ UNCHANGED <<store, ledger, queue, loc>>
    BY <1>0, <1>1, <1>4, <2>0 DEF Answer
  <2>2. item'[cl].res # None
    <3>1. [ref |-> r, outcome |-> out] \in Resolutions
      BY DEF Resolutions, TypeInv, TypeOK
    <3> QED  BY <1>0, <1>4, <3>1, NoneAssumption DEF Answer
  <2>3. /\ \A b \in Actors \ {cl} : pc[b] \in BusyPlaces => ContOf(b) # c
        /\ c \in Conts
    BY <1>4, <2>0, AnswerAlone, RefFields
  <2>4. ASSUME IssuedTo(c)' \subseteq IssuedTo(c)
        PROVE  RunInOrder(c)'
    <3>1. RunInOrder(c)
      BY <2>3 DEF EpochInv
    <3>2. Upserting(c) => Upserting(c)'
      BY <1>0, <2>1 DEF Upserting, ContOf
    <3> QED  BY <2>1, <2>4, <3>1, <3>2 DEF RunInOrder
  <2> QED  BY <1>2, <2>1, <2>2, <2>3, <2>4
<1>5. ~RetryTask(cl) /\ ~TaskReturns(cl)
  BY <1>1 DEF RetryTask, TaskReturns
<1> QED  BY <1>0, <1>3, <1>4, <1>5, EnqueueOrder DEF ClientNext

\* A step that leaves the actors and the tables alone, and only loses entries.
LEMMA QuietOrder ==
    ASSUME TypeInv, EpochInv, BagToSet(queue') \subseteq BagToSet(queue),
           UNCHANGED <<store, ledger, pc, item, loc>>
    PROVE  EpochInv'
<1>1. Issued' \subseteq Issued
  BY DEF Issued
<1> QED  BY <1>1, OrderAside

\* Tasks that raise, and Redis losing its data.
LEMMA FaultOrder ==
    ASSUME OneProcess, FaultKinds \subseteq {"raise", "flush"},
           TypeInv, TypeInv', SoleInv, EpochInv, FaultNext
    PROVE  EpochInv'
<1>1. ASSUME NEW w \in Actors, Raise(w)
      PROVE  EpochInv'
  <2>0. PICK c : c = ContOf(w)
    OBVIOUS
  <2> DEFINE row == MarkRetryable(ledger[c])
             place == IF Exhausted(ledger[c]) THEN "ack" ELSE "nackAck"
  <2>1. /\ w \in Workers /\ pc[w] \in EnginePlaces
        /\ pc' = [pc EXCEPT ![w] = place]
        /\ ledger' = [ledger EXCEPT ![c] = row]
        /\ UNCHANGED <<store, queue, item, loc>>
    BY <1>1, <2>0 DEF Raise, Goto, Ledgered
  <2>2. place \in {"starting", "ack", "nackAck"} /\ place # "starting"
    OBVIOUS
  <2>3. /\ pc[w] # "idle" /\ pc[w] # "enqUpsert" /\ pc[w] \in BusyPlaces /\ c \in Conts
        /\ ledger[c] # None /\ ledger[c] \in Row
    BY <2>0, <2>1, EngineOwner DEF TypeInv, TypeOK, EnginePlaces
  <2>4. row \in Row /\ row.epoch = ledger[c].epoch
    BY <2>3, RetryableRow DEF MarkRetryable, Row
  <2> HIDE DEF row, place
  <2>5. \A b \in Actors \ {w} : pc[b] \in BusyPlaces => ContOf(b) # c
    BY <2>0, <2>3, LeftAlone
  <2> QED  BY <2>0, <2>1, <2>2, <2>3, <2>4, <2>5, RowOrder
<1>2. \A a \in Actors : ~Abandon(a) /\ ~TaskError(a)
  BY DEF Abandon, TaskError, Fault
<1>3. ASSUME NEW h \in Hosts, Crash(h) \/ Boot(h)
      PROVE  FALSE
  BY <1>3 DEF Crash, Boot, Fault, OneProcess, SoleInv, Serial
<1>4. CASE Flush
  <2>1. BagToSet(queue') = {} /\ UNCHANGED <<store, ledger, pc, item, loc>>
    BY <1>4, BagNone DEF Flush
  <2> QED  BY <2>1, QuietOrder
<1> QED  BY <1>1, <1>2, <1>3, <1>4 DEF FaultNext

\* Every step keeps the invariant while answers wait for one another.
LEMMA NextOrder ==
    ASSUME OneProcess, FaultKinds \subseteq {"raise", "flush"}
    PROVE  TypeInv /\ TypeInv' /\ SoleInv /\ RefInv /\ EpochInv
             /\ [Next]_vars /\ [OneAnswerAtATime]_vars => EpochInv'
<1> SUFFICES ASSUME TypeInv, TypeInv', SoleInv, RefInv, EpochInv,
                    [Next]_vars, [OneAnswerAtATime]_vars
             PROVE  EpochInv'
  OBVIOUS
<1>1. CASE UNCHANGED vars
  BY <1>1, QuietOrder DEF vars
<1>2. CASE Next /\ OneAnswerAtATime
  <2>1. ASSUME NEW a \in Workers \cup Direct, EngineNext(a)
        PROVE  EpochInv'
    BY <2>1, EngineOrder DEF OneProcess
  <2> QED  BY <1>2, <2>1, WorkerOrder, ClientOrder, FaultOrder DEF Next
<1> QED  BY <1>1, <1>2

\* The invariant holds at the start.
LEMMA InitOrder == Init => EpochInv
<1> SUFFICES ASSUME Init PROVE EpochInv
  OBVIOUS
<1>1. /\ \A a \in Actors : pc[a] = "idle"
      /\ \A c \in Conts : store[c] = None /\ ledger[c] = None
      /\ BagToSet(queue) = {}
  BY BagNone DEF Init, Start
<1>2. "idle" \notin BusyPlaces
  BY DEF BusyPlaces, EnginePlaces, SettlePlaces, EnqueuePlaces
<1>3. \A c : IssuedTo(c) = {}
  BY <1>1 DEF IssuedTo, Issued, Actors
<1>4. Alone /\ \A c \in Conts : RunInOrder(c)
  BY <1>1, <1>2, <1>3 DEF Alone, RunInOrder
<1>5. \A a \in Actors : ActorInOrder(a)
  BY <1>1, <1>2, NotBusy DEF ActorInOrder
<1> QED  BY <1>4, <1>5 DEF EpochInv

\* In one process the ledger keeps the epoch of the run
\* (013_execution_tier.sql:90), whatever raises and whatever Redis loses, as
\* long as no answer to a run is submitted before the last one has arrived.
THEOREM EpochsAgreeInOneProcess ==
    ASSUME OneProcess, FaultKinds \subseteq {"raise", "flush"}
    PROVE  Spec /\ [][OneAnswerAtATime]_vars => []EpochsAgree
<1>1. Spec /\ [][OneAnswerAtATime]_vars => [](TypeInv /\ SoleInv /\ RefInv /\ EpochInv)
  BY InitType, NextType, InitSole, NextSole, InitRef, NextRef, InitOrder, NextOrder, PTL DEF Spec
<1>2. EpochInv => EpochsAgree
  BY DEF EpochInv, RunInOrder, EpochsAgree, Enqueueing, Upserting, EnqueuePlaces
<1> QED  BY <1>1, <1>2, PTL

----------------------------------------------------------------------------
(***************************************************************************)
(* When, besides, nothing fails.  A run that neither rests nor is in       *)
(* somebody's hands has a row that an entry of the queue can win; such an  *)
(* entry finds its run as it needs it, so no delivery comes to nothing and *)
(* no settled row leaves a run or an approval behind.                      *)
(***************************************************************************)
Resting == {"done", "failed", "suspended"}

QueuedFor(c) == {it \in BagToSet(queue) : it.cont = c}
Pushing(c) == \E a \in Actors : pc[a] = "enqPush" /\ ContOf(a) = c
Moving(c) == \E a \in Actors : pc[a] \in EnginePlaces \cup EnqueuePlaces /\ ContOf(a) = c

\* The engine will do what the entry is for: the run has a turn to do, or waits
\* for the answer the entry carries.
Ready(it) ==
    LET cont == store[it.cont]
    IN  /\ it.res = None => cont.status = "running"
        /\ it.res # None => /\ cont.status = "suspended"
                            /\ cont.ask = it.res.ref.ask
                            /\ cont.calls[it.res.ref.call] # "none"

\* A continuation waits for the answer to a reference.
WaitsFor(cont, r) == cont.ask = r.ask /\ cont.calls[r.call] = "pending"

RunLives(c) ==
    /\ Claimable(ledger[c]) =>
         Pushing(c) \/ \E it \in QueuedFor(c) : it.epoch = ledger[c].epoch
    /\ store[c] # None => store[c].status \in Resting \/ Claimable(ledger[c]) \/ Moving(c)
    /\ \A it \in IssuedTo(c) : CanMarkRunning(ledger[c], it.epoch) => Ready(it)
    /\ \A r \in granted : RunOf(r) = c /\ Waiting(r) => Carried(r)

\* Where a worker has not yet recorded the answer it carries.
DeliveringPlaces == {"starting", "saveResuming", "gatedTool", "saveResolved"}

ActorLives(a) ==
    LET c == ContOf(a)
    IN  /\ pc[a] \notin {"nackAck", "nackPush"}
        /\ pc[a] = "idle" => item[a] = None
        /\ pc[a] = "ack" => ~CanMarkRunning(ledger[c], item[a].epoch)
        /\ pc[a] = "starting" \/ (pc[a] \in EnqueuePlaces /\ a \in Clients) => Ready(item[a])
        /\ pc[a] \in EnqueuePlaces \ {"enqPush"} => ~Claimable(ledger[c])
        /\ pc[a] = "saveResuming" =>
             loc[a].ask = item[a].res.ref.ask /\ loc[a].calls[ResolvedCall(a)] # "none"
        /\ pc[a] \in SettlePlaces => store[c].status \in Resting
        /\ a \in Workers /\ pc[a] \in BusyPlaces \ DeliveringPlaces /\ item[a].res # None =>
             ~Waiting(item[a].res.ref)

LiveInv ==
    /\ \A c \in Conts : RunLives(c)
    /\ \A a \in Actors : ActorLives(a)

\* What removing one entry leaves in the queue.
LEMMA BagKeeps ==
    ASSUME NEW B, IsABag(B), NEW e, NEW it \in BagToSet(B), it # e
    PROVE  it \in BagToSet(B (-) SetToBag({e}))
BY DEF IsABag, BagToSet, SetToBag, (-)

\* What waiting means of a reference that is indexed.
LEMMA WaitingIs ==
    ASSUME NEW r \in refs
    PROVE  Waiting(r) <=> WaitsFor(store[RunOf(r)], r)
BY DEF Waiting, Found, WaitsFor

\* A reference whose run was not touched: it waits no more than before.
LEMMA WaitingElsewhere ==
    ASSUME TypeInv, NEW x, asked' = asked \/ asked' = Append(asked, x),
           refs \subseteq refs', NEW r \in refs, store'[RunOf(r)] = store[RunOf(r)]
    PROVE  Waiting(r)' <=> Waiting(r)
<1>1. RunOf(r)' = RunOf(r)
  BY RunKept
<1> QED  BY <1>1 DEF Waiting, Found

\* Nothing but its item is asked of an actor that has no run in hand.
LEMMA NotBusyLives ==
    ASSUME NEW place, place \notin BusyPlaces
    PROVE  /\ place \notin EnginePlaces /\ place \notin EnqueuePlaces /\ place \notin SettlePlaces
           /\ place # "starting" /\ place # "saveResuming"
BY DEF BusyPlaces, EnginePlaces, EnqueuePlaces, SettlePlaces

\* Actor a steps with the run c, which nobody else has in hand.
LEMMA LiveStep ==
    ASSUME TypeInv, SoleInv, RefInv, LiveInv, NEW a \in Actors, NEW c \in Conts,
           \A b \in Actors \ {a} : pc'[b] = pc[b] /\ item'[b] = item[b] /\ loc'[b] = loc[b],
           \A d \in Conts \ {c} : /\ store'[d] = store[d] /\ ledger'[d] = ledger[d]
                                  /\ IssuedTo(d)' \subseteq IssuedTo(d)
                                  /\ QueuedFor(d) \subseteq QueuedFor(d)',
           pc[a] # "idle" => ContOf(a) = c,
           \A b \in Actors \ {a} : pc[b] \in BusyPlaces => ContOf(b) # c,
           NEW x, asked' = asked \/ asked' = Append(asked, x),
           refs \subseteq refs',
           \A r \in granted' : r \in granted \/ (r \in refs /\ RunOf(r) = c),
           \A it \in IssuedTo(c) :
              CanMarkRunning(ledger'[c], it.epoch) => CanMarkRunning(ledger[c], it.epoch),
           RunLives(c)', ActorLives(a)'
    PROVE  LiveInv'
<1>1. /\ \A r \in refs : RunOf(r)' = RunOf(r)
      /\ granted \subseteq refs
  BY RunKept DEF RefInv
<1>2. ASSUME NEW b \in Actors, pc[b] # "idle", ContOf(b) # c
      PROVE  /\ b # a /\ pc'[b] = pc[b] /\ item'[b] = item[b] /\ loc'[b] = loc[b]
             /\ ContOf(b)' = ContOf(b) /\ ContOf(b) \in Conts \ {c}
  BY <1>2, BusyActor DEF ContOf
<1>3. ASSUME NEW d \in Conts \ {c}
      PROVE  RunLives(d)'
  <2>1. /\ RunLives(d) /\ store'[d] = store[d] /\ ledger'[d] = ledger[d]
        /\ IssuedTo(d)' \subseteq IssuedTo(d) /\ QueuedFor(d) \subseteq QueuedFor(d)'
    BY DEF LiveInv
  <2>2. (Pushing(d) => Pushing(d)') /\ (Moving(d) => Moving(d)')
    BY <1>2 DEF Pushing, Moving, EnginePlaces, EnqueuePlaces
  <2>3. \A it \in IssuedTo(d) : Ready(it) => Ready(it)'
    BY <2>1 DEF Ready, IssuedTo
  <2>4. ASSUME NEW r \in granted', RunOf(r)' = d, Waiting(r)'
        PROVE  Carried(r)'
    <3>1. r \in granted /\ r \in refs /\ RunOf(r) = d
      BY <1>1, <2>4
    <3>2. Waiting(r)
      BY <2>1, <2>4, <3>1, WaitingElsewhere
    <3>3. Carried(r)
      BY <2>1, <3>1, <3>2 DEF RunLives
    <3>4. CASE \E b \in Actors : item[b] # None /\ item[b].res # None /\ item[b].res.ref = r
                                  /\ pc[b] \notin {"claimed", "ack"}
      <4>1. PICK b \in Actors : item[b] # None /\ item[b].res # None /\ item[b].res.ref = r
                                  /\ pc[b] \notin {"claimed", "ack"}
        BY <3>4
      <4>2. ContOf(b) = d
        BY <3>1, <4>1 DEF RefInv, AboutRun, ContOf
      <4>3. pc[b] # "idle"
        BY <4>1 DEF LiveInv, ActorLives
      <4>4. pc'[b] = pc[b] /\ item'[b] = item[b]
        BY <1>2, <4>2, <4>3
      <4> QED  BY <4>1, <4>4 DEF Carried
    <3>5. CASE \E it \in BagToSet(queue) :
                  /\ it.res # None
                  /\ it.res.ref = r
                  /\ CanMarkRunning(ledger[RunOf(r)], it.epoch)
      <4>1. PICK it \in BagToSet(queue) :
                  /\ it.res # None
                  /\ it.res.ref = r
                  /\ CanMarkRunning(ledger[RunOf(r)], it.epoch)
        BY <3>5
      <4>2. it.cont = d
        BY <3>1, <4>1 DEF RefInv, AboutRun
      <4>3. it \in BagToSet(queue')
        BY <2>1, <4>2 DEF QueuedFor
      <4> QED  BY <2>1, <2>4, <3>1, <4>1, <4>3 DEF Carried
    <3> QED  BY <3>3, <3>4, <3>5 DEF Carried
  <2> QED  BY <2>1, <2>2, <2>3, <2>4 DEF RunLives
<1>4. ASSUME NEW b \in Actors
      PROVE  ActorLives(b)'
  <2>1. CASE b = a
    BY <2>1
  <2>2. CASE b # a /\ pc[b] \notin BusyPlaces
    <3>1. ActorLives(b) /\ pc'[b] = pc[b] /\ item'[b] = item[b]
      BY <2>2 DEF LiveInv
    <3>2. ASSUME pc[b] = "ack"
          PROVE  ~CanMarkRunning(ledger'[item'[b].cont], item'[b].epoch)
      <4>1. b \in Workers
        BY <3>2 DEF Actors, SoleInv, Serial, EnqueuePlaces
      <4>2. item[b] \in IssuedTo(ContOf(b)) /\ ContOf(b) \in Conts
        BY <3>2, <4>1, BusyActor DEF IssuedTo, Issued, ContOf
      <4>3. ~CanMarkRunning(ledger[ContOf(b)], item[b].epoch)
        BY <3>1, <3>2 DEF ActorLives
      <4> QED  BY <3>1, <4>2, <4>3 DEF ContOf
    <3>3. pc'[b] \notin BusyPlaces /\ pc'[b] \notin {"nackAck", "nackPush"}
          /\ (pc'[b] = "idle" => item'[b] = None)
      BY <2>2, <3>1 DEF ActorLives
    <3> QED  BY <3>1, <3>2, <3>3, NotBusyLives DEF ActorLives, ContOf
  <2>3. CASE b # a /\ pc[b] \in BusyPlaces
    <3>1. PICK d : d = ContOf(b)
      OBVIOUS
    <3>2. pc[b] # "idle" /\ item[b] # None
      BY <2>3 DEF BusyPlaces, EnginePlaces, EnqueuePlaces, SettlePlaces, TypeInv, InHand
    <3>3. /\ d # c /\ d \in Conts
          /\ pc'[b] = pc[b] /\ item'[b] = item[b] /\ loc'[b] = loc[b] /\ ContOf(b)' = d
          /\ store'[d] = store[d] /\ ledger'[d] = ledger[d]
      BY <1>2, <2>3, <3>1, <3>2
    <3>4. ActorLives(b) /\ ResolvedCall(b)' = ResolvedCall(b)
      BY <3>3 DEF LiveInv, ResolvedCall
    <3>5. Ready(item[b]) => Ready(item[b])'
      BY <3>1, <3>3 DEF Ready, ContOf
    <3>6. item[b].res # None => (Waiting(item[b].res.ref)' <=> Waiting(item[b].res.ref))
      <4>1. SUFFICES ASSUME item[b].res # None
                     PROVE  Waiting(item[b].res.ref)' <=> Waiting(item[b].res.ref)
        OBVIOUS
      <4>2. PICK r \in refs : r = item[b].res.ref /\ RunOf(r) = d
        BY <3>1, <3>2, <4>1 DEF RefInv, AboutRun, ContOf
      <4>3. Waiting(r)' <=> Waiting(r)
        BY <3>3, <4>2, WaitingElsewhere
      <4>4. r = item'[b].res.ref
        BY <3>3, <4>2
      <4> QED  BY <4>2, <4>3, <4>4
    <3> QED  BY <3>1, <3>3, <3>4, <3>5, <3>6 DEF ActorLives
  <2> QED  BY <2>1, <2>2, <2>3
<1> QED  BY <1>3, <1>4 DEF LiveInv

\* An actor that has no run in hand steps, the tables stay, and no entry that
\* can win its row is lost.
LEMMA LiveAside ==
    ASSUME TypeInv, RefInv, LiveInv, NEW a \in Actors,
           UNCHANGED <<store, refs, ledger, asked, granted>>,
           \A b \in Actors \ {a} : pc'[b] = pc[b] /\ item'[b] = item[b] /\ loc'[b] = loc[b],
           pc[a] \in {"idle", "claimed", "ack"}, ActorLives(a)',
           Issued' \subseteq Issued,
           \A it \in BagToSet(queue) :
              CanMarkRunning(ledger[it.cont], it.epoch) => it \in BagToSet(queue')
    PROVE  LiveInv'
<1>1. \A r : (Waiting(r)' <=> Waiting(r)) /\ RunOf(r)' = RunOf(r)
  BY DEF Waiting, Found, RunOf
<1>2. \A it : Ready(it)' <=> Ready(it)
  BY DEF Ready
<1>3. ASSUME NEW b \in Actors \ {a}
      PROVE  ActorLives(b)'
  <2>1. /\ ActorLives(b) /\ ContOf(b)' = ContOf(b) /\ ResolvedCall(b)' = ResolvedCall(b)
        /\ pc'[b] = pc[b] /\ item'[b] = item[b] /\ loc'[b] = loc[b]
    BY DEF LiveInv, ContOf, ResolvedCall
  <2>2. Ready(item[b])' <=> Ready(item[b])
    BY <2>1 DEF Ready
  <2>3. Waiting(item[b].res.ref)' <=> Waiting(item[b].res.ref)
    BY <2>1 DEF Waiting, Found, RunOf
  <2> QED  BY <2>1, <2>2, <2>3 DEF ActorLives
<1>4. ASSUME NEW d \in Conts
      PROVE  RunLives(d)'
  <2>1. /\ RunLives(d)
        /\ \A it \in QueuedFor(d) :
              CanMarkRunning(ledger[d], it.epoch) => it \in QueuedFor(d)'
        /\ IssuedTo(d)' \subseteq IssuedTo(d)
    BY DEF LiveInv, QueuedFor, IssuedTo
  <2>2. (Pushing(d) => Pushing(d)') /\ (Moving(d) => Moving(d)')
    BY DEF Pushing, Moving, EnginePlaces, EnqueuePlaces, ContOf
  <2>3. ASSUME NEW r \in granted, Carried(r), RunOf(r) = d
        PROVE  Carried(r)'
    <3>1. CASE \E b \in Actors : item[b] # None /\ item[b].res # None /\ item[b].res.ref = r
                                  /\ pc[b] \notin {"claimed", "ack"}
      <4>1. PICK b \in Actors : item[b] # None /\ item[b].res # None /\ item[b].res.ref = r
                                  /\ pc[b] \notin {"claimed", "ack"}
        BY <3>1
      <4>2. b # a
        BY <4>1 DEF LiveInv, ActorLives
      <4>3. pc'[b] = pc[b] /\ item'[b] = item[b]
        BY <4>2
      <4> QED  BY <4>1, <4>3 DEF Carried
    <3>2. CASE \E it \in BagToSet(queue) :
                  /\ it.res # None
                  /\ it.res.ref = r
                  /\ CanMarkRunning(ledger[RunOf(r)], it.epoch)
      <4>1. PICK it \in BagToSet(queue) :
                  /\ it.res # None
                  /\ it.res.ref = r
                  /\ CanMarkRunning(ledger[RunOf(r)], it.epoch)
        BY <3>2
      <4>2. it.cont = RunOf(r)
        BY <4>1 DEF RefInv, AboutRun
      <4>3. it \in BagToSet(queue')
        BY <4>1, <4>2
      <4> QED  BY <1>1, <4>1, <4>3 DEF Carried
    <3> QED  BY <2>3, <3>1, <3>2 DEF Carried
  <2>4. Claimable(ledger[d])' =>
          Pushing(d)' \/ \E it \in QueuedFor(d)' : it.epoch = ledger'[d].epoch
    BY <2>1, <2>2 DEF RunLives, CanMarkRunning
  <2>5. store'[d] # None => store'[d].status \in Resting \/ Claimable(ledger'[d]) \/ Moving(d)'
    BY <2>1, <2>2 DEF RunLives
  <2>6. \A it \in IssuedTo(d)' : CanMarkRunning(ledger'[d], it.epoch) => Ready(it)'
    BY <1>2, <2>1 DEF RunLives
  <2>7. \A r \in granted' : RunOf(r)' = d /\ Waiting(r)' => Carried(r)'
    BY <1>1, <2>1, <2>3 DEF RunLives
  <2> QED  BY <2>4, <2>5, <2>6, <2>7 DEF RunLives
<1> QED  BY <1>3, <1>4 DEF LiveInv

\* An engine step: the run moves on or comes to rest, the worker still has the
\* answer it carries, and no more calls of the run wait than before.
LEMMA LiveEngineMove ==
    ASSUME TypeInv, TypeInv', SoleInv, RefInv, EpochInv, LiveInv,
           NEW w \in Workers, pc[w] \in EnginePlaces,
           NEW c, c = ContOf(w),
           NEW place \in Driving \cup SettlePlaces \cup {"enqLoad"},
           pc' = [pc EXCEPT ![w] = place],
           NEW copy, loc' = [loc EXCEPT ![w] = copy],
           NEW cont, store' = [store EXCEPT ![c] = cont],
           UNCHANGED <<ledger, queue, item, granted>>,
           refs \subseteq refs', NEW x, asked' = asked \/ asked' = Append(asked, x),
           place \in SettlePlaces => cont.status \in Resting,
           place = "saveResuming" =>
             copy.ask = item[w].res.ref.ask /\ copy.calls[ResolvedCall(w)] # "none",
           \A r \in refs : WaitsFor(cont, r) => WaitsFor(store[c], r) \/ RunOf(r) # c,
           place \notin DeliveringPlaces /\ item[w].res # None =>
             pc[w] \notin DeliveringPlaces \/ ~WaitsFor(cont, item[w].res.ref)
    PROVE  LiveInv'
<1>1. /\ w \in Actors /\ c \in Conts /\ pc[w] \in BusyPlaces /\ pc[w] # "idle"
      /\ ledger[c] # None /\ ledger[c].status = "running" /\ ~Claimable(ledger[c])
  BY EngineOwner DEF Claimable
<1>2. /\ pc'[w] = place /\ loc'[w] = copy /\ store'[c] = cont /\ item' = item
      /\ ContOf(w)' = c /\ ResolvedCall(w)' = ResolvedCall(w) /\ ledger'[c] = ledger[c]
      /\ \A d \in Conts \ {c} : store'[d] = store[d] /\ ledger'[d] = ledger[d]
      /\ \A b \in Actors \ {w} : pc'[b] = pc[b] /\ item'[b] = item[b] /\ loc'[b] = loc[b]
  BY <1>1 DEF TypeInv, TypeOK, ContOf, ResolvedCall
<1>3. \A d : IssuedTo(d)' \subseteq IssuedTo(d) /\ QueuedFor(d) \subseteq QueuedFor(d)'
  <2>1. BagToSet(queue') \subseteq Issued /\ item'[w] \in Issued
    BY <1>1, <1>2 DEF Issued
  <2> QED  BY <1>1, <1>2, <2>1, IssuedStays DEF QueuedFor
<1>4. place \notin {"idle", "claimed", "ack", "nackAck", "nackPush", "starting", "enqPush"}
  BY DEF Driving, EnginePlaces, SettlePlaces
<1>5. \A r \in refs : RunOf(r)' = RunOf(r)
  BY RunKept
<1>6. ASSUME NEW r \in refs, RunOf(r) = c, Waiting(r)'
      PROVE  Waiting(r) /\ WaitsFor(cont, r)
  <2>1. WaitsFor(cont, r)
    BY <1>2, <1>5, <1>6 DEF Waiting, Found, WaitsFor
  <2> QED  BY <1>6, <2>1, WaitingIs
<1>7. RunLives(c)'
  <2>1. store'[c].status \in Resting \/ Moving(c)'
    <3>1. place \in SettlePlaces \/ place \in EnginePlaces \cup EnqueuePlaces
      BY DEF Driving, EnqueuePlaces
    <3> QED  BY <1>1, <1>2, <3>1 DEF Moving
  <2>2. \A n : ~CanMarkRunning(ledger'[c], n)
    BY <1>1, <1>2 DEF CanMarkRunning
  <2>3. ASSUME NEW r \in granted', RunOf(r)' = c, Waiting(r)'
        PROVE  Carried(r)'
    <3>1. r \in granted /\ r \in refs /\ RunOf(r) = c
      BY <1>5, <2>3 DEF RefInv
    <3>2. Carried(r)
      BY <1>1, <1>6, <2>3, <3>1 DEF LiveInv, RunLives
    <3>3. ~CanMarkRunning(ledger[RunOf(r)], 0) /\ \A n : ~CanMarkRunning(ledger[RunOf(r)], n)
      BY <1>1, <3>1 DEF CanMarkRunning
    <3>4. PICK b \in Actors : item[b] # None /\ item[b].res # None /\ item[b].res.ref = r
                                  /\ pc[b] \notin {"claimed", "ack"}
      BY <3>2, <3>3 DEF Carried
    <3>5. item'[b] = item[b] /\ pc'[b] \notin {"claimed", "ack"}
      BY <1>2, <1>4, <3>4
    <3> QED  BY <3>4, <3>5 DEF Carried
  <2> QED  BY <1>1, <1>2, <2>1, <2>2, <2>3 DEF RunLives
<1>8. ActorLives(w)'
  <2>1. ASSUME place \notin DeliveringPlaces, item[w].res # None
        PROVE  ~Waiting(item[w].res.ref)'
    <3>1. PICK r \in refs : r = item[w].res.ref /\ RunOf(r) = c
      <4>1. item[w] # None
        BY <1>1 DEF TypeInv, InHand
      <4> QED  BY <1>1, <2>1, <4>1 DEF RefInv, AboutRun, ContOf
    <3>2. ~Waiting(r)'
      <4>1. SUFFICES ASSUME Waiting(r)'
                     PROVE  FALSE
        OBVIOUS
      <4>2. Waiting(r) /\ WaitsFor(cont, r)
        BY <1>6, <3>1, <4>1
      <4>3. pc[w] \notin DeliveringPlaces
        BY <2>1, <3>1, <4>2
      <4> QED  BY <1>1, <2>1, <3>1, <4>2, <4>3 DEF LiveInv, ActorLives
    <3>3. r = item'[w].res.ref
      BY <1>2, <3>1
    <3> QED  BY <3>1, <3>2, <3>3
  <2>2. ~Claimable(ledger'[c]) /\ w \notin Clients
    BY <1>1, <1>2, RuntimeAssumption
  <2> QED  BY <1>2, <1>4, <2>1, <2>2 DEF ActorLives
<1>9. \A b \in Actors \ {w} : pc[b] \in BusyPlaces => ContOf(b) # c
  BY <1>1, LeftAlone
<1>10. \A d \in Conts \ {c} : /\ store'[d] = store[d] /\ ledger'[d] = ledger[d]
                              /\ IssuedTo(d)' \subseteq IssuedTo(d)
                              /\ QueuedFor(d) \subseteq QueuedFor(d)'
  BY <1>2, <1>3
<1>11. \A r \in granted' : r \in granted
  OBVIOUS
<1>12. \A it \in IssuedTo(c) :
          CanMarkRunning(ledger'[c], it.epoch) => CanMarkRunning(ledger[c], it.epoch)
  BY <1>2
<1> QED  BY <1>1, <1>2, <1>7, <1>8, <1>9, <1>10, <1>11, <1>12, LiveStep

\* The steps of the engine, which finds the run as the entry needs it.
LEMMA EngineLive ==
    ASSUME OneProcess, TypeInv, TypeInv', SoleInv, ParkInv, RefInv, EpochInv, LiveInv,
           NEW w \in Workers, EngineNext(w)
    PROVE  LiveInv'
<1>0. PICK c : c = ContOf(w)
  OBVIOUS
<1>1. pc[w] \in EnginePlaces
  BY DEF EngineNext, EngineEnter, EngineTurn, DriveNothing, Drive, SaveRunning, ResumeNothing,
     Resume, SaveResuming, GatedTool, SaveResolved, ParkAgain, FinishPark, MaxTurnsReached,
     FinalAnswer, ModelError, AskTools, RunTools, Park, IndexRefs, SaveTools, Continue,
     Preempted, At, EnginePlaces
<1>2. /\ w \in Actors /\ c \in Conts /\ store[c] \in Continuations /\ store[c] # None
      /\ store \in [Conts -> Continuations \cup {None}]
      /\ loc \in [Actors -> Continuations \cup {None}]
      /\ pc \in [Actors -> Places]
      /\ item[w] \in Items /\ item[w].cont = c
  BY <1>0, <1>1, EngineOwner, BusyActor DEF TypeInv, TypeOK, ContOf
<1>3. /\ Matches(ResolvedCall(w), pc[w], loc[w], store[c])
      /\ ActorLives(w)
  BY <1>0, <1>2 DEF EpochInv, ActorInOrder, LiveInv
<1>4. pc[w] \in Driving => loc[w] \in Continuations
  BY <1>2, CopyHolder DEF Driving, CopyPlaces
<1>5. /\ store = [store EXCEPT ![c] = store[c]]
      /\ loc = [loc EXCEPT ![w] = loc[w]]
  BY <1>2
<1>6. pc[w] \in Driving \ {"saveResuming", "saveResolved"} => loc[w] = store[c]
  BY <1>3 DEF Matches
<1>7. \A r \in refs : r.call \in Calls
  BY DEF TypeInv, TypeOK, Refs
<1>8. pc[w] = "starting" => Ready(item[w])
  BY <1>3 DEF ActorLives
<1> USE DEF history, At, Goto, SetLoc, Save
<1>9. CASE DriveNothing(w)
  BY <1>0, <1>2, <1>8, <1>9 DEF DriveNothing, Drivable, Ready
<1>10. CASE ResumeNothing(w)
  BY <1>0, <1>2, <1>8, <1>10 DEF ResumeNothing, Resumable, Ready
<1>11. ASSUME NEW place \in Driving \ {"saveResuming"},
              pc' = [pc EXCEPT ![w] = place],
              NEW copy, loc' = [loc EXCEPT ![w] = copy],
              UNCHANGED <<store, refs, ledger, queue, item, granted>>,
              NEW x, asked' = asked \/ asked' = Append(asked, x),
              \/ pc[w] \notin DeliveringPlaces
              \/ place \in DeliveringPlaces
              \/ item[w].res = None
       PROVE  LiveInv'
  <2>1. /\ store' = [store EXCEPT ![c] = store[c]] /\ refs \subseteq refs'
        /\ UNCHANGED <<ledger, queue, item, granted>>
    BY <1>5, <1>11
  <2>2. /\ place \in Driving \cup SettlePlaces \cup {"enqLoad"}
        /\ place \notin SettlePlaces /\ place # "saveResuming"
    BY <1>11 DEF Driving, EnginePlaces, SettlePlaces
  <2>3. /\ \A r \in refs : WaitsFor(store[c], r) => WaitsFor(store[c], r) \/ RunOf(r) # c
        /\ place \notin DeliveringPlaces /\ item[w].res # None =>
             pc[w] \notin DeliveringPlaces \/ ~WaitsFor(store[c], item[w].res.ref)
        /\ place \in SettlePlaces => store[c].status \in Resting
        /\ place = "saveResuming" =>
             copy.ask = item[w].res.ref.ask /\ copy.calls[ResolvedCall(w)] # "none"
        /\ asked' = asked \/ asked' = Append(asked, x)
        /\ pc' = [pc EXCEPT ![w] = place] /\ loc' = [loc EXCEPT ![w] = copy]
    BY <1>11, <2>2
  <2> QED  BY <1>0, <1>1, <2>1, <2>2, <2>3, LiveEngineMove
<1>12. CASE Drive(w)
  <2>1. /\ item[w].res = None /\ pc' = [pc EXCEPT ![w] = "saveRunning"]
        /\ loc' = [loc EXCEPT ![w] = Redriven(store[ContOf(w)])]
        /\ UNCHANGED <<store, refs, ledger, queue, item, granted, asked>>
    BY <1>12 DEF Drive
  <2>2. "saveRunning" \in Driving \ {"saveResuming"}
    BY DEF Driving, EnginePlaces
  <2> QED  BY <1>11, <2>1, <2>2
<1>13. CASE Resume(w)
  <2> DEFINE copy == [store[c] EXCEPT !.status = "resuming"]
  <2>1. /\ pc[w] = "starting" /\ pc' = [pc EXCEPT ![w] = "saveResuming"]
        /\ loc' = [loc EXCEPT ![w] = copy] /\ item[w].res # None
        /\ UNCHANGED <<store, refs, ledger, queue, item, granted, asked>>
    BY <1>0, <1>13 DEF Resume
  <2>2. copy.ask = item[w].res.ref.ask /\ copy.calls[ResolvedCall(w)] # "none"
    BY <1>2, <1>8, <2>1 DEF Ready, ResolvedCall, Continuations
  <2> HIDE DEF copy
  <2>3. /\ "saveResuming" \in Driving \cup SettlePlaces \cup {"enqLoad"}
        /\ "saveResuming" \notin SettlePlaces /\ "saveResuming" \in DeliveringPlaces
    BY DEF Driving, EnginePlaces, SettlePlaces, DeliveringPlaces
  <2>4. /\ store' = [store EXCEPT ![c] = store[c]] /\ refs \subseteq refs'
        /\ asked' = asked \/ asked' = Append(asked, 0)
        /\ UNCHANGED <<ledger, queue, item, granted>>
        /\ \A r \in refs : WaitsFor(store[c], r) => WaitsFor(store[c], r) \/ RunOf(r) # c
    BY <1>5, <2>1
  <2> QED  BY <1>0, <1>1, <2>1, <2>2, <2>3, <2>4, LiveEngineMove
<1>14. CASE SaveRunning(w)
  <2>1. /\ pc[w] = "saveRunning" /\ pc' = [pc EXCEPT ![w] = StepPlace(loc[w])]
        /\ store' = [store EXCEPT ![c] = loc[w]]
        /\ UNCHANGED <<refs, ledger, queue, item, loc, granted, asked>>
    BY <1>0, <1>14 DEF SaveRunning
  <2>2. /\ store' = store /\ loc' = [loc EXCEPT ![w] = loc[w]]
        /\ StepPlace(loc[w]) \in {"turn", "maxTurns"} /\ pc[w] \notin DeliveringPlaces
    BY <1>5, <1>6, <2>1 DEF StepPlace, Driving, EnginePlaces, DeliveringPlaces
  <2>3. {"turn", "maxTurns"} \subseteq Driving \ {"saveResuming"}
    BY DEF Driving, EnginePlaces
  <2> QED  BY <1>11, <2>1, <2>2, <2>3
<1>15. CASE SaveResuming(w)
  <2> DEFINE copy == IF AfterResuming(w) = "saveResolved"
                       THEN SetCall(loc[w], ResolvedCall(w),
                              IF item[w].res.outcome = "reject" THEN "rejected" ELSE "executed")
                       ELSE loc[w]
  <2>1. /\ pc[w] = "saveResuming" /\ pc' = [pc EXCEPT ![w] = AfterResuming(w)]
        /\ store' = [store EXCEPT ![c] = loc[w]]
        /\ loc' = [loc EXCEPT ![w] = copy]
        /\ UNCHANGED <<refs, ledger, queue, item, granted, asked>>
    BY <1>0, <1>15 DEF SaveResuming
  <2> HIDE DEF copy
  <2>2. loc[w].ask = item[w].res.ref.ask /\ loc[w].calls[ResolvedCall(w)] # "none"
    BY <1>3, <2>1 DEF ActorLives
  <2>3. /\ AfterResuming(w) \in {"resolved", "gatedTool", "saveResolved"}
        /\ AfterResuming(w) = "resolved" => loc[w].calls[ResolvedCall(w)] = "executed"
    BY <2>2 DEF AfterResuming, ResolvedStatus
  <2>4. \A r : WaitsFor(loc[w], r) => WaitsFor(store[c], r)
    BY <1>2, <1>3, <2>1 DEF Matches, WaitsFor, Continuations
  <2>5. AfterResuming(w) \notin DeliveringPlaces => ~WaitsFor(loc[w], item[w].res.ref)
    BY <2>3 DEF DeliveringPlaces, WaitsFor, ResolvedCall
  <2>6. /\ AfterResuming(w) \in Driving \cup SettlePlaces \cup {"enqLoad"}
        /\ AfterResuming(w) \notin SettlePlaces /\ AfterResuming(w) # "saveResuming"
    BY <2>3 DEF Driving, EnginePlaces, SettlePlaces
  <2> QED  BY <1>0, <1>1, <2>1, <2>4, <2>5, <2>6, LiveEngineMove
<1>16. ASSUME NEW times \in 0 .. ToolAttempts, GatedTool(w, times)
       PROVE  LiveInv'
  <2>1. /\ pc' = [pc EXCEPT ![w] = "saveResolved"]
        /\ loc' = [loc EXCEPT ![w] = SetCall(loc[w], ResolvedCall(w), "executed")]
        /\ UNCHANGED <<store, refs, ledger, queue, item, granted, asked>>
    BY <1>16 DEF GatedTool
  <2>2. "saveResolved" \in Driving \ {"saveResuming"} /\ "saveResolved" \in DeliveringPlaces
    BY DEF Driving, EnginePlaces, DeliveringPlaces
  <2> QED  BY <1>11, <2>1, <2>2
<1>17. CASE SaveResolved(w)
  <2>1. /\ pc[w] = "saveResolved" /\ pc' = [pc EXCEPT ![w] = "resolved"]
        /\ store' = [store EXCEPT ![c] = loc[w]]
        /\ UNCHANGED <<refs, ledger, queue, item, loc, granted, asked>>
    BY <1>0, <1>17 DEF SaveResolved
  <2>2. PICK status \in {"executed", "rejected"} : loc[w] = SetCall(store[c], ResolvedCall(w), status)
    BY <1>3, <2>1 DEF Matches, Driving, EnginePlaces
  <2>3. item[w].res # None /\ item[w].res.ref \in refs
    BY <1>2, <2>1, NoneAssumption DEF TypeInv, InHand, ResumePlaces, RefInv, AboutRun
  <2>4. /\ loc[w].ask = store[c].ask
        /\ loc[w].calls = [store[c].calls EXCEPT ![ResolvedCall(w)] = status]
        /\ store[c].calls \in [Calls -> CallStatus] /\ ResolvedCall(w) \in Calls
    BY <1>2, <1>7, <2>2, <2>3 DEF SetCall, Continuations, CallMap, ResolvedCall
  <2>5. /\ \A r \in refs : WaitsFor(loc[w], r) => WaitsFor(store[c], r)
        /\ ~WaitsFor(loc[w], item[w].res.ref)
    BY <1>7, <2>4 DEF WaitsFor, ResolvedCall
  <2>6. /\ "resolved" \in Driving \cup SettlePlaces \cup {"enqLoad"}
        /\ "resolved" \notin SettlePlaces /\ "resolved" # "saveResuming"
        /\ loc' = [loc EXCEPT ![w] = loc[w]] /\ refs \subseteq refs'
        /\ asked' = asked \/ asked' = Append(asked, 0)
        /\ UNCHANGED <<ledger, queue, item, granted>>
    BY <1>5, <2>1 DEF Driving, EnginePlaces, SettlePlaces
  <2>7. \A r \in refs : WaitsFor(loc[w], r) => WaitsFor(store[c], r) \/ RunOf(r) # c
    BY <2>5
  <2> QED  BY <1>0, <1>1, <2>1, <2>5, <2>6, <2>7, LiveEngineMove
<1>18. ASSUME NEW status \in Resting, NEW place \in SettlePlaces,
              pc[w] \in {"resolved", "turn", "turnDone", "maxTurns"},
              End(w, status, place)
       PROVE  LiveInv'
  <2> DEFINE last == [loc[w] EXCEPT !.status = status]
  <2>1. /\ pc' = [pc EXCEPT ![w] = place]
        /\ store' = [store EXCEPT ![c] = last]
        /\ loc' = [loc EXCEPT ![w] = last]
        /\ UNCHANGED <<refs, ledger, queue, item, granted, asked>>
    BY <1>0, <1>18 DEF End
  <2>2. loc[w] = store[c] /\ pc[w] \notin DeliveringPlaces
    BY <1>6, <1>18 DEF Driving, EnginePlaces, DeliveringPlaces
  <2>3. last.status = status /\ last.ask = store[c].ask /\ last.calls = store[c].calls
    BY <1>2, <2>2 DEF Continuations
  <2> HIDE DEF last
  <2>4. \A r : WaitsFor(last, r) => WaitsFor(store[c], r)
    BY <2>3 DEF WaitsFor
  <2>5. place # "saveResuming" /\ place \in Driving \cup SettlePlaces \cup {"enqLoad"}
    BY DEF SettlePlaces
  <2> QED  BY <1>0, <1>1, <1>18, <2>1, <2>2, <2>3, <2>4, <2>5, LiveEngineMove
<1>19. CASE ParkAgain(w)
  <2>1. pc[w] = "resolved" /\ End(w, "suspended", "settleDone")
    BY <1>19 DEF ParkAgain, End
  <2> QED  BY <1>18, <2>1 DEF SettlePlaces, Resting
<1>20. ASSUME MaxTurnsReached(w) \/ FinalAnswer(w) \/ Preempted(w) \/ ModelError(w)
       PROVE  LiveInv'
  <2>1. pc[w] \in {"turn", "turnDone", "maxTurns"}
    BY <1>20 DEF MaxTurnsReached, FinalAnswer, Preempted, ModelError
  <2>2. \E status \in Resting, place \in SettlePlaces : End(w, status, place)
    BY <1>20 DEF MaxTurnsReached, FinalAnswer, Preempted, ModelError, SettlePlaces, Resting
  <2> QED  BY <1>18, <2>1, <2>2
<1>21. ASSUME NEW place \in (Driving \ {"saveResuming"}) \cup {"enqLoad"},
              pc[w] \notin DeliveringPlaces,
              pc' = [pc EXCEPT ![w] = place],
              NEW cont, store' = [store EXCEPT ![c] = cont], loc' = [loc EXCEPT ![w] = cont],
              \A r \in refs : WaitsFor(cont, r) => WaitsFor(store[c], r) \/ RunOf(r) # c,
              UNCHANGED <<refs, ledger, queue, item, granted, asked>>
       PROVE  LiveInv'
  <2>1. /\ place \in Driving \cup SettlePlaces \cup {"enqLoad"}
        /\ place \notin SettlePlaces /\ place # "saveResuming"
    BY <1>21 DEF Driving, EnginePlaces, SettlePlaces
  <2> QED  BY <1>0, <1>1, <1>21, <2>1, LiveEngineMove
<1>22. CASE FinishPark(w)
  <2>1. /\ pc[w] = "resolved" /\ pc' = [pc EXCEPT ![w] = StepPlace(Unparked(loc[w]))]
        /\ store' = [store EXCEPT ![c] = Unparked(loc[w])]
        /\ loc' = [loc EXCEPT ![w] = Unparked(loc[w])]
        /\ UNCHANGED <<refs, ledger, queue, item, granted, asked>>
    BY <1>0, <1>22 DEF FinishPark
  <2>2. Unparked(loc[w]).calls = NoCalls
    BY <1>2, <1>6, <2>1 DEF Unparked, NextTurn, Continuations, Driving, EnginePlaces
  <2>3. \A r \in refs : ~WaitsFor(Unparked(loc[w]), r)
    BY <1>7, <2>2 DEF WaitsFor, NoCalls
  <2>4. StepPlace(Unparked(loc[w])) \in {"turn", "maxTurns"} /\ pc[w] \notin DeliveringPlaces
    BY <2>1 DEF StepPlace, DeliveringPlaces
  <2>5. {"turn", "maxTurns"} \subseteq Driving \ {"saveResuming"}
    BY DEF Driving, EnginePlaces
  <2> QED  BY <1>21, <2>1, <2>3, <2>4, <2>5
<1>23. ASSUME \/ \E calls \in SUBSET Calls \ {{}} : AskTools(w, calls)
              \/ RunTools(w)
       PROVE  LiveInv'
  <2> DEFINE new == [cont |-> ContOf(w), turn |-> loc[w].turn]
  <2>1. PICK place \in {"tools", "saveTurn"} :
          /\ pc[w] \in {"turn", "tools"} /\ pc' = [pc EXCEPT ![w] = place]
          /\ UNCHANGED <<store, refs, ledger, queue, item, loc, granted>>
          /\ asked' = asked \/ asked' = Append(asked, new)
    BY <1>23 DEF AskTools, RunTools
  <2> HIDE DEF new
  <2>2. /\ loc' = [loc EXCEPT ![w] = loc[w]] /\ pc[w] \notin DeliveringPlaces
        /\ place \in Driving \ {"saveResuming"}
    BY <1>5, <2>1 DEF Driving, EnginePlaces, DeliveringPlaces
  <2> QED  BY <1>11, <2>1, <2>2
<1>24. CASE Park(w)
  <2>1. /\ pc[w] = "saveTurn" /\ pc' = [pc EXCEPT ![w] = "indexRefs"]
        /\ store' = [store EXCEPT ![c] = Parked(w)]
        /\ loc' = [loc EXCEPT ![w] = Parked(w)]
        /\ UNCHANGED <<refs, ledger, queue, item, granted, asked>>
    BY <1>0, <1>24 DEF Park
  <2>2. Parked(w).ask = reply[w].ask /\ loc[w] = store[c]
    BY <1>2, <1>6, <2>1 DEF Parked, Continuations, Driving, EnginePlaces
  <2>3. asked[reply[w].ask].turn = store[c].turn
    <3>1. Noted(w)
      BY DEF ParkInv
    <3>2. asked[reply[w].ask] = [cont |-> ContOf(w), turn |-> loc[w].turn]
      BY <2>1, <3>1 DEF Noted
    <3> QED  BY <2>2, <3>2
  <2>4. ASSUME NEW r \in refs, RunOf(r) = c
        PROVE  ~WaitsFor(Parked(w), r)
    <3>1. Taking(w) /\ pc[w] \in AheadPlaces
      BY <2>1 DEF Taking, AheadPlaces, Driving, EnginePlaces, ResumePlaces
    <3>2. store[c].turn > asked[r.ask].turn
      BY <1>0, <1>2, <2>4, <3>1 DEF ParkInv, Ahead, Later, Past
    <3>3. asked[r.ask].turn \in Nat /\ store[c].turn \in Nat
      BY <2>4, RefFields
    <3> QED  BY <2>2, <2>3, <3>2, <3>3 DEF WaitsFor
  <2>5. "indexRefs" \in Driving \ {"saveResuming"} /\ pc[w] \notin DeliveringPlaces
    BY <2>1 DEF Driving, EnginePlaces, DeliveringPlaces
  <2> QED  BY <1>21, <2>1, <2>4, <2>5
<1>25. CASE IndexRefs(w)
  <2>1. /\ pc[w] = "indexRefs" /\ pc' = [pc EXCEPT ![w] = "settleDone"]
        /\ UNCHANGED <<store, ledger, queue, item, loc, granted, asked>> /\ refs \subseteq refs'
    BY <1>25 DEF IndexRefs
  <2>2. store[c].status \in Resting /\ pc[w] \notin DeliveringPlaces
    BY <1>0, <2>1 DEF SoleInv, Leads, Driving, EnginePlaces, DeliveringPlaces, Resting
  <2>3. loc' = [loc EXCEPT ![w] = loc[w]] /\ store' = [store EXCEPT ![c] = store[c]]
    BY <1>5, <2>1
  <2>4. "settleDone" \in Driving \cup SettlePlaces \cup {"enqLoad"} /\ "settleDone" # "saveResuming"
    BY DEF SettlePlaces
  <2>5. /\ UNCHANGED <<ledger, queue, item, granted>> /\ refs \subseteq refs'
        /\ asked' = asked \/ asked' = Append(asked, 0)
        /\ \A r \in refs : WaitsFor(store[c], r) => WaitsFor(store[c], r) \/ RunOf(r) # c
    BY <2>1
  <2> QED  BY <1>0, <1>1, <2>1, <2>2, <2>3, <2>4, <2>5, LiveEngineMove
<1>26. CASE SaveTools(w)
  <2>1. /\ pc[w] = "saveTurn" /\ pc' = [pc EXCEPT ![w] = "turnDone"]
        /\ store' = [store EXCEPT ![c] = loc[w]]
        /\ UNCHANGED <<refs, ledger, queue, item, loc, granted, asked>>
    BY <1>0, <1>26 DEF SaveTools
  <2>2. /\ store' = store /\ loc' = [loc EXCEPT ![w] = loc[w]] /\ pc[w] \notin DeliveringPlaces
        /\ "turnDone" \in Driving \ {"saveResuming"}
    BY <1>5, <1>6, <2>1 DEF Driving, EnginePlaces, DeliveringPlaces
  <2> QED  BY <1>11, <2>1, <2>2
<1>27. CASE Continue(w)
  <2> DEFINE place == IF loc[w].turn + 1 < MaxTurns THEN AfterContinue(w) ELSE "maxTurns"
  <2>1. /\ pc[w] = "turnDone" /\ pc' = [pc EXCEPT ![w] = place]
        /\ store' = [store EXCEPT ![c] = NextTurn(loc[w])]
        /\ loc' = [loc EXCEPT ![w] = NextTurn(loc[w])]
        /\ UNCHANGED <<refs, ledger, queue, item, granted, asked>>
    BY <1>0, <1>27 DEF Continue
  <2>2. NextTurn(loc[w]).calls = store[c].calls /\ NextTurn(loc[w]).ask = store[c].ask
    BY <1>2, <1>6, <2>1 DEF NextTurn, Continuations, Driving, EnginePlaces
  <2>3. \A r : WaitsFor(NextTurn(loc[w]), r) => WaitsFor(store[c], r)
    BY <2>2 DEF WaitsFor
  <2>4. place \in {"enqLoad", "maxTurns"}
    BY DEF AfterContinue, OneProcess
  <2> HIDE DEF place
  <2>5. place \in (Driving \ {"saveResuming"}) \cup {"enqLoad"} /\ pc[w] \notin DeliveringPlaces
    BY <2>1, <2>4 DEF Driving, EnginePlaces, DeliveringPlaces
  <2> QED  BY <1>21, <2>1, <2>3, <2>5
<1> QED  BY <1>9, <1>10, <1>12, <1>13, <1>14, <1>15, <1>16, <1>17, <1>19, <1>20, <1>22, <1>23,
            <1>24, <1>25, <1>26, <1>27 DEF EngineNext, EngineEnter, EngineTurn

\* What waits of a run whose status and calls stay.
LEMMA StillWaiting ==
    ASSUME TypeInv, asked' = asked, NEW c \in Conts,
           NEW r \in refs, r \in refs', RunOf(r) = c,
           store'[c].ask = store[c].ask, store'[c].calls = store[c].calls
    PROVE  Waiting(r)' <=> Waiting(r)
<1>1. RunOf(r)' = RunOf(r)
  BY DEF RunOf
<1> QED  BY <1>1 DEF Waiting, Found

\* The steps of the enqueuer: a run in its hands has no entry that can win its
\* row, until it pushes one that can.
LEMMA EnqueueLive ==
    ASSUME TypeInv, TypeInv', SoleInv, RefInv, EpochInv, LiveInv,
           NEW a \in Actors, Enqueue(a)
    PROVE  LiveInv'
<1>0. PICK c : c = ContOf(a)
  OBVIOUS
<1>1. pc[a] \in EnqueuePlaces /\ pc[a] \in BusyPlaces /\ pc[a] # "idle"
  BY DEF Enqueue, EnqueueLoad, EnqueueSave, EnqueueUpsert, EnqueuePush, At, EnqueuePlaces, BusyPlaces
<1>2. /\ c \in Conts /\ store[c] \in Continuations /\ store[c] # None /\ store[c].epoch \in Nat
      /\ store \in [Conts -> Continuations \cup {None}]
      /\ store' \in [Conts -> Continuations \cup {None}]
      /\ loc \in [Actors -> Continuations \cup {None}]
      /\ item \in [Actors -> Items \cup {None}]
      /\ ledger \in [Conts -> Row \cup {None}]
      /\ pc \in [Actors -> Places]
      /\ item[a] # None /\ item[a].cont = c
  BY <1>0, <1>1, BusyActor, NoneAssumption, EpochTypes DEF TypeInv, TypeOK, InHand, ContOf
<1>3. /\ RunInOrder(c) /\ ActorInOrder(a) /\ AtWork(a) /\ RunLives(c) /\ ActorLives(a)
      /\ \A b \in Actors \ {a} : pc[b] \in BusyPlaces => ContOf(b) # c
      /\ granted \subseteq refs /\ AboutRun(item[a])
  BY <1>0, <1>1, <1>2, LeftAlone DEF EpochInv, SoleInv, LiveInv, RefInv
<1>4. a \in Workers => item[a] \in Issued
  BY <1>1 DEF Issued
<1>5. \A it \in IssuedTo(c) : it.epoch \in Nat
  BY IssuedTypes DEF IssuedTo
<1> USE DEF history, At, Goto, SetLoc, Save
<1>6. ASSUME NEW place, place \in {"enqSave", "enqUpsert", "enqPush"},
             pc[a] # "enqPush", pc' = [pc EXCEPT ![a] = place],
             \A b \in Actors \ {a} : loc'[b] = loc[b],
             UNCHANGED <<queue, item, refs, granted, asked>>,
             \A d \in Conts \ {c} : store'[d] = store[d] /\ ledger'[d] = ledger[d],
             store'[c] # None, store'[c].status = store[c].status,
             store'[c].ask = store[c].ask, store'[c].calls = store[c].calls,
             ledger'[c] = ledger[c] \/ place = "enqPush",
             \A it \in IssuedTo(c) : ~CanMarkRunning(ledger'[c], it.epoch)
      PROVE  LiveInv'
  <2>1. /\ \A b \in Actors \ {a} : pc'[b] = pc[b] /\ item'[b] = item[b]
        /\ pc'[a] = place /\ place # "idle" /\ place \in EnqueuePlaces /\ ContOf(a)' = c
        /\ place \notin SettlePlaces \cup {"ack", "nackAck", "nackPush", "starting", "saveResuming"}
    BY <1>0, <1>2, <1>6 DEF ContOf, EnqueuePlaces, SettlePlaces
  <2>2. \A d : IssuedTo(d)' \subseteq IssuedTo(d) /\ QueuedFor(d) \subseteq QueuedFor(d)'
    <3>1. BagToSet(queue') \subseteq Issued /\ (a \in Workers => item'[a] \in Issued)
      BY <1>4, <1>6 DEF Issued
    <3> QED  BY <1>6, <2>1, <3>1, IssuedStays DEF QueuedFor
  <2>3. ~Claimable(ledger[c])
    BY <1>0, <1>1, <1>3, <1>6 DEF ActorLives
  <2>4. \A r \in refs : RunOf(r) = c => (Waiting(r)' <=> Waiting(r))
    BY <1>2, <1>6, StillWaiting
  <2>5. \A r : RunOf(r)' = RunOf(r)
    BY <1>6 DEF RunOf
  <2>6. RunLives(c)'
    <3>1. Claimable(ledger'[c]) => Pushing(c)'
      BY <1>6, <2>1, <2>3 DEF Pushing
    <3>2. Moving(c)'
      BY <2>1 DEF Moving
    <3>3. \A it \in IssuedTo(c)' : ~CanMarkRunning(ledger'[c], it.epoch)
      BY <1>6, <2>2
    <3>4. ASSUME NEW r \in granted', RunOf(r)' = c, Waiting(r)'
          PROVE  Carried(r)'
      <4>1. r \in granted /\ RunOf(r) = c /\ Carried(r)
        BY <1>3, <1>6, <2>4, <2>5, <3>4 DEF RunLives
      <4>2. PICK b \in Actors : item[b] # None /\ item[b].res # None /\ item[b].res.ref = r
                                  /\ pc[b] \notin {"claimed", "ack"}
        BY <2>3, <4>1 DEF Carried, CanMarkRunning
      <4>3. item'[b] = item[b] /\ pc'[b] \notin {"claimed", "ack"}
        BY <1>6, <2>1, <4>2 DEF EnqueuePlaces
      <4> QED  BY <4>2, <4>3 DEF Carried
    <3> QED  BY <3>1, <3>2, <3>3, <3>4 DEF RunLives
  <2>7. ActorLives(a)'
    <3>1. a \in Clients => Ready(item[a])'
      <4>1. a \in Clients => Ready(item[a])
        BY <1>1, <1>3 DEF ActorLives
      <4> QED  BY <1>2, <1>6, <4>1 DEF Ready
    <3>2. place # "enqPush" => ~Claimable(ledger'[c])
      BY <1>6, <2>3
    <3>3. ASSUME a \in Workers, item'[a].res # None
          PROVE  ~Waiting(item[a].res.ref)'
      <4>1. PICK r \in refs : r = item[a].res.ref /\ RunOf(r) = c
        BY <1>2, <1>3, <1>6, <3>3 DEF AboutRun
      <4>2. pc[a] \in BusyPlaces \ DeliveringPlaces
        BY <1>1 DEF BusyPlaces, EnqueuePlaces, DeliveringPlaces
      <4>3. ~Waiting(r)
        BY <1>3, <1>6, <3>3, <4>1, <4>2 DEF ActorLives
      <4>4. r = item'[a].res.ref
        BY <1>6, <4>1
      <4> QED  BY <2>4, <4>1, <4>3, <4>4
    <3> QED  BY <2>1, <3>1, <3>2, <3>3 DEF ActorLives
  <2>8. \A d \in Conts \ {c} : /\ store'[d] = store[d] /\ ledger'[d] = ledger[d]
                              /\ IssuedTo(d)' \subseteq IssuedTo(d)
                              /\ QueuedFor(d) \subseteq QueuedFor(d)'
    BY <1>6, <2>2
  <2>9. /\ asked' = asked \/ asked' = Append(asked, 0)
        /\ refs \subseteq refs' /\ \A r \in granted' : r \in granted
        /\ \A b \in Actors \ {a} : pc'[b] = pc[b] /\ item'[b] = item[b] /\ loc'[b] = loc[b]
    BY <1>6, <2>1
  <2> QED  BY <1>0, <1>2, <1>3, <1>6, <2>6, <2>7, <2>8, <2>9, LiveStep
<1>7. CASE EnqueueLoad(a)
  <2>1. /\ pc[a] = "enqLoad" /\ pc' = [pc EXCEPT ![a] = "enqSave"]
        /\ UNCHANGED <<store, ledger, queue, item, refs, granted, asked>>
        /\ \A b \in Actors \ {a} : loc'[b] = loc[b]
    BY <1>2, <1>7 DEF EnqueueLoad
  <2>2. ~Claimable(ledger[c])
    BY <1>0, <1>3, <2>1 DEF ActorLives, EnqueuePlaces
  <2> QED  BY <1>2, <1>6, <2>1, <2>2 DEF CanMarkRunning
<1>8. CASE EnqueueSave(a)
  <2>1. /\ pc[a] = "enqSave" /\ pc' = [pc EXCEPT ![a] = "enqUpsert"]
        /\ store' = [store EXCEPT ![c] = loc[a]]
        /\ UNCHANGED <<ledger, queue, item, loc, refs, granted, asked>>
    BY <1>0, <1>8 DEF EnqueueSave
  <2>2. loc[a] = [store[c] EXCEPT !.epoch = @ + 1]
    BY <1>0, <1>3, <2>1 DEF AtWork
  <2>3. /\ loc[a].status = store[c].status /\ loc[a].ask = store[c].ask
        /\ loc[a].calls = store[c].calls /\ loc[a] # None
    BY <1>2, <2>1, <2>2 DEF Continuations, TypeInv, InHand, CopyPlaces
  <2>4. /\ store'[c] = loc[a]
        /\ \A d \in Conts \ {c} : store'[d] = store[d] /\ ledger'[d] = ledger[d]
    BY <1>2, <2>1
  <2>5. ~Claimable(ledger[c])
    BY <1>0, <1>3, <2>1 DEF ActorLives, EnqueuePlaces
  <2> QED  BY <1>6, <2>1, <2>3, <2>4, <2>5 DEF CanMarkRunning
<1>9. CASE EnqueueUpsert(a)
  <2> DEFINE row == UpsertQueued(ledger[c], loc[a].epoch)
  <2>1. /\ pc[a] = "enqUpsert" /\ pc' = [pc EXCEPT ![a] = "enqPush"]
        /\ ledger' = [ledger EXCEPT ![c] = row]
        /\ UNCHANGED <<store, queue, item, loc, refs, granted, asked>>
    BY <1>0, <1>9 DEF EnqueueUpsert
  <2>2. /\ row.epoch = loc[a].epoch /\ loc[a].epoch = store[c].epoch
        /\ \A it \in IssuedTo(c) : it.epoch < store[c].epoch
    BY <1>0, <1>3, <2>1 DEF UpsertQueued, ActorInOrder
  <2> HIDE DEF row
  <2>3. /\ ledger'[c] = row
        /\ \A d \in Conts \ {c} : store'[d] = store[d] /\ ledger'[d] = ledger[d]
    BY <1>2, <2>1
  <2>4. \A it \in IssuedTo(c) : row.epoch # it.epoch
    BY <1>2, <1>5, <2>2
  <2>5. \A it \in IssuedTo(c) : ~CanMarkRunning(ledger'[c], it.epoch)
    BY <2>3, <2>4 DEF CanMarkRunning
  <2> QED  BY <1>2, <1>6, <2>1, <2>3, <2>5
<1>10. CASE EnqueuePush(a)
  <2> DEFINE new == NewEntry(a)
  <2>1. /\ pc[a] = "enqPush" /\ queue' = queue (+) SetToBag({new})
        /\ granted' = IF a \in Workers THEN granted ELSE Approved(item[a])
        /\ UNCHANGED <<store, ledger, refs, asked>>
    BY <1>10 DEF EnqueuePush
  <2>2. /\ pc'[a] = IF a \in Workers THEN "ack" ELSE "idle"
        /\ IF a \in Workers THEN item' = item ELSE item'[a] = None
        /\ \A b \in Actors \ {a} : pc'[b] = pc[b] /\ item'[b] = item[b] /\ loc'[b] = loc[b]
    BY <1>2, <1>10 DEF EnqueuePush, Release
  <2>3. BagToSet(queue') = BagToSet(queue) \cup {new}
    BY <2>1, BagAdd DEF TypeInv, TypeOK
  <2>4. /\ new.cont = c /\ new.epoch = loc[a].epoch
        /\ new.res = IF a \in Workers THEN None ELSE item[a].res
    BY <1>0 DEF NewEntry
  <2> HIDE DEF new
  <2>5. Issued' \subseteq Issued \cup {new}
    BY <1>4, <2>2, <2>3 DEF Issued, Actors
  <2>6. /\ \A d : d # c => IssuedTo(d)' \subseteq IssuedTo(d)
        /\ \A d : QueuedFor(d) \subseteq QueuedFor(d)'
        /\ IssuedTo(c)' \subseteq IssuedTo(c) \cup {new}
        /\ new \in QueuedFor(c)'
    BY <2>3, <2>4, <2>5 DEF IssuedTo, QueuedFor
  <2>7. /\ CanMarkRunning(ledger[c], new.epoch) /\ new.epoch = ledger[c].epoch
        /\ \A it \in IssuedTo(c) : it.epoch # ledger[c].epoch
    <3>1. /\ loc[a].epoch = store[c].epoch
          /\ \A it \in IssuedTo(c) : it.epoch < store[c].epoch
          /\ CanMarkRunning(ledger[c], loc[a].epoch)
      BY <1>0, <1>3, <2>1 DEF ActorInOrder
    <3>2. \A it \in IssuedTo(c) : it.epoch # store[c].epoch
      BY <1>2, <1>5, <3>1
    <3> QED  BY <2>4, <3>1, <3>2 DEF CanMarkRunning
  <2>8. Ready(new)
    <3>1. new.res = None => store[c].status = "running"
      BY <1>0, <1>1, <1>3, <2>4 DEF ActorInOrder
    <3>2. new.res # None => Ready(item[a]) /\ new.res = item[a].res
      BY <1>1, <1>3, <2>4 DEF ActorLives, Actors
    <3> QED  BY <1>2, <2>4, <3>1, <3>2 DEF Ready
  <2>9. /\ \A it : Ready(it)' <=> Ready(it)
        /\ \A r : (Waiting(r)' <=> Waiting(r)) /\ RunOf(r)' = RunOf(r)
    BY <2>1 DEF Ready, Waiting, Found, RunOf
  <2>10. ASSUME NEW r \in granted', r \notin granted
         PROVE  item[a].res # None /\ item[a].res.ref = r
    BY <2>1, <2>10 DEF Approved
  <2>11. ASSUME NEW r, a \notin Workers, item[a].res # None, item[a].res.ref = r, RunOf(r) = c
         PROVE  Carried(r)'
    <3>1. new \in BagToSet(queue') /\ new.res # None /\ new.res.ref = r
          /\ CanMarkRunning(ledger'[RunOf(r)'], new.epoch)
      BY <2>1, <2>3, <2>4, <2>7, <2>9, <2>11
    <3> QED  BY <3>1 DEF Carried
  <2>12. RunLives(c)'
    <3>1. /\ \E it \in QueuedFor(c)' : it.epoch = ledger'[c].epoch
          /\ Claimable(ledger'[c])
      BY <2>1, <2>6, <2>7 DEF CanMarkRunning
    <3>2. \A it \in IssuedTo(c)' : CanMarkRunning(ledger'[c], it.epoch) => Ready(it)'
      BY <2>1, <2>6, <2>7, <2>8, <2>9 DEF CanMarkRunning
    <3>3. ASSUME NEW r \in granted', RunOf(r)' = c, Waiting(r)'
          PROVE  Carried(r)'
      <4>1. RunOf(r) = c /\ Waiting(r)
        BY <2>9, <3>3
      <4>2. CASE r \notin granted
        <5>1. a \notin Workers
          BY <2>1, <4>2
        <5> QED  BY <2>10, <2>11, <4>1, <4>2, <5>1
      <4>3. CASE r \in granted
        <5>1. Carried(r)
          BY <1>3, <4>1, <4>3 DEF RunLives
        <5>2. CASE \E b \in Actors : item[b] # None /\ item[b].res # None /\ item[b].res.ref = r
                                       /\ pc[b] \notin {"claimed", "ack"}
          <6>1. PICK b \in Actors : item[b] # None /\ item[b].res # None /\ item[b].res.ref = r
                                       /\ pc[b] \notin {"claimed", "ack"}
            BY <5>2
          <6>2. CASE b # a
            BY <2>2, <6>1, <6>2 DEF Carried
          <6>3. CASE b = a /\ a \notin Workers
            BY <2>11, <4>1, <6>1, <6>3
          <6>4. CASE b = a /\ a \in Workers
            <7>1. pc[a] \in BusyPlaces \ DeliveringPlaces
              BY <1>1, <2>1 DEF DeliveringPlaces
            <7> QED  BY <1>3, <4>1, <6>1, <6>4, <7>1 DEF ActorLives
          <6> QED  BY <6>2, <6>3, <6>4
        <5>3. CASE \E it \in BagToSet(queue) :
                      /\ it.res # None
                      /\ it.res.ref = r
                      /\ CanMarkRunning(ledger[RunOf(r)], it.epoch)
          <6>1. PICK it \in BagToSet(queue) :
                      /\ it.res # None
                      /\ it.res.ref = r
                      /\ CanMarkRunning(ledger[RunOf(r)], it.epoch)
            BY <5>3
          <6>2. it \in BagToSet(queue') /\ CanMarkRunning(ledger'[RunOf(r)'], it.epoch)
            BY <2>1, <2>3, <2>9, <6>1
          <6> QED  BY <6>1, <6>2 DEF Carried
        <5> QED  BY <5>1, <5>2, <5>3 DEF Carried
      <4> QED  BY <4>2, <4>3
    <3> QED  BY <3>1, <3>2, <3>3 DEF RunLives
  <2>13. ActorLives(a)'
    <3>1. CASE a \in Workers
      <4>1. pc'[a] = "ack" /\ item'[a] = item[a] /\ ContOf(a)' = c
        BY <1>0, <2>2, <3>1 DEF ContOf
      <4>2. item[a] \in IssuedTo(c)
        BY <1>2, <1>4, <3>1 DEF IssuedTo
      <4>3. ~CanMarkRunning(ledger'[c], item[a].epoch)
        BY <2>1, <2>7, <4>2 DEF CanMarkRunning
      <4> QED  BY <4>1, <4>3
               DEF ActorLives, EnqueuePlaces, SettlePlaces, BusyPlaces, EnginePlaces
    <3>2. CASE a \notin Workers
      BY <2>2, <3>2 DEF ActorLives, EnqueuePlaces, SettlePlaces, BusyPlaces, EnginePlaces
    <3> QED  BY <3>1, <3>2
  <2>14. \A r \in granted' : r \in granted \/ (r \in refs /\ RunOf(r) = c)
    <3>1. SUFFICES ASSUME NEW r \in granted', r \notin granted
                   PROVE  r \in refs /\ RunOf(r) = c
      OBVIOUS
    <3>2. item[a].res # None /\ item[a].res.ref = r
      BY <2>1, <2>10, <3>1
    <3> QED  BY <1>2, <1>3, <3>2 DEF AboutRun
  <2>15. \A d \in Conts \ {c} : /\ store'[d] = store[d] /\ ledger'[d] = ledger[d]
                                /\ IssuedTo(d)' \subseteq IssuedTo(d)
                                /\ QueuedFor(d) \subseteq QueuedFor(d)'
    BY <2>1, <2>6
  <2>16. /\ asked' = asked \/ asked' = Append(asked, 0)
         /\ refs \subseteq refs' /\ ledger' = ledger
    BY <2>1
  <2> QED  BY <1>0, <1>2, <1>3, <2>2, <2>12, <2>13, <2>14, <2>15, <2>16, LiveStep
<1> QED  BY <1>7, <1>8, <1>9, <1>10 DEF Enqueue

\* A worker changes or leaves the row of the run it has in hand, which no entry
\* can win afterwards.
LEMMA LiveRow ==
    ASSUME TypeInv, SoleInv, RefInv, LiveInv,
           NEW w \in Workers, pc[w] # "idle", NEW c, c = ContOf(w),
           \A b \in Actors \ {w} : pc[b] \in BusyPlaces => ContOf(b) # c,
           UNCHANGED <<store, refs, queue, asked, granted>>,
           \A b \in Actors \ {w} : pc'[b] = pc[b] /\ item'[b] = item[b] /\ loc'[b] = loc[b],
           pc'[w] # "idle" => item'[w] = item[w],
           \A d \in Conts \ {c} : ledger'[d] = ledger[d], ~Claimable(ledger'[c]),
           store[c].status \in Resting \/ pc'[w] \in EnginePlaces,
           ActorLives(w)',
           \A r \in granted : RunOf(r) = c /\ Waiting(r) =>
              \/ \E b \in Actors \ {w} : item[b] # None /\ item[b].res # None
                                          /\ item[b].res.ref = r /\ pc[b] \notin {"claimed", "ack"}
              \/ item'[w] # None /\ item'[w].res # None /\ item'[w].res.ref = r
                   /\ pc'[w] \notin {"claimed", "ack"}
    PROVE  LiveInv'
<1>1. w \in Actors /\ c \in Conts /\ item[w] \in Issued
  BY BusyActor DEF Actors, Issued
<1>2. /\ \A r : (Waiting(r)' <=> Waiting(r)) /\ RunOf(r)' = RunOf(r)
      /\ \A n : ~CanMarkRunning(ledger'[c], n)
  BY DEF Waiting, Found, RunOf, CanMarkRunning
<1>3. RunLives(c)'
  <2>1. store[c] # None => store'[c].status \in Resting \/ Moving(c)'
    <3>1. CASE store[c].status \in Resting
      BY <3>1
    <3>2. CASE pc'[w] \in EnginePlaces
      <4>1. ContOf(w)' = c
        BY <3>2 DEF ContOf, EnginePlaces
      <4> QED  BY <1>1, <3>2, <4>1 DEF Moving
    <3> QED  BY <3>1, <3>2
  <2>2. ASSUME NEW r \in granted', RunOf(r)' = c, Waiting(r)'
        PROVE  Carried(r)'
    <3>1. r \in granted /\ RunOf(r) = c /\ Waiting(r)
      BY <1>2, <2>2
    <3>2. \E b \in Actors : item'[b] # None /\ item'[b].res # None /\ item'[b].res.ref = r
                             /\ pc'[b] \notin {"claimed", "ack"}
      <4>1. CASE \E b \in Actors \ {w} : item[b] # None /\ item[b].res # None
                                          /\ item[b].res.ref = r /\ pc[b] \notin {"claimed", "ack"}
        BY <4>1
      <4>2. CASE item'[w] # None /\ item'[w].res # None /\ item'[w].res.ref = r
                   /\ pc'[w] \notin {"claimed", "ack"}
        BY <1>1, <4>2
      <4> QED  BY <3>1, <4>1, <4>2
    <3> QED  BY <3>2 DEF Carried
  <2> QED  BY <1>2, <2>1, <2>2 DEF RunLives
<1>4. \A d \in Conts \ {c} : /\ store'[d] = store[d] /\ ledger'[d] = ledger[d]
                            /\ IssuedTo(d)' \subseteq IssuedTo(d)
                            /\ QueuedFor(d) \subseteq QueuedFor(d)'
  <2>1. BagToSet(queue') \subseteq Issued /\ (w \in Workers /\ pc'[w] # "idle" => item'[w] \in Issued)
        /\ \A b \in Actors \ {w} : pc'[b] = pc[b] /\ item'[b] = item[b]
    BY <1>1 DEF Issued
  <2>2. \A d : IssuedTo(d)' \subseteq IssuedTo(d)
    BY <1>1, <2>1, IssuedStays
  <2> QED  BY <2>2 DEF QueuedFor
<1>5. /\ asked' = asked \/ asked' = Append(asked, 0)
      /\ refs \subseteq refs' /\ \A r \in granted' : r \in granted
  OBVIOUS
<1>6. \A it \in IssuedTo(c) :
         CanMarkRunning(ledger'[c], it.epoch) => CanMarkRunning(ledger[c], it.epoch)
  BY <1>2
<1> QED  BY <1>1, <1>3, <1>4, <1>5, <1>6, LiveStep

\* Where a worker settles a run that rests, its own answer has arrived.
LEMMA SettledRun ==
    ASSUME TypeInv, SoleInv, RefInv, EpochInv, LiveInv,
           NEW w \in Workers, pc[w] \in SettlePlaces, NEW c, c = ContOf(w)
    PROVE  /\ store[c].status \in Resting
           /\ ledger[c] # None /\ ledger[c].status = "running"
           /\ \A b \in Actors \ {w} : pc[b] \in BusyPlaces => ContOf(b) # c
           /\ \A r \in granted : RunOf(r) = c /\ Waiting(r) =>
                 \E b \in Actors \ {w} : item[b] # None /\ item[b].res # None
                                          /\ item[b].res.ref = r /\ pc[b] \notin {"claimed", "ack"}
<1>1. /\ w \in Actors /\ pc[w] \in BusyPlaces \ DeliveringPlaces /\ pc[w] # "enqPush"
      /\ pc[w] # "idle" /\ c \in Conts
  <2>1. w \in Actors /\ pc[w] \in BusyPlaces \ DeliveringPlaces /\ pc[w] # "enqPush" /\ pc[w] # "idle"
    BY DEF Actors, BusyPlaces, SettlePlaces, DeliveringPlaces
  <2> QED  BY <2>1, BusyActor
<1>2. ActorInOrder(w) /\ ActorLives(w) /\ RunLives(c)
  BY <1>1 DEF EpochInv, LiveInv
<1>3. ledger[c] # None /\ ledger[c].status = "running"
  BY <1>1, <1>2 DEF ActorInOrder
<1>4. ASSUME NEW r \in granted, RunOf(r) = c, Waiting(r)
      PROVE  \E b \in Actors \ {w} : item[b] # None /\ item[b].res # None
                                      /\ item[b].res.ref = r /\ pc[b] \notin {"claimed", "ack"}
  <2>1. Carried(r)
    BY <1>2, <1>4 DEF RunLives
  <2>2. \A n : ~CanMarkRunning(ledger[RunOf(r)], n)
    BY <1>3, <1>4 DEF CanMarkRunning, Claimable
  <2>3. PICK b \in Actors : item[b] # None /\ item[b].res # None
                             /\ item[b].res.ref = r /\ pc[b] \notin {"claimed", "ack"}
    BY <2>1, <2>2 DEF Carried
  <2>4. b # w
    BY <1>1, <1>2, <1>4, <2>3 DEF ActorLives
  <2> QED  BY <2>3, <2>4
<1>5. store[c].status \in Resting
  BY <1>2 DEF ActorLives
<1> QED  BY <1>1, <1>3, <1>4, <1>5, LeftAlone

\* The steps of a worker outside the engine: what it drops cannot win a row,
\* and what it wins it carries.
LEMMA WorkerLive ==
    ASSUME OneProcess, TypeInv, TypeInv', SoleInv, RefInv, EpochInv, LiveInv,
           NEW w \in Workers, WorkerNext(w)
    PROVE  LiveInv'
<1>0. /\ w \in Actors
      /\ pc \in [Actors -> Places]
      /\ item \in [Actors -> Items \cup {None}]
      /\ loc \in [Actors -> Continuations \cup {None}]
      /\ ledger \in [Conts -> Row \cup {None}]
      /\ ActorLives(w)
  BY DEF Actors, TypeInv, TypeOK, LiveInv
<1>1. PICK c : c = ContOf(w)
  OBVIOUS
<1> USE DEF history, At, Goto, Ledgered
<1>2. \A place : place \in {"idle", "claimed", "ack"} =>
         place \notin BusyPlaces \cup EnginePlaces \cup EnqueuePlaces \cup SettlePlaces
           \cup {"starting", "saveResuming", "nackAck", "nackPush"}
  BY DEF BusyPlaces, EnginePlaces, EnqueuePlaces, SettlePlaces
<1>3. ASSUME Release(w)
      PROVE  /\ pc'[w] = "idle" /\ item'[w] = None /\ ActorLives(w)'
             /\ \A b \in Actors \ {w} : pc'[b] = pc[b] /\ item'[b] = item[b] /\ loc'[b] = loc[b]
  <2>1. /\ pc'[w] = "idle" /\ item'[w] = None
        /\ \A b \in Actors \ {w} : pc'[b] = pc[b] /\ item'[b] = item[b] /\ loc'[b] = loc[b]
    BY <1>0, <1>3 DEF Release, SetLoc
  <2> QED  BY <1>2, <2>1 DEF ActorLives
<1>4. ASSUME NEW it \in BagToSet(queue), Claim(w, it)
      PROVE  LiveInv'
  <2>1. /\ pc[w] = "idle" /\ pc'[w] = "claimed" /\ item'[w] = it
        /\ \A b \in Actors \ {w} : pc'[b] = pc[b] /\ item'[b] = item[b] /\ loc'[b] = loc[b]
        /\ UNCHANGED <<store, refs, ledger, queue, asked, granted>>
    BY <1>0, <1>4 DEF Claim
  <2>2. ActorLives(w)'
    BY <1>2, <2>1 DEF ActorLives
  <2>3. Issued' \subseteq Issued
    <3>1. BagToSet(queue') \subseteq Issued /\ item'[w] \in Issued
      BY <2>1 DEF Issued
    <3> QED  BY <1>0, <2>1, <3>1, IssuedStays
  <2> QED  BY <1>0, <2>1, <2>2, <2>3, LiveAside
<1>5. ASSUME pc[w] \in {"claimed", "ack"}, ~CanMarkRunning(ledger[c], item[w].epoch),
             queue' = Acked(w), Release(w), UNCHANGED <<store, refs, ledger, asked, granted>>
      PROVE  LiveInv'
  <2>1. Issued' \subseteq Issued
    <3>1. BagToSet(queue') \subseteq Issued
      BY <1>5, QueueLess DEF Issued
    <3> QED  BY <1>0, <1>3, <1>5, <3>1, IssuedStays
  <2>2. ASSUME NEW it \in BagToSet(queue), CanMarkRunning(ledger[it.cont], it.epoch)
        PROVE  it \in BagToSet(queue')
    <3>1. it # item[w] /\ IsABag(queue)
      BY <1>1, <1>5, <2>2 DEF ContOf, TypeInv, TypeOK
    <3> QED  BY <1>5, <3>1, BagKeeps DEF Acked, Entry
  <2> QED  BY <1>0, <1>3, <1>5, <2>1, <2>2, LiveAside
<1>6. CASE LoseClaim(w)
  BY <1>1, <1>5, <1>6 DEF LoseClaim
<1>7. CASE Ack(w)
  <2>1. ~CanMarkRunning(ledger[c], item[w].epoch)
    BY <1>0, <1>1, <1>7 DEF Ack, ActorLives
  <2> QED  BY <1>5, <1>7, <2>1 DEF Ack
<1>8. CASE WinClaim(w)
  <2>1. /\ pc[w] = "claimed" /\ CanStep(w) /\ pc' = [pc EXCEPT ![w] = "starting"]
        /\ CanMarkRunning(ledger[c], item[w].epoch)
        /\ ledger' = [ledger EXCEPT ![c] = MarkRunning(ledger[c])]
        /\ UNCHANGED <<store, refs, queue, item, loc, asked, granted>>
    BY <1>1, <1>8 DEF WinClaim
  <2>2. /\ c \in Conts /\ ledger[c] # None /\ ledger[c] \in Row
        /\ item[w] # None /\ item[w] \in IssuedTo(c)
    BY <1>0, <1>1, <2>1, BusyActor
       DEF CanMarkRunning, Claimable, TypeInv, InHand, IssuedTo, Issued, ContOf
  <2>3. \A b \in Actors \ {w} : pc[b] \in BusyPlaces => ContOf(b) # c
    BY <1>1, <2>1, WinnerAlone
  <2>4. RunLives(c) /\ RunInOrder(c)
    BY <2>2 DEF LiveInv, EpochInv
  <2>5. Ready(item[w])
    BY <2>1, <2>2, <2>4 DEF RunLives
  <2>6. /\ pc'[w] = "starting" /\ item' = item
        /\ \A b \in Actors \ {w} : pc'[b] = pc[b] /\ item'[b] = item[b] /\ loc'[b] = loc[b]
        /\ \A d \in Conts \ {c} : ledger'[d] = ledger[d]
    BY <1>0, <2>1
  <2>7. ~Claimable(ledger'[c])
    <3>1. ledger'[c] = MarkRunning(ledger[c]) /\ MarkRunning(ledger[c]).status = "running"
      BY <1>0, <2>1, <2>2 DEF MarkRunning, Row
    <3> QED  BY <3>1 DEF Claimable
  <2>8. ActorLives(w)'
    <3>1. Ready(item[w])'
      BY <2>1, <2>5, <2>6 DEF Ready
    <3> QED  BY <2>6, <3>1
             DEF ActorLives, BusyPlaces, EnqueuePlaces, SettlePlaces, DeliveringPlaces
  <2>9. ASSUME NEW r \in granted, RunOf(r) = c, Waiting(r)
        PROVE  \/ \E b \in Actors \ {w} : item[b] # None /\ item[b].res # None
                                          /\ item[b].res.ref = r /\ pc[b] \notin {"claimed", "ack"}
               \/ item'[w] # None /\ item'[w].res # None /\ item'[w].res.ref = r
                    /\ pc'[w] \notin {"claimed", "ack"}
    <3>1. Carried(r)
      BY <2>4, <2>9 DEF RunLives
    <3>2. CASE \E b \in Actors : item[b] # None /\ item[b].res # None /\ item[b].res.ref = r
                                  /\ pc[b] \notin {"claimed", "ack"}
      BY <2>1, <3>2
    <3>3. CASE \E it \in BagToSet(queue) :
                  /\ it.res # None
                  /\ it.res.ref = r
                  /\ CanMarkRunning(ledger[RunOf(r)], it.epoch)
      <4>1. PICK it \in BagToSet(queue) :
                  /\ it.res # None
                  /\ it.res.ref = r
                  /\ CanMarkRunning(ledger[RunOf(r)], it.epoch)
        BY <3>3
      <4>2. it \in IssuedTo(c)
        BY <2>9, <4>1 DEF RefInv, AboutRun, IssuedTo, Issued
      <4>3. it.epoch = item[w].epoch
        BY <2>1, <2>9, <4>1 DEF CanMarkRunning
      <4>4. it = item[w]
        BY <2>2, <2>4, <4>2, <4>3 DEF RunInOrder
      <4> QED  BY <2>2, <2>6, <4>1, <4>4
    <3> QED  BY <3>1, <3>2, <3>3 DEF Carried
  <2>10. "starting" \in EnginePlaces
    BY DEF EnginePlaces
  <2> QED  BY <1>1, <2>1, <2>3, <2>6, <2>7, <2>8, <2>9, <2>10, LiveRow
<1>9. ASSUME pc[w] \in SettlePlaces, UNCHANGED <<store, refs, queue, asked, granted>>,
             \A b \in Actors \ {w} : pc'[b] = pc[b] /\ item'[b] = item[b] /\ loc'[b] = loc[b],
             pc'[w] # "idle" => item'[w] = item[w],
             \A d \in Conts \ {c} : ledger'[d] = ledger[d], ~Claimable(ledger'[c]),
             ActorLives(w)'
      PROVE  LiveInv'
  <2>1. pc[w] # "idle"
    BY <1>9 DEF SettlePlaces
  <2>2. /\ store[c].status \in Resting
        /\ \A b \in Actors \ {w} : pc[b] \in BusyPlaces => ContOf(b) # c
        /\ \A r \in granted : RunOf(r) = c /\ Waiting(r) =>
              \E b \in Actors \ {w} : item[b] # None /\ item[b].res # None
                                       /\ item[b].res.ref = r /\ pc[b] \notin {"claimed", "ack"}
    BY <1>1, <1>9, SettledRun
  <2> QED  BY <1>1, <1>9, <2>1, <2>2, LiveRow
<1>10. CASE SettleDone(w)
  <2>1. /\ pc[w] = "settleDone" /\ pc' = [pc EXCEPT ![w] = "ack"]
        /\ ledger' = [ledger EXCEPT ![c] = Finalize(ledger[c], "done")]
        /\ UNCHANGED <<store, refs, queue, item, loc, asked, granted>>
    BY <1>1, <1>10 DEF SettleDone
  <2>2. c \in Conts /\ ledger[c] # None /\ ledger[c] \in Row
    BY <1>0, <1>1, <2>1, BusyActor, SettledRun DEF SettlePlaces
  <2>3. /\ pc'[w] = "ack" /\ item' = item /\ ContOf(w)' = c
        /\ \A b \in Actors \ {w} : pc'[b] = pc[b] /\ item'[b] = item[b] /\ loc'[b] = loc[b]
        /\ \A d \in Conts \ {c} : ledger'[d] = ledger[d]
        /\ ledger'[c] = Finalize(ledger[c], "done")
    BY <1>0, <1>1, <2>1, <2>2 DEF ContOf
  <2>4. ~Claimable(ledger'[c])
    BY <2>2, <2>3 DEF Finalize, Row, Claimable
  <2>5. ActorLives(w)'
    BY <1>2, <2>3, <2>4 DEF ActorLives, CanMarkRunning
  <2> QED  BY <1>9, <2>1, <2>3, <2>4, <2>5 DEF SettlePlaces
<1>11. CASE SettleFailed(w)
  <2>1. /\ pc[w] = "settleFailed" /\ Release(w)
        /\ UNCHANGED <<store, refs, ledger, queue, asked, granted>>
    BY <1>11 DEF SettleFailed
  <2>2. ~Claimable(ledger'[c])
    BY <1>1, <2>1, SettledRun DEF SettlePlaces, Claimable
  <2> QED  BY <1>3, <1>9, <2>1, <2>2 DEF SettlePlaces
<1>12. ~NackAck(w) /\ ~NackPush(w)
  BY <1>0 DEF NackAck, NackPush, ActorLives
<1>13. CASE Enqueue(w)
  BY <1>0, <1>13, EnqueueLive
<1> QED  BY <1>4, <1>6, <1>7, <1>8, <1>10, <1>11, <1>12, <1>13
         DEF WorkerNext, WorkerClaim, WorkerSettle

\* The steps of a client: who starts a run, or answers one that nobody has in
\* hand and no entry is for, finds it as the request needs it.
LEMMA ClientLive ==
    ASSUME OneProcess, OneAnswerAtATime, TypeInv, TypeInv', SoleInv, RefInv, EpochInv, LiveInv,
           NEW cl \in Clients, ClientNext(cl)
    PROVE  LiveInv'
<1>0. /\ cl \in Actors /\ cl \notin Workers /\ cl \notin Direct /\ pc[cl] # "retry"
      /\ pc \in [Actors -> Places]
      /\ item \in [Actors -> Items \cup {None}]
      /\ store \in [Conts -> Continuations \cup {None}]
  BY RuntimeAssumption DEF Actors, TypeInv, TypeOK, OneProcess, SoleInv, Serial, EnqueuePlaces
<1>1. /\ "idle" \notin BusyPlaces /\ "enqLoad" \in EnqueuePlaces \ {"enqPush"}
      /\ "enqLoad" \notin SettlePlaces
  BY DEF BusyPlaces, EnginePlaces, SettlePlaces, EnqueuePlaces
<1> USE DEF history, At, Goto
<1>2. ASSUME pc[cl] = "idle", pc' = [pc EXCEPT ![cl] = "enqLoad"],
             NEW c \in Conts,
             NEW it \in Items, it.cont = c, item' = [item EXCEPT ![cl] = it],
             Ready(it)', ~Claimable(ledger[c]),
             \A b \in Actors \ {cl} : pc[b] \in BusyPlaces => ContOf(b) # c,
             \A d \in Conts \ {c} : store'[d] = store[d],
             \A r \in granted : RunOf(r) = c => store'[c] = store[c],
             UNCHANGED <<refs, ledger, queue, loc, asked, granted>>
      PROVE  LiveInv'
  <2>1. /\ pc'[cl] = "enqLoad" /\ item'[cl] = it /\ ContOf(cl)' = c /\ item[cl] = None
        /\ \A b \in Actors \ {cl} : pc'[b] = pc[b] /\ item'[b] = item[b] /\ loc'[b] = loc[b]
    <3>1. item[cl] = None
      BY <1>0, <1>2 DEF LiveInv, ActorLives
    <3> QED  BY <1>0, <1>2, <3>1 DEF ContOf
  <2>2. \A d : IssuedTo(d)' \subseteq IssuedTo(d) /\ QueuedFor(d) \subseteq QueuedFor(d)'
    <3>1. BagToSet(queue') \subseteq Issued
      BY <1>2 DEF Issued
    <3> QED  BY <1>0, <1>2, <2>1, <3>1, IssuedStays DEF QueuedFor
  <2>3. RunLives(c)'
    <3>1. Moving(c)' /\ ~Claimable(ledger'[c]) /\ \A n : ~CanMarkRunning(ledger'[c], n)
      BY <1>0, <1>1, <1>2, <2>1 DEF Moving, CanMarkRunning
    <3>2. ASSUME NEW r \in granted', RunOf(r)' = c, Waiting(r)'
          PROVE  Carried(r)'
      <4>1. /\ r \in granted /\ r \in refs /\ RunOf(r) = c
        BY <1>2, <3>2 DEF RunOf, RefInv
      <4>2. Waiting(r)
        BY <1>2, <3>2, <4>1, StillWaiting
      <4>3. Carried(r)
        BY <1>2, <4>1, <4>2 DEF LiveInv, RunLives
      <4>4. PICK b \in Actors : item[b] # None /\ item[b].res # None /\ item[b].res.ref = r
                                  /\ pc[b] \notin {"claimed", "ack"}
        BY <1>2, <4>1, <4>3 DEF Carried, CanMarkRunning
      <4>5. item'[b] = item[b] /\ pc'[b] = pc[b]
        BY <2>1, <4>4
      <4> QED  BY <4>4, <4>5 DEF Carried
    <3> QED  BY <3>1, <3>2 DEF RunLives
  <2>4. ActorLives(cl)'
    <3>1. Ready(item[cl])'
      BY <1>2, <2>1 DEF Ready
    <3> QED  BY <1>0, <1>1, <1>2, <2>1, <3>1 DEF ActorLives, Ready
  <2>5. \A d \in Conts \ {c} : /\ store'[d] = store[d] /\ ledger'[d] = ledger[d]
                              /\ IssuedTo(d)' \subseteq IssuedTo(d)
                              /\ QueuedFor(d) \subseteq QueuedFor(d)'
    BY <1>2, <2>2
  <2>6. /\ asked' = asked \/ asked' = Append(asked, 0)
        /\ refs \subseteq refs' /\ ledger' = ledger /\ \A r \in granted' : r \in granted
    BY <1>2
  <2> QED  BY <1>0, <1>2, <2>1, <2>3, <2>4, <2>5, <2>6, LiveStep
<1>3. ASSUME NEW c \in Conts, Invoke(cl, c)
      PROVE  LiveInv'
  <2> DEFINE it == [cont |-> c, epoch |-> 0, res |-> None]
  <2>1. /\ pc[cl] = "idle" /\ store[c] = None
        /\ pc' = [pc EXCEPT ![cl] = "enqLoad"]
        /\ item' = [item EXCEPT ![cl] = it]
        /\ store' = [store EXCEPT ![c] = NewContinuation]
        /\ UNCHANGED <<refs, ledger, queue, loc, asked, granted>>
    BY <1>3 DEF Invoke
  <2>2. it \in Items /\ it.cont = c
    BY DEF Items
  <2>3. Ready(it)'
    BY <1>0, <2>1 DEF Ready, NewContinuation
  <2> HIDE DEF it
  <2>4. ~Claimable(ledger[c])
    BY <2>1 DEF EpochInv, RunInOrder, Claimable
  <2>5. \A b \in Actors : pc[b] \in BusyPlaces => ContOf(b) # c
    BY <1>1, <2>1 DEF TypeInv, InHand
  <2>6. \A r \in granted : RunOf(r) # c
    BY <2>1, RefFields DEF RefInv
  <2>7. \A d \in Conts \ {c} : store'[d] = store[d]
    BY <2>1
  <2> QED  BY <1>2, <2>1, <2>2, <2>3, <2>4, <2>5, <2>6, <2>7
<1>4. ASSUME NEW r \in refs, NEW out \in Outcomes, Answer(cl, r, out)
      PROVE  LiveInv'
  <2>0. PICK c : c = RunOf(r)
    OBVIOUS
  <2> DEFINE it == [cont |-> c, epoch |-> 0, res |-> [ref |-> r, outcome |-> out]]
  <2>1. /\ pc[cl] = "idle" /\ pc' = [pc EXCEPT ![cl] = "enqLoad"] /\ Found(r)
        /\ item' = [item EXCEPT ![cl] = it]
        /\ UNCHANGED <<store, refs, ledger, queue, loc, asked, granted>>
    BY <1>0, <1>4, <2>0 DEF Answer
  <2>2. /\ c \in Conts /\ store[c] \in Continuations /\ store[c] # None
        /\ RunLives(c) /\ store[c].status \in Standing
        /\ \A b \in Actors : pc[b] \in BusyPlaces => ContOf(b) # c
    <3>1. c \in Conts /\ store[c] \in Continuations /\ store[c] # None
      BY <2>0, RefFields
    <3>2. /\ store[c].status \in Standing
          /\ \A b \in Actors \ {cl} : pc[b] \in BusyPlaces => ContOf(b) # c
      BY <1>4, <2>0, AnswerAlone
    <3> QED  BY <1>1, <2>1, <3>1, <3>2 DEF LiveInv
  <2>3. ~Claimable(ledger[c])
    <3>1. SUFFICES ASSUME Claimable(ledger[c])
                   PROVE  FALSE
      OBVIOUS
    <3>2. ~Pushing(c)
      BY <2>2 DEF Pushing, BusyPlaces, EnqueuePlaces
    <3>3. PICK jt \in QueuedFor(c) : jt.epoch = ledger[c].epoch
      BY <2>2, <3>1, <3>2 DEF RunLives
    <3>4. jt \in BagToSet(queue) /\ jt \in IssuedTo(c) /\ jt.cont = c
          /\ CanMarkRunning(ledger[c], jt.epoch)
      BY <3>1, <3>3 DEF QueuedFor, IssuedTo, Issued, CanMarkRunning
    <3>5. Ready(jt)
      BY <2>2, <3>4 DEF RunLives
    <3>6. jt.res # None
      BY <2>2, <3>4, <3>5 DEF Ready, Standing
    <3>7. jt.res.ref \in refs /\ RunOf(jt.res.ref) = c
      BY <3>4, <3>6 DEF RefInv, AboutRun
    <3>8. Carried(jt.res.ref)
      BY <3>4, <3>6, <3>7 DEF Carried
    <3> QED  BY <1>4, <2>0, <3>7, <3>8 DEF OneAnswerAtATime
  <2>4. store[c].status = "suspended"
    <3>1. ~Moving(c)
      BY <2>2 DEF Moving, BusyPlaces
    <3> QED  BY <2>2, <2>3, <3>1 DEF RunLives, Resting, Standing
  <2>5. it \in Items /\ it.cont = c
    BY <2>2 DEF Items, Resolutions, TypeInv, TypeOK
  <2>6. Ready(it)'
    <3>1. store'[c] = store[c] /\ it.res # None /\ it.res.ref = r
      <4>1. it.res \in Resolutions
        BY DEF Resolutions, TypeInv, TypeOK
      <4> QED  BY <2>1, <4>1, NoneAssumption
    <3>2. store[c].ask = r.ask /\ store[c].calls[r.call] # "none"
      BY <2>0, <2>1 DEF Found
    <3> QED  BY <2>4, <2>5, <3>1, <3>2 DEF Ready
  <2> HIDE DEF it
  <2> QED  BY <1>2, <2>1, <2>2, <2>3, <2>5, <2>6
<1>5. ~RetryTask(cl) /\ ~TaskReturns(cl)
  BY <1>0 DEF RetryTask, TaskReturns
<1> QED  BY <1>0, <1>3, <1>4, <1>5, EnqueueLive DEF ClientNext

\* Every step keeps the invariant while answers wait for one another and
\* nothing fails.
LEMMA NextLive ==
    ASSUME OneProcess, FaultKinds = {}
    PROVE  TypeInv /\ TypeInv' /\ SoleInv /\ ParkInv /\ RefInv /\ EpochInv /\ LiveInv
             /\ [Next]_vars /\ [OneAnswerAtATime]_vars => LiveInv'
<1> SUFFICES ASSUME TypeInv, TypeInv', SoleInv, ParkInv, RefInv, EpochInv, LiveInv,
                    [Next]_vars, [OneAnswerAtATime]_vars
             PROVE  LiveInv'
  OBVIOUS
<1>1. CASE UNCHANGED vars
  <2>1. /\ \A r : (Waiting(r)' <=> Waiting(r)) /\ (Carried(r)' <=> Carried(r)) /\ RunOf(r)' = RunOf(r)
        /\ \A it : Ready(it)' <=> Ready(it)
        /\ \A c : IssuedTo(c)' = IssuedTo(c) /\ QueuedFor(c)' = QueuedFor(c)
        /\ \A c : (Pushing(c)' <=> Pushing(c)) /\ (Moving(c)' <=> Moving(c))
        /\ \A a : ContOf(a)' = ContOf(a) /\ ResolvedCall(a)' = ResolvedCall(a)
    BY <1>1 DEF vars, Waiting, Found, Carried, RunOf, Ready, IssuedTo, Issued, QueuedFor,
                Pushing, Moving, ContOf, ResolvedCall
  <2>2. \A c \in Conts : RunLives(c)'
    BY <1>1, <2>1 DEF vars, LiveInv, RunLives
  <2>3. \A a \in Actors : ActorLives(a)'
    <3> SUFFICES ASSUME NEW a \in Actors PROVE ActorLives(a)'
      OBVIOUS
    <3>1. /\ ActorLives(a) /\ pc' = pc /\ item' = item /\ loc' = loc
          /\ store' = store /\ ledger' = ledger
      BY <1>1 DEF vars, LiveInv
    <3>2. /\ Ready(item[a])' <=> Ready(item[a])
          /\ Waiting(item[a].res.ref)' <=> Waiting(item[a].res.ref)
      BY <1>1 DEF vars, Ready, Waiting, Found, RunOf
    <3> QED  BY <2>1, <3>1, <3>2 DEF ActorLives
  <2> QED  BY <2>2, <2>3 DEF LiveInv
<1>2. CASE Next /\ OneAnswerAtATime
  <2>1. ASSUME NEW a \in Workers \cup Direct, EngineNext(a)
        PROVE  LiveInv'
    BY <2>1, EngineLive DEF OneProcess
  <2>2. ASSUME FaultNext
        PROVE  FALSE
    BY <2>2 DEF FaultNext, Raise, Abandon, TaskError, Crash, Boot, Flush, Fault, SoleInv, Serial
  <2> QED  BY <1>2, <2>1, <2>2, WorkerLive, ClientLive DEF Next
<1> QED  BY <1>1, <1>2

\* The invariant holds at the start.
LEMMA InitLive == Init => LiveInv
<1> SUFFICES ASSUME Init PROVE LiveInv
  OBVIOUS
<1>1. /\ \A a \in Actors : pc[a] = "idle" /\ item[a] = None
      /\ \A c \in Conts : store[c] = None /\ ledger[c] = None
      /\ granted = {}
  BY DEF Init, Start
<1>2. "idle" \notin BusyPlaces \cup EnginePlaces \cup EnqueuePlaces \cup SettlePlaces
  BY DEF BusyPlaces, EnginePlaces, SettlePlaces, EnqueuePlaces
<1>3. \A c \in Conts : RunLives(c)
  BY <1>1 DEF RunLives, Claimable, CanMarkRunning
<1>4. \A a \in Actors : ActorLives(a)
  BY <1>1, <1>2 DEF ActorLives
<1> QED  BY <1>3, <1>4 DEF LiveInv

\* A process in which nothing fails and answers wait for one another keeps the
\* whole invariant.
LEMMA LiveProcess ==
    ASSUME OneProcess, FaultKinds = {}
    PROVE  Spec /\ [][OneAnswerAtATime]_vars => [](TypeInv /\ RefInv /\ EpochInv /\ LiveInv)
<1>1. FaultKinds \subseteq {"raise", "flush"}
  OBVIOUS
<1>2. Init => TypeInv /\ SoleInv /\ ParkInv /\ RefInv /\ EpochInv /\ LiveInv
  BY InitType, InitSole, InitPark, InitRef, InitOrder, InitLive
<1>3. TypeInv /\ SoleInv /\ ParkInv /\ RefInv /\ EpochInv /\ LiveInv
        /\ [Next]_vars /\ [OneAnswerAtATime]_vars
        => (TypeInv /\ SoleInv /\ ParkInv /\ RefInv /\ EpochInv /\ LiveInv)'
  BY <1>1, NextType, NextSole, NextPark, NextRef, NextOrder, NextLive
<1> QED  BY <1>2, <1>3, PTL DEF Spec

\* A run that was started and has not ended is never left with nobody to act
\* on it (queue.py:204-208): in one process where nothing fails and no answer
\* to a run is submitted before the last one has arrived, an actor has the run
\* in hand or an entry of the queue can win its row.
THEOREM NotStrandedInOneProcess ==
    ASSUME OneProcess, FaultKinds = {}
    PROVE  Spec /\ [][OneAnswerAtATime]_vars => []NotStranded
<1>1. TypeInv /\ EpochInv /\ LiveInv => NotStranded
  <2> SUFFICES ASSUME TypeInv, EpochInv, LiveInv, NEW c \in Conts,
                      store[c] # None, ~Over(c), store[c].status # "suspended"
               PROVE  Live(c)
    BY DEF NotStranded
  <2>1. RunLives(c)
    BY DEF LiveInv
  <2>2. CASE Moving(c)
    BY <2>2 DEF Moving, Live, EnginePlaces, EnqueuePlaces
  <2>3. CASE Claimable(ledger[c])
    <3>1. CASE Pushing(c)
      BY <3>1 DEF Pushing, Live
    <3>2. CASE ~Pushing(c)
      <4>1. PICK it \in QueuedFor(c) : it.epoch = ledger[c].epoch
        BY <2>1, <2>3, <3>2 DEF RunLives
      <4> QED  BY <2>3, <4>1 DEF QueuedFor, CanMarkRunning, Live
    <3> QED  BY <3>1, <3>2
  <2> QED  BY <2>1, <2>2, <2>3 DEF RunLives, Resting, Over
<1> QED  BY <1>1, LiveProcess, PTL

\* What a human approved is not lost: under the same conditions, while the call
\* is pending the approval is carried by an actor or by an entry that can win
\* the run's row (service.py resume, worker.py handle_one).
THEOREM ApprovalKeptInOneProcess ==
    ASSUME OneProcess, FaultKinds = {}
    PROVE  Spec /\ [][OneAnswerAtATime]_vars => []ApprovalKept
<1>1. TypeInv /\ RefInv /\ LiveInv => ApprovalKept
  <2> SUFFICES ASSUME TypeInv, RefInv, LiveInv, NEW r \in granted, Waiting(r)
               PROVE  Carried(r)
    BY DEF ApprovalKept
  <2>1. RunOf(r) \in Conts
    BY RefFields DEF RefInv
  <2> QED  BY <2>1 DEF LiveInv, RunLives
<1> QED  BY <1>1, LiveProcess, PTL

----------------------------------------------------------------------------
(***************************************************************************)
(* The hypothesis is met where a human answers once.  Until then nothing   *)
(* that is queued or in hand resolves anything, for any processes and      *)
(* faults, so there is no earlier answer the first one could overtake.     *)
(***************************************************************************)
Bare(it) == it.res = None

Unanswered ==
    answers = 0 =>
      /\ \A it \in BagToSet(queue) : Bare(it)
      /\ \A a \in Actors : item[a] # None => Bare(item[a])

\* A step that brings in nothing that resolves a call.
LEMMA UnansweredStep ==
    ASSUME Unanswered, answers' = answers,
           \A it \in BagToSet(queue') :
              it \in BagToSet(queue) \/ Bare(it)
                \/ \E a \in Actors : item[a] # None /\ it = item[a],
           \A a \in Actors : \/ item'[a] = item[a] \/ item'[a] = None
                             \/ item'[a] \in BagToSet(queue) \/ Bare(item'[a])
    PROVE  Unanswered'
BY DEF Unanswered, Bare

LEMMA UnansweredRelease ==
    ASSUME TypeInv, Unanswered, answers' = answers, NEW a \in Actors, Release(a),
           \A it \in BagToSet(queue') :
              it \in BagToSet(queue) \/ Bare(it)
                \/ \E b \in Actors : item[b] # None /\ it = item[b]
    PROVE  Unanswered'
<1>1. \A b \in Actors : item'[b] = item[b] \/ item'[b] = None
  BY DEF Release, TypeInv, TypeOK
<1> QED  BY <1>1, UnansweredStep

LEMMA EnqueueUnanswered ==
    ASSUME TypeInv, Unanswered, NEW a \in Actors, Enqueue(a)
    PROVE  Unanswered'
<1>1. CASE EnqueueLoad(a) \/ EnqueueSave(a) \/ EnqueueUpsert(a)
  BY <1>1, UnansweredStep DEF EnqueueLoad, EnqueueSave, EnqueueUpsert, history
<1>2. CASE EnqueuePush(a)
  <2>1. pc[a] = "enqPush" /\ queue' = queue (+) SetToBag({NewEntry(a)}) /\ answers' = answers
    BY <1>2 DEF EnqueuePush, At
  <2>2. item[a] # None
    BY <2>1 DEF TypeInv, InHand
  <2>3. BagToSet(queue') = BagToSet(queue) \cup {NewEntry(a)}
    BY <2>1, BagAdd DEF TypeInv, TypeOK
  <2>4. answers = 0 => Bare(NewEntry(a))
    BY <2>2 DEF Unanswered, Bare, NewEntry
  <2>5. \A b \in Actors : item'[b] = item[b] \/ item'[b] = None
    BY <1>2 DEF EnqueuePush, Release, TypeInv, TypeOK
  <2> QED  BY <2>1, <2>3, <2>4, <2>5 DEF Unanswered
<1> QED  BY <1>1, <1>2 DEF Enqueue

LEMMA ClientUnanswered ==
    ASSUME TypeInv, Unanswered, NEW cl \in Clients, ClientNext(cl)
    PROVE  Unanswered'
<1>0. cl \in Actors /\ item \in [Actors -> Items \cup {None}] /\ answers \in Nat
  BY RuntimeAssumption DEF Actors, TypeInv, TypeOK
<1>1. ASSUME NEW c \in Conts, Invoke(cl, c)
      PROVE  Unanswered'
  <2>1. /\ UNCHANGED <<answers, queue>>
        /\ Bare(item'[cl]) /\ \A b \in Actors \ {cl} : item'[b] = item[b]
    BY <1>0, <1>1 DEF Invoke, history, Bare
  <2> QED  BY <2>1, UnansweredStep
<1>2. ASSUME NEW r \in refs, NEW out \in Outcomes, Answer(cl, r, out)
      PROVE  Unanswered'
  <2>1. answers' = answers + 1
    BY <1>2 DEF Answer
  <2> QED  BY <1>0, <2>1 DEF Unanswered
<1>3. CASE RetryTask(cl)
  BY <1>0, <1>3, UnansweredStep, UnansweredRelease DEF RetryTask, history
<1>4. CASE TaskReturns(cl)
  BY <1>0, <1>4, UnansweredRelease DEF TaskReturns, history
<1> QED  BY <1>0, <1>1, <1>2, <1>3, <1>4, EnqueueUnanswered DEF ClientNext

LEMMA WorkerUnanswered ==
    ASSUME TypeInv, Unanswered, NEW w \in Workers, WorkerNext(w)
    PROVE  Unanswered'
<1>0. /\ w \in Actors /\ item \in [Actors -> Items \cup {None}]
      /\ BagToSet(Acked(w)) \subseteq BagToSet(queue)
  BY QueueLess DEF Actors, TypeInv, TypeOK
<1> USE DEF history
<1>1. ASSUME NEW it \in BagToSet(queue), Claim(w, it)
      PROVE  Unanswered'
  <2>1. /\ UNCHANGED <<answers, queue>>
        /\ item'[w] = it /\ \A b \in Actors \ {w} : item'[b] = item[b]
    BY <1>0, <1>1 DEF Claim
  <2> QED  BY <2>1, UnansweredStep
<1>2. CASE WinClaim(w) \/ SettleDone(w) \/ NackAck(w)
  BY <1>0, <1>2, UnansweredStep DEF WinClaim, SettleDone, NackAck
<1>3. CASE LoseClaim(w) \/ SettleFailed(w) \/ Ack(w)
  BY <1>0, <1>3, UnansweredRelease DEF LoseClaim, SettleFailed, Ack
<1>4. CASE NackPush(w)
  <2>1. item[w] # None
    BY <1>0, <1>4 DEF NackPush, At, TypeInv, InHand
  <2>2. BagToSet(queue') = BagToSet(queue) \cup {item[w]}
    BY <1>4, BagAdd DEF NackPush, Entry, TypeInv, TypeOK
  <2> QED  BY <1>0, <1>4, <2>1, <2>2, UnansweredRelease DEF NackPush
<1> QED  BY <1>0, <1>1, <1>2, <1>3, <1>4, EnqueueUnanswered
         DEF WorkerNext, WorkerClaim, WorkerSettle

LEMMA EngineUnanswered ==
    ASSUME Unanswered, NEW w, EngineNext(w)
    PROVE  Unanswered'
<1>1. UNCHANGED <<answers, queue, item>>
  <2>1. ASSUME EngineEnter(w)
        PROVE  UNCHANGED <<answers, queue, item>>
    BY <2>1 DEF EngineEnter, DriveNothing, Settled, Drive, SaveRunning, ResumeNothing, Resume,
       SaveResuming, GatedTool, SaveResolved, ParkAgain, FinishPark, End, history
  <2>2. ASSUME EngineTurn(w)
        PROVE  UNCHANGED <<answers, queue, item>>
    BY <2>2 DEF EngineTurn, MaxTurnsReached, FinalAnswer, ModelError, AskTools, RunTools, Park,
       IndexRefs, SaveTools, Continue, Preempted, End, history
  <2> QED  BY <2>1, <2>2 DEF EngineNext
<1> QED  BY <1>1, UnansweredStep

LEMMA FaultUnanswered ==
    ASSUME TypeInv, Unanswered, FaultNext
    PROVE  Unanswered'
<1>1. ASSUME NEW a \in Actors, Raise(a) \/ TaskError(a)
      PROVE  Unanswered'
  BY <1>1, UnansweredStep DEF Raise, TaskError
<1>2. ASSUME NEW a \in Actors, Abandon(a)
      PROVE  Unanswered'
  BY <1>2, UnansweredRelease DEF Abandon
<1>3. ASSUME NEW h \in Hosts, Crash(h)
      PROVE  Unanswered'
  <2>1. \A a \in Actors : item'[a] = item[a] \/ item'[a] = None
    BY <1>3 DEF Crash
  <2> QED  BY <1>3, <2>1, UnansweredStep DEF Crash
<1>4. ASSUME NEW h \in Hosts, Boot(h)
      PROVE  Unanswered'
  <2>1. BagToSet(queue') = BagToSet(queue) \cup Rebuilt
    BY <1>4, BagAdd DEF Boot, TypeInv, TypeOK
  <2>2. \A it \in Rebuilt : Bare(it)
    BY DEF Rebuilt, Bare
  <2> QED  BY <1>4, <2>1, <2>2, UnansweredStep DEF Boot, history
<1>5. CASE Flush
  BY <1>5, BagNone, UnansweredStep DEF Flush
<1> QED  BY <1>1, <1>2, <1>3, <1>4, <1>5 DEF FaultNext

LEMMA NextUnanswered == TypeInv /\ Unanswered /\ [Next]_vars => Unanswered'
<1> SUFFICES ASSUME TypeInv, Unanswered, [Next]_vars
             PROVE  Unanswered'
  OBVIOUS
<1>1. CASE UNCHANGED vars
  BY <1>1, UnansweredStep DEF vars
<1> QED  BY <1>1, WorkerUnanswered, ClientUnanswered, EngineUnanswered, FaultUnanswered DEF Next

LEMMA InitUnanswered == Init => Unanswered
BY BagNone DEF Init, Start, Unanswered, Actors

\* Where humans answer once, no answer overtakes another, in any deployment and
\* with any faults (service.py approve, reject, deliver_result).
LEMMA OneAnswerIsAlone ==
    ASSUME MaxAnswers <= 1
    PROVE  Spec => [][OneAnswerAtATime]_vars
<1>1. TypeInv /\ Unanswered => OneAnswerAtATime
  <2> SUFFICES ASSUME TypeInv, Unanswered,
                      NEW cl \in Clients, NEW r \in refs, NEW out \in Outcomes,
                      Answer(cl, r, out), NEW s \in refs, Carried(s)
               PROVE  FALSE
    BY DEF OneAnswerAtATime
  <2>1. answers = 0
    BY RuntimeAssumption DEF Answer, TypeInv, TypeOK
  <2> QED  BY <2>1 DEF Unanswered, Bare, Carried
<1>2. Spec => [](TypeInv /\ Unanswered)
  BY InitType, NextType, InitUnanswered, NextUnanswered, PTL DEF Spec
<1> QED  BY <1>1, <1>2, PTL

\* A process in which nothing fails and humans answer once strands no run,
\* loses no approval, and keeps the epoch of the run in the ledger, for any
\* number of runs, workers, requests, turns and redelivered entries.
THEOREM OneAnswerLosesNothing ==
    ASSUME OneProcess, FaultKinds = {}, MaxAnswers <= 1
    PROVE  Spec => [](NotStranded /\ EpochsAgree /\ ApprovalKept)
<1>1. FaultKinds \subseteq {"raise", "flush"}
  OBVIOUS
<1> QED  BY <1>1, OneAnswerIsAlone, EpochsAgreeInOneProcess, NotStrandedInOneProcess,
            ApprovalKeptInOneProcess, PTL
=============================================================================
