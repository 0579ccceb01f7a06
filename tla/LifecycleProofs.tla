--------------------------- MODULE LifecycleProofs ---------------------------
(***************************************************************************)
(* For any agents, parents, kinds and bounds: the life of agents keeps its *)
(* types, an ended parent leaves no child running, a stopped or removed    *)
(* agent is left without job and loop unless its stop overlapped its own   *)
(* deployment or an update has wired it again, and a loop crashes no more  *)
(* often in a row than each start of the platform allows.                  *)
(*                                                                         *)
(* StoppedIsUnwired is not inductive: the step that wires an agent is      *)
(* create_agent's return, and only Waiting says that the agent has not     *)
(* stopped before it; Waiting in turn rests on Books, by which at most one *)
(* operation deploys or recovers an agent.  CrashBudget needs that a loop  *)
(* is started by one operation at a time and never on a count of crashes   *)
(* left over from another loop (OneWirer, FreshStarts).                    *)
(***************************************************************************)
EXTENDS AgentLifecycle, FiniteSetTheorems, TLAPS

PhaseTables == [Agents -> Phases \cup {None}]
StatusTables == [Agents -> Statuses \cup {None}]

\* What an operation, an invocation or a loop works on is there.
Hands ==
    /\ \A o \in Ops : op[o].pc # "free" => op[o].agent \in Agents
    /\ \A s \in Slots : slot[s].pc # "free" => slot[s].agent \in Agents
    /\ \A a \in Agents : loop[a].pc \in {"invoking"} \cup Results =>
                             loop[a].step < MaxIterations

TypeInv == TypeOK /\ Hands

-----------------------------------------------------------------------------
(* What transitions and status writes do to the tables.                    *)

LEMMA Words == /\ None \notin Phases \cup Statuses \cup Agents
               /\ Ending \subseteq Phases
               /\ Allowed \in [Phases -> SUBSET Phases]
  BY LifecycleAssumption DEF Ending, Phases, Allowed

LEMMA OwnFacts ==
  ASSUME NEW ph \in PhaseTables, NEW a \in Agents, NEW new \in Phases,
         NEW force \in BOOLEAN
  PROVE  /\ Own(ph, a, new, force) \in PhaseTables
         /\ \A c \in Agents :
                /\ Own(ph, a, new, force)[c] \in {ph[c], new}
                /\ c # a => Own(ph, a, new, force)[c] = ph[c]
                /\ Own(ph, a, new, force)[c] = None <=> ph[c] = None
  BY Words DEF Own, PhaseTables

LEMMA CascadeFacts ==
  ASSUME NEW ph \in PhaseTables, NEW a \in Agents
  PROVE  /\ Cascade(ph, a) \in PhaseTables
         /\ \A c \in Agents :
                /\ Cascade(ph, a)[c] \in {ph[c], "draining"}
                /\ Parent[c] # a => Cascade(ph, a)[c] = ph[c]
                /\ Parent[c] = a => Cascade(ph, a)[c] \in {None, "stopped", "draining"}
                /\ Cascade(ph, a)[c] = None <=> ph[c] = None
  BY Words DEF Cascade, PhaseTables, Phases

\* A transition of a changes a, and children of a to draining; no process comes
\* or goes; and when it ends a, or tries to, the children drain.
LEMMA TransitionFacts ==
  ASSUME NEW ph \in PhaseTables, NEW a \in Agents, NEW new \in Phases,
         NEW force \in BOOLEAN
  PROVE  /\ Transition(ph, a, new, force) \in PhaseTables
         /\ \A c \in Agents :
                /\ Transition(ph, a, new, force)[c] \in {ph[c], new, "draining"}
                /\ c # a => Transition(ph, a, new, force)[c] \in {ph[c], "draining"}
                /\ Transition(ph, a, new, force)[c] = None <=> ph[c] = None
                /\ Parent[c] = a /\ new \in Ending /\ ph[a] # None =>
                       Transition(ph, a, new, force)[c] \in {None, "stopped", "draining"}
                /\ new \notin Ending =>
                       Transition(ph, a, new, force)[c] \in {ph[c], new}
<1>1. CASE ph[a] # None /\ new \in Ending
  <2>1. Transition(ph, a, new, force) = Cascade(Own(ph, a, new, force), a)
    BY <1>1 DEF Transition
  <2>2. Own(ph, a, new, force) \in PhaseTables
    BY OwnFacts
  <2> HIDE DEF PhaseTables
  <2>3. /\ Cascade(Own(ph, a, new, force), a) \in PhaseTables
        /\ \A c \in Agents :
               /\ Cascade(Own(ph, a, new, force), a)[c]
                      \in {Own(ph, a, new, force)[c], "draining"}
               /\ Parent[c] = a =>
                      Cascade(Own(ph, a, new, force), a)[c] \in {None, "stopped", "draining"}
               /\ Cascade(Own(ph, a, new, force), a)[c] = None
                      <=> Own(ph, a, new, force)[c] = None
    BY <2>2, CascadeFacts
  <2> QED
    BY <1>1, <2>1, <2>3, OwnFacts
<1>2. CASE ~(ph[a] # None /\ new \in Ending)
  <2>1. Transition(ph, a, new, force) = Own(ph, a, new, force)
    BY <1>2 DEF Transition
  <2> QED
    BY <1>2, <2>1, OwnFacts
<1> QED
  BY <1>1, <1>2

\* What a transition does to the other processes: it may drain them.
MayDrain(ph, a, T) ==
    /\ T \in PhaseTables
    /\ \A c \in Agents : /\ c # a => T[c] \in {ph[c], "draining"}
                         /\ T[c] = None <=> ph[c] = None

LEMMA DrainFacts ==
  ASSUME NEW ph \in PhaseTables, NEW a \in Agents, NEW new \in Phases, NEW T,
         T = Transition(ph, a, new, TRUE) \/ T = Transition(ph, a, new, FALSE)
  PROVE  MayDrain(ph, a, T)
<1>1. PICK force \in BOOLEAN : T = Transition(ph, a, new, force)
  OBVIOUS
<1>2. /\ Transition(ph, a, new, force) \in PhaseTables
      /\ \A c \in Agents :
             /\ c # a => Transition(ph, a, new, force)[c] \in {ph[c], "draining"}
             /\ Transition(ph, a, new, force)[c] = None <=> ph[c] = None
  BY TransitionFacts
<1> QED
  BY <1>1, <1>2 DEF MayDrain

\* A status is written for registered agents only.
LEMMA StatusFacts ==
  ASSUME NEW st \in StatusTables, NEW a \in Agents, NEW s \in Statuses
  PROVE  /\ SetStatus(st, a, s) \in StatusTables
         /\ \A b \in Agents :
                /\ SetStatus(st, a, s)[b] = None <=> st[b] = None
                /\ b # a => SetStatus(st, a, s)[b] = st[b]
  BY Words DEF SetStatus, StatusTables

LEMMA MirrorFacts ==
  ASSUME NEW st \in StatusTables, NEW ph, NEW a \in Agents, NEW new \in Phases
  PROVE  /\ Mirror(st, ph, a, new) \in StatusTables
         /\ \A b \in Agents : Mirror(st, ph, a, new)[b] = None <=> st[b] = None
<1>1. CASE ph[a] # new \/ new \notin Ending
  BY <1>1 DEF Mirror
<1>2. CASE ~(ph[a] # new \/ new \notin Ending)
  <2> DEFINE s == IF new = "evicted" THEN "stopped" ELSE new
  <2>1. s \in Statuses
    BY <1>2 DEF Ending, Statuses
  <2>2. Mirror(st, ph, a, new) = SetStatus(st, a, s)
    BY <1>2 DEF Mirror
  <2> HIDE DEF s
  <2> QED
    BY <2>1, <2>2, StatusFacts
<1> QED
  BY <1>1, <1>2

LEMMA WriteFacts ==
  ASSUME status \in StatusTables, stored \in StatusTables,
         NEW a \in Agents, NEW s \in Statuses, Write(a, s)
  PROVE  /\ status' \in StatusTables /\ stored' \in StatusTables
         /\ \A b \in Agents : /\ status'[b] = None <=> status[b] = None
                              /\ stored'[b] = None <=> stored[b] = None
  BY StatusFacts DEF Write

LEMMA MoveFacts ==
  ASSUME phase \in PhaseTables, status \in StatusTables, stored \in StatusTables,
         NEW a \in Agents, NEW new \in Phases, NEW force \in BOOLEAN,
         Move(a, new, force)
  PROVE  /\ phase' = Transition(phase, a, new, force)
         /\ phase' \in PhaseTables
         /\ status' \in StatusTables /\ stored' \in StatusTables
         /\ \A b \in Agents : /\ status'[b] = None <=> status[b] = None
                              /\ stored'[b] = None <=> stored[b] = None
<1>1. phase' = Transition(phase, a, new, force) /\ phase' \in PhaseTables
  BY TransitionFacts DEF Move
<1> QED
  BY <1>1, MirrorFacts DEF Move

LEMMA WireFacts ==
  ASSUME TypeOK, NEW a \in Agents, Wire(a)
  PROVE  /\ status' \in StatusTables /\ stored' \in StatusTables
         /\ \A b \in Agents : /\ status'[b] = None <=> status[b] = None
                              /\ stored'[b] = None <=> stored[b] = None
         /\ wired' \in SUBSET Agents /\ wired' \subseteq wired \cup {a}
         /\ loop' \in [Agents -> Loops]
         /\ \A b \in Agents \ {a} : loop'[b] = loop[b]
         /\ loop'[a] \in {loop[a], Resumed(a)}
<1>1. "live" \in Statuses
  BY DEF Statuses
<1>2. status \in StatusTables /\ stored \in StatusTables
  BY DEF TypeOK, StatusTables
<1>3. /\ status' \in {status, SetStatus(status, a, "live")}
      /\ stored' \in {stored, SetStatus(stored, a, "live")}
  BY DEF Wire, WiredStatus
<1>4. Resumed(a) \in Loops
  BY DEF TypeOK, Resumed, Loops
<1>5. /\ loop \in [Agents -> Loops]
      /\ loop' \in {loop, [loop EXCEPT ![a] = Resumed(a)]}
  BY DEF TypeOK, Wire
<1> HIDE DEF StatusTables, Loops, Statuses
<1>6. /\ loop' \in [Agents -> Loops]
      /\ \A b \in Agents \ {a} : loop'[b] = loop[b]
      /\ loop'[a] \in {loop[a], Resumed(a)}
  BY <1>4, <1>5
<1>7. wired' \in SUBSET Agents /\ wired' \subseteq wired \cup {a}
  BY DEF Wire, TypeOK
<1> QED
  BY <1>1, <1>2, <1>3, <1>6, <1>7, StatusFacts

-----------------------------------------------------------------------------
(* Types.                                                                  *)

LEMMA InitTypes == Init => TypeInv
<1> SUFFICES ASSUME Init PROVE TypeInv
  OBVIOUS
<1>1. NoLoop \in Loops /\ NoLoop.pc = "none"
  BY LifecycleAssumption DEF NoLoop, Loops
<1>2. NoCkpt \in [step : 0..MaxIterations, crash : Nat]
  BY LifecycleAssumption DEF NoCkpt
<1>3. Free \in SlotStates /\ Free \in OpStates /\ Free.pc = "free"
  BY DEF Free, SlotStates, OpStates
<1>4. TypeOK
  BY <1>1, <1>2, <1>3, LifecycleAssumption DEF Init, Start, TypeOK
<1>5. Hands
  BY <1>1, <1>3 DEF Init, Start, Hands, Results
<1> QED
  BY <1>4, <1>5 DEF TypeInv

\* The tables of a well-typed state, and the constants put into them.
LEMMA Tables ==
  ASSUME TypeInv
  PROVE  /\ phase \in PhaseTables /\ status \in StatusTables /\ stored \in StatusTables
         /\ {"starting", "running", "awaiting_human", "draining", "stopped",
             "failed", "quarantined", "evicted"} \subseteq Phases
         /\ {"live", "stopped", "failed", "quarantined"} \subseteq Statuses
         /\ None \notin Phases /\ None \notin Statuses /\ None \notin Agents
         /\ NoLoop \in Loops /\ Free \in SlotStates /\ Free \in OpStates
         /\ NoCkpt \in [step : 0..MaxIterations, crash : Nat]
         /\ loop \in [Agents -> Loops] /\ op \in [Ops -> OpStates]
         /\ slot \in [Slots -> SlotStates]
<1>1. NoLoop \in Loops /\ NoCkpt \in [step : 0..MaxIterations, crash : Nat]
  BY LifecycleAssumption DEF NoLoop, Loops, NoCkpt
<1>2. Free \in SlotStates /\ Free \in OpStates
  BY DEF Free, SlotStates, OpStates
<1> QED
  BY <1>1, <1>2, LifecycleAssumption
  DEF TypeInv, TypeOK, PhaseTables, StatusTables, Phases, Statuses

LEMMA ParkFacts ==
  ASSUME TypeInv, NEW a \in Agents, Park(a)
  PROVE  /\ phase' \in PhaseTables
         /\ \A b \in Agents : /\ phase'[b] = None <=> phase[b] = None
                              /\ phase'[b] \in {phase[b], "awaiting_human"}
<1>1. "awaiting_human" \in Phases /\ phase \in PhaseTables
  BY Tables
<1>2. /\ Own(phase, a, "awaiting_human", TRUE) \in PhaseTables
      /\ \A b \in Agents :
             /\ Own(phase, a, "awaiting_human", TRUE)[b] \in {phase[b], "awaiting_human"}
             /\ Own(phase, a, "awaiting_human", TRUE)[b] = None <=> phase[b] = None
  BY <1>1, OwnFacts
<1>3. phase' = Own(phase, a, "awaiting_human", TRUE) \/ phase' = phase
  BY DEF Park
<1> QED
  BY <1>1, <1>2, <1>3, Zenon

LEMMA SaveFacts ==
  ASSUME TypeInv, NEW a \in Agents, NEW step \in 0..MaxIterations, NEW crash \in Nat,
         SaveCkpt(a, step, crash)
  PROVE  ckpt' \in [Agents -> [step : 0..MaxIterations, crash : Nat]]
  BY DEF TypeInv, TypeOK, SaveCkpt

\* Steps of administrative operations.
LEMMA OpTypes ==
  ASSUME TypeInv, OpNext
  PROVE  TypeInv'
<1> USE DEF PhaseTables, StatusTables
<1>1. ASSUME NEW o \in Ops, Created(o) PROVE TypeInv'
  <2> DEFINE a == op[o].agent
  <2>1. a \in Agents /\ Wire(a)
    BY <1>1 DEF Created, TypeInv, TypeOK, Hands
  <2>2. /\ phase' = Transition(phase, a, "running", FALSE)
        /\ op' = [op EXCEPT ![o] = Free]
        /\ UNCHANGED <<kind, slot, pending, ckpt, boot, restarts, updates, born, ghosts>>
    BY <1>1 DEF Created
  <2> HIDE DEF a
  <2>3. phase' \in PhaseTables
    BY <2>1, <2>2, Tables, TransitionFacts
  <2>4. /\ status' \in StatusTables /\ stored' \in StatusTables
        /\ wired' \subseteq Agents /\ loop' \in [Agents -> Loops]
        /\ \A b \in Agents \ {a} : loop'[b] = loop[b]
        /\ loop'[a] \in {loop[a], Resumed(a)}
    BY <2>1, WireFacts DEF TypeInv
  <2>5. op' \in [Ops -> OpStates] /\ \A p \in Ops : op'[p] \in {op[p], Free}
    BY <2>2, Tables
  <2>6. TypeOK'
    BY <2>2, <2>3, <2>4, <2>5 DEF TypeInv, TypeOK, ghosts
  <2>7. Hands'
    BY <2>1, <2>2, <2>4, <2>5 DEF TypeInv, Hands, Resumed, Free, Results
  <2> QED
    BY <2>6, <2>7 DEF TypeInv
<1>2. ASSUME NEW o \in Ops, DeployFails(o) PROVE TypeInv'
  <2> DEFINE a == op[o].agent
  <2>1. a \in Agents
    BY <1>2 DEF DeployFails, TypeInv, TypeOK, Hands
  <2>2. Transition(phase, a, "failed", TRUE) \in PhaseTables
    BY <2>1, Tables, TransitionFacts
  <2>3. TypeOK'
    BY <1>2, <2>1, <2>2, Tables DEF DeployFails, TypeInv, TypeOK, ghosts
  <2>4. Hands'
    BY <1>2, <2>1, Tables DEF DeployFails, TypeInv, Hands, Free
  <2> QED
    BY <2>3, <2>4 DEF TypeInv
<1>3. ASSUME NEW o \in Ops, StopEnds(o) PROVE TypeInv'
  <2> DEFINE a == op[o].agent
             drained == Transition(phase, a, "draining", FALSE)
             ended == Transition(drained, a, "stopped", FALSE)
  <2>1. a \in Agents /\ op[o].pc \in {"stop", "undeploy", "update"}
    BY <1>3 DEF StopEnds, TypeInv, TypeOK, Hands
  <2>2. drained \in PhaseTables
    BY <2>1, Tables, TransitionFacts
  <2>3. ended \in PhaseTables
    <3> HIDE DEF drained, a
    <3> QED
      BY <2>1, <2>2, Tables, TransitionFacts
  <2>4. /\ phase' \in {ended, [ended EXCEPT ![a] = None]}
        /\ status' \in {[status EXCEPT ![a] = None], SetStatus(status, a, "stopped")}
        /\ stored' \in {[stored EXCEPT ![a] = None], SetStatus(stored, a, "stopped")}
    BY <1>3 DEF StopEnds
  <2>5. phase' \in PhaseTables /\ status' \in StatusTables /\ stored' \in StatusTables
    <3> HIDE DEF ended, drained, a
    <3>1. SetStatus(status, a, "stopped") \in StatusTables
      BY <2>1, Tables, StatusFacts
    <3>2. SetStatus(stored, a, "stopped") \in StatusTables
      BY <2>1, Tables, StatusFacts
    <3>3. phase' \in PhaseTables
      BY <2>3, <2>4
    <3>4. status' \in StatusTables
      BY <2>4, <3>1, Tables
    <3>5. stored' \in StatusTables
      BY <2>4, <3>2, Tables
    <3> QED
      BY <3>3, <3>4, <3>5
  <2>6. /\ loop' \in [Agents -> Loops]
        /\ \A b \in Agents : loop'[b].pc \in {"invoking"} \cup Results =>
                                 loop'[b].step < MaxIterations
    <3>1. CancelLoop(a)
      BY <1>3 DEF StopEnds
    <3>2. \A l \in Loops : [l EXCEPT !.pc = "cancelled"] \in Loops
      BY DEF Loops
    <3>3. loop'[a] \in {NoLoop, [loop[a] EXCEPT !.pc = "cancelled"]}
          /\ loop' \in [Agents -> Loops]
          /\ \A b \in Agents \ {a} : loop'[b] = loop[b]
      BY <2>1, <3>1, <3>2, Tables DEF CancelLoop
    <3>4. loop'[a].pc \in {"none", "cancelled"}
      BY <2>1, <3>3, Tables DEF NoLoop, Loops
    <3> QED
      BY <3>3, <3>4 DEF TypeInv, Hands, Results
  <2>7. /\ slot' \in [Slots -> SlotStates] /\ wired' \subseteq Agents
        /\ \A s \in Slots : slot'[s].pc # "free" => slot'[s].agent \in Agents
    <3>1. RemoveJob(a)
      BY <1>3 DEF StopEnds
    <3>2. \A s \in Slots : \/ slot[s].pc # "free" /\ slot[s] \in SlotStates
                           \/ slot[s].pc = "free" /\ slot[s] \in SlotStates
      BY DEF TypeInv, TypeOK
    <3>3. \A l \in SlotStates : /\ [l EXCEPT !.pc = "cancelled"] \in SlotStates
                                /\ [l EXCEPT !.pc = "cancelled"].agent = l.agent
      BY DEF SlotStates
    <3>4. slot' \in [Slots -> SlotStates]
          /\ \A s \in Slots :
                \/ slot'[s] = slot[s]
                \/ slot[s] = [pc |-> "job", agent |-> a] /\ slot'[s].agent = slot[s].agent
      BY <3>1, <3>2, <3>3, Tables DEF RemoveJob
    <3>5. wired' \subseteq Agents
      BY <3>1 DEF RemoveJob, TypeInv, TypeOK
    <3> QED
      BY <2>1, <3>4, <3>5 DEF TypeInv, Hands
  <2>8. /\ kind' \in [Agents -> Kinds] /\ op' \in [Ops -> OpStates]
        /\ \A p \in Ops : op'[p].pc # "free" => op[p].pc # "free" /\ op'[p].agent = op[p].agent
    <3>1. [op[o] EXCEPT !.pc = "rewire"] \in OpStates
      BY <2>1, Tables DEF OpStates, OpKinds
    <3>2. CASE op[o].pc = "update"
      <4>1. /\ \E k \in Kinds \ {kind[a]} : kind' = [kind EXCEPT ![a] = k]
            /\ op' = [op EXCEPT ![o].pc = "rewire"]
        BY <1>3, <3>2 DEF StopEnds
      <4>2. op' \in [Ops -> OpStates]
        BY <3>1, <4>1, Tables
      <4> QED
        BY <2>1, <3>1, <4>1, <4>2, Tables DEF TypeInv, TypeOK, OpStates
    <3>3. CASE op[o].pc # "update"
      <4>1. kind' = kind /\ op' = [op EXCEPT ![o] = Free]
        BY <1>3, <3>3 DEF StopEnds
      <4> QED
        BY <2>1, <4>1, Tables DEF TypeInv, TypeOK, Free
    <3> QED
      BY <3>2, <3>3
  <2>9. /\ ckpt' = [ckpt EXCEPT ![a] = NoCkpt] /\ finished' = [finished EXCEPT ![a] = {}]
        /\ streak' = [streak EXCEPT ![a] = 0]
        /\ overtaken' \in {overtaken \cup {a}, overtaken \ {a}}
        /\ UNCHANGED <<pending, boot, restarts, updates, born>>
    BY <1>3 DEF StopEnds
  <2>10. TypeOK'
    <3> HIDE DEF ended, drained, a
    <3>1. ckpt' \in [Agents -> [step : 0..MaxIterations, crash : Nat]]
      BY <2>1, <2>9, Tables DEF TypeInv, TypeOK
    <3> QED
      BY <2>1, <2>5, <2>6, <2>7, <2>8, <2>9, <3>1 DEF TypeInv, TypeOK
  <2>11. Hands'
    BY <2>6, <2>7, <2>8, <2>9 DEF TypeInv, Hands
  <2> QED
    BY <2>10, <2>11 DEF TypeInv
<1>4. ASSUME NEW o \in Ops, Rewire(o) PROVE TypeInv'
  <2> DEFINE a == op[o].agent
  <2>1. a \in Agents /\ Wire(a)
    BY <1>4 DEF Rewire, TypeInv, TypeOK, Hands
  <2>2. /\ overtaken' = overtaken \cup {a} /\ op' = [op EXCEPT ![o] = Free]
        /\ UNCHANGED <<phase, kind, slot, pending, ckpt, boot, restarts, updates,
                       born, finished, streak>>
    BY <1>4 DEF Rewire
  <2> HIDE DEF a
  <2>4. /\ status' \in StatusTables /\ stored' \in StatusTables
        /\ wired' \subseteq Agents /\ loop' \in [Agents -> Loops]
        /\ \A b \in Agents \ {a} : loop'[b] = loop[b]
        /\ loop'[a] \in {loop[a], Resumed(a)}
    BY <2>1, WireFacts DEF TypeInv
  <2>5. op' \in [Ops -> OpStates] /\ \A p \in Ops : op'[p] \in {op[p], Free}
    BY <2>2, Tables
  <2>6. TypeOK'
    BY <2>1, <2>2, <2>4, <2>5 DEF TypeInv, TypeOK
  <2>7. Hands'
    BY <2>1, <2>2, <2>4, <2>5 DEF TypeInv, Hands, Resumed, Free, Results
  <2> QED
    BY <2>6, <2>7 DEF TypeInv
<1>5. ASSUME NEW o \in Ops, RecoverFails(o) PROVE TypeInv'
  <2> DEFINE a == op[o].agent
  <2>1. a \in Agents /\ Move(a, "failed", TRUE) /\ op' = [op EXCEPT ![o] = Free]
        /\ UNCHANGED <<kind, wired, loop, slot, pending, ckpt, boot, restarts, updates, born, ghosts>>
    BY <1>5 DEF RecoverFails, TypeInv, TypeOK, Hands
  <2> HIDE DEF a
  <2>2. /\ phase' \in PhaseTables /\ status' \in StatusTables /\ stored' \in StatusTables
    BY <2>1, Tables, MoveFacts
  <2>3. op' \in [Ops -> OpStates] /\ \A p \in Ops : op'[p] \in {op[p], Free}
    BY <2>1, Tables
  <2>4. TypeOK'
    BY <2>1, <2>2, <2>3 DEF TypeInv, TypeOK, ghosts
  <2>5. Hands'
    BY <2>1, <2>3 DEF TypeInv, Hands, Free
  <2> QED
    BY <2>4, <2>5 DEF TypeInv
<1>6. ASSUME NEW o \in Ops, NEW a \in Agents, Deploy(o, a) PROVE TypeInv'
  <2>1. [pc |-> "deploy", agent |-> a] \in OpStates
    BY DEF OpStates, OpKinds
  <2>2. TypeOK'
    BY <1>6, <2>1, Tables DEF Deploy, TypeInv, TypeOK, ghosts
  <2>3. Hands'
    BY <1>6, Tables DEF Deploy, TypeInv, Hands
  <2> QED
    BY <2>2, <2>3 DEF TypeInv
<1>7. ASSUME NEW o \in Ops, NEW a \in Agents, Recover(o, a) PROVE TypeInv'
  <2>1. [pc |-> "recover", agent |-> a] \in OpStates
    BY DEF OpStates, OpKinds
  <2>2. /\ phase' \in {phase, [phase EXCEPT ![a] = "starting"]}
        /\ op' \in {op, [op EXCEPT ![o] = [pc |-> "recover", agent |-> a]]}
        /\ boot' = boot \ {a}
        /\ UNCHANGED <<status, stored, kind, wired, loop, slot, pending, ckpt,
                       restarts, updates, born, ghosts>>
    BY <1>7 DEF Recover
  <2>3. phase' \in PhaseTables
    BY <2>2, Tables
  <2>4. op' \in [Ops -> OpStates]
        /\ \A p \in Ops : op'[p] \in {op[p], [pc |-> "recover", agent |-> a]}
    BY <2>1, <2>2, Tables
  <2>5. TypeOK'
    BY <2>2, <2>3, <2>4 DEF TypeInv, TypeOK, ghosts
  <2>6. Hands'
    BY <2>2, <2>4 DEF TypeInv, Hands
  <2> QED
    BY <2>5, <2>6 DEF TypeInv
<1>8. ASSUME NEW o \in Ops, NEW a \in Agents, NEW k \in {"stop", "undeploy", "update"},
             Stop(o, a, k)
      PROVE  TypeInv'
  <2>1. [pc |-> k, agent |-> a] \in OpStates
    BY DEF OpStates, OpKinds
  <2>2. updates' \in 0..MaxUpdates
    BY <1>8, LifecycleAssumption DEF Stop, TypeInv, TypeOK
  <2>3. TypeOK'
    BY <1>8, <2>1, <2>2, Tables DEF Stop, TypeInv, TypeOK, agentVars, ghosts
  <2>4. Hands'
    BY <1>8, Tables DEF Stop, TypeInv, Hands
  <2> QED
    BY <2>3, <2>4 DEF TypeInv
<1> QED
  BY <1>1, <1>2, <1>3, <1>4, <1>5, <1>6, <1>7, <1>8 DEF OpNext

\* Steps of invocations and answers.
LEMMA SlotTypes ==
  ASSUME TypeInv, SlotNext
  PROVE  TypeInv'
<1> USE DEF PhaseTables, StatusTables
<1>1. PICK s \in Slots :
          \/ InvokeReturns(s) \/ Cancelled(s) \/ ReadPending(s) \/ Settle(s)
          \/ \E a \in Agents : Answer(s, a) \/ Invoke(s, a, "job") \/ Invoke(s, a, "request")
  BY DEF SlotNext
<1>2. \A a \in Agents, pc \in {"job", "request", "answered"} :
          [pc |-> pc, agent |-> a] \in SlotStates
  BY DEF SlotStates
<1>3. \A pc \in {"keep", "resume", "request"} : [slot[s] EXCEPT !.pc = pc] \in SlotStates
  BY <1>1 DEF TypeInv, TypeOK, SlotStates
<1>4. \A t \in Slots : slot[t] \in SlotStates
  BY DEF TypeInv, TypeOK
<1>5. CASE InvokeReturns(s)
  <2>1. PICK r \in {"live", "failed"} : Write(slot[s].agent, r)
    BY <1>5 DEF InvokeReturns
  <2>2. slot[s].agent \in Agents /\ Park(slot[s].agent) /\ slot' = [slot EXCEPT ![s] = Free]
        /\ UNCHANGED <<kind, wired, loop, op, pending, ckpt, boot, restarts, updates, born, ghosts>>
    BY <1>1, <1>5 DEF InvokeReturns, TypeInv, Hands
  <2>3. status' \in StatusTables /\ stored' \in StatusTables
    BY <2>1, <2>2, WriteFacts, Tables
  <2>4. phase' \in PhaseTables
    BY <2>2, ParkFacts
  <2>5. slot' \in [Slots -> SlotStates]
    BY <2>2, Tables
  <2>6. TypeOK'
    BY <2>2, <2>3, <2>4, <2>5 DEF TypeInv, TypeOK, ghosts
  <2>7. Hands'
    BY <2>2, Tables DEF TypeInv, Hands, Free
  <2> QED
    BY <2>6, <2>7 DEF TypeInv
<1>6. CASE Cancelled(s)
  <2>2. slot[s].agent \in Agents /\ Park(slot[s].agent) /\ slot' = [slot EXCEPT ![s] = Free]
        /\ UNCHANGED <<status, stored, kind, wired, loop, op, pending, ckpt, boot,
                       restarts, updates, born, ghosts>>
    BY <1>1, <1>6 DEF Cancelled, TypeInv, Hands
  <2>4. phase' \in PhaseTables
    BY <2>2, ParkFacts
  <2>5. slot' \in [Slots -> SlotStates]
    BY <2>2, Tables
  <2>6. TypeOK'
    BY <2>2, <2>4, <2>5 DEF TypeInv, TypeOK, ghosts
  <2>7. Hands'
    BY <2>2, Tables DEF TypeInv, Hands, Free
  <2> QED
    BY <2>6, <2>7 DEF TypeInv
<1>7. CASE ReadPending(s)
  <2>1. PICK pc \in {"keep", "resume"} : slot' = [slot EXCEPT ![s] = [slot[s] EXCEPT !.pc = pc]]
    BY <1>7 DEF ReadPending
  <2>2. slot[s].pc # "free"
        /\ UNCHANGED <<agentVars, wired, loop, op, pending, ckpt, boot, restarts,
                       updates, born, ghosts>>
    BY <1>7 DEF ReadPending
  <2>3. slot' \in [Slots -> SlotStates]
    BY <1>3, <2>1, Tables
  <2>4. TypeOK'
    BY <2>2, <2>3 DEF TypeInv, TypeOK, agentVars, ghosts
  <2>5. Hands'
    BY <1>4, <2>1, <2>2, Tables DEF TypeInv, Hands, SlotStates
  <2> QED
    BY <2>4, <2>5 DEF TypeInv
<1>8. CASE Settle(s)
  <2> DEFINE a == slot[s].agent
  <2>1. /\ a \in Agents /\ slot[s].pc # "free"
        /\ \E new \in {"running", "awaiting_human"} : phase' = Own(phase, a, new, TRUE)
        /\ \/ Write(a, "live") /\ slot' = [slot EXCEPT ![s] = [slot[s] EXCEPT !.pc = "request"]]
           \/ UNCHANGED <<status, stored>> /\ slot' = [slot EXCEPT ![s] = Free]
        /\ UNCHANGED <<kind, wired, loop, op, pending, ckpt, boot, restarts, updates, born, ghosts>>
    BY <1>1, <1>8 DEF Settle, TypeInv, Hands
  <2>2. phase' \in PhaseTables
    <3>1. PICK new \in {"running", "awaiting_human"} : phase' = Own(phase, a, new, TRUE)
      BY <2>1
    <3> HIDE DEF a, PhaseTables
    <3>2. new \in Phases /\ phase \in PhaseTables
      BY Tables
    <3> QED
      BY <2>1, <3>1, <3>2, OwnFacts
  <2>3. status' \in StatusTables /\ stored' \in StatusTables
    <3> HIDE DEF a
    <3>1. CASE Write(a, "live")
      BY <2>1, <3>1, WriteFacts, Tables
    <3> QED
      BY <2>1, <3>1, Tables
  <2>4. slot' \in [Slots -> SlotStates]
    BY <1>3, <2>1, Tables
  <2>5. TypeOK'
    <3> HIDE DEF a
    <3> QED
      BY <2>1, <2>2, <2>3, <2>4 DEF TypeInv, TypeOK, ghosts
  <2>6. Hands'
    BY <1>4, <2>1, Tables DEF TypeInv, Hands, Free, SlotStates
  <2> QED
    BY <2>5, <2>6 DEF TypeInv
<1>9. ASSUME NEW a \in Agents, Answer(s, a) PROVE TypeInv'
  <2>3. slot' \in [Slots -> SlotStates]
    BY <1>2, <1>9, Tables DEF Answer
  <2>4. pending' \in [Agents -> Nat]
    <3>1. pending[a] \in Nat /\ pending[a] > 0 /\ pending' = [pending EXCEPT ![a] = pending[a] - 1]
      BY <1>9 DEF Answer, TypeInv, TypeOK
    <3>2. pending[a] - 1 \in Nat
      BY <3>1
    <3> QED
      BY <3>1, <3>2 DEF TypeInv, TypeOK
  <2>1. TypeOK'
    BY <1>9, <2>3, <2>4 DEF Answer, TypeInv, TypeOK, agentVars, ghosts
  <2>2. Hands'
    BY <1>1, <1>9, Tables DEF Answer, TypeInv, Hands
  <2> QED
    BY <2>1, <2>2 DEF TypeInv
<1>10. ASSUME NEW a \in Agents, NEW pc \in {"job", "request"}, Invoke(s, a, pc) PROVE TypeInv'
  <2>1. /\ Write(a, "live") /\ slot' = [slot EXCEPT ![s] = [pc |-> pc, agent |-> a]]
        /\ UNCHANGED <<phase, kind, wired, loop, op, pending, ckpt, boot, restarts,
                       updates, born, ghosts>>
    BY <1>10 DEF Invoke
  <2>2. status' \in StatusTables /\ stored' \in StatusTables
    BY <2>1, WriteFacts, Tables
  <2>3. slot' \in [Slots -> SlotStates]
    BY <1>2, <2>1, Tables
  <2>4. TypeOK'
    BY <2>1, <2>2, <2>3 DEF TypeInv, TypeOK, ghosts
  <2>5. Hands'
    BY <2>1, Tables DEF TypeInv, Hands
  <2> QED
    BY <2>4, <2>5 DEF TypeInv
<1> QED
  BY <1>1, <1>5, <1>6, <1>7, <1>8, <1>9, <1>10

\* Steps of the autonomous loop.
LEMMA LoopTypes ==
  ASSUME TypeInv, NEW a \in Agents, AgentLoopNext(a)
  PROVE  TypeInv'
<1> USE DEF PhaseTables, StatusTables
<1>1. loop[a] \in Loops /\ loop[a].step \in 0..MaxIterations /\ loop[a].crash \in Nat
  BY DEF TypeInv, TypeOK, Loops
<1>2. \A l \in Loops : (loop' = [loop EXCEPT ![a] = l]
                           /\ (l.pc \in {"invoking"} \cup Results => l.step < MaxIterations))
          => /\ loop' \in [Agents -> Loops]
             /\ \A b \in Agents : loop'[b].pc \in {"invoking"} \cup Results =>
                                      loop'[b].step < MaxIterations
  BY Tables DEF TypeInv, Hands
<1>3. NoLoop \in Loops /\ NoLoop.pc \notin {"invoking"} \cup Results
  BY Tables DEF NoLoop, Results
<1>4. CASE LoopEnds(a)
  <2>1. Write(a, "live") \/ UNCHANGED <<status, stored>>
    BY <1>4 DEF LoopEnds
  <2>2. status' \in StatusTables /\ stored' \in StatusTables
    BY <2>1, WriteFacts, Tables
  <2>3. loop' = [loop EXCEPT ![a] = NoLoop]
        /\ UNCHANGED <<phase, kind, wired, slot, op, pending, ckpt, boot, restarts,
                       updates, born, ghosts>>
    BY <1>4 DEF LoopEnds, EndLoop
  <2> QED
    BY <1>2, <1>3, <2>2, <2>3 DEF TypeInv, TypeOK, Hands, ghosts
<1>5. CASE LoopInvokes(a)
  <2>1. /\ Write(a, "live") /\ loop[a].step < MaxIterations
        /\ loop' = [loop EXCEPT ![a] = [loop[a] EXCEPT !.pc = "invoking"]]
        /\ UNCHANGED <<phase, kind, wired, slot, op, pending, ckpt, boot, restarts,
                       updates, born, ghosts>>
    BY <1>5 DEF LoopInvokes
  <2>2. status' \in StatusTables /\ stored' \in StatusTables
    BY <2>1, WriteFacts, Tables
  <2>3. [loop[a] EXCEPT !.pc = "invoking"] \in Loops
        /\ [loop[a] EXCEPT !.pc = "invoking"].step = loop[a].step
    BY <1>1 DEF Loops
  <2> QED
    BY <1>2, <2>1, <2>2, <2>3 DEF TypeInv, TypeOK, Hands, ghosts
<1>6. CASE LoopCrashes(a)
  <2> DEFINE crash == loop[a].crash + 1
             again == [pc |-> "top", step |-> loop[a].step + 1, crash |-> crash]
  <2>1. /\ loop[a].step < MaxIterations /\ SaveCkpt(a, loop[a].step, crash)
        /\ streak' = [streak EXCEPT ![a] = streak[a] + 1]
        /\ phase' \in {phase, Transition(phase, a, "quarantined", TRUE)}
        /\ status' \in {SetStatus(status, a, "quarantined"), SetStatus(status, a, "live")}
        /\ stored' \in {stored, SetStatus(stored, a, "quarantined")}
        /\ loop' \in {[loop EXCEPT ![a] = NoLoop], [loop EXCEPT ![a] = again]}
        /\ UNCHANGED <<kind, wired, slot, op, pending, boot, restarts, updates, born,
                       finished, overtaken>>
    BY <1>6 DEF LoopCrashes, EndLoop
  <2>2. crash \in Nat /\ again \in Loops /\ again.pc = "top"
    <3>1. loop[a].step + 1 \in 0..MaxIterations /\ crash \in Nat
      BY <1>1, <2>1, LifecycleAssumption
    <3> QED
      BY <3>1 DEF Loops
  <2> HIDE DEF again, crash
  <2>3. ckpt' \in [Agents -> [step : 0..MaxIterations, crash : Nat]]
    BY <1>1, <2>1, <2>2, SaveFacts
  <2>4. phase' \in PhaseTables
    <3>1. Transition(phase, a, "quarantined", TRUE) \in PhaseTables
      BY Tables, TransitionFacts
    <3> QED
      BY <2>1, <3>1, Tables
  <2>5. status' \in StatusTables /\ stored' \in StatusTables
    <3> HIDE DEF StatusTables
    <3>1. \A st \in {status, stored}, s \in {"live", "quarantined"} :
              SetStatus(st, a, s) \in StatusTables
      BY Tables, StatusFacts
    <3>2. status \in StatusTables /\ stored \in StatusTables
      BY Tables
    <3> QED
      BY <2>1, <3>1, <3>2
  <2>6. /\ loop' \in [Agents -> Loops]
        /\ \A b \in Agents : loop'[b].pc \in {"invoking"} \cup Results =>
                                 loop'[b].step < MaxIterations
    BY <1>2, <1>3, <2>1, <2>2 DEF Results
  <2>7. streak' \in [Agents -> Nat]
    BY <2>1 DEF TypeInv, TypeOK
  <2> QED
    BY <2>1, <2>3, <2>4, <2>5, <2>6, <2>7 DEF TypeInv, TypeOK, Hands
<1>7. CASE LoopReturns(a)
  <2>1. PICK r \in Results : /\ Write(a, Outcome(r))
                             /\ loop' = [loop EXCEPT ![a] = [loop[a] EXCEPT !.pc = r]]
    BY <1>7 DEF LoopReturns
  <2>2. /\ Park(a) /\ loop[a].pc = "invoking"
        /\ finished' = [finished EXCEPT ![a] = finished[a] \cup {loop[a].step}]
        /\ UNCHANGED <<kind, wired, slot, op, pending, ckpt, boot, restarts, updates,
                       born, streak, overtaken>>
    BY <1>7 DEF LoopReturns
  <2>3. Outcome(r) \in Statuses
    BY DEF Outcome, Statuses
  <2>4. status' \in StatusTables /\ stored' \in StatusTables
    BY <2>1, <2>3, WriteFacts, Tables
  <2>5. phase' \in PhaseTables
    BY <2>2, ParkFacts
  <2>6. [loop[a] EXCEPT !.pc = r] \in Loops /\ [loop[a] EXCEPT !.pc = r].step < MaxIterations
    BY <1>1, <2>2 DEF Loops, TypeInv, Hands
  <2>7. /\ loop' \in [Agents -> Loops]
        /\ \A b \in Agents : loop'[b].pc \in {"invoking"} \cup Results =>
                                 loop'[b].step < MaxIterations
    BY <1>2, <2>1, <2>6
  <2>8. finished' \in [Agents -> SUBSET (0..MaxIterations)]
    BY <1>1, <2>2 DEF TypeInv, TypeOK
  <2> QED
    BY <2>2, <2>4, <2>5, <2>7, <2>8 DEF TypeInv, TypeOK, Hands
<1>8. CASE LoopSaves(a)
  <2> DEFINE next == loop[a].step + 1
             again == [pc |-> "top", step |-> next, crash |-> 0]
  <2>1. /\ loop[a].pc \in Results
        /\ streak' = [streak EXCEPT ![a] = 0]
        /\ \/ Write(a, "live") \/ Write(a, "failed") \/ UNCHANGED <<status, stored>>
        /\ ckpt' = [ckpt EXCEPT ![a] = NoCkpt] \/ SaveCkpt(a, next, 0)
        /\ finished' \in {finished, [finished EXCEPT ![a] = {}]}
        /\ loop' \in {[loop EXCEPT ![a] = NoLoop], [loop EXCEPT ![a] = again]}
        /\ UNCHANGED <<phase, kind, wired, slot, op, pending, boot, restarts, updates,
                       born, overtaken>>
    BY <1>8 DEF LoopSaves, EndLoop
  <2>2. next \in 0..MaxIterations /\ again \in Loops /\ again.pc = "top"
    <3>1. loop[a].step < MaxIterations
      BY <2>1 DEF TypeInv, Hands
    <3>2. next \in 0..MaxIterations
      BY <1>1, <3>1, LifecycleAssumption
    <3> QED
      BY <3>2 DEF Loops
  <2> HIDE DEF again, next
  <2>3. ckpt' \in [Agents -> [step : 0..MaxIterations, crash : Nat]]
    <3>1. CASE ckpt' = [ckpt EXCEPT ![a] = NoCkpt]
      BY <3>1, Tables DEF TypeInv, TypeOK
    <3>2. CASE SaveCkpt(a, next, 0)
      BY <2>2, <3>2, SaveFacts
    <3> QED
      BY <2>1, <3>1, <3>2
  <2>4. status' \in StatusTables /\ stored' \in StatusTables
    BY <2>1, WriteFacts, Tables
  <2>5. /\ loop' \in [Agents -> Loops]
        /\ \A b \in Agents : loop'[b].pc \in {"invoking"} \cup Results =>
                                 loop'[b].step < MaxIterations
    BY <1>2, <1>3, <2>1, <2>2 DEF Results
  <2>6. /\ streak' \in [Agents -> Nat]
        /\ finished' \in [Agents -> SUBSET (0..MaxIterations)]
    BY <2>1 DEF TypeInv, TypeOK
  <2> QED
    BY <2>1, <2>3, <2>4, <2>5, <2>6 DEF TypeInv, TypeOK, Hands
<1>9. CASE LoopCancelled(a)
  <2>1. /\ Park(a) /\ loop' = [loop EXCEPT ![a] = NoLoop]
        /\ UNCHANGED <<status, stored, kind, wired, slot, op, pending, ckpt, boot,
                       restarts, updates, born, ghosts>>
    BY <1>9 DEF LoopCancelled, EndLoop
  <2>2. phase' \in PhaseTables
    BY <2>1, ParkFacts
  <2> QED
    BY <1>2, <1>3, <2>1, <2>2 DEF TypeInv, TypeOK, Hands, ghosts
<1> QED
  BY <1>4, <1>5, <1>6, <1>7, <1>8, <1>9 DEF AgentLoopNext

LEMMA NextTypes ==
  ASSUME TypeInv, [Next]_vars
  PROVE  TypeInv'
<1> USE DEF PhaseTables, StatusTables
<1>1. CASE Restart
  <2>1. restarts' \in 0..MaxRestarts
    BY <1>1, LifecycleAssumption DEF Restart, TypeInv, TypeOK
  <2>2. /\ phase' \in PhaseTables
        /\ ckpt' \in [Agents -> [step : 0..MaxIterations, crash : Nat]]
    BY <1>1, Tables DEF Restart, TypeInv, TypeOK
  <2>3. /\ loop' = [a \in Agents |-> NoLoop] /\ slot' = [s \in Slots |-> Free]
        /\ op' = [o \in Ops |-> Free] /\ pending' = [a \in Agents |-> 0]
        /\ status' = stored /\ wired' = {} /\ boot' \subseteq Agents
        /\ overtaken' = {}
        /\ UNCHANGED <<stored, kind, born, updates, finished, streak>>
    BY <1>1 DEF Restart
  <2>4. TypeOK'
    BY <2>1, <2>2, <2>3, Tables DEF TypeInv, TypeOK
  <2>5. Hands'
    BY <2>3 DEF Hands, NoLoop, Free, Results
  <2> QED
    BY <2>4, <2>5 DEF TypeInv
<1>2. ASSUME NEW a \in Agents, Ask(a) \/ Expire(a) PROVE TypeInv'
  <2>1. pending' \in [Agents -> Nat]
    <3>1. CASE Ask(a)
      BY <3>1 DEF Ask, TypeInv, TypeOK
    <3>2. CASE Expire(a)
      <4>1. pending[a] \in Nat /\ pending[a] > 0
            /\ pending' = [pending EXCEPT ![a] = pending[a] - 1]
        BY <3>2 DEF Expire, TypeInv, TypeOK
      <4>2. pending[a] - 1 \in Nat
        BY <4>1
      <4> QED
        BY <4>1, <4>2 DEF TypeInv, TypeOK
    <3> QED
      BY <1>2, <3>1, <3>2
  <2> QED
    BY <1>2, <2>1 DEF Ask, Expire, TypeInv, TypeOK, Hands, agentVars, ghosts
<1>3. ASSUME NEW a \in Agents, Signal(a) PROVE TypeInv'
  <2>1. PICK new \in Phases, force \in BOOLEAN : Move(a, new, force)
    BY <1>3, Tables DEF Signal
  <2>2. phase' \in PhaseTables /\ status' \in StatusTables /\ stored' \in StatusTables
    BY <2>1, MoveFacts, Tables
  <2> QED
    BY <1>3, <2>2 DEF Signal, TypeInv, TypeOK, Hands, ghosts
<1>4. CASE UNCHANGED vars
  BY <1>4 DEF vars, TypeInv, TypeOK, Hands
<1> QED
  BY <1>1, <1>2, <1>3, <1>4, OpTypes, SlotTypes, LoopTypes DEF Next

\* Every table of the life of agents keeps its type, whatever the agents and the
\* order in which operations, invocations, loops and restarts interleave.
THEOREM LifecycleTypes == Spec => []TypeOK
<1>1. Init => TypeInv
  BY InitTypes
<1>2. TypeInv /\ [Next]_vars => TypeInv'
  BY NextTypes
<1>3. TypeInv => TypeOK
  BY DEF TypeInv
<1> QED
  BY <1>1, <1>2, <1>3, PTL DEF Spec

-----------------------------------------------------------------------------
(* The end of a parent.                                                    *)

\* The children of every agent that ends from old to new are drained in new.
Drained(old, new) ==
    \A c \in Agents : LET p == Parent[c] IN
        p # None /\ old[p] \notin Ending \cup {None} /\ new[p] \in Ending
          => new[c] \in {"stopped", "draining", None}

LEMMA Parents == \A c \in Agents : Parent[c] # None => Parent[c] \in Agents
  BY LifecycleAssumption

LEMMA NoneEnds ==
  ASSUME NEW old, NEW new,
         \A b \in Agents : new[b] = old[b] \/ new[b] \notin Ending
  PROVE  Drained(old, new)
  BY Parents DEF Drained

LEMMA TransitionDrains ==
  ASSUME NEW ph \in PhaseTables, NEW a \in Agents, NEW new \in Phases,
         NEW force \in BOOLEAN
  PROVE  Drained(ph, Transition(ph, a, new, force))
<1> DEFINE T == Transition(ph, a, new, force)
<1> SUFFICES Drained(ph, T)
  OBVIOUS
<1>1. CASE new \in Ending
  <2>1. \A c \in Agents : /\ c # a => T[c] \in {ph[c], "draining"}
                          /\ Parent[c] = a /\ ph[a] # None
                                 => T[c] \in {None, "stopped", "draining"}
    BY <1>1, TransitionFacts
  <2> HIDE DEF T
  <2>2. "draining" \notin Ending
    BY DEF Ending
  <2> QED
    BY <2>1, <2>2, Parents DEF Drained
<1>2. CASE new \notin Ending
  <2>1. \A c \in Agents : T[c] \in {ph[c], new}
    BY <1>2, TransitionFacts
  <2> HIDE DEF T
  <2> QED
    BY <1>2, <2>1, NoneEnds
<1> QED
  BY <1>1, <1>2

\* The removal of an agent ends nobody.
LEMMA RemovalDrains ==
  ASSUME NEW ph \in PhaseTables, NEW new \in PhaseTables, NEW a \in Agents,
         Drained(ph, new)
  PROVE  Drained(ph, [new EXCEPT ![a] = None])
<1>1. None \notin Ending
  BY Words
<1> QED
  BY <1>1, Parents DEF Drained, PhaseTables

LEMMA StopDrains ==
  ASSUME TypeInv, NEW o \in Ops, StopEnds(o)
  PROVE  Drained(phase, phase')
<1> DEFINE a == op[o].agent
           drained == Transition(phase, a, "draining", FALSE)
           ended == Transition(drained, a, "stopped", FALSE)
<1>1. a \in Agents
  BY DEF StopEnds, TypeInv, TypeOK, Hands
<1>2. phase' \in {ended, [ended EXCEPT ![a] = None]}
  BY DEF StopEnds
<1>3. phase \in PhaseTables /\ {"draining", "stopped"} \subseteq Phases
  BY Tables
<1> HIDE DEF a
<1>4. /\ drained \in PhaseTables
      /\ \A b \in Agents : drained[b] \in {phase[b], "draining"}
  <2>1. "draining" \notin Ending
    BY DEF Ending
  <2> QED
    BY <1>1, <1>3, <2>1, TransitionFacts
<1> HIDE DEF drained
<1>5. ended \in PhaseTables /\ Drained(drained, ended)
  BY <1>1, <1>3, <1>4, TransitionFacts, TransitionDrains
<1> HIDE DEF ended
<1>6. Drained(phase, ended)
  <2>1. "draining" \notin Ending \cup {None}
    BY Words, Tables DEF Ending
  <2> QED
    BY <1>4, <1>5, <2>1, Parents DEF Drained
<1>7. Drained(phase, [ended EXCEPT ![a] = None])
  BY <1>1, <1>3, <1>5, <1>6, RemovalDrains
<1> QED
  BY <1>2, <1>6, <1>7

LEMMA NextDrains ==
  ASSUME TypeInv, Next
  PROVE  Drained(phase, phase')
<1>1. phase \in PhaseTables /\ {"running", "starting", "awaiting_human", "failed",
                                "quarantined"} \subseteq Phases
  BY Tables
<1>2. {"starting", "running", "awaiting_human", None} \cap Ending = {}
  BY Words, Tables DEF Ending
<1>3. CASE UNCHANGED phase
  BY <1>3, NoneEnds
<1>4. ASSUME NEW o \in Ops, Created(o) PROVE Drained(phase, phase')
  <2>1. op[o].agent \in Agents /\ phase' = Transition(phase, op[o].agent, "running", FALSE)
    BY <1>4 DEF Created, TypeInv, TypeOK, Hands
  <2> QED
    BY <1>1, <2>1, TransitionDrains
<1>5. ASSUME NEW o \in Ops, DeployFails(o) PROVE Drained(phase, phase')
  <2> DEFINE a == op[o].agent
             failed == Transition(phase, a, "failed", TRUE)
  <2>1. a \in Agents /\ phase' = [failed EXCEPT ![a] = None]
    BY <1>5 DEF DeployFails, TypeInv, TypeOK, Hands
  <2> HIDE DEF a
  <2>2. failed \in PhaseTables /\ Drained(phase, failed)
    BY <1>1, <2>1, TransitionFacts, TransitionDrains
  <2> HIDE DEF failed
  <2> QED
    BY <1>1, <2>1, <2>2, RemovalDrains
<1>6. ASSUME NEW o \in Ops, NEW a \in Agents, Deploy(o, a) \/ Recover(o, a)
      PROVE  Drained(phase, phase')
  <2>1. phase' \in {phase, [phase EXCEPT ![a] = "starting"]}
    BY <1>6 DEF Deploy, Recover
  <2>2. \A b \in Agents : phase'[b] \in {phase[b], "starting"}
    BY <1>1, <2>1 DEF PhaseTables
  <2> QED
    BY <1>2, <2>2, NoneEnds
<1>7. ASSUME NEW a \in Agents, NEW new \in Phases, NEW force \in BOOLEAN, Move(a, new, force)
      PROVE  Drained(phase, phase')
  BY <1>1, <1>7, TransitionDrains DEF Move
<1>8. ASSUME NEW a \in Agents, Park(a) PROVE Drained(phase, phase')
  BY <1>2, <1>8, ParkFacts, NoneEnds
<1>9. ASSUME NEW s \in Slots, Settle(s) PROVE Drained(phase, phase')
  <2>1. PICK new \in {"running", "awaiting_human"} : phase' = Own(phase, slot[s].agent, new, TRUE)
    BY <1>9 DEF Settle
  <2>2. slot[s].agent \in Agents
    BY <1>9 DEF Settle, TypeInv, Hands
  <2>3. \A b \in Agents : phase'[b] \in {phase[b], new}
    <3>1. new \in Phases
      BY <1>1
    <3>2. \A b \in Agents : Own(phase, slot[s].agent, new, TRUE)[b] \in {phase[b], new}
      BY <1>1, <2>2, <3>1, OwnFacts
    <3> QED
      BY <2>1, <3>2
  <2> QED
    BY <1>2, <2>3, NoneEnds
<1>10. ASSUME NEW a \in Agents, LoopCrashes(a) PROVE Drained(phase, phase')
  <2>1. phase' = phase \/ phase' = Transition(phase, a, "quarantined", TRUE)
    BY <1>10 DEF LoopCrashes
  <2> QED
    BY <1>1, <1>3, <2>1, TransitionDrains
<1>11. CASE Restart
  <2>1. \A b \in Agents : phase'[b] \in {phase[b], None}
    BY <1>11 DEF Restart
  <2> QED
    BY <1>2, <2>1, NoneEnds
<1>12. CASE OpNext
  <2>1. ASSUME NEW o \in Ops, RecoverFails(o) PROVE Drained(phase, phase')
    <3>1. op[o].agent \in Agents
      BY <2>1 DEF RecoverFails, TypeInv, Hands
    <3> QED
      BY <1>1, <1>7, <2>1, <3>1 DEF RecoverFails
  <2>2. \A o \in Ops : Rewire(o) => UNCHANGED phase
    BY DEF Rewire
  <2>3. \A o \in Ops, a \in Agents, k \in {"stop", "undeploy", "update"} :
            Stop(o, a, k) => UNCHANGED phase
    BY DEF Stop, agentVars
  <2> QED
    BY <1>3, <1>4, <1>5, <1>6, <1>12, <2>1, <2>2, <2>3, StopDrains DEF OpNext
<1>13. CASE SlotNext
  <2>1. \A s \in Slots : slot[s].pc # "free" => slot[s].agent \in Agents
    BY DEF TypeInv, Hands
  <2>2. \A s \in Slots : InvokeReturns(s) \/ Cancelled(s) => \E a \in Agents : Park(a)
    BY <2>1 DEF InvokeReturns, Cancelled
  <2>3. \A s \in Slots : ReadPending(s) => UNCHANGED phase
    BY DEF ReadPending, agentVars
  <2>4. \A s \in Slots, a \in Agents :
            Answer(s, a) \/ Invoke(s, a, "job") \/ Invoke(s, a, "request") => UNCHANGED phase
    BY DEF Answer, Invoke, agentVars
  <2> QED
    BY <1>3, <1>8, <1>9, <1>13, <2>2, <2>3, <2>4 DEF SlotNext
<1>14. ASSUME NEW a \in Agents, AgentLoopNext(a) \/ Ask(a) \/ Expire(a) \/ Signal(a)
       PROVE  Drained(phase, phase')
  <2>1. LoopEnds(a) \/ LoopInvokes(a) \/ LoopSaves(a) \/ Ask(a) \/ Expire(a) => UNCHANGED phase
    BY DEF LoopEnds, LoopInvokes, LoopSaves, Ask, Expire, agentVars
  <2>2. LoopReturns(a) \/ LoopCancelled(a) => Park(a)
    BY DEF LoopReturns, LoopCancelled
  <2>3. Signal(a) => \E new \in Phases, force \in BOOLEAN : Move(a, new, force)
    BY Tables DEF Signal
  <2> QED
    BY <1>3, <1>7, <1>8, <1>10, <1>14, <2>1, <2>2, <2>3 DEF AgentLoopNext
<1> QED
  BY <1>11, <1>12, <1>13, <1>14 DEF Next

\* The step that ends a parent, whichever operation it belongs to, leaves each
\* of its children stopped, draining or gone (_cascade_to_children).
THEOREM ParentsEnd == Spec => ChildrenDrain
<1>1. Init => TypeInv
  BY InitTypes
<1>2. TypeInv /\ [Next]_vars => TypeInv'
  BY NextTypes
<1>3. TypeInv /\ [Next]_vars
        => [\A c \in Agents : LET p == Parent[c] IN
               p # None /\ phase[p] \notin Ending \cup {None} /\ phase'[p] \in Ending
                 => phase'[c] \in {"stopped", "draining", None}]_vars
  BY NextDrains DEF Drained
<1> QED
  BY <1>1, <1>2, <1>3, PTL DEF Spec, ChildrenDrain

-----------------------------------------------------------------------------
(* The inductive invariant behind stop and removal.                        *)

\* The registry, its store and the operations agree on which agents exist;
\* recovery runs alone, and an agent is deployed by one operation.
Books ==
    /\ \A a \in Agents : /\ status[a] = None <=> stored[a] = None
                         /\ status[a] # None => a \in born
                         /\ status[a] = None => phase[a] = None
    /\ \A a \in boot : status[a] # None
    /\ boot # {} => \A o \in Ops : op[o].pc \in {"free", "recover"}
    /\ \A o \in Ops : /\ op[o].pc # "free" => op[o].agent \in born
                      /\ op[o].pc = "recover" => /\ op[o].agent \notin boot
                                                 /\ status[op[o].agent] # None
    /\ \A o, p \in Ops : /\ op[o].pc = "recover" => op[p].pc = "free" \/ o = p
                         /\ op[o].pc = "deploy" /\ op[p] = op[o] => o = p

\* An agent that waits in create_agent is registered, has a process that has
\* not stopped, and no wiring yet; so is wiring absent until recovery comes to
\* an agent.
Unwired(a) == a \notin wired /\ ~Active(a)

Waiting ==
    /\ \A o \in Ops : op[o].pc \in {"deploy", "recover"} /\ op[o].agent \notin overtaken =>
           /\ status[op[o].agent] # None
           /\ phase[op[o].agent] \notin {None, "stopped"}
           /\ Unwired(op[o].agent)
    /\ \A a \in boot : Unwired(a)

\* A loop that runs has a process.
LoopsHaveProcess == \A a \in Agents \ overtaken : Active(a) => phase[a] # None

StopInv == Books /\ Waiting /\ LoopsHaveProcess /\ StoppedIsUnwired /\ GoneLeavesNothing
LifeInv == TypeInv /\ StopInv

LEMMA InitLife == Init => LifeInv
<1> SUFFICES ASSUME Init PROVE StopInv
  BY InitTypes DEF LifeInv
<1>1. \A o \in Ops : op[o].pc = "free"
  BY DEF Init, Start, Free
<1>2. \A a \in Agents : ~Active(a)
  BY DEF Init, Start, NoLoop, Active
<1>3. Books
  BY <1>1 DEF Init, Start, Books
<1>4. Waiting
  BY <1>1 DEF Init, Start, Waiting
<1>5. LoopsHaveProcess /\ StoppedIsUnwired /\ GoneLeavesNothing
  BY <1>2 DEF Init, Start, LoopsHaveProcess, StoppedIsUnwired, GoneLeavesNothing
<1> QED
  BY <1>3, <1>4, <1>5 DEF StopInv

\* Most steps stop no process, register and remove nobody, wire nobody and
\* begin no operation.
LEMMA QuietStep ==
  ASSUME TypeInv, StopInv,
         \A b \in Agents : /\ phase'[b] = None <=> phase[b] = None
                           /\ phase'[b] = "stopped" => phase[b] = "stopped"
                           /\ status'[b] = None <=> status[b] = None
                           /\ stored'[b] = None <=> stored[b] = None
                           /\ Active(b)' => Active(b),
         wired' \subseteq wired,
         \A o \in Ops : op'[o] \in {op[o], Free},
         UNCHANGED <<boot, born, overtaken>>
  PROVE  StopInv'
<1>1. \A o \in Ops : /\ op[o].pc # "free" => op[o].agent \in Agents
                     /\ op'[o] = op[o] \/ op'[o].pc = "free"
  BY DEF TypeInv, Hands, Free
<1>2. boot \subseteq Agents /\ Agents \ overtaken = Agents \ overtaken'
  BY DEF TypeInv, TypeOK
<1>3. Books'
  BY <1>1, <1>2 DEF StopInv, Books
<1>4. Waiting'
  <2>1. \A a \in Agents : Unwired(a) => Unwired(a)'
    BY DEF Unwired
  <2> QED
    BY <1>1, <1>2, <2>1 DEF StopInv, Waiting
<1>5. LoopsHaveProcess' /\ StoppedIsUnwired' /\ GoneLeavesNothing'
  BY <1>2 DEF StopInv, LoopsHaveProcess, StoppedIsUnwired, GoneLeavesNothing
<1> QED
  BY <1>3, <1>4, <1>5 DEF StopInv

LEMMA QuietSteps ==
  ASSUME TypeInv, StopInv,
         \/ \E o \in Ops : RecoverFails(o)
         \/ SlotNext
         \/ \E a \in Agents : AgentLoopNext(a) \/ Ask(a) \/ Expire(a) \/ Signal(a)
         \/ UNCHANGED vars
  PROVE  StopInv'
<1> DEFINE Tame ==
        \A b \in Agents : /\ phase'[b] = None <=> phase[b] = None
                          /\ phase'[b] = "stopped" => phase[b] = "stopped"
           Written ==
        \A b \in Agents : /\ status'[b] = None <=> status[b] = None
                          /\ stored'[b] = None <=> stored[b] = None
<1>0. /\ phase \in PhaseTables /\ status \in StatusTables /\ stored \in StatusTables
      /\ loop \in [Agents -> Loops]
      /\ {"running", "awaiting_human", "failed", "draining", "evicted", "quarantined"}
             \subseteq Phases
      /\ {"live", "stopped", "failed", "quarantined"} \subseteq Statuses
  BY Tables
<1>1. ASSUME NEW a \in Agents, NEW new \in Phases \ {"stopped"}, NEW force \in BOOLEAN,
             phase' = Transition(phase, a, new, force)
      PROVE  Tame
  <2>1. new \in Phases
    BY <1>1
  <2>2. \A b \in Agents :
            /\ Transition(phase, a, new, force)[b] \in {phase[b], new, "draining"}
            /\ Transition(phase, a, new, force)[b] = None <=> phase[b] = None
    BY <1>0, <2>1, TransitionFacts
  <2> QED
    BY <1>1, <2>2
<1>2. ASSUME NEW a \in Agents, NEW new \in Phases \ {"stopped"}, NEW force \in BOOLEAN,
             Move(a, new, force)
      PROVE  Tame /\ Written
  <2>1. phase' = Transition(phase, a, new, force) /\ Written
    BY <1>0, <1>2, MoveFacts
  <2> QED
    BY <1>1, <2>1
<1>3. ASSUME NEW a \in Agents, NEW new \in {"running", "awaiting_human"},
             phase' = Own(phase, a, new, TRUE)
      PROVE  Tame
  <2>1. new \in Phases
    BY <1>0
  <2>2. \A b \in Agents : /\ Own(phase, a, new, TRUE)[b] \in {phase[b], new}
                          /\ Own(phase, a, new, TRUE)[b] = None <=> phase[b] = None
    <3> HIDE DEF Tame, Written
    <3>1. phase \in PhaseTables /\ TRUE \in BOOLEAN
      BY <1>0
    <3> QED
      BY <2>1, <3>1, OwnFacts
  <2> QED
    BY <1>3, <2>2
<1>4. ASSUME NEW a \in Agents, Park(a) PROVE Tame
  BY <1>4, ParkFacts
<1>5. UNCHANGED phase => Tame
  OBVIOUS
<1>6. ASSUME NEW a \in Agents, NEW s \in Statuses, Write(a, s) PROVE Written
  BY <1>0, <1>6, WriteFacts
<1>7. UNCHANGED <<status, stored>> => Written
  OBVIOUS
<1>8. (UNCHANGED op) => \A o \in Ops : op'[o] \in {op[o], Free}
  OBVIOUS
<1>9. (UNCHANGED loop) => \A b \in Agents : Active(b)' => Active(b)
  BY DEF Active
<1>10. CASE \E o \in Ops : RecoverFails(o)
  <2>1. PICK o \in Ops : RecoverFails(o)
    BY <1>10
  <2>2. op[o].agent \in Agents
    BY <2>1 DEF RecoverFails, TypeInv, Hands
  <2>3. Move(op[o].agent, "failed", TRUE) /\ op' = [op EXCEPT ![o] = Free]
        /\ UNCHANGED <<wired, loop, boot, born, overtaken>>
    BY <2>1 DEF RecoverFails, ghosts
  <2>4. Tame /\ Written
    BY <1>0, <1>2, <2>2, <2>3
  <2>5. \A p \in Ops : op'[p] \in {op[p], Free}
    BY <2>3, Tables
  <2> QED
    BY <1>9, <2>3, <2>4, <2>5, QuietStep
<1>11. CASE SlotNext
  <2>1. UNCHANGED <<wired, loop, op, boot, born, overtaken>>
    BY <1>11 DEF SlotNext, InvokeReturns, Cancelled, ReadPending, Settle, Answer, Invoke, ghosts
  <2>2. \A s \in Slots : slot[s].pc # "free" => slot[s].agent \in Agents
    BY DEF TypeInv, Hands
  <2>3. Tame
    <3>1. ASSUME NEW s \in Slots, Settle(s) PROVE Tame
      <4>1. PICK new \in {"running", "awaiting_human"} :
                phase' = Own(phase, slot[s].agent, new, TRUE)
        BY <3>1 DEF Settle
      <4>2. slot[s].agent \in Agents
        BY <2>2, <3>1 DEF Settle
      <4> QED
        BY <1>3, <4>1, <4>2
    <3>2. ASSUME NEW s \in Slots, InvokeReturns(s) \/ Cancelled(s) PROVE Tame
      <4>1. slot[s].agent \in Agents /\ Park(slot[s].agent)
        BY <2>2, <3>2 DEF InvokeReturns, Cancelled
      <4> QED
        BY <1>4, <4>1
    <3>3. ASSUME NEW s \in Slots,
                 \/ ReadPending(s)
                 \/ \E a \in Agents : Answer(s, a) \/ Invoke(s, a, "job") \/ Invoke(s, a, "request")
          PROVE  UNCHANGED phase
      BY <3>3 DEF ReadPending, Answer, Invoke, agentVars
    <3> HIDE DEF Tame
    <3> QED
      BY <1>5, <1>11, <3>1, <3>2, <3>3 DEF SlotNext
  <2>4. Written
    <3>1. ASSUME NEW s \in Slots, InvokeReturns(s) PROVE Written
      <4>1. slot[s].agent \in Agents /\ \E r \in {"live", "failed"} : Write(slot[s].agent, r)
        BY <2>2, <3>1 DEF InvokeReturns
      <4> QED
        BY <1>0, <1>6, <4>1
    <3>2. ASSUME NEW s \in Slots, Settle(s) PROVE Written
      <4>1. slot[s].agent \in Agents
            /\ (Write(slot[s].agent, "live") \/ UNCHANGED <<status, stored>>)
        BY <2>2, <3>2 DEF Settle
      <4> HIDE DEF Written
      <4> QED
        BY <1>0, <1>6, <1>7, <4>1
    <3>3. ASSUME NEW s \in Slots, NEW a \in Agents, Invoke(s, a, "job") \/ Invoke(s, a, "request")
          PROVE  Written
      BY <1>0, <1>6, <3>3 DEF Invoke
    <3>4. ASSUME NEW s \in Slots,
                 Cancelled(s) \/ ReadPending(s) \/ \E a \in Agents : Answer(s, a)
          PROVE  UNCHANGED <<status, stored>>
      BY <3>4 DEF Cancelled, ReadPending, Answer, agentVars
    <3> HIDE DEF Written
    <3> QED
      BY <1>7, <1>11, <3>1, <3>2, <3>3, <3>4 DEF SlotNext
  <2> QED
    BY <1>8, <1>9, <2>1, <2>3, <2>4, QuietStep
<1>12. ASSUME NEW a \in Agents, AgentLoopNext(a) PROVE StopInv'
  <2>1. UNCHANGED <<wired, op, boot, born, overtaken>>
    BY <1>12 DEF AgentLoopNext, LoopEnds, LoopInvokes, LoopCrashes, LoopReturns, LoopSaves,
                 LoopCancelled, ghosts
  <2>2. Tame
    <3>1. CASE LoopReturns(a) \/ LoopCancelled(a)
      BY <1>4, <3>1 DEF LoopReturns, LoopCancelled
    <3>2. CASE LoopCrashes(a)
      <4>1. phase' = Transition(phase, a, "quarantined", TRUE) \/ UNCHANGED phase
        BY <3>2 DEF LoopCrashes
      <4> HIDE DEF Tame
      <4> QED
        BY <1>0, <1>1, <1>5, <4>1
    <3>3. CASE LoopEnds(a) \/ LoopInvokes(a) \/ LoopSaves(a)
      BY <1>5, <3>3 DEF LoopEnds, LoopInvokes, LoopSaves
    <3> QED
      BY <1>12, <3>1, <3>2, <3>3 DEF AgentLoopNext
  <2>3. Written
    <3>1. CASE LoopCrashes(a)
      <4>1. /\ status' \in {SetStatus(status, a, "quarantined"), SetStatus(status, a, "live")}
            /\ stored' \in {stored, SetStatus(stored, a, "quarantined")}
        BY <3>1 DEF LoopCrashes
      <4>2. \A st \in {status, stored}, s \in {"live", "quarantined"}, b \in Agents :
                SetStatus(st, a, s)[b] = None <=> st[b] = None
        <5>1. ASSUME NEW st \in StatusTables, NEW s \in Statuses, NEW b \in Agents
              PROVE  SetStatus(st, a, s)[b] = None <=> st[b] = None
          BY StatusFacts
        <5> QED
          BY <1>0, <5>1
      <4> QED
        BY <4>1, <4>2
    <3>2. CASE ~LoopCrashes(a)
      <4>1. (\E s \in {"live", "failed"} : Write(a, s)) \/ UNCHANGED <<status, stored>>
        BY <1>12, <3>2 DEF AgentLoopNext, LoopEnds, LoopInvokes, LoopReturns, LoopSaves,
                           LoopCancelled, Outcome
      <4> HIDE DEF Written
      <4> QED
        BY <1>0, <1>6, <1>7, <4>1
    <3> QED
      BY <3>1, <3>2
  <2>4. \A b \in Agents : Active(b)' => Active(b)
    <3>1. \E l : loop' = [loop EXCEPT ![a] = l] /\ (Active(a) \/ l.pc = "none")
      <4>0. NoLoop.pc = "none"
        BY DEF NoLoop
      <4>1. CASE LoopCancelled(a)
        BY <4>0, <4>1 DEF LoopCancelled, EndLoop
      <4>2. CASE LoopReturns(a)
        <5>1. Active(a)
          BY <4>2 DEF LoopReturns, Active
        <5> QED
          BY <4>2, <5>1 DEF LoopReturns
      <4>3. CASE LoopEnds(a)
        BY <4>0, <4>3 DEF LoopEnds, EndLoop
      <4>4. CASE LoopInvokes(a)
        <5>1. Active(a)
          BY <4>4 DEF LoopInvokes, Active
        <5> QED
          BY <4>4, <5>1 DEF LoopInvokes
      <4>5. CASE LoopCrashes(a)
        <5>1. Active(a)
          BY <4>5 DEF LoopCrashes, Active
        <5> QED
          BY <4>5, <5>1 DEF LoopCrashes, EndLoop
      <4>6. CASE LoopSaves(a)
        <5>1. Active(a)
          BY <4>6 DEF LoopSaves, Active, Results
        <5> QED
          BY <4>6, <5>1 DEF LoopSaves, EndLoop
      <4> QED
        BY <1>12, <4>1, <4>2, <4>3, <4>4, <4>5, <4>6 DEF AgentLoopNext
    <3> QED
      BY <1>0, <3>1 DEF Active
  <2> QED
    BY <1>8, <2>1, <2>2, <2>3, <2>4, QuietStep
<1>13. ASSUME NEW a \in Agents, Ask(a) \/ Expire(a) PROVE StopInv'
  <2>1. UNCHANGED <<phase, status, stored, wired, loop, op, boot, born, overtaken>>
    BY <1>13 DEF Ask, Expire, agentVars, ghosts
  <2> QED
    BY <1>8, <1>9, <2>1, QuietStep
<1>14. ASSUME NEW a \in Agents, Signal(a) PROVE StopInv'
  <2>1. UNCHANGED <<wired, loop, op, boot, born, overtaken>>
        /\ \E new \in Phases \ {"stopped"}, force \in BOOLEAN : Move(a, new, force)
    BY <1>0, <1>14 DEF Signal, ghosts
  <2>2. Tame /\ Written
    BY <1>2, <2>1
  <2> QED
    BY <1>8, <1>9, <2>1, <2>2, QuietStep
<1>15. CASE UNCHANGED vars
  BY <1>8, <1>9, <1>15, QuietStep DEF vars
<1> QED
  BY <1>10, <1>11, <1>12, <1>13, <1>14, <1>15

\* Deployment, recovery, stop and restart: the steps that begin an operation.
LEMMA BeginSteps ==
  ASSUME TypeInv, StopInv, NEW o \in Ops, NEW a \in Agents,
         \/ Deploy(o, a) \/ Recover(o, a)
         \/ \E k \in {"stop", "undeploy", "update"} : Stop(o, a, k)
  PROVE  StopInv'
<1>0. /\ phase \in PhaseTables /\ status \in StatusTables /\ stored \in StatusTables
      /\ op \in [Ops -> OpStates] /\ None \notin Phases /\ None \notin Statuses
      /\ {"live", "stopped"} \subseteq Statuses /\ {"starting", "stopped"} \subseteq Phases
  BY Tables
<1> USE <1>0
<1>1. boot \subseteq Agents /\ \A p \in Ops : op[p].pc # "free" => op[p].agent \in Agents
  BY DEF TypeInv, TypeOK, Hands
<1>2. CASE Deploy(o, a)
  <2>1. /\ a \notin born /\ op[o].pc = "free" /\ boot = {}
        /\ \A p \in Ops : op[p].pc # "recover"
        /\ born' = born \cup {a}
        /\ status' = [status EXCEPT ![a] = "live"]
        /\ stored' = [stored EXCEPT ![a] = "live"]
        /\ phase' = [phase EXCEPT ![a] = "starting"]
        /\ op' = [op EXCEPT ![o] = [pc |-> "deploy", agent |-> a]]
        /\ UNCHANGED <<wired, loop, boot, overtaken>>
    BY <1>2 DEF Deploy, Serving, Free, ghosts
  <2>2. /\ status[a] = None /\ \A p \in Ops : op[p].pc # "free" => op[p].agent # a
        /\ a \notin overtaken => Unwired(a)
    BY <2>1 DEF StopInv, Books, GoneLeavesNothing, Unwired
  <2>3. \A b \in Agents : Unwired(b)' <=> Unwired(b)
    BY <2>1 DEF Unwired, Active
  <2>4. \A b \in Agents \ {a} : phase'[b] = phase[b] /\ status'[b] = status[b] /\ stored'[b] = stored[b]
    BY <2>1 DEF PhaseTables, StatusTables
  <2>5. /\ phase'[a] = "starting" /\ status'[a] = "live" /\ stored'[a] = "live"
        /\ op'[o] = [pc |-> "deploy", agent |-> a]
        /\ \A p \in Ops \ {o} : op'[p] = op[p]
    BY <2>1 DEF PhaseTables, StatusTables
  <2>6. Books'
    BY <1>1, <2>1, <2>2, <2>4, <2>5 DEF StopInv, Books
  <2>7. Waiting'
    BY <1>1, <2>1, <2>2, <2>3, <2>4, <2>5 DEF StopInv, Waiting
  <2>8. LoopsHaveProcess' /\ StoppedIsUnwired' /\ GoneLeavesNothing'
    BY <2>1, <2>3, <2>4, <2>5
    DEF StopInv, LoopsHaveProcess, StoppedIsUnwired, GoneLeavesNothing, Active
  <2> QED
    BY <2>6, <2>7, <2>8 DEF StopInv
<1>3. CASE Recover(o, a)
  <2>1. /\ a \in boot /\ op[o].pc = "free" /\ \A p \in Ops : op[p].pc # "recover"
        /\ boot' = boot \ {a}
        /\ UNCHANGED <<status, stored, wired, loop, born, overtaken>>
    BY <1>3 DEF Recover, Free, ghosts
  <2>2. /\ \A p \in Ops : op[p].pc = "free"
        /\ status[a] # None /\ a \in born /\ Unwired(a)
    BY <1>1, <2>1 DEF StopInv, Books, Waiting
  <2>3. \A b \in Agents : Unwired(b)' <=> Unwired(b)
    BY <2>1 DEF Unwired, Active
  <2>4. CASE Dormant(a)
    <3>1. UNCHANGED <<phase, op>>
      BY <1>3, <2>4 DEF Recover
    <3> QED
      BY <1>1, <2>1, <2>2, <2>3, <3>1
      DEF StopInv, Books, Waiting, LoopsHaveProcess, StoppedIsUnwired, GoneLeavesNothing, Active
  <2>5. CASE ~Dormant(a)
    <3>1. /\ phase' = [phase EXCEPT ![a] = "starting"]
          /\ op' = [op EXCEPT ![o] = [pc |-> "recover", agent |-> a]]
      BY <1>3, <2>5 DEF Recover
    <3>2. /\ phase'[a] = "starting" /\ op'[o] = [pc |-> "recover", agent |-> a]
          /\ \A p \in Ops \ {o} : op'[p] = op[p]
          /\ \A b \in Agents \ {a} : phase'[b] = phase[b]
      BY <3>1 DEF PhaseTables
    <3>3. Books'
      BY <1>1, <2>1, <2>2, <3>2 DEF StopInv, Books
    <3>4. Waiting'
      BY <1>1, <2>1, <2>2, <2>3, <3>2 DEF StopInv, Waiting
    <3>5. LoopsHaveProcess' /\ StoppedIsUnwired' /\ GoneLeavesNothing'
      BY <2>1, <2>2, <2>3, <3>2
      DEF StopInv, LoopsHaveProcess, StoppedIsUnwired, GoneLeavesNothing, Active
    <3> QED
      BY <3>3, <3>4, <3>5 DEF StopInv
  <2> QED
    BY <2>4, <2>5
<1>4. ASSUME NEW k \in {"stop", "undeploy", "update"}, Stop(o, a, k) PROVE StopInv'
  <2>1. /\ status[a] # None /\ boot = {} /\ \A p \in Ops : op[p].pc # "recover"
        /\ op[o].pc = "free" /\ op' = [op EXCEPT ![o] = [pc |-> k, agent |-> a]]
        /\ UNCHANGED <<phase, status, stored, wired, loop, boot, born, overtaken>>
    BY <1>4 DEF Stop, Serving, Registered, Free, agentVars, ghosts
  <2>2. /\ op'[o] = [pc |-> k, agent |-> a] /\ \A p \in Ops \ {o} : op'[p] = op[p]
        /\ op'[o].pc = k
    BY <2>1
  <2>3. a \in born
    BY <2>1 DEF StopInv, Books
  <2>4. Books'
    BY <1>1, <2>1, <2>2, <2>3 DEF StopInv, Books
  <2>5. Waiting'
    BY <1>1, <2>1, <2>2 DEF StopInv, Waiting, Unwired, Active
  <2>6. LoopsHaveProcess' /\ StoppedIsUnwired' /\ GoneLeavesNothing'
    BY <2>1 DEF StopInv, LoopsHaveProcess, StoppedIsUnwired, GoneLeavesNothing, Active
  <2> QED
    BY <2>4, <2>5, <2>6 DEF StopInv
<1> QED
  BY <1>2, <1>3, <1>4

\* A restart: what was registered boots, without wiring.
LEMMA RestartStops ==
  ASSUME TypeInv, StopInv, Restart
  PROVE  StopInv'
<1>1. /\ op' = [o \in Ops |-> Free] /\ wired' = {} /\ loop' = [a \in Agents |-> NoLoop]
      /\ status' = stored /\ boot' = {a \in Agents : stored[a] # None}
      /\ UNCHANGED <<stored, born>>
      /\ \A a \in Agents : phase'[a] \in {phase[a], None}
  BY DEF Restart
<1>2. \A a \in Agents : ~Active(a)'
  BY <1>1 DEF NoLoop, Active
<1>3. \A o \in Ops : op'[o].pc = "free"
  BY <1>1 DEF Free
<1>4. Books'
  BY <1>1, <1>3 DEF StopInv, Books
<1>5. Waiting'
  BY <1>1, <1>2, <1>3 DEF Waiting, Unwired
<1>6. LoopsHaveProcess' /\ StoppedIsUnwired' /\ GoneLeavesNothing'
  BY <1>1, <1>2
  DEF StopInv, Books, LoopsHaveProcess, StoppedIsUnwired, GoneLeavesNothing
<1> QED
  BY <1>4, <1>5, <1>6 DEF StopInv

\* create_agent returned: the agent is wired; it has not stopped meanwhile.
LEMMA CreatedStops ==
  ASSUME TypeInv, StopInv, NEW o \in Ops, Created(o)
  PROVE  StopInv'
<1> DEFINE a == op[o].agent
<1>1. /\ a \in Agents /\ op[o].pc \in {"deploy", "recover"} /\ Wire(a)
      /\ phase' = Transition(phase, a, "running", FALSE)
      /\ op' = [op EXCEPT ![o] = Free]
      /\ UNCHANGED <<boot, born, overtaken>>
  BY DEF Created, TypeInv, TypeOK, Hands, ghosts
<1>2. /\ \A b \in Agents : /\ status'[b] = None <=> status[b] = None
                           /\ stored'[b] = None <=> stored[b] = None
      /\ wired' \subseteq wired \cup {a}
      /\ \A b \in Agents \ {a} : loop'[b] = loop[b]
  <2> HIDE DEF a
  <2> QED
    BY <1>1, WireFacts DEF TypeInv
<1>3. \A b \in Agents : /\ phase'[b] \in {phase[b], "running"}
                        /\ b # a => phase'[b] = phase[b]
                        /\ phase'[b] = None <=> phase[b] = None
  <2> HIDE DEF a
  <2>1. "running" \notin Ending /\ "running" \in Phases /\ phase \in PhaseTables
    BY Tables DEF Ending
  <2>2. /\ phase' \in {phase, [phase EXCEPT ![a] = "running"]}
        /\ phase[a] = None => phase' = phase
    BY <1>1, <2>1 DEF Transition, Own
  <2> QED
    BY <1>1, <2>1, <2>2, Words DEF PhaseTables
<1>4. /\ op'[o].pc = "free" /\ \A p \in Ops \ {o} : op'[p] = op[p]
      /\ \A p \in Ops : op[p].pc # "free" => op[p].agent \in Agents
      /\ boot \subseteq Agents
  BY <1>1, Tables DEF Free, TypeInv, TypeOK, Hands
<1>5. /\ \A p \in Ops \ {o} : op[p].pc \in {"deploy", "recover"} => op[p].agent # a
      /\ a \notin boot
  <2>1. \A p \in Ops : op[p] = [pc |-> op[p].pc, agent |-> op[p].agent]
    BY Tables DEF OpStates
  <2>2. a \notin boot
    BY <1>1 DEF StopInv, Books
  <2>3. ASSUME NEW p \in Ops \ {o}, op[p].pc \in {"deploy", "recover"}, op[p].agent = a
        PROVE  FALSE
    <3>1. op[p].pc = "deploy" /\ op[o].pc = "deploy"
      BY <1>1, <2>3 DEF StopInv, Books
    <3>2. op[p] = op[o]
      BY <2>1, <2>3, <3>1
    <3> QED
      BY <3>1, <3>2 DEF StopInv, Books
  <2> QED
    BY <2>2, <2>3
<1>6. a \notin overtaken => status[a] # None /\ phase[a] \notin {None, "stopped"}
  BY <1>1 DEF StopInv, Waiting
<1> HIDE DEF a
<1>7. \A b \in Agents \ {a} : Unwired(b) => Unwired(b)'
  BY <1>2 DEF Unwired, Active
<1>8. Books'
  <2>1. \A b \in Agents : /\ status'[b] = None <=> stored'[b] = None
                          /\ status'[b] # None => b \in born
                          /\ status'[b] = None => phase'[b] = None
    BY <1>2, <1>3 DEF StopInv, Books
  <2>2. boot' = boot /\ born' = born
    BY <1>1
  <2>3. \A b \in boot : status'[b] # None
    BY <1>2, <1>4 DEF StopInv, Books
  <2>4. \A p \in Ops : op'[p].pc # "free" =>
            /\ op'[p] = op[p]
            /\ status'[op[p].agent] = None <=> status[op[p].agent] = None
    BY <1>2, <1>4
  <2> QED
    BY <2>1, <2>2, <2>3, <2>4 DEF StopInv, Books
<1>9. Waiting'
  <2>1. ASSUME NEW p \in Ops, op'[p].pc \in {"deploy", "recover"}, op'[p].agent \notin overtaken'
        PROVE  /\ status'[op'[p].agent] # None
               /\ phase'[op'[p].agent] \notin {None, "stopped"}
               /\ op'[p].agent \notin wired'
               /\ loop'[op'[p].agent].pc \in {"none", "cancelled"}
    <3>0. op[p].agent \notin overtaken
      BY <1>1, <1>4, <2>1
    <3>1. op'[p] = op[p] /\ op[p].agent \in Agents \ {a}
      BY <1>4, <1>5, <2>1
    <3>2. /\ status[op[p].agent] # None /\ phase[op[p].agent] \notin {None, "stopped"}
          /\ Unwired(op[p].agent)
      BY <2>1, <3>0, <3>1 DEF StopInv, Waiting
    <3>3. op[p].agent \notin wired' /\ loop'[op[p].agent].pc \in {"none", "cancelled"}
      BY <1>7, <3>1, <3>2 DEF Unwired, Active
    <3> QED
      BY <1>2, <1>3, <3>1, <3>2, <3>3
  <2>2. \A b \in boot : Unwired(b)'
    BY <1>4, <1>5, <1>7 DEF StopInv, Waiting
  <2> QED
    BY <1>1, <2>1, <2>2 DEF Waiting, Unwired, Active
<1>10. LoopsHaveProcess' /\ StoppedIsUnwired' /\ GoneLeavesNothing'
  <2>1. ASSUME NEW b \in Agents \ overtaken
        PROVE  /\ Active(b)' => phase'[b] # None
               /\ phase'[b] = "stopped" => b \notin wired' /\ ~Active(b)'
               /\ status'[b] = None => phase'[b] = None /\ b \notin wired' /\ ~Active(b)'
    <3>1. CASE b = a
      <4>1. status'[a] # None /\ phase'[a] \notin {None, "stopped"}
        BY <1>2, <1>3, <1>6, <2>1, <3>1
      <4> QED
        BY <3>1, <4>1
    <3>2. CASE b # a
      <4>1. /\ status'[b] = None <=> status[b] = None
            /\ phase'[b] = phase[b]
            /\ b \in wired' => b \in wired
            /\ Active(b)' <=> Active(b)
        BY <1>2, <1>3, <3>2 DEF Active
      <4> QED
        BY <2>1, <4>1 DEF StopInv, LoopsHaveProcess, StoppedIsUnwired, GoneLeavesNothing
    <3> QED
      BY <3>1, <3>2
  <2> QED
    BY <1>1, <2>1 DEF LoopsHaveProcess, StoppedIsUnwired, GoneLeavesNothing
<1> QED
  BY <1>8, <1>9, <1>10 DEF StopInv

\* A failed deployment removes an agent that has nothing wired yet.
LEMMA FailedStops ==
  ASSUME TypeInv, StopInv, NEW o \in Ops, DeployFails(o)
  PROVE  StopInv'
<1> DEFINE a == op[o].agent
           failed == Transition(phase, a, "failed", TRUE)
<1>1. /\ a \in Agents /\ op[o].pc = "deploy"
      /\ phase' = [failed EXCEPT ![a] = None]
      /\ status' = [status EXCEPT ![a] = None]
      /\ stored' = [stored EXCEPT ![a] = None]
      /\ op' = [op EXCEPT ![o] = Free]
      /\ UNCHANGED <<wired, loop, boot, born, overtaken>>
  BY DEF DeployFails, TypeInv, TypeOK, Hands, ghosts
<1>2. /\ boot = {}
      /\ a \notin overtaken => Unwired(a)
      /\ \A p \in Ops : op[p].pc # "recover"
      /\ \A p \in Ops \ {o} : op[p].pc = "deploy" => op[p].agent # a
  <2>1. \A p \in Ops : op[p] = [pc |-> op[p].pc, agent |-> op[p].agent]
    BY Tables DEF OpStates
  <2>2. boot = {} /\ \A p \in Ops : op[p].pc # "recover"
    BY <1>1 DEF StopInv, Books
  <2>3. a \notin overtaken => Unwired(a)
    BY <1>1 DEF StopInv, Waiting
  <2>4. ASSUME NEW p \in Ops \ {o}, op[p].pc = "deploy", op[p].agent = a PROVE FALSE
    <3>1. op[p] = op[o]
      BY <1>1, <2>1, <2>4
    <3> QED
      BY <1>1, <3>1 DEF StopInv, Books
  <2> QED
    BY <2>2, <2>3, <2>4
<1> HIDE DEF a
<1>3. /\ phase'[a] = None /\ status'[a] = None /\ stored'[a] = None
      /\ \A b \in Agents \ {a} : /\ phase'[b] \in {phase[b], "draining"}
                                 /\ phase'[b] = None <=> phase[b] = None
                                 /\ status'[b] = status[b] /\ stored'[b] = stored[b]
  <2>1. phase \in PhaseTables /\ "failed" \in Phases /\ status \in StatusTables /\ stored \in StatusTables
    BY Tables
  <2>2. /\ failed \in PhaseTables
        /\ \A b \in Agents : /\ b # a => failed[b] \in {phase[b], "draining"}
                             /\ failed[b] = None <=> phase[b] = None
    <3>1. a \in Agents /\ failed = Transition(phase, a, "failed", TRUE)
      BY <1>1
    <3> HIDE DEF failed
    <3>2. MayDrain(phase, a, failed)
      BY <2>1, <3>1, DrainFacts, Zenon
    <3> QED
      BY <3>2 DEF MayDrain
  <2> HIDE DEF failed
  <2> QED
    BY <1>1, <2>1, <2>2 DEF PhaseTables, StatusTables
<1>4. /\ op'[o].pc = "free" /\ \A p \in Ops \ {o} : op'[p] = op[p]
      /\ \A p \in Ops : op[p].pc # "free" => op[p].agent \in Agents
  BY <1>1, Tables DEF Free, TypeInv, TypeOK, Hands
<1>5. \A b \in Agents : Unwired(b)' <=> Unwired(b)
  BY <1>1 DEF Unwired, Active
<1>6. Books'
  <2>1. \A b \in Agents : /\ status'[b] = None <=> stored'[b] = None
                          /\ status'[b] # None => b \in born
                          /\ status'[b] = None => phase'[b] = None
    BY <1>3 DEF StopInv, Books
  <2>2. boot' = {} /\ born' = born
    BY <1>1, <1>2
  <2>3. \A p \in Ops : op'[p].pc # "free" => op'[p] = op[p] /\ op[p].pc # "recover"
    BY <1>2, <1>4
  <2> QED
    BY <2>1, <2>2, <2>3 DEF StopInv, Books
<1>9. None # "draining" /\ None # "stopped"
  BY Tables
<1>7. Waiting'
  <2>1. ASSUME NEW p \in Ops, op'[p].pc \in {"deploy", "recover"}, op'[p].agent \notin overtaken'
        PROVE  /\ status'[op'[p].agent] # None
               /\ phase'[op'[p].agent] \notin {None, "stopped"}
               /\ op'[p].agent \notin wired'
               /\ loop'[op'[p].agent].pc \in {"none", "cancelled"}
    <3>0. op[p].agent \notin overtaken
      BY <1>1, <1>4, <2>1
    <3>1. op'[p] = op[p] /\ op[p].agent \in Agents \ {a}
      BY <1>2, <1>4, <2>1
    <3>2. /\ status[op[p].agent] # None /\ phase[op[p].agent] \notin {None, "stopped"}
          /\ Unwired(op[p].agent)
      BY <2>1, <3>0, <3>1 DEF StopInv, Waiting
    <3>3. op[p].agent \notin wired' /\ loop'[op[p].agent].pc \in {"none", "cancelled"}
      BY <1>5, <3>1, <3>2 DEF Unwired, Active
    <3> QED
      BY <1>3, <1>9, <3>1, <3>2, <3>3
  <2> QED
    BY <1>1, <1>2, <2>1 DEF Waiting, Unwired, Active
<1>8. LoopsHaveProcess' /\ StoppedIsUnwired' /\ GoneLeavesNothing'
  <2>1. LoopsHaveProcess'
    BY <1>1, <1>2, <1>3 DEF StopInv, LoopsHaveProcess, Unwired, Active
  <2>2. StoppedIsUnwired'
    BY <1>1, <1>3, <1>9 DEF StopInv, StoppedIsUnwired, Active
  <2>3. GoneLeavesNothing'
    BY <1>1, <1>2, <1>3 DEF StopInv, GoneLeavesNothing, Unwired, Active
  <2> QED
    BY <2>1, <2>2, <2>3
<1> QED
  BY <1>6, <1>7, <1>8 DEF StopInv

\* The end of a stop unwires its agent; an agent another operation is wiring
\* is overtaken.
LEMMA StopEndsStops ==
  ASSUME TypeInv, StopInv, NEW o \in Ops, StopEnds(o)
  PROVE  StopInv'
<1> DEFINE a == op[o].agent
           drained == Transition(phase, a, "draining", FALSE)
           ended == Transition(drained, a, "stopped", FALSE)
<1>1. /\ a \in Agents /\ op[o].pc \in {"stop", "undeploy", "update"}
      /\ CancelLoop(a) /\ wired' = wired \ {a}
      /\ \/ /\ phase' = [ended EXCEPT ![a] = None]
            /\ status' = [status EXCEPT ![a] = None]
            /\ stored' = [stored EXCEPT ![a] = None]
         \/ /\ phase' = ended
            /\ status' = SetStatus(status, a, "stopped")
            /\ stored' = SetStatus(stored, a, "stopped")
      /\ overtaken' = IF Wiring(a) THEN overtaken \cup {a} ELSE overtaken \ {a}
      /\ \/ op' = [op EXCEPT ![o] = [op[o] EXCEPT !.pc = "rewire"]]
         \/ op' = [op EXCEPT ![o] = Free]
      /\ UNCHANGED <<boot, born>>
  BY DEF StopEnds, RemoveJob, TypeInv, TypeOK, Hands
<1>2. /\ \A p \in Ops : op[p].pc # "free" => op[p].agent \in Agents
      /\ \A p \in Ops : op[p].pc # "recover"
      /\ boot = {}
  BY <1>1 DEF TypeInv, Hands, StopInv, Books
<1>3. /\ op'[o].pc \in {"free", "rewire"}
      /\ op'[o].pc # "free" => op'[o].agent = a
      /\ \A p \in Ops \ {o} : op'[p] = op[p]
  BY <1>1, Tables DEF Free, OpStates
<1>4. /\ loop'[a].pc \in {"none", "cancelled"}
      /\ \A b \in Agents \ {a} : loop'[b] = loop[b]
  <2>1. loop \in [Agents -> Loops]
    BY Tables
  <2>2. loop'[a] = NoLoop \/ loop'[a] = [loop[a] EXCEPT !.pc = "cancelled"]
    BY <1>1, <2>1 DEF CancelLoop
  <2>3. loop'[a].pc \in {"none", "cancelled"}
    BY <1>1, <2>1, <2>2 DEF NoLoop, Loops
  <2> QED
    BY <1>1, <2>1, <2>3 DEF CancelLoop
<1>0. a \in Agents
  BY <1>1
<1>5. /\ \A p \in Ops : op[p].pc \in {"deploy", "recover"} /\ op[p].agent = a => a \in overtaken'
      /\ \A b \in Agents \ {a} : b \in overtaken' <=> b \in overtaken
  BY <1>1, <1>2 DEF Wiring
<1> HIDE DEF a
<1>6. /\ \A b \in Agents \ {a} : /\ phase'[b] \in {phase[b], "draining"}
                                 /\ phase'[b] = None <=> phase[b] = None
                                 /\ status'[b] = status[b] /\ stored'[b] = stored[b]
      /\ phase[a] = None => phase'[a] = None
      /\ stored'[a] = None <=> status'[a] = None
      /\ status'[a] = None => phase'[a] = None
      /\ status'[a] # None => status[a] # None
  <2>1. /\ phase \in PhaseTables /\ status \in StatusTables /\ stored \in StatusTables
        /\ {"draining", "stopped"} \subseteq Phases /\ "stopped" \in Statuses
    BY Tables
  <2>2. /\ drained \in PhaseTables
        /\ \A b \in Agents : /\ b # a => drained[b] \in {phase[b], "draining"}
                             /\ drained[b] = None <=> phase[b] = None
    <3>1. /\ "draining" \in Phases
          /\ drained = Transition(phase, a, "draining", FALSE)
      BY <2>1
    <3> HIDE DEF drained
    <3>2. MayDrain(phase, a, drained)
      BY <1>0, <2>1, <3>1, DrainFacts, Zenon
    <3> QED
      BY <3>2 DEF MayDrain
  <2> HIDE DEF drained
  <2>3. /\ ended \in PhaseTables
        /\ \A b \in Agents : /\ b # a => ended[b] \in {drained[b], "draining"}
                             /\ ended[b] = None <=> drained[b] = None
    <3>1. /\ "stopped" \in Phases
          /\ ended = Transition(drained, a, "stopped", FALSE)
      BY <2>1
    <3> HIDE DEF ended
    <3>2. MayDrain(drained, a, ended)
      BY <1>0, <2>2, <3>1, DrainFacts, Zenon
    <3> QED
      BY <3>2 DEF MayDrain
  <2> HIDE DEF ended
  <2>4. /\ SetStatus(status, a, "stopped") \in StatusTables
        /\ SetStatus(stored, a, "stopped") \in StatusTables
        /\ \A b \in Agents : /\ b # a => SetStatus(status, a, "stopped")[b] = status[b]
                             /\ b # a => SetStatus(stored, a, "stopped")[b] = stored[b]
                             /\ SetStatus(status, a, "stopped")[b] = None <=> status[b] = None
                             /\ SetStatus(stored, a, "stopped")[b] = None <=> stored[b] = None
    BY <1>1, <2>1, StatusFacts
  <2>5. /\ status[a] = None <=> stored[a] = None
        /\ status[a] = None => phase[a] = None
    BY <1>1 DEF StopInv, Books
  <2> QED
    BY <1>1, <2>1, <2>2, <2>3, <2>4, <2>5 DEF PhaseTables, StatusTables
<1>7. None # "draining" /\ None # "stopped"
  BY Tables
<1>8. Books'
  <2>1. a \in born
    BY <1>1 DEF StopInv, Books, a
  <2> QED
    BY <1>1, <1>2, <1>3, <1>6, <2>1 DEF StopInv, Books
<1>9. Waiting'
  <2>1. ASSUME NEW p \in Ops, op'[p].pc \in {"deploy", "recover"}, op'[p].agent \notin overtaken'
        PROVE  /\ status'[op'[p].agent] # None
               /\ phase'[op'[p].agent] \notin {None, "stopped"}
               /\ op'[p].agent \notin wired'
               /\ loop'[op'[p].agent].pc \in {"none", "cancelled"}
    <3>1. op'[p] = op[p] /\ op[p].agent \in Agents \ {a} /\ op[p].agent \notin overtaken
      BY <1>2, <1>3, <1>5, <2>1
    <3>2. /\ status[op[p].agent] # None /\ phase[op[p].agent] \notin {None, "stopped"}
          /\ Unwired(op[p].agent)
      BY <2>1, <3>1 DEF StopInv, Waiting
    <3>3. op[p].agent \notin wired' /\ loop'[op[p].agent].pc \in {"none", "cancelled"}
      BY <1>1, <1>4, <3>1, <3>2 DEF Unwired, Active
    <3> QED
      BY <1>6, <1>7, <3>1, <3>2, <3>3
  <2> QED
    BY <1>1, <1>2, <2>1 DEF Waiting, Unwired, Active
<1>10. LoopsHaveProcess'
  BY <1>4, <1>5, <1>6 DEF StopInv, LoopsHaveProcess, Active
<1>11. StoppedIsUnwired'
  BY <1>1, <1>4, <1>5, <1>6, <1>7 DEF StopInv, StoppedIsUnwired, Active
<1>12. GoneLeavesNothing'
  BY <1>1, <1>4, <1>5, <1>6 DEF StopInv, GoneLeavesNothing, Active
<1> QED
  BY <1>8, <1>9, <1>10, <1>11, <1>12 DEF StopInv

\* An update wires its agent again, and says so in overtaken.
LEMMA RewireStops ==
  ASSUME TypeInv, StopInv, NEW o \in Ops, Rewire(o)
  PROVE  StopInv'
<1> DEFINE a == op[o].agent
<1>1. /\ a \in Agents /\ op[o].pc = "rewire" /\ Wire(a)
      /\ overtaken' = overtaken \cup {a} /\ op' = [op EXCEPT ![o] = Free]
      /\ UNCHANGED <<phase, boot, born>>
  BY DEF Rewire, TypeInv, TypeOK, Hands
<1>2. /\ boot = {}
      /\ \A p \in Ops : op[p].pc # "free" => op[p].agent \in Agents
  BY <1>1 DEF TypeInv, Hands, StopInv, Books
<1>3. op'[o].pc = "free" /\ \A p \in Ops \ {o} : op'[p] = op[p]
  BY <1>1, Tables DEF Free
<1> HIDE DEF a
<1>4. /\ \A b \in Agents : /\ status'[b] = None <=> status[b] = None
                           /\ stored'[b] = None <=> stored[b] = None
      /\ wired' \subseteq wired \cup {a}
      /\ \A b \in Agents \ {a} : loop'[b] = loop[b]
  BY <1>1, WireFacts DEF TypeInv
<1>5. Books'
  BY <1>1, <1>2, <1>3, <1>4 DEF StopInv, Books
<1>6. Waiting'
  <2>1. ASSUME NEW p \in Ops, op'[p].pc \in {"deploy", "recover"}, op'[p].agent \notin overtaken'
        PROVE  /\ status'[op'[p].agent] # None
               /\ phase'[op'[p].agent] \notin {None, "stopped"}
               /\ op'[p].agent \notin wired'
               /\ loop'[op'[p].agent].pc \in {"none", "cancelled"}
    <3>1. op'[p] = op[p] /\ op[p].agent \in Agents \ {a} /\ op[p].agent \notin overtaken
      BY <1>1, <1>2, <1>3, <2>1
    <3>2. /\ status[op[p].agent] # None /\ phase[op[p].agent] \notin {None, "stopped"}
          /\ Unwired(op[p].agent)
      BY <2>1, <3>1 DEF StopInv, Waiting
    <3> QED
      BY <1>1, <1>4, <3>1, <3>2 DEF Unwired, Active
  <2> QED
    BY <1>1, <1>2, <2>1 DEF Waiting, Unwired, Active
<1>7. LoopsHaveProcess' /\ StoppedIsUnwired' /\ GoneLeavesNothing'
  BY <1>1, <1>4 DEF StopInv, LoopsHaveProcess, StoppedIsUnwired, GoneLeavesNothing, Active
<1> QED
  BY <1>5, <1>6, <1>7 DEF StopInv

LEMMA NextStops ==
  ASSUME TypeInv, StopInv, [Next]_vars
  PROVE  StopInv'
<1>1. CASE OpNext
  BY <1>1, CreatedStops, FailedStops, StopEndsStops, RewireStops, QuietSteps, BeginSteps
  DEF OpNext
<1>2. CASE ~OpNext
  BY <1>2, QuietSteps, RestartStops DEF Next
<1> QED
  BY <1>1, <1>2

\* The inductive invariant: types, books, and where wiring may be absent or not.
THEOREM LifeInvariant == Spec => []LifeInv
<1>1. LifeInv /\ [Next]_vars => LifeInv'
  BY NextTypes, NextStops DEF LifeInv
<1> QED
  BY <1>1, InitLife, PTL DEF Spec

\* A stopped agent has neither job nor loop (stop_agent), however its stop
\* interleaves with invocations, answers, signals and its loop, over restarts and
\* recovery, and whatever happens to other agents meanwhile. Exempt is an agent
\* whose stop ended while its own deployment was waiting, which then wires it,
\* and one that an update has wired again: until its next stop or a restart.
THEOREM StoppedAgents == Spec => []StoppedIsUnwired
<1>1. LifeInv => StoppedIsUnwired
  BY DEF LifeInv, StopInv
<1> QED
  BY <1>1, LifeInvariant, PTL

\* A removed agent leaves no process, job or loop behind (undeploy, and deploy
\* that fails), with the same two exemptions.
THEOREM RemovedAgents == Spec => []GoneLeavesNothing
<1>1. LifeInv => GoneLeavesNothing
  BY DEF LifeInv, StopInv
<1> QED
  BY <1>1, LifeInvariant, PTL

-----------------------------------------------------------------------------
(* The count of crashes.                                                   *)

\* At most one operation on its way to wire an agent.
Wirings == {"deploy", "recover", "update", "rewire"}

OneWirer ==
    \A o, p \in Ops : /\ op[o].pc \in Wirings /\ op[p].pc \in Wirings
                      /\ op[o].agent = op[p].agent
                      => o = p

\* The crashes that the starts of the platform before this one allowed.
Before == MaxCrashes * restarts

\* No loop, and no crash counted since the platform started.
Fresh(a) == ~Active(a) /\ ckpt[a].crash = 0 /\ streak[a] <= Before

ToBeWired(a) == a \notin born \/ a \in boot \/ Wiring(a)

\* A loop starts fresh; one that runs has counted every crash since then.
Counted(a) ==
    /\ ToBeWired(a) => Fresh(a)
    /\ Active(a) => loop[a].crash < MaxCrashes /\ streak[a] <= Before + loop[a].crash
    /\ streak[a] <= Before + MaxCrashes

BudgetInv == OneWirer /\ \A a \in Agents : Counted(a)

LEMMA Numbers ==
  ASSUME TypeInv
  PROVE  /\ MaxCrashes \in Nat /\ restarts \in Nat /\ Before \in Nat
         /\ MaxCrashes * (restarts + 1) = Before + MaxCrashes
         /\ \A a \in Agents : /\ streak[a] \in Nat /\ ckpt[a].crash \in Nat
                              /\ loop[a].crash \in Nat
<1>1. MaxCrashes \in Nat /\ restarts \in Nat
  BY LifecycleAssumption DEF TypeInv, TypeOK
<1>2. Before \in Nat /\ MaxCrashes * (restarts + 1) = Before + MaxCrashes
  BY <1>1 DEF Before
<1>3. \A a \in Agents : streak[a] \in Nat /\ ckpt[a].crash \in Nat /\ loop[a].crash \in Nat
  BY DEF TypeInv, TypeOK, Loops
<1> QED
  BY <1>1, <1>2, <1>3

\* What a step leaves alone, it leaves counted.
LEMMA SameCount ==
  ASSUME TypeInv, NEW a \in Agents, Counted(a),
         streak'[a] = streak[a], restarts' = restarts,
         Active(a)' => Active(a) /\ loop'[a].crash = loop[a].crash,
         ckpt'[a].crash = ckpt[a].crash \/ Active(a),
         ToBeWired(a)' => ToBeWired(a)
  PROVE  Counted(a)'
<1>1. Before' = Before
  BY DEF Before
<1> QED
  BY <1>1 DEF Counted, Fresh

LEMMA OpBudget ==
  ASSUME MaxCrashes # 0, LifeInv, BudgetInv, OpNext
  PROVE  BudgetInv'
<1>0. /\ TypeInv /\ op \in [Ops -> OpStates] /\ loop \in [Agents -> Loops]
      /\ MaxCrashes \in Nat /\ restarts \in Nat /\ Before \in Nat
      /\ \A p \in Ops : op[p].pc # "free" => op[p].agent \in Agents /\ op[p].agent \in born
      /\ \A b \in boot : b \in born
      /\ Free.pc = "free"
  BY Tables, Numbers DEF LifeInv, StopInv, Books, TypeInv, TypeOK, Hands, Free
\* An operation ends, or one that wires nobody begins.
<1>1. ASSUME NEW o \in Ops, RecoverFails(o) \/ DeployFails(o) PROVE BudgetInv'
  <2>1. op' = [op EXCEPT ![o] = Free]
        /\ UNCHANGED <<loop, ckpt, boot, restarts, born, streak>>
    BY <1>1 DEF RecoverFails, DeployFails, ghosts
  <2>2. \A p \in Ops : op'[p] = op[p] \/ op'[p].pc = "free"
    BY <1>0, <2>1
  <2>3. OneWirer'
    BY <2>2 DEF BudgetInv, OneWirer, Wirings
  <2>4. ASSUME NEW b \in Agents PROVE Counted(b)'
    <3>1. (ToBeWired(b)' => ToBeWired(b)) /\ (Active(b)' => Active(b))
      BY <2>1, <2>2 DEF ToBeWired, Wiring, Active
    <3> QED
      BY <1>0, <2>1, <3>1, SameCount DEF BudgetInv
  <2> QED
    BY <2>3, <2>4 DEF BudgetInv
<1>2. ASSUME NEW o \in Ops, NEW a \in Agents, NEW k \in {"stop", "undeploy", "update"},
             Stop(o, a, k)
      PROVE  BudgetInv'
  <2>1. /\ op' = [op EXCEPT ![o] = [pc |-> k, agent |-> a]]
        /\ UNCHANGED <<loop, ckpt, boot, restarts, born, streak>>
        /\ k = "update" => ~Wiring(a) /\ \A p \in Ops : op[p] # [pc |-> "update", agent |-> a]
    BY <1>2 DEF Stop, ghosts
  <2>2. op'[o] = [pc |-> k, agent |-> a] /\ \A p \in Ops \ {o} : op'[p] = op[p]
    BY <1>0, <2>1
  <2>3. OneWirer'
    <3>1. ASSUME k = "update", NEW p \in Ops, op[p].pc \in Wirings, op[p].agent = a
          PROVE  FALSE
      <4>1. op[p] = [pc |-> op[p].pc, agent |-> op[p].agent]
        BY <1>0 DEF OpStates
      <4> QED
        BY <2>1, <3>1, <4>1 DEF Wiring, Wirings
    <3>2. k # "update" => k \notin Wirings
      BY DEF Wirings
    <3> QED
      BY <2>2, <3>1, <3>2 DEF BudgetInv, OneWirer
  <2>4. ASSUME NEW b \in Agents PROVE Counted(b)'
    <3>1. (ToBeWired(b)' => ToBeWired(b)) /\ (Active(b)' => Active(b))
      BY <2>1, <2>2 DEF ToBeWired, Wiring, Active
    <3> QED
      BY <1>0, <2>1, <3>1, SameCount DEF BudgetInv
  <2> QED
    BY <2>3, <2>4 DEF BudgetInv
\* Wiring begins: of an agent without a loop, or of one recovery has come to.
<1>3. ASSUME NEW o \in Ops, NEW a \in Agents, NEW k \in {"deploy", "recover"}, ToBeWired(a),
             op' = [op EXCEPT ![o] = [pc |-> k, agent |-> a]],
             \A p \in Ops : op[p].pc # "free" => op[p].agent # a,
             UNCHANGED <<loop, ckpt, restarts, streak>>,
             born \subseteq born', boot' \subseteq boot
      PROVE  BudgetInv'
  <2>2. op'[o] = [pc |-> k, agent |-> a] /\ \A p \in Ops \ {o} : op'[p] = op[p]
    BY <1>0, <1>3
  <2>3. OneWirer'
    <3>1. \A p \in Ops : op[p].pc \in Wirings => op[p].agent # a
      BY <1>3 DEF Wirings
    <3> QED
      BY <2>2, <3>1 DEF BudgetInv, OneWirer
  <2>4. ASSUME NEW b \in Agents PROVE Counted(b)'
    <3>1. Active(b)' => Active(b)
      BY <1>3 DEF Active
    <3>2. ToBeWired(b)' => ToBeWired(b)
      BY <1>3, <2>2 DEF ToBeWired, Wiring
    <3> QED
      BY <1>0, <1>3, <3>1, <3>2, SameCount DEF BudgetInv
  <2> QED
    BY <2>3, <2>4 DEF BudgetInv
<1>4. ASSUME NEW o \in Ops, NEW a \in Agents, Deploy(o, a) PROVE BudgetInv'
  <2>1. /\ a \notin born /\ op' = [op EXCEPT ![o] = [pc |-> "deploy", agent |-> a]]
        /\ born' = born \cup {a} /\ UNCHANGED <<loop, ckpt, boot, restarts, streak>>
    BY <1>4 DEF Deploy, ghosts
  <2>2. ToBeWired(a) /\ \A p \in Ops : op[p].pc # "free" => op[p].agent # a
    BY <1>0, <2>1 DEF ToBeWired
  <2> QED
    BY <1>3, <2>1, <2>2
<1>5. ASSUME NEW o \in Ops, NEW a \in Agents, Recover(o, a) PROVE BudgetInv'
  <2>1. /\ a \in boot /\ boot' = boot \ {a} /\ \A p \in Ops : op[p].pc = "free"
        /\ UNCHANGED <<loop, ckpt, restarts, born, streak>>
    BY <1>5 DEF Recover, ghosts, LifeInv, StopInv, Books
  <2>2. ToBeWired(a)
    BY <2>1 DEF ToBeWired
  <2>3. CASE Dormant(a)
    <3>1. UNCHANGED op
      BY <1>5, <2>3 DEF Recover
    <3>2. OneWirer'
      BY <3>1 DEF BudgetInv, OneWirer
    <3>3. ASSUME NEW b \in Agents PROVE Counted(b)'
      <4>1. (ToBeWired(b)' => ToBeWired(b)) /\ (Active(b)' => Active(b))
        BY <2>1, <3>1 DEF ToBeWired, Wiring, Active
      <4> QED
        BY <1>0, <2>1, <4>1, SameCount DEF BudgetInv
    <3> QED
      BY <3>2, <3>3 DEF BudgetInv
  <2>4. CASE ~Dormant(a)
    <3>1. op' = [op EXCEPT ![o] = [pc |-> "recover", agent |-> a]]
      BY <1>5, <2>4 DEF Recover
    <3> QED
      BY <1>3, <2>1, <2>2, <3>1
  <2> QED
    BY <2>3, <2>4
\* The agent is wired, by the one operation that was to do so.
<1>6. ASSUME NEW o \in Ops, Created(o) \/ Rewire(o) PROVE BudgetInv'
  <2>0. PICK a \in Agents : a = op[o].agent
    BY <1>0, <1>6 DEF Created, Rewire
  <2>1. /\ op[o].pc \in {"deploy", "recover", "rewire"} /\ Wire(a)
        /\ op' = [op EXCEPT ![o] = Free]
        /\ UNCHANGED <<ckpt, boot, restarts, born, streak>>
    BY <1>6, <2>0 DEF Created, Rewire, ghosts
  <2>2. op'[o].pc = "free" /\ \A p \in Ops \ {o} : op'[p] = op[p]
    BY <1>0, <2>1
  <2>3. /\ a \in born /\ a \notin boot /\ Wiring(a)
        /\ \A p \in Ops \ {o} : op[p].pc \in Wirings => op[p].agent # a
    BY <2>0, <2>1 DEF Wiring, Wirings, BudgetInv, OneWirer, LifeInv, StopInv, Books
  <2>4. /\ \A b \in Agents \ {a} : loop'[b] = loop[b]
        /\ loop'[a] \in {loop[a], Resumed(a)}
    BY <1>0, <2>1, WireFacts DEF TypeInv
  <2>5. OneWirer'
    BY <2>2 DEF BudgetInv, OneWirer, Wirings
  <2>6. Counted(a)'
    <3>1. Fresh(a) /\ streak[a] <= Before + MaxCrashes
      BY <2>1, <2>3 DEF BudgetInv, Counted, ToBeWired
    <3>2. ~ToBeWired(a)'
      BY <2>1, <2>2, <2>3 DEF ToBeWired, Wiring, Wirings
    <3>3. Active(a)' => loop'[a].crash = 0
      BY <2>4, <3>1 DEF Fresh, Active, Resumed
    <3>4. Before' = Before /\ streak'[a] = streak[a] /\ streak[a] \in Nat
      BY <1>0, <2>1, Numbers DEF Before
    <3> QED
      BY <1>0, <3>1, <3>2, <3>3, <3>4 DEF Counted, Fresh
  <2>7. ASSUME NEW b \in Agents \ {a} PROVE Counted(b)'
    <3>1. Active(b)' => Active(b)
      BY <2>4 DEF Active
    <3>2. ToBeWired(b)' => ToBeWired(b)
      BY <2>1, <2>2 DEF ToBeWired, Wiring
    <3> QED
      BY <1>0, <2>1, <2>4, <3>1, <3>2, SameCount DEF BudgetInv
  <2> QED
    BY <2>5, <2>6, <2>7 DEF BudgetInv
\* A stop leaves nothing counted.
<1>7. ASSUME NEW o \in Ops, StopEnds(o) PROVE BudgetInv'
  <2>0. PICK a \in Agents : a = op[o].agent
    BY <1>0, <1>7 DEF StopEnds
  <2>1. /\ CancelLoop(a)
        /\ ckpt' = [ckpt EXCEPT ![a] = NoCkpt] /\ streak' = [streak EXCEPT ![a] = 0]
        /\ \/ op[o].pc = "update" /\ op' = [op EXCEPT ![o] = [op[o] EXCEPT !.pc = "rewire"]]
           \/ op' = [op EXCEPT ![o] = Free]
        /\ UNCHANGED <<boot, restarts, born>>
    BY <1>7, <2>0 DEF StopEnds
  <2>2. /\ \/ op'[o].pc = "free"
           \/ op[o].pc = "update" /\ op'[o].pc = "rewire" /\ op'[o].agent = a
        /\ \A p \in Ops \ {o} : op'[p] = op[p]
    <3>1. CASE op' = [op EXCEPT ![o] = Free]
      <4>1. op'[o] = Free /\ \A p \in Ops \ {o} : op'[p] = op[p]
        BY <1>0, <3>1
      <4>2. Free.pc = "free"
        BY <1>0
      <4> QED
        BY <4>1, <4>2
    <3>2. CASE op[o].pc = "update" /\ op' = [op EXCEPT ![o] = [op[o] EXCEPT !.pc = "rewire"]]
      <4>1. op'[o] = [op[o] EXCEPT !.pc = "rewire"] /\ \A p \in Ops \ {o} : op'[p] = op[p]
        BY <1>0, <3>2
      <4>2. op'[o].pc = "rewire" /\ op'[o].agent = a
        BY <1>0, <2>0, <4>1 DEF OpStates
      <4> QED
        BY <3>2, <4>1, <4>2
    <3> QED
      BY <2>1, <3>1, <3>2
  <2>3. OneWirer'
    BY <2>0, <2>2 DEF BudgetInv, OneWirer, Wirings
  <2>4. loop'[a].pc \in {"none", "cancelled"} /\ \A b \in Agents \ {a} : loop'[b] = loop[b]
    <3>1. loop'[a] = NoLoop \/ loop'[a] = [loop[a] EXCEPT !.pc = "cancelled"]
      BY <1>0, <2>1 DEF CancelLoop
    <3>2. loop'[a].pc \in {"none", "cancelled"}
      BY <1>0, <2>1, <3>1 DEF NoLoop, Loops
    <3> QED
      BY <1>0, <2>1, <3>2 DEF CancelLoop
  <2>5. Counted(a)'
    <3>1. streak'[a] = 0 /\ ckpt'[a].crash = 0 /\ Before' = Before
      BY <1>0, <2>1 DEF TypeInv, TypeOK, NoCkpt, Before
    <3> QED
      BY <1>0, <2>4, <3>1 DEF Counted, Fresh, Active
  <2>6. ASSUME NEW b \in Agents \ {a} PROVE Counted(b)'
    <3>1. streak'[b] = streak[b] /\ ckpt'[b] = ckpt[b]
      BY <1>0, <2>1 DEF TypeInv, TypeOK
    <3>2. Active(b)' => Active(b)
      BY <2>4 DEF Active
    <3>3. ToBeWired(b)' => ToBeWired(b)
      BY <2>1, <2>2 DEF ToBeWired, Wiring
    <3> QED
      BY <1>0, <2>1, <2>4, <3>1, <3>2, <3>3, SameCount DEF BudgetInv
  <2> QED
    BY <2>3, <2>5, <2>6 DEF BudgetInv
<1> QED
  BY <1>1, <1>2, <1>4, <1>5, <1>6, <1>7 DEF OpNext

LEMMA LoopBudget ==
  ASSUME LifeInv, BudgetInv, NEW a \in Agents, AgentLoopNext(a)
  PROVE  BudgetInv'
<1>0. /\ TypeInv /\ loop \in [Agents -> Loops]
      /\ streak \in [Agents -> Nat] /\ ckpt \in [Agents -> [step : 0..MaxIterations, crash : Nat]]
      /\ MaxCrashes \in Nat /\ Before \in Nat
      /\ loop[a].crash \in Nat /\ streak[a] \in Nat
      /\ NoLoop.pc = "none"
  BY Numbers DEF LifeInv, TypeInv, TypeOK, NoLoop
<1>1. /\ UNCHANGED <<op, boot, born, restarts>> /\ Before' = Before
      /\ \A b \in Agents : ToBeWired(b)' <=> ToBeWired(b)
  <2>1. UNCHANGED <<op, boot, born, restarts>>
    BY DEF AgentLoopNext, LoopEnds, LoopInvokes, LoopCrashes, LoopReturns, LoopSaves,
           LoopCancelled
  <2> QED
    BY <2>1 DEF Before, ToBeWired, Wiring
<1>2. OneWirer'
  BY <1>1 DEF BudgetInv, OneWirer
\* A step that changes the books of a alone.
<1>3. ASSUME NEW l, loop' = [loop EXCEPT ![a] = l], Counted(a)',
             streak' = streak \/ \E n : streak' = [streak EXCEPT ![a] = n],
             ckpt' = ckpt \/ \E c : ckpt' = [ckpt EXCEPT ![a] = c]
      PROVE  BudgetInv'
  <2>1. ASSUME NEW b \in Agents \ {a} PROVE Counted(b)'
    <3>1. loop'[b] = loop[b] /\ streak'[b] = streak[b] /\ ckpt'[b] = ckpt[b]
      BY <1>0, <1>3
    <3>2. Active(b)' => Active(b)
      BY <3>1 DEF Active
    <3> QED
      BY <1>0, <1>1, <3>1, <3>2, SameCount DEF BudgetInv
  <2> QED
    BY <1>2, <1>3, <2>1 DEF BudgetInv
<1>4. Counted(a)
  BY DEF BudgetInv
\* No crash and no save.
<1>5. CASE LoopEnds(a) \/ LoopInvokes(a) \/ LoopReturns(a) \/ LoopCancelled(a)
  <2>1. UNCHANGED <<streak, ckpt>>
    BY <1>5 DEF LoopEnds, LoopInvokes, LoopReturns, LoopCancelled, ghosts
  <2>2. \E l : /\ loop' = [loop EXCEPT ![a] = l]
               /\ l.pc = "none" \/ (Active(a) /\ l.crash = loop[a].crash)
    <3>1. CASE LoopEnds(a) \/ LoopCancelled(a)
      <4>1. loop' = [loop EXCEPT ![a] = NoLoop]
        BY <3>1 DEF LoopEnds, LoopCancelled, EndLoop
      <4>2. NoLoop.pc = "none"
        BY <1>0
      <4> QED
        BY <4>1, <4>2, Zenon
    <3>2. CASE LoopInvokes(a)
      <4>1. loop' = [loop EXCEPT ![a] = [loop[a] EXCEPT !.pc = "invoking"]] /\ Active(a)
        BY <3>2 DEF LoopInvokes, Active
      <4>2. [loop[a] EXCEPT !.pc = "invoking"].crash = loop[a].crash
        BY <1>0 DEF Loops
      <4> QED
        BY <4>1, <4>2
    <3>3. CASE LoopReturns(a)
      <4>1. PICK r \in Results : loop' = [loop EXCEPT ![a] = [loop[a] EXCEPT !.pc = r]]
        BY <3>3 DEF LoopReturns
      <4>2. Active(a)
        BY <3>3 DEF LoopReturns, Active
      <4>3. [loop[a] EXCEPT !.pc = r].crash = loop[a].crash
        BY <1>0 DEF Loops
      <4> QED
        BY <4>1, <4>2, <4>3
    <3> QED
      BY <1>5, <3>1, <3>2, <3>3
  <2>3. Active(a)' => Active(a) /\ loop'[a].crash = loop[a].crash
    BY <1>0, <2>2 DEF Active
  <2>4. Counted(a)'
    BY <1>0, <1>1, <1>4, <2>1, <2>3, SameCount
  <2> QED
    BY <1>3, <2>1, <2>2, <2>4
<1>6. CASE LoopCrashes(a)
  <2> DEFINE crash == loop[a].crash + 1
             again == [pc |-> "top", step |-> loop[a].step + 1, crash |-> crash]
  <2>1. /\ loop[a].pc = "top" /\ streak' = [streak EXCEPT ![a] = streak[a] + 1]
        /\ ckpt' = ckpt \/ \E c : ckpt' = [ckpt EXCEPT ![a] = c]
        /\ \/ loop' = [loop EXCEPT ![a] = NoLoop]
           \/ crash < MaxCrashes /\ loop' = [loop EXCEPT ![a] = again]
    <3>1. /\ loop[a].pc = "top" /\ streak' = [streak EXCEPT ![a] = streak[a] + 1]
          /\ SaveCkpt(a, loop[a].step, crash)
          /\ \/ loop' = [loop EXCEPT ![a] = NoLoop]
             \/ ~GivesUp(crash) /\ loop' = [loop EXCEPT ![a] = again]
      BY <1>6 DEF LoopCrashes, EndLoop
    <3>2. ckpt' = ckpt \/ \E c : ckpt' = [ckpt EXCEPT ![a] = c]
      BY <3>1 DEF SaveCkpt
    <3>3. ~GivesUp(crash) => crash < MaxCrashes
      BY <1>0 DEF GivesUp
    <3> QED
      BY <3>1, <3>2, <3>3
  <2>2. /\ loop[a].crash < MaxCrashes /\ streak[a] <= Before + loop[a].crash
        /\ ~ToBeWired(a)
    BY <1>4, <2>1 DEF Counted, Active, Fresh
  <2>3. streak'[a] = streak[a] + 1 /\ streak[a] + 1 <= Before + crash
        /\ streak[a] + 1 <= Before + MaxCrashes
    BY <1>0, <2>1, <2>2
  <2>4. Active(a)' => crash < MaxCrashes /\ loop'[a].crash = crash
    BY <1>0, <2>1 DEF Active
  <2>5. Counted(a)'
    BY <1>1, <2>2, <2>3, <2>4 DEF Counted
  <2> QED
    BY <1>3, <2>1, <2>5
<1>7. CASE LoopSaves(a)
  <2> DEFINE again == [pc |-> "top", step |-> loop[a].step + 1, crash |-> 0]
  <2>1. /\ Active(a) /\ streak' = [streak EXCEPT ![a] = 0]
        /\ ckpt' = ckpt \/ \E c : ckpt' = [ckpt EXCEPT ![a] = c]
        /\ \/ loop' = [loop EXCEPT ![a] = NoLoop]
           \/ loop' = [loop EXCEPT ![a] = again]
    BY <1>7 DEF LoopSaves, SaveCkpt, EndLoop, Active, Results
  <2>2. ~ToBeWired(a) /\ loop[a].crash < MaxCrashes
    BY <1>4, <2>1 DEF Counted, Fresh
  <2>3. streak'[a] = 0 /\ (Active(a)' => loop'[a].crash = 0)
    BY <1>0, <2>1 DEF Active
  <2>4. Counted(a)'
    BY <1>0, <1>1, <2>2, <2>3 DEF Counted
  <2> QED
    BY <1>3, <2>1, <2>4
<1> QED
  BY <1>5, <1>6, <1>7 DEF AgentLoopNext

LEMMA NextBudget ==
  ASSUME MaxCrashes # 0, LifeInv, BudgetInv, [Next]_vars
  PROVE  BudgetInv'
<1>0. /\ TypeInv /\ MaxCrashes \in Nat /\ restarts \in Nat /\ Before \in Nat
      /\ MaxCrashes * (restarts + 1) = Before + MaxCrashes
      /\ \A a \in Agents : streak[a] \in Nat
  BY Numbers DEF LifeInv
<1>1. CASE UNCHANGED <<loop, op, ckpt, boot, born, restarts, streak>>
  <2>1. OneWirer'
    BY <1>1 DEF BudgetInv, OneWirer
  <2>2. ASSUME NEW b \in Agents PROVE Counted(b)'
    <3>1. (ToBeWired(b)' => ToBeWired(b)) /\ (Active(b)' => Active(b))
      BY <1>1 DEF ToBeWired, Wiring, Active
    <3> QED
      BY <1>0, <1>1, <3>1, SameCount DEF BudgetInv
  <2> QED
    BY <2>1, <2>2 DEF BudgetInv
<1>2. CASE Restart
  <2>1. /\ restarts' = restarts + 1 /\ streak' = streak
        /\ op' = [o \in Ops |-> Free] /\ loop' = [a \in Agents |-> NoLoop]
        /\ ckpt' = [a \in Agents |-> NoCkpt]
    BY <1>2 DEF Restart
  <2>2. OneWirer'
    BY <2>1 DEF OneWirer, Wirings, Free
  <2>3. ASSUME NEW b \in Agents PROVE Counted(b)'
    <3>1. streak[b] <= Before + MaxCrashes
      BY DEF BudgetInv, Counted
    <3>2. Before' = Before + MaxCrashes
      BY <1>0, <2>1 DEF Before
    <3>3. ~Active(b)' /\ ckpt'[b].crash = 0 /\ streak'[b] = streak[b]
      BY <2>1 DEF NoLoop, NoCkpt, Active
    <3>4. streak[b] <= Before' /\ streak[b] <= Before' + MaxCrashes
      BY <1>0, <3>1, <3>2
    <3> QED
      BY <3>3, <3>4 DEF Counted, Fresh
  <2> QED
    BY <2>2, <2>3 DEF BudgetInv
<1>3. SlotNext => UNCHANGED <<loop, op, ckpt, boot, born, restarts, streak>>
  BY DEF SlotNext, InvokeReturns, Cancelled, ReadPending, Settle, Answer, Invoke, ghosts
<1>4. ASSUME NEW a \in Agents, Ask(a) \/ Expire(a) \/ Signal(a)
      PROVE  UNCHANGED <<loop, op, ckpt, boot, born, restarts, streak>>
  BY <1>4 DEF Ask, Expire, Signal, ghosts
<1>5. UNCHANGED vars => UNCHANGED <<loop, op, ckpt, boot, born, restarts, streak>>
  BY DEF vars
<1> QED
  BY <1>1, <1>2, <1>3, <1>4, <1>5, OpBudget, LoopBudget DEF Next

\* A loop crashes at most MaxCrashes times in a row after each start of the
\* platform (_autonomous_loop), however its agent is deployed, stopped, updated
\* and recovered, and overtaken or not. A restart counts from nothing: the
\* checkpoints are in memory.
THEOREM CrashBudgetKept ==
  ASSUME MaxCrashes # 0
  PROVE  Spec => []CrashBudget
<1>1. Init => BudgetInv
  <2> SUFFICES ASSUME Init PROVE BudgetInv
    OBVIOUS
  <2>1. TypeInv
    BY InitTypes
  <2>2. OneWirer
    BY DEF Init, Start, OneWirer, Wirings, Free
  <2>3. ASSUME NEW a \in Agents PROVE Counted(a)
    <3>1. ~Active(a) /\ ckpt[a].crash = 0 /\ streak[a] = 0
      BY DEF Init, Start, Active, NoLoop, NoCkpt
    <3>2. MaxCrashes \in Nat /\ Before \in Nat
      BY <2>1, Numbers
    <3> QED
      BY <3>1, <3>2 DEF Counted, Fresh
  <2> QED
    BY <2>2, <2>3 DEF BudgetInv
<1>2. LifeInv /\ BudgetInv /\ [Next]_vars => BudgetInv'
  BY NextBudget
<1>3. LifeInv /\ BudgetInv => CrashBudget
  BY Numbers DEF LifeInv, BudgetInv, Counted, CrashBudget
<1> QED
  BY <1>1, <1>2, <1>3, LifeInvariant, PTL DEF Spec

=============================================================================
