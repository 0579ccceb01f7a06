---------------------------- MODULE KernelProofs ----------------------------
(***************************************************************************)
(* Proofs about Kernel, for any agents, objects, threads, tickets, tokens  *)
(* and limits: its types, the daily limit on what concurrent calls hold,   *)
(* one charge per ticket, and that no call passes without authority.       *)
(*                                                                         *)
(* Each property needs to know what a call has in hand where it is         *)
(* (InHand).  ChargedOnce follows a ticket through its life: not drawn,    *)
(* outstanding, being recorded by one thread, settled (ChargeInv).         *)
(* AllowIsAuthorized needs that the token a call passed under has been     *)
(* issued, so that nobody issues it again to another agent (AuthInv).      *)
(***************************************************************************)
EXTENDS Kernel, FiniteSetTheorems, TLAPS

(***************************************************************************)
(* The invariants.                                                         *)
(***************************************************************************)
StagePlaces  == {"capability", "quota", "boundary", "dispatch", "executing", "settling"}
TicketPlaces == {"boundary", "dispatch", "executing", "settling", "recording"}

\* What a call has in hand where it is.
InHand ==
    \A th \in Threads :
        LET c == call[th]
        IN  /\ c.pc \in StagePlaces => c.kind \in CallerKinds /\ c.object \in Objects
            /\ c.pc # "idle" => c.agent \in Pids
            /\ c.pc \in TicketPlaces => c.ticket # Nil
            /\ c.ticket # Nil => c.ticket \in issued
            /\ c.pc = "capability" => c.by = Nil

TypeInv == KernelTypeOK /\ InHand

Recording(th, t) == call[th].pc = "recording" /\ call[th].ticket = t

\* The life of a ticket.
ChargeInv ==
    \A t \in Tickets :
        /\ t \notin issued => reservation[t] = Nothing /\ charged[t] = 0
        /\ reservation[t] # Nothing => charged[t] = 0
        /\ charged[t] <= 1
        /\ \A th \in Threads : Recording(th, t) =>
             /\ reservation[t] = Nothing
             /\ charged[t] = 0
             /\ \A other \in Threads : Recording(other, t) => other = th

AuthPlaces == {"quota", "boundary", "dispatch", "executing", "settling"}

AuthInv ==
    /\ AllowIsAuthorized
    /\ \A th \in Threads : call[th].pc \in AuthPlaces /\ call[th].by # Nil
         => token[call[th].by].state # "unissued"

(***************************************************************************)
(* Type correctness.                                                       *)
(***************************************************************************)
LEMMA NothingType == Nothing \notin [agent : Pids, usd : Nat]
BY KernelAssumption DEF Nothing

LEMMA IdleType == Idle \in Calls /\ Idle.pc = "idle" /\ Idle.ticket = Nil /\ Idle.by = Nil
BY DEF Idle, Calls, Pcs

\* The three ways a step changes the books keep their types.
LEMMA HoldType ==
    ASSUME TypeInv, NEW t \in Tickets, NEW a \in Pids, NEW usd \in Nat, Hold(t, a, usd)
    PROVE  /\ reservation' \in [Tickets -> [agent : Pids, usd : Nat] \cup {Nothing}]
           /\ reserved' \in [Pids -> Nat]
           /\ issued' \subseteq Tickets /\ issued \subseteq issued' /\ t \in issued'
BY DEF TypeInv, KernelTypeOK, Hold

LEMMA GiveBackType ==
    ASSUME TypeInv, NEW t \in Tickets, GiveBack(t)
    PROVE  /\ reservation' \in [Tickets -> [agent : Pids, usd : Nat] \cup {Nothing}]
           /\ reserved' \in [Pids -> Nat]
           /\ issued' = issued
           /\ \A a \in Pids : reserved'[a] <= reserved[a]
<1>1. reservation' \in [Tickets -> [agent : Pids, usd : Nat] \cup {Nothing}] /\ issued' = issued
  BY DEF TypeInv, KernelTypeOK, GiveBack
<1>2. CASE reservation[t] = Nothing
  BY <1>1, <1>2 DEF TypeInv, KernelTypeOK, GiveBack
<1>3. CASE reservation[t] # Nothing
  <2> DEFINE ag == reservation[t].agent
             usd == reservation[t].usd
  <2>1. ag \in Pids /\ usd \in Nat
    BY <1>3 DEF TypeInv, KernelTypeOK
  <2>2. reserved' = [reserved EXCEPT ![ag] = IF usd > @ THEN 0 ELSE @ - usd]
    BY <1>3 DEF GiveBack
  <2> HIDE DEF ag, usd
  <2>3. reserved \in [Pids -> Nat]
    BY DEF TypeInv, KernelTypeOK
  <2> QED  BY <1>1, <2>1, <2>2, <2>3
<1> QED  BY <1>2, <1>3

LEMMA TodayType == ASSUME TypeInv PROVE TodayCost \subseteq Nat
BY DEF TypeInv, KernelTypeOK, TodayCost

LEMMA InitTypes == KernelInit => TypeInv
BY IdleType DEF KernelInit, TypeInv, KernelTypeOK, InHand, StagePlaces, TicketPlaces, Pcs

\* Operations on tokens touch nothing else.
LEMMA TokenTypes ==
    ASSUME TypeInv, NEW k \in Tokens,
           \/ \E a \in Pids, o \in Objects \cup {"*"} : IssueCapability(k, a, o)
           \/ RevokeCapability(k)
           \/ ExpireToken(k)
    PROVE  TypeInv'
<1>1. token' \in [Tokens -> [state : {"unissued", "live", "expired", "gone"},
                             subject : Pids \cup {Nil},
                             target : Objects \cup {Nil, "*"}]]
  BY DEF TypeInv, KernelTypeOK, IssueCapability, RevokeCapability, ExpireToken
<1>2. UNCHANGED <<dispatcher, call, budgetVars, spent, held, lost, parked, charged>>
  BY DEF IssueCapability, RevokeCapability, ExpireToken
<1> QED  BY <1>1, <1>2 DEF TypeInv, KernelTypeOK, InHand, budgetVars

LEMMA SyscallTypes ==
    ASSUME TypeInv, NEW th \in Threads, NEW kind \in CallerKinds, NEW a \in Pids,
           NEW o \in Objects, NEW k \in Tokens \cup {Nil}, NEW usd \in Nat,
           NEW outside \in BOOLEAN, Syscall(th, kind, a, o, k, usd, outside)
    PROVE  TypeInv'
<1>1. call' \in [Threads -> Calls]
  BY DEF TypeInv, KernelTypeOK, Syscall, Calls, Pcs
<1>2. InHand'
  BY DEF TypeInv, KernelTypeOK, InHand, Syscall, StagePlaces, TicketPlaces, budgetVars
<1> QED  BY <1>1, <1>2 DEF TypeInv, KernelTypeOK, Syscall, budgetVars

\* A refused call is over; its ticket, if it has one, is lost.
LEMMA RefuseTypes ==
    ASSUME TypeInv, NEW th \in Threads, call[th].pc \in StagePlaces,
           Refuse(th), issued' = issued
    PROVE  call' \in [Threads -> Calls] /\ lost' \subseteq issued' /\ InHand'
<1>1. call' \in [Threads -> Calls] /\ lost' \subseteq issued'
  BY IdleType DEF TypeInv, KernelTypeOK, InHand, Refuse
<1>2. InHand'
  BY IdleType DEF TypeInv, KernelTypeOK, InHand, Refuse, StagePlaces, TicketPlaces
<1> QED  BY <1>1, <1>2

LEMMA CapabilityTypes ==
    ASSUME TypeInv, NEW th \in Threads, CapabilityStage(th)
    PROVE  TypeInv'
<1> DEFINE k == call[th].token
<1>1. call[th].pc = "capability" /\ call[th] \in Calls
  BY DEF CapabilityStage, TypeInv, KernelTypeOK
<1>2. token' \in [Tokens -> [state : {"unissued", "live", "expired", "gone"},
                             subject : Pids \cup {Nil},
                             target : Objects \cup {Nil, "*"}]]
  <2>1. token' = AfterAuthorize(k) /\ k \in Tokens \cup {Nil}
    BY <1>1 DEF CapabilityStage, Calls
  <2> HIDE DEF k
  <2> QED  BY <2>1 DEF AfterAuthorize, TypeInv, KernelTypeOK
<1>3. UNCHANGED <<dispatcher, reservation, reserved, issued, spent, held, parked, charged>>
  BY DEF CapabilityStage, budgetVars
<1>4. call' \in [Threads -> Calls] /\ lost' \subseteq issued' /\ InHand'
  <2>1. CASE Refuse(th)
    BY <1>1, <1>3, <2>1, RefuseTypes DEF StagePlaces
  <2>2. CASE ~Refuse(th)
    <3>1. lost' = lost /\ k \in Tokens \cup {Nil}
      BY <1>1, <2>2 DEF CapabilityStage, Calls
    <3>2. PICK by \in Tokens \cup {Nil} :
            call' = [call EXCEPT ![th] = [call[th] EXCEPT !.pc = "quota", !.by = by]]
      <4>1. CASE call' = [call EXCEPT ![th].pc = "quota", ![th].by = k]
        BY <3>1, <4>1 DEF TypeInv, KernelTypeOK
      <4>2. CASE call' = [call EXCEPT ![th].pc = "quota"]
        <5>1. call[th].by \in Tokens \cup {Nil}
          BY <1>1 DEF Calls
        <5>2. [call[th] EXCEPT !.pc = "quota"]
                = [call[th] EXCEPT !.pc = "quota", !.by = call[th].by]
          BY <1>1 DEF Calls
        <5> QED  BY <4>2, <5>1, <5>2 DEF TypeInv, KernelTypeOK
      <4> QED  BY <2>2, <4>1, <4>2 DEF CapabilityStage
    <3>3. [call[th] EXCEPT !.pc = "quota", !.by = by] \in Calls
      BY <1>1 DEF Calls, Pcs
    <3>4. call' \in [Threads -> Calls]
      BY <3>2, <3>3 DEF TypeInv, KernelTypeOK
    <3>5. InHand'
      BY <1>1, <1>3, <3>2 DEF TypeInv, KernelTypeOK, InHand, StagePlaces, TicketPlaces, Calls
    <3> QED  BY <1>3, <3>1, <3>4, <3>5 DEF TypeInv, KernelTypeOK
  <2> QED  BY <2>1, <2>2
<1> QED  BY <1>2, <1>3, <1>4 DEF TypeInv, KernelTypeOK

\* A call that goes on to the next stage, with the ticket it has or draws.
LEMMA MoveTypes ==
    ASSUME TypeInv, NEW th \in Threads, call[th].pc \in StagePlaces,
           NEW pc \in StagePlaces \ {"capability"}, NEW t \in Tickets, t \in issued',
           issued \subseteq issued',
           call' = [call EXCEPT ![th] = [call[th] EXCEPT !.pc = pc, !.ticket = t]]
    PROVE  call' \in [Threads -> Calls] /\ InHand'
<1>1. call[th] \in Calls
  BY DEF TypeInv, KernelTypeOK
<1>2. [call[th] EXCEPT !.pc = pc, !.ticket = t] \in Calls
  BY <1>1 DEF Calls, Pcs, StagePlaces
<1>3. call' \in [Threads -> Calls]
  BY <1>2 DEF TypeInv, KernelTypeOK
<1>4. InHand'
  BY <1>1, KernelAssumption DEF TypeInv, KernelTypeOK, InHand, StagePlaces, TicketPlaces, Calls
<1> QED  BY <1>3, <1>4

LEMMA QuotaTypes ==
    ASSUME TypeInv, NEW th \in Threads, QuotaStage(th)
    PROVE  TypeInv'
<1> DEFINE a == call[th].agent
           usd == call[th].usd
<1>1. /\ call[th].pc = "quota" /\ call[th] \in Calls /\ a \in Pids /\ usd \in Nat
      /\ UNCHANGED <<dispatcher, spent, token, held, parked, charged>>
  BY DEF QuotaStage, TypeInv, KernelTypeOK, InHand, Calls
<1>2. CASE Refuse(th) /\ UNCHANGED budgetVars
  BY <1>1, <1>2, RefuseTypes DEF TypeInv, KernelTypeOK, StagePlaces, budgetVars
<1>3. CASE \E t \in Tickets :
             /\ Hold(t, a, usd)
             /\ call' = [call EXCEPT ![th].pc = "boundary", ![th].ticket = t]
             /\ UNCHANGED lost
  <2>1. PICK t \in Tickets :
          /\ Hold(t, a, usd)
          /\ call' = [call EXCEPT ![th].pc = "boundary", ![th].ticket = t]
          /\ UNCHANGED lost
    BY <1>3
  <2>2. call' = [call EXCEPT ![th] = [call[th] EXCEPT !.pc = "boundary", !.ticket = t]]
    BY <2>1 DEF TypeInv, KernelTypeOK
  <2> HIDE DEF a, usd
  <2>3. call' \in [Threads -> Calls] /\ InHand'
    BY <1>1, <2>1, <2>2, HoldType, MoveTypes DEF StagePlaces
  <2> QED  BY <1>1, <2>1, <2>3, HoldType DEF TypeInv, KernelTypeOK
<1> QED  BY <1>2, <1>3 DEF QuotaStage

LEMMA BoundaryTypes ==
    ASSUME TypeInv, NEW th \in Threads, BoundaryStage(th)
    PROVE  TypeInv'
<1>1. /\ call[th].pc = "boundary" /\ call[th] \in Calls /\ call[th].ticket \in Tickets
      /\ call[th].ticket \in issued
      /\ UNCHANGED <<dispatcher, reservation, reserved, issued, spent, token, held, parked, charged>>
  BY DEF BoundaryStage, TypeInv, KernelTypeOK, InHand, TicketPlaces, budgetVars, Calls
<1>2. CASE Refuse(th)
  BY <1>1, <1>2, RefuseTypes DEF TypeInv, KernelTypeOK, StagePlaces
<1>3. CASE call' = [call EXCEPT ![th].pc = "dispatch"] /\ UNCHANGED lost
  <2>1. [call[th] EXCEPT !.pc = "dispatch"]
          = [call[th] EXCEPT !.pc = "dispatch", !.ticket = call[th].ticket]
    BY <1>1 DEF Calls
  <2>2. call' = [call EXCEPT ![th] = [call[th] EXCEPT !.pc = "dispatch", !.ticket = call[th].ticket]]
    BY <1>3, <2>1 DEF TypeInv, KernelTypeOK
  <2>3. call' \in [Threads -> Calls] /\ InHand'
    BY <1>1, <2>2, MoveTypes DEF StagePlaces
  <2> QED  BY <1>1, <1>3, <2>3 DEF TypeInv, KernelTypeOK
<1> QED  BY <1>2, <1>3 DEF BoundaryStage

\* A call that ends leaves nothing in hand.
LEMMA EndTypes ==
    ASSUME TypeInv, NEW th \in Threads, call' = [call EXCEPT ![th] = Idle], issued' = issued
    PROVE  call' \in [Threads -> Calls] /\ InHand'
BY IdleType DEF TypeInv, KernelTypeOK, InHand, StagePlaces, TicketPlaces

LEMMA DispatchTypes ==
    ASSUME TypeInv, NEW th \in Threads, DispatchStage(th)
    PROVE  TypeInv'
<1>1. /\ call[th].pc = "dispatch" /\ call[th] \in Calls /\ call[th].ticket \in Tickets
      /\ call[th].ticket \in issued
      /\ UNCHANGED <<dispatcher, reservation, reserved, issued, spent, token, charged>>
  BY DEF DispatchStage, TypeInv, KernelTypeOK, InHand, TicketPlaces, budgetVars, Calls
<1>2. CASE Refuse(th) /\ UNCHANGED <<held, parked>>
  BY <1>1, <1>2, RefuseTypes DEF TypeInv, KernelTypeOK, StagePlaces
<1>3. CASE Allow(th) /\ UNCHANGED lost
  <2>1. held' \subseteq issued /\ parked' \subseteq issued
    BY <1>1, <1>3 DEF Allow, TypeInv, KernelTypeOK
  <2>2. CASE call' = [call EXCEPT ![th].pc = "executing"]
    <3>1. [call[th] EXCEPT !.pc = "executing"]
            = [call[th] EXCEPT !.pc = "executing", !.ticket = call[th].ticket]
      BY <1>1 DEF Calls
    <3>2. call' = [call EXCEPT ![th] = [call[th] EXCEPT !.pc = "executing", !.ticket = call[th].ticket]]
      BY <2>2, <3>1 DEF TypeInv, KernelTypeOK
    <3>3. call' \in [Threads -> Calls] /\ InHand'
      BY <1>1, <3>2, MoveTypes DEF StagePlaces
    <3> QED  BY <1>1, <1>3, <2>1, <3>3 DEF TypeInv, KernelTypeOK
  <2>3. CASE call' = [call EXCEPT ![th] = Idle]
    BY <1>1, <1>3, <2>1, <2>3, EndTypes DEF TypeInv, KernelTypeOK
  <2> QED  BY <1>3, <2>2, <2>3 DEF Allow
<1> QED  BY <1>2, <1>3 DEF DispatchStage

LEMMA EngineTypes ==
    ASSUME TypeInv, NEW th \in Threads, ToolSuspends(th) \/ EngineCommits(th)
    PROVE  TypeInv'
<1>1. /\ call[th].pc \in {"executing", "settling"} /\ call[th] \in Calls
      /\ call[th].ticket \in Tickets /\ call[th].ticket \in issued
      /\ GiveBack(call[th].ticket)
      /\ UNCHANGED <<dispatcher, spent, token, held, lost, parked, charged>>
  BY DEF ToolSuspends, EngineCommits, TypeInv, KernelTypeOK, InHand, TicketPlaces, Calls
<1>2. /\ reservation' \in [Tickets -> [agent : Pids, usd : Nat] \cup {Nothing}]
      /\ reserved' \in [Pids -> Nat]
      /\ issued' = issued
  BY <1>1, GiveBackType
<1>3. CASE ToolSuspends(th)
  <2>1. [call[th] EXCEPT !.pc = "settling"]
          = [call[th] EXCEPT !.pc = "settling", !.ticket = call[th].ticket]
    BY <1>1 DEF Calls
  <2>2. call' = [call EXCEPT ![th] = [call[th] EXCEPT !.pc = "settling", !.ticket = call[th].ticket]]
    BY <1>3, <2>1 DEF TypeInv, KernelTypeOK, ToolSuspends
  <2>3. call' \in [Threads -> Calls] /\ InHand'
    BY <1>1, <1>2, <2>2, MoveTypes DEF StagePlaces
  <2> QED  BY <1>1, <1>2, <2>3 DEF TypeInv, KernelTypeOK
<1>4. CASE EngineCommits(th)
  BY <1>1, <1>2, <1>4, EndTypes DEF TypeInv, KernelTypeOK, EngineCommits
<1> QED  BY <1>1, <1>3, <1>4

LEMMA CommitTypes ==
    ASSUME TypeInv, NEW th \in Threads, NEW t \in Tickets, NEW cost \in Costs \cup {Nil},
           Commit(th, t, cost)
    PROVE  TypeInv'
<1>1. /\ call[th] = Idle /\ t \in issued /\ reservation[t] # Nothing /\ GiveBack(t)
      /\ UNCHANGED <<dispatcher, spent, token, held, lost, parked, charged>>
  BY DEF Commit, TypeInv, KernelTypeOK
<1>2. /\ reservation' \in [Tickets -> [agent : Pids, usd : Nat] \cup {Nothing}]
      /\ reserved' \in [Pids -> Nat]
      /\ issued' = issued
  BY <1>1, GiveBackType
<1>3. CASE UNCHANGED call
  BY <1>1, <1>2, <1>3 DEF TypeInv, KernelTypeOK, InHand
<1>4. CASE cost # Nil /\ call' = [call EXCEPT ![th] = [Idle EXCEPT
                !.pc = "recording", !.agent = reservation[t].agent, !.usd = cost, !.ticket = t]]
  <2> DEFINE c == [Idle EXCEPT !.pc = "recording", !.agent = reservation[t].agent,
                               !.usd = cost, !.ticket = t]
  <2>1. reservation[t].agent \in Pids
    BY <1>1 DEF TypeInv, KernelTypeOK
  <2>2. /\ c \in Calls /\ c.pc = "recording" /\ c.agent \in Pids
        /\ c.ticket = t /\ c.ticket # Nil
    BY <1>4, <2>1, KernelAssumption DEF Idle, Calls, Pcs
  <2>3. call' = [call EXCEPT ![th] = c]
    BY <1>4
  <2> HIDE DEF c
  <2>4. call' \in [Threads -> Calls]
    BY <2>2, <2>3 DEF TypeInv, KernelTypeOK
  <2>5. InHand'
    BY <1>1, <1>2, <2>2, <2>3 DEF TypeInv, KernelTypeOK, InHand, StagePlaces, TicketPlaces
  <2> QED  BY <1>1, <1>2, <2>4, <2>5 DEF TypeInv, KernelTypeOK
<1> QED  BY <1>3, <1>4 DEF Commit

LEMMA RecordTypes ==
    ASSUME TypeInv, NEW th \in Threads, RecordCost(th)
    PROVE  TypeInv'
<1>1. /\ call[th].agent \in Pids /\ call[th].usd \in Nat /\ call[th].ticket \in Tickets
  BY DEF RecordCost, TypeInv, KernelTypeOK, InHand, TicketPlaces, Calls
<1>2. spent' \in Nat /\ charged' \in [Tickets -> Nat]
  BY <1>1 DEF RecordCost, TypeInv, KernelTypeOK
<1>3. call' \in [Threads -> Calls] /\ InHand'
  BY EndTypes DEF RecordCost, budgetVars
<1> QED  BY <1>2, <1>3 DEF RecordCost, TypeInv, KernelTypeOK, budgetVars

LEMMA ReserveTypes ==
    ASSUME TypeInv,
           \/ \E a \in Pids, usd \in Costs : Reserve(a, usd)
           \/ \E t \in Tickets : Release(t)
    PROVE  TypeInv'
<1>1. CASE \E a \in Pids, usd \in Costs : Reserve(a, usd)
  <2>1. PICK a \in Pids, usd \in Costs : Reserve(a, usd)
    BY <1>1
  <2>2. PICK t \in Tickets : Hold(t, a, usd) /\ held' = held \cup {t}
    BY <2>1 DEF Reserve
  <2>3. usd \in Nat
    BY KernelAssumption
  <2>4. /\ reservation' \in [Tickets -> [agent : Pids, usd : Nat] \cup {Nothing}]
        /\ reserved' \in [Pids -> Nat]
        /\ issued' \subseteq Tickets /\ issued \subseteq issued' /\ t \in issued'
    BY <2>2, <2>3, HoldType
  <2> QED  BY <2>1, <2>2, <2>4 DEF Reserve, TypeInv, KernelTypeOK, InHand
<1>2. CASE \E t \in Tickets : Release(t)
  BY <1>2, GiveBackType DEF Release, TypeInv, KernelTypeOK, InHand
<1> QED  BY <1>1, <1>2

LEMMA NextTypes == TypeInv /\ [KernelNext]_kernelVars => TypeInv'
<1> SUFFICES ASSUME TypeInv, [KernelNext]_kernelVars PROVE TypeInv'
  OBVIOUS
<1>1. CASE UNCHANGED kernelVars
  BY <1>1 DEF kernelVars, budgetVars, TypeInv, KernelTypeOK, InHand
<1>2. ASSUME NEW th \in Threads, NEW kind \in CallerKinds, NEW a \in Pids, NEW o \in Objects,
             NEW k \in Tokens \cup {Nil}, NEW usd \in Costs \cup {0}, NEW outside \in BOOLEAN,
             Syscall(th, kind, a, o, k, usd, outside)
      PROVE  TypeInv'
  BY <1>2, SyscallTypes, KernelAssumption
<1>3. ASSUME NEW th \in Threads,
             \/ CapabilityStage(th) \/ QuotaStage(th) \/ BoundaryStage(th) \/ DispatchStage(th)
             \/ ToolSuspends(th) \/ EngineCommits(th)
             \/ \E t \in Tickets, cost \in Costs \cup {Nil} : Commit(th, t, cost)
             \/ RecordCost(th)
      PROVE  TypeInv'
  BY <1>3, CapabilityTypes, QuotaTypes, BoundaryTypes, DispatchTypes, EngineTypes,
     CommitTypes, RecordTypes
<1> QED  BY <1>1, <1>2, <1>3, TokenTypes, ReserveTypes DEF KernelNext

\* Every reachable state of the kernel is well typed; in particular no total of
\* reservations ever becomes negative (BudgetManager).
THEOREM KernelTypes == KernelSpec => []KernelTypeOK
<1>1. KernelSpec => []TypeInv
  BY InitTypes, NextTypes, PTL DEF KernelSpec
<1>2. TypeInv => KernelTypeOK
  BY DEF TypeInv
<1> QED  BY <1>1, <1>2, PTL

(***************************************************************************)
(* The daily limit: only Hold adds to a total, and it has checked.         *)
(***************************************************************************)
LEMMA HoldWithinDaily ==
    ASSUME TypeInv, ReservedWithinDaily, NEW t \in Tickets, NEW a \in Pids, NEW usd \in Nat,
           NEW today \in TodayCost, CheckBudget(a, usd, today) = "allow", Hold(t, a, usd)
    PROVE  ReservedWithinDaily'
<1>1. today \in Nat /\ reserved[a] \in Nat /\ Daily \in [Pids -> Nat] /\ reserved \in [Pids -> Nat]
  BY TodayType, KernelAssumption DEF TypeInv, KernelTypeOK
<1>2. Daily[a] # 0 => today + reserved[a] + usd <= Daily[a]
  BY <1>1 DEF CheckBudget
<1>3. Daily[a] # 0 => reserved[a] + usd <= Daily[a]
  BY <1>1, <1>2
<1> QED  BY <1>1, <1>3 DEF Hold, ReservedWithinDaily

LEMMA LessWithinDaily ==
    ASSUME TypeInv, ReservedWithinDaily, reserved' \in [Pids -> Nat],
           \A a \in Pids : reserved'[a] <= reserved[a]
    PROVE  ReservedWithinDaily'
BY KernelAssumption DEF ReservedWithinDaily, TypeInv, KernelTypeOK

LEMMA NextDaily == TypeInv /\ ReservedWithinDaily /\ [KernelNext]_kernelVars => ReservedWithinDaily'
<1> SUFFICES ASSUME TypeInv, ReservedWithinDaily, [KernelNext]_kernelVars PROVE ReservedWithinDaily'
  OBVIOUS
<1>1. ASSUME UNCHANGED reserved PROVE ReservedWithinDaily'
  BY <1>1 DEF ReservedWithinDaily
<1>2. ASSUME NEW th \in Threads, QuotaStage(th) PROVE ReservedWithinDaily'
  <2>1. call[th].agent \in Pids /\ call[th].usd \in Nat
    BY <1>2 DEF QuotaStage, TypeInv, KernelTypeOK, InHand, Calls
  <2>2. CASE UNCHANGED budgetVars
    BY <1>1, <2>2 DEF budgetVars
  <2>3. ASSUME NEW today \in TodayCost, NEW t \in Tickets,
               CheckBudget(call[th].agent, call[th].usd, today) = "allow",
               Hold(t, call[th].agent, call[th].usd)
        PROVE  ReservedWithinDaily'
    BY <2>1, <2>3, HoldWithinDaily
  <2>4. PICK today \in TodayCost :
          \/ /\ CheckBudget(call[th].agent, call[th].usd, today) = "allow"
             /\ \E t \in Tickets : Hold(t, call[th].agent, call[th].usd)
          \/ UNCHANGED budgetVars
    BY <1>2, Zenon DEF QuotaStage
  <2>5. CASE /\ CheckBudget(call[th].agent, call[th].usd, today) = "allow"
             /\ \E t \in Tickets : Hold(t, call[th].agent, call[th].usd)
    <3>1. PICK t \in Tickets : Hold(t, call[th].agent, call[th].usd)
      BY <2>5, Zenon
    <3> QED  BY <2>3, <2>5, <3>1, Zenon
  <2> QED  BY <2>2, <2>4, <2>5, Zenon
<1>3. ASSUME NEW t \in Tickets, GiveBack(t) PROVE ReservedWithinDaily'
  BY <1>3, GiveBackType, LessWithinDaily
<1>4. ASSUME NEW th \in Threads, ToolSuspends(th) \/ EngineCommits(th) PROVE ReservedWithinDaily'
  <2>1. call[th].ticket \in Tickets
    BY <1>4 DEF ToolSuspends, EngineCommits, TypeInv, KernelTypeOK, InHand, TicketPlaces, Calls
  <2> QED  BY <1>3, <1>4, <2>1 DEF ToolSuspends, EngineCommits
<1>5. ASSUME NEW a \in Pids, NEW usd \in Costs, Reserve(a, usd) PROVE ReservedWithinDaily'
  BY <1>5, HoldWithinDaily, KernelAssumption DEF Reserve
<1>6. ASSUME NEW t \in Tickets,
             Release(t) \/ \E th \in Threads, cost \in Costs \cup {Nil} : Commit(th, t, cost)
      PROVE  ReservedWithinDaily'
  BY <1>3, <1>6 DEF Release, Commit
<1>7. ASSUME \/ \E k \in Tokens : \/ \E a \in Pids, o \in Objects \cup {"*"} : IssueCapability(k, a, o)
                                  \/ RevokeCapability(k)
                                  \/ ExpireToken(k)
             \/ \E th \in Threads :
                  \/ \E kind \in CallerKinds, a \in Pids, o \in Objects, k \in Tokens \cup {Nil},
                        usd \in Costs \cup {0}, outside \in BOOLEAN :
                       Syscall(th, kind, a, o, k, usd, outside)
                  \/ CapabilityStage(th) \/ BoundaryStage(th) \/ DispatchStage(th)
                  \/ RecordCost(th)
             \/ UNCHANGED kernelVars
      PROVE  UNCHANGED reserved
  <2>1. ASSUME NEW k \in Tokens,
               \/ \E a \in Pids, o \in Objects \cup {"*"} : IssueCapability(k, a, o)
               \/ RevokeCapability(k) \/ ExpireToken(k)
        PROVE  UNCHANGED reserved
    BY <2>1 DEF IssueCapability, RevokeCapability, ExpireToken, budgetVars
  <2>2. ASSUME NEW th \in Threads,
               \/ \E kind \in CallerKinds, a \in Pids, o \in Objects, k \in Tokens \cup {Nil},
                     usd \in Costs \cup {0}, outside \in BOOLEAN :
                    Syscall(th, kind, a, o, k, usd, outside)
               \/ CapabilityStage(th) \/ BoundaryStage(th) \/ DispatchStage(th)
               \/ RecordCost(th)
        PROVE  UNCHANGED reserved
    BY <2>2 DEF Syscall, CapabilityStage, BoundaryStage, DispatchStage, RecordCost, budgetVars
  <2>3. CASE UNCHANGED kernelVars
    BY <2>3 DEF kernelVars
  <2> QED
    BY <1>7, <2>1, <2>2, <2>3
<1> QED  BY <1>1, <1>2, <1>4, <1>5, <1>6, <1>7 DEF KernelNext

\* What concurrent calls hold for an agent never exceeds its daily budget, also
\* when the usage enforcer cannot be read (BudgetManager.reserve).
THEOREM DailyLimit == KernelSpec => []ReservedWithinDaily
<1>1. KernelInit => ReservedWithinDaily
  BY KernelAssumption DEF KernelInit, ReservedWithinDaily
<1> QED  BY <1>1, InitTypes, NextTypes, NextDaily, PTL DEF KernelSpec

(***************************************************************************)
(* One charge per ticket.                                                  *)
(***************************************************************************)
\* Every step of a call but the first half of commit starts no recording.
LEMMA NoNewRecording ==
    ASSUME TypeInv, NEW th \in Threads, NEW c, c.pc # "recording",
           call' = [call EXCEPT ![th] = c]
    PROVE  \A other \in Threads, u \in Tickets :
             Recording(other, u)' => Recording(other, u) /\ other # th
BY DEF Recording, TypeInv, KernelTypeOK

\* What a step of a call other than commit does to it.
LEMMA CallSteps ==
    ASSUME TypeInv, NEW th \in Threads,
           \/ \E kind \in CallerKinds, a \in Pids, o \in Objects, k \in Tokens \cup {Nil},
                 usd \in Costs \cup {0}, outside \in BOOLEAN :
                Syscall(th, kind, a, o, k, usd, outside)
           \/ CapabilityStage(th) \/ QuotaStage(th) \/ BoundaryStage(th) \/ DispatchStage(th)
           \/ ToolSuspends(th) \/ EngineCommits(th) \/ RecordCost(th)
    PROVE  \A other \in Threads, u \in Tickets :
             Recording(other, u)' => Recording(other, u) /\ other # th
<1>1. call[th] \in Calls /\ call \in [Threads -> Calls]
  BY DEF TypeInv, KernelTypeOK
<1>2. CASE call' = [call EXCEPT ![th] = Idle]
  BY <1>2, IdleType, NoNewRecording
<1>3. CASE \E kind \in CallerKinds, a \in Pids, o \in Objects, k \in Tokens \cup {Nil},
              usd \in Costs \cup {0}, outside \in BOOLEAN :
             Syscall(th, kind, a, o, k, usd, outside)
  BY <1>3, NoNewRecording DEF Syscall
<1>4. ASSUME NEW place \in StagePlaces, call' = [call EXCEPT ![th].pc = place]
      PROVE  \A other \in Threads, u \in Tickets :
               Recording(other, u)' => Recording(other, u) /\ other # th
  <2>1. [call[th] EXCEPT !.pc = place].pc # "recording"
    BY <1>1 DEF Calls, StagePlaces
  <2>2. call' = [call EXCEPT ![th] = [call[th] EXCEPT !.pc = place]]
    BY <1>1, <1>4
  <2> QED  BY <2>1, <2>2, NoNewRecording
<1>5. ASSUME NEW k, call' = [call EXCEPT ![th].pc = "quota", ![th].by = k]
      PROVE  \A other \in Threads, u \in Tickets :
               Recording(other, u)' => Recording(other, u) /\ other # th
  <2>1. [call[th] EXCEPT !.pc = "quota", !.by = k].pc # "recording"
    BY <1>1 DEF Calls
  <2>2. call' = [call EXCEPT ![th] = [call[th] EXCEPT !.pc = "quota", !.by = k]]
    BY <1>1, <1>5
  <2> QED  BY <2>1, <2>2, NoNewRecording
<1>6. ASSUME NEW t, call' = [call EXCEPT ![th].pc = "boundary", ![th].ticket = t]
      PROVE  \A other \in Threads, u \in Tickets :
               Recording(other, u)' => Recording(other, u) /\ other # th
  <2>1. [call[th] EXCEPT !.pc = "boundary", !.ticket = t].pc # "recording"
    BY <1>1 DEF Calls
  <2>2. call' = [call EXCEPT ![th] = [call[th] EXCEPT !.pc = "boundary", !.ticket = t]]
    BY <1>1, <1>6
  <2> QED  BY <2>1, <2>2, NoNewRecording
<1>7. CASE CapabilityStage(th)
  BY <1>2, <1>4, <1>5, <1>7 DEF CapabilityStage, Refuse, StagePlaces
<1>8. CASE QuotaStage(th)
  <2>1. \/ call' = [call EXCEPT ![th] = Idle]
        \/ \E t \in Tickets : call' = [call EXCEPT ![th].pc = "boundary", ![th].ticket = t]
    BY <1>8 DEF QuotaStage, Refuse
  <2> QED  BY <1>2, <1>6, <2>1
<1>9. CASE BoundaryStage(th) \/ DispatchStage(th)
  BY <1>2, <1>4, <1>9 DEF BoundaryStage, DispatchStage, Refuse, Allow, StagePlaces
<1>10. CASE ToolSuspends(th) \/ EngineCommits(th) \/ RecordCost(th)
  BY <1>2, <1>4, <1>10 DEF ToolSuspends, EngineCommits, RecordCost, StagePlaces
<1> QED  BY <1>3, <1>7, <1>8, <1>9, <1>10

\* A step that draws t, if anything, and starts or ends no recording.
LEMMA HoldCharge ==
    ASSUME TypeInv, ChargeInv, NEW t \in Tickets, NEW a \in Pids, NEW usd \in Nat,
           Hold(t, a, usd), UNCHANGED charged,
           \A th \in Threads, u \in Tickets : Recording(th, u)' => Recording(th, u)
    PROVE  ChargeInv'
<1>1. t \notin issued /\ issued' = issued \cup {t} /\ charged[t] = 0
  BY DEF Hold, ChargeInv
<1>2. \A u \in Tickets : u # t => reservation'[u] = reservation[u]
  BY DEF Hold, TypeInv, KernelTypeOK
<1>3. \A th \in Threads : ~Recording(th, t)
  BY <1>1, KernelAssumption DEF Recording, TypeInv, InHand, TicketPlaces
<1> QED  BY <1>1, <1>2, <1>3 DEF ChargeInv

\* A step that gives a ticket back or leaves the books alone, and starts or ends
\* no recording.
LEMMA QuietCharge ==
    ASSUME ChargeInv, UNCHANGED <<charged, issued>>,
           \A u \in Tickets : reservation'[u] \in {reservation[u], Nothing},
           \A th \in Threads, u \in Tickets : Recording(th, u)' => Recording(th, u)
    PROVE  ChargeInv'
BY DEF ChargeInv

\* GiveBack only ever removes entries.
LEMMA GiveBackBooks ==
    ASSUME TypeInv, NEW t \in Tickets, GiveBack(t)
    PROVE  /\ issued' = issued /\ reservation'[t] = Nothing
           /\ \A u \in Tickets : u # t => reservation'[u] = reservation[u]
BY DEF GiveBack, TypeInv, KernelTypeOK

LEMMA CommitCharge ==
    ASSUME TypeInv, ChargeInv, NEW th \in Threads, NEW t \in Tickets,
           NEW cost \in Costs \cup {Nil}, Commit(th, t, cost)
    PROVE  ChargeInv'
<1>1. /\ issued' = issued /\ reservation'[t] = Nothing /\ charged' = charged
      /\ \A u \in Tickets : u # t => reservation'[u] = reservation[u]
  BY GiveBackBooks DEF Commit
<1>2. /\ reservation[t] # Nothing /\ charged[t] = 0
      /\ \A other \in Threads : ~Recording(other, t)
  BY DEF Commit, ChargeInv
<1>3. \A other \in Threads, u \in Tickets :
        Recording(other, u)' => Recording(other, u) \/ (other = th /\ u = t)
  <2>1. call \in [Threads -> Calls]
    BY DEF TypeInv, KernelTypeOK
  <2>2. CASE UNCHANGED call
    BY <2>2 DEF Recording
  <2>3. ASSUME NEW c, c.ticket = t, call' = [call EXCEPT ![th] = c]
        PROVE  \A other \in Threads, u \in Tickets :
                 Recording(other, u)' => Recording(other, u) \/ (other = th /\ u = t)
    BY <2>1, <2>3 DEF Recording
  <2>4. [Idle EXCEPT !.pc = "recording", !.agent = reservation[t].agent, !.usd = cost,
                     !.ticket = t].ticket = t
    BY DEF Idle
  <2>5. UNCHANGED call \/ call' = [call EXCEPT ![th] = [Idle EXCEPT
          !.pc = "recording", !.agent = reservation[t].agent, !.usd = cost, !.ticket = t]]
    BY DEF Commit
  <2> QED  BY <2>2, <2>3, <2>4, <2>5
<1> QED  BY <1>1, <1>2, <1>3 DEF ChargeInv

LEMMA RecordCharge ==
    ASSUME TypeInv, ChargeInv, NEW th \in Threads, RecordCost(th)
    PROVE  ChargeInv'
<1>1. PICK t \in Tickets : t = call[th].ticket
  BY DEF RecordCost, TypeInv, KernelTypeOK, InHand, TicketPlaces, Calls
<1>2. Recording(th, t) /\ UNCHANGED <<issued, reservation>>
  BY <1>1 DEF RecordCost, Recording, budgetVars
<1>3. \A other \in Threads, u \in Tickets :
        Recording(other, u)' => Recording(other, u) /\ other # th
  BY CallSteps
<1>4. t \in issued
  BY <1>1 DEF RecordCost, TypeInv, InHand, TicketPlaces
<1>5. /\ reservation[t] = Nothing /\ charged[t] = 0
      /\ \A other \in Threads : Recording(other, t) => other = th
  BY <1>2 DEF ChargeInv
<1>6. charged' = [charged EXCEPT ![t] = @ + 1] \/ charged' = charged
  BY <1>1 DEF RecordCost
<1>7. \A u \in Tickets : charged'[u] = charged[u] \/ (u = t /\ charged'[u] = 1)
  BY <1>5, <1>6 DEF TypeInv, KernelTypeOK
<1>8. \A other \in Threads : ~Recording(other, t)'
  BY <1>3, <1>5
<1> QED  BY <1>2, <1>3, <1>4, <1>5, <1>7, <1>8 DEF ChargeInv

LEMMA NextCharge == TypeInv /\ ChargeInv /\ [KernelNext]_kernelVars => ChargeInv'
<1> SUFFICES ASSUME TypeInv, ChargeInv, [KernelNext]_kernelVars PROVE ChargeInv'
  OBVIOUS
<1>1. ASSUME \/ \E k \in Tokens : \/ \E a \in Pids, o \in Objects \cup {"*"} : IssueCapability(k, a, o)
                                  \/ RevokeCapability(k)
                                  \/ ExpireToken(k)
             \/ UNCHANGED kernelVars
      PROVE  ChargeInv'
  <2>1. UNCHANGED <<call, charged, issued, reservation>>
    BY <1>1 DEF IssueCapability, RevokeCapability, ExpireToken, budgetVars, kernelVars
  <2> QED  BY <2>1, QuietCharge DEF Recording
<1>2. ASSUME NEW th \in Threads,
             \/ \E kind \in CallerKinds, a \in Pids, o \in Objects, k \in Tokens \cup {Nil},
                   usd \in Costs \cup {0}, outside \in BOOLEAN :
                  Syscall(th, kind, a, o, k, usd, outside)
             \/ CapabilityStage(th) \/ BoundaryStage(th) \/ DispatchStage(th)
      PROVE  ChargeInv'
  <2>1. UNCHANGED <<charged, issued, reservation>>
    BY <1>2 DEF Syscall, CapabilityStage, BoundaryStage, DispatchStage, budgetVars
  <2>2. \A other \in Threads, u \in Tickets : Recording(other, u)' => Recording(other, u)
    BY <1>2, CallSteps
  <2> QED  BY <2>1, <2>2, QuietCharge
<1>3. ASSUME NEW th \in Threads, QuotaStage(th) PROVE ChargeInv'
  <2>1. call[th].agent \in Pids /\ call[th].usd \in Nat /\ UNCHANGED charged
    BY <1>3 DEF QuotaStage, TypeInv, KernelTypeOK, InHand, Calls
  <2>2. \A other \in Threads, u \in Tickets : Recording(other, u)' => Recording(other, u)
    BY <1>3, CallSteps
  <2>3. CASE UNCHANGED budgetVars
    BY <2>1, <2>2, <2>3, QuietCharge DEF budgetVars
  <2>4. CASE \E t \in Tickets : Hold(t, call[th].agent, call[th].usd)
    BY <2>1, <2>2, <2>4, HoldCharge
  <2> QED  BY <1>3, <2>3, <2>4 DEF QuotaStage
<1>4. ASSUME NEW th \in Threads, ToolSuspends(th) \/ EngineCommits(th) PROVE ChargeInv'
  <2>1. call[th].ticket \in Tickets /\ GiveBack(call[th].ticket) /\ UNCHANGED charged
    BY <1>4 DEF ToolSuspends, EngineCommits, TypeInv, KernelTypeOK, InHand, TicketPlaces, Calls
  <2>2. \A other \in Threads, u \in Tickets : Recording(other, u)' => Recording(other, u)
    BY <1>4, CallSteps
  <2>3. issued' = issued /\ \A u \in Tickets : reservation'[u] \in {reservation[u], Nothing}
    BY <2>1, GiveBackBooks
  <2> QED  BY <2>1, <2>2, <2>3, QuietCharge
<1>5. ASSUME NEW t \in Tickets, Release(t) PROVE ChargeInv'
  <2>1. GiveBack(t) /\ UNCHANGED <<call, charged>>
    BY <1>5 DEF Release
  <2>2. issued' = issued /\ \A u \in Tickets : reservation'[u] \in {reservation[u], Nothing}
    BY <2>1, GiveBackBooks
  <2> QED  BY <2>1, <2>2, QuietCharge DEF Recording
<1>6. ASSUME NEW a \in Pids, NEW usd \in Costs, Reserve(a, usd) PROVE ChargeInv'
  <2>1. usd \in Nat /\ UNCHANGED <<call, charged>> /\ \E t \in Tickets : Hold(t, a, usd)
    BY <1>6, KernelAssumption DEF Reserve
  <2> QED  BY <2>1, HoldCharge DEF Recording
<1> QED  BY <1>1, <1>2, <1>3, <1>4, <1>5, <1>6, CommitCharge, RecordCharge DEF KernelNext

\* The cost of a ticket reaches the usage enforcer at most once, in whatever
\* order and from whichever threads it is committed and released
\* (BudgetManager.commit).
THEOREM AtMostOneCharge == KernelSpec => []ChargedOnce
<1>1. KernelInit => ChargeInv
  BY IdleType DEF KernelInit, ChargeInv, Recording
<1>2. ChargeInv => ChargedOnce
  BY DEF ChargeInv, ChargedOnce
<1> QED  BY <1>1, <1>2, InitTypes, NextTypes, NextCharge, PTL DEF KernelSpec

(***************************************************************************)
(* The books agree: what is reserved for an agent is what its outstanding  *)
(* reservations hold.  Hold adds the units of one new ticket, GiveBack     *)
(* takes those of one ticket away, and nothing else touches the books.     *)
(***************************************************************************)
SumInv ==
    \A a \in Pids :
        IsFiniteSet(HeldUnits(a)) /\ reserved[a] = Cardinality(HeldUnits(a))

\* The three things a step can do to the books.
LEMMA BookSteps ==
    ASSUME TypeInv, [KernelNext]_kernelVars
    PROVE  \/ UNCHANGED budgetVars
           \/ \E t \in Tickets, a \in Pids, usd \in Nat : Hold(t, a, usd)
           \/ \E t \in Tickets : GiveBack(t)
<1> DEFINE Books == \/ UNCHANGED budgetVars
                    \/ \E t \in Tickets, a \in Pids, usd \in Nat : Hold(t, a, usd)
                    \/ \E t \in Tickets : GiveBack(t)
<1>1. ASSUME \/ \E k \in Tokens : \/ \E a \in Pids, o \in Objects \cup {"*"} : IssueCapability(k, a, o)
                                  \/ RevokeCapability(k)
                                  \/ ExpireToken(k)
             \/ UNCHANGED kernelVars
      PROVE  Books
  <2>1. UNCHANGED budgetVars
    BY <1>1 DEF IssueCapability, RevokeCapability, ExpireToken, kernelVars, budgetVars
  <2> QED  BY <2>1
<1>2. ASSUME NEW th \in Threads,
             \/ \E kind \in CallerKinds, a \in Pids, o \in Objects, k \in Tokens \cup {Nil},
                   usd \in Costs \cup {0}, outside \in BOOLEAN :
                  Syscall(th, kind, a, o, k, usd, outside)
             \/ CapabilityStage(th) \/ BoundaryStage(th) \/ DispatchStage(th) \/ RecordCost(th)
      PROVE  Books
  <2>1. UNCHANGED budgetVars
    BY <1>2 DEF Syscall, CapabilityStage, BoundaryStage, DispatchStage, RecordCost
  <2> QED  BY <2>1
<1>3. ASSUME NEW th \in Threads, QuotaStage(th) PROVE Books
  <2>1. call[th].agent \in Pids /\ call[th].usd \in Nat
    BY <1>3 DEF QuotaStage, TypeInv, KernelTypeOK, InHand, Calls
  <2>2. UNCHANGED budgetVars \/ \E t \in Tickets : Hold(t, call[th].agent, call[th].usd)
    BY <1>3, Zenon DEF QuotaStage
  <2> QED  BY <2>1, <2>2, Zenon
<1>4. ASSUME NEW th \in Threads, ToolSuspends(th) \/ EngineCommits(th) PROVE Books
  <2>1. call[th].ticket \in Tickets /\ GiveBack(call[th].ticket)
    BY <1>4 DEF ToolSuspends, EngineCommits, TypeInv, KernelTypeOK, InHand, TicketPlaces, Calls
  <2> QED  BY <2>1, Zenon
<1>5. ASSUME NEW t \in Tickets,
             Release(t) \/ \E th \in Threads, cost \in Costs \cup {Nil} : Commit(th, t, cost)
      PROVE  Books
  BY <1>5, Zenon DEF Release, Commit
<1>6. ASSUME NEW a \in Pids, NEW usd \in Costs, Reserve(a, usd) PROVE Books
  BY <1>6, KernelAssumption DEF Reserve
<1> HIDE DEF Books
<1>7. Books
  BY <1>1, <1>2, <1>3, <1>4, <1>5, <1>6 DEF KernelNext
<1> QED  BY <1>7 DEF Books

\* What a unit is: a number up to the amount of an outstanding reservation.
LEMMA UnitMeans ==
    ASSUME NEW a \in Pids, NEW x
    PROVE  x \in HeldUnits(a) <=>
             \E t \in Tickets : /\ reservation[t] # Nothing
                                /\ reservation[t].agent = a
                                /\ x \in {t} \X (1 .. reservation[t].usd)
BY DEF HeldUnits, Units, Outstanding

LEMMA UnitMeansNext ==
    ASSUME NEW a \in Pids, NEW x
    PROVE  x \in HeldUnits(a)' <=>
             \E t \in Tickets : /\ reservation'[t] # Nothing
                                /\ reservation'[t].agent = a
                                /\ x \in {t} \X (1 .. reservation'[t].usd)
BY DEF HeldUnits, Units, Outstanding

\* A ticket holds as many units as its amount says.
LEMMA UnitCount ==
    ASSUME NEW t, NEW usd \in Nat
    PROVE  IsFiniteSet({t} \X (1 .. usd)) /\ Cardinality({t} \X (1 .. usd)) = usd
<1>1. IsFiniteSet({t}) /\ Cardinality({t}) = 1
  BY FS_Singleton
<1>2. IsFiniteSet(1 .. usd) /\ Cardinality(1 .. usd) = usd
  BY FS_Interval
<1>3. /\ IsFiniteSet({t} \X (1 .. usd))
      /\ Cardinality({t} \X (1 .. usd)) = Cardinality({t}) * Cardinality(1 .. usd)
  BY <1>1, <1>2, FS_Product, Zenon
<1>4. 1 * usd = usd
  OBVIOUS
<1> QED  BY <1>1, <1>2, <1>3, <1>4, Zenon

LEMMA HoldSum ==
    ASSUME TypeInv, ChargeInv, SumInv, NEW t \in Tickets, NEW a \in Pids, NEW usd \in Nat,
           Hold(t, a, usd)
    PROVE  SumInv'
<1>1. /\ reservation[t] = Nothing
      /\ reservation'[t] = [agent |-> a, usd |-> usd]
      /\ \A u \in Tickets : u # t => reservation'[u] = reservation[u]
  BY DEF Hold, ChargeInv, TypeInv, KernelTypeOK
<1>2. reservation'[t] # Nothing /\ reservation'[t].agent = a /\ reservation'[t].usd = usd
  BY <1>1, KernelAssumption DEF Nothing
<1>3. /\ reserved \in [Pids -> Nat]
      /\ reserved'[a] = reserved[a] + usd
      /\ \A b \in Pids : b # a => reserved'[b] = reserved[b]
  BY DEF Hold, TypeInv, KernelTypeOK
<1> DEFINE New == {t} \X (1 .. usd)
<1>4. HeldUnits(a)' = HeldUnits(a) \cup New
  <2>1. ASSUME NEW x, x \in HeldUnits(a)' PROVE x \in HeldUnits(a) \cup New
    <3>1. PICK u \in Tickets : /\ reservation'[u] # Nothing
                               /\ reservation'[u].agent = a
                               /\ x \in {u} \X (1 .. reservation'[u].usd)
      BY <2>1, UnitMeansNext
    <3> QED  BY <1>1, <1>2, <3>1, UnitMeans
  <2>2. ASSUME NEW x, x \in HeldUnits(a) PROVE x \in HeldUnits(a)'
    <3>1. PICK u \in Tickets : /\ reservation[u] # Nothing
                               /\ reservation[u].agent = a
                               /\ x \in {u} \X (1 .. reservation[u].usd)
      BY <2>2, UnitMeans
    <3> QED  BY <1>1, <3>1, UnitMeansNext
  <2>3. ASSUME NEW x, x \in New PROVE x \in HeldUnits(a)'
    BY <1>2, <2>3, UnitMeansNext
  <2> HIDE DEF New
  <2> QED  BY <2>1, <2>2, <2>3
<1>5. HeldUnits(a) \cap New = {}
  <2> SUFFICES ASSUME NEW x \in HeldUnits(a), x \in New PROVE FALSE
    OBVIOUS
  <2>1. PICK u \in Tickets : reservation[u] # Nothing /\ x \in {u} \X (1 .. reservation[u].usd)
    BY UnitMeans
  <2> QED  BY <1>1, <2>1
<1>6. IsFiniteSet(New) /\ Cardinality(New) = usd
  BY UnitCount
<1>7. IsFiniteSet(HeldUnits(a)) /\ reserved[a] = Cardinality(HeldUnits(a))
  BY DEF SumInv
<1> HIDE DEF New
<1>8. IsFiniteSet(HeldUnits(a)') /\ reserved'[a] = Cardinality(HeldUnits(a)')
  <2>1. /\ IsFiniteSet(HeldUnits(a)')
        /\ Cardinality(HeldUnits(a)') = Cardinality(HeldUnits(a)) + Cardinality(New) - Cardinality({})
    <3>1. /\ IsFiniteSet(HeldUnits(a) \cup New)
          /\ Cardinality(HeldUnits(a) \cup New)
               = Cardinality(HeldUnits(a)) + Cardinality(New) - Cardinality(HeldUnits(a) \cap New)
      BY <1>6, <1>7, FS_Union, Zenon
    <3> QED  BY <1>4, <1>5, <3>1, Zenon
  <2>2. Cardinality({}) = 0 /\ reserved[a] \in Nat
    BY <1>3, FS_EmptySet
  <2> QED  BY <1>3, <1>6, <1>7, <2>1, <2>2
<1>9. ASSUME NEW b \in Pids, b # a
      PROVE  IsFiniteSet(HeldUnits(b)') /\ reserved'[b] = Cardinality(HeldUnits(b)')
  <2>1. HeldUnits(b)' = HeldUnits(b)
    <3>1. ASSUME NEW x PROVE x \in HeldUnits(b)' <=> x \in HeldUnits(b)
      BY <1>1, <1>2, <1>9, UnitMeans, UnitMeansNext
    <3> QED  BY <3>1, Zenon
  <2> QED  BY <1>3, <1>9, <2>1 DEF SumInv
<1> QED  BY <1>8, <1>9 DEF SumInv

LEMMA GiveBackSum ==
    ASSUME TypeInv, SumInv, NEW t \in Tickets, GiveBack(t)
    PROVE  SumInv'
<1>1. /\ reservation'[t] = Nothing
      /\ \A u \in Tickets : u # t => reservation'[u] = reservation[u]
  BY GiveBackBooks
<1>2. CASE reservation[t] = Nothing
  <2>1. reserved' = reserved /\ \A u \in Tickets : reservation'[u] = reservation[u]
    BY <1>1, <1>2 DEF GiveBack
  <2>2. ASSUME NEW a \in Pids PROVE HeldUnits(a)' = HeldUnits(a)
    <3>1. ASSUME NEW x PROVE x \in HeldUnits(a)' <=> x \in HeldUnits(a)
      BY <2>1, UnitMeans, UnitMeansNext
    <3> QED  BY <3>1, Zenon
  <2> QED  BY <2>1, <2>2 DEF SumInv
<1>3. CASE reservation[t] # Nothing
  <2>0. PICK ag \in Pids, usd \in Nat : ag = reservation[t].agent /\ usd = reservation[t].usd
    BY <1>3 DEF TypeInv, KernelTypeOK
  <2> DEFINE Old == {t} \X (1 .. usd)
  <2>1. reserved \in [Pids -> Nat]
    BY DEF TypeInv, KernelTypeOK
  <2>2. reserved' = [reserved EXCEPT ![ag] = IF usd > @ THEN 0 ELSE @ - usd]
    BY <1>3, <2>0 DEF GiveBack
  <2>3. IsFiniteSet(Old) /\ Cardinality(Old) = usd
    BY UnitCount
  <2>4. Old \subseteq HeldUnits(ag)
    BY <1>3, <2>0, UnitMeans
  <2>5. HeldUnits(ag)' = HeldUnits(ag) \ Old
    <3>1. ASSUME NEW x, x \in HeldUnits(ag)' PROVE x \in HeldUnits(ag) \ Old
      <4>1. PICK u \in Tickets : /\ reservation'[u] # Nothing
                                 /\ reservation'[u].agent = ag
                                 /\ x \in {u} \X (1 .. reservation'[u].usd)
        BY <3>1, UnitMeansNext
      <4>2. u # t /\ reservation'[u] = reservation[u]
        BY <1>1, <4>1
      <4>3. x \in HeldUnits(ag)
        BY <4>1, <4>2, UnitMeans
      <4> QED  BY <4>1, <4>2, <4>3
    <3>2. ASSUME NEW x, x \in HeldUnits(ag), x \notin Old PROVE x \in HeldUnits(ag)'
      <4>1. PICK u \in Tickets : /\ reservation[u] # Nothing
                                 /\ reservation[u].agent = ag
                                 /\ x \in {u} \X (1 .. reservation[u].usd)
        BY <3>2, UnitMeans
      <4>2. u # t
        BY <2>0, <3>2, <4>1
      <4> QED  BY <1>1, <4>1, <4>2, UnitMeansNext
    <3> HIDE DEF Old
    <3> QED  BY <3>1, <3>2
  <2>6. \A b \in Pids : b # ag => HeldUnits(b)' = HeldUnits(b)
    <3> SUFFICES ASSUME NEW b \in Pids, b # ag, NEW x
                 PROVE  x \in HeldUnits(b)' <=> x \in HeldUnits(b)
      OBVIOUS
    <3> QED  BY <1>1, <2>0, UnitMeans, UnitMeansNext
  <2>7. IsFiniteSet(HeldUnits(ag)) /\ reserved[ag] = Cardinality(HeldUnits(ag))
    BY DEF SumInv
  <2> HIDE DEF Old
  <2>8. usd <= reserved[ag]
    BY <2>3, <2>4, <2>7, FS_Subset
  <2>9. reserved'[ag] = reserved[ag] - usd
    BY <2>1, <2>2, <2>8
  <2>10. IsFiniteSet(HeldUnits(ag)') /\ reserved'[ag] = Cardinality(HeldUnits(ag)')
    <3>1. HeldUnits(ag) \cap Old = Old
      BY <2>4
    <3>2. /\ IsFiniteSet(HeldUnits(ag)')
          /\ Cardinality(HeldUnits(ag)') = Cardinality(HeldUnits(ag)) - Cardinality(Old)
      BY <2>5, <2>7, <3>1, FS_Difference
    <3> QED  BY <2>3, <2>7, <2>9, <3>2
  <2>11. ASSUME NEW b \in Pids, b # ag
         PROVE  IsFiniteSet(HeldUnits(b)') /\ reserved'[b] = Cardinality(HeldUnits(b)')
    <3>1. reserved'[b] = reserved[b] /\ HeldUnits(b)' = HeldUnits(b)
      BY <2>1, <2>2, <2>6, <2>11
    <3> QED  BY <2>11, <3>1 DEF SumInv
  <2> QED  BY <2>10, <2>11 DEF SumInv
<1> QED  BY <1>2, <1>3

LEMMA NextSum == TypeInv /\ ChargeInv /\ SumInv /\ [KernelNext]_kernelVars => SumInv'
<1> SUFFICES ASSUME TypeInv, ChargeInv, SumInv, [KernelNext]_kernelVars PROVE SumInv'
  OBVIOUS
<1>1. CASE UNCHANGED budgetVars
  <2>1. reservation' = reservation /\ reserved' = reserved
    BY <1>1 DEF budgetVars
  <2>2. \A a \in Pids : HeldUnits(a)' = HeldUnits(a)
    BY <2>1 DEF HeldUnits, Units, Outstanding
  <2> QED  BY <2>1, <2>2 DEF SumInv
<1> QED  BY <1>1, BookSteps, HoldSum, GiveBackSum, Zenon

\* The total kept per agent is the sum of the reservations kept per ticket, in
\* whatever order they are drawn, committed and released, so that the clamp of
\* commit and release never hides a difference (BudgetManager).
THEOREM ReservationsAddUp == KernelSpec => []ReservedAddsUp
<1>1. KernelInit => ChargeInv
  BY IdleType DEF KernelInit, ChargeInv, Recording
<1>2. KernelInit => SumInv
  <2> SUFFICES ASSUME KernelInit, NEW a \in Pids
               PROVE  IsFiniteSet(HeldUnits(a)) /\ reserved[a] = Cardinality(HeldUnits(a))
    BY DEF SumInv
  <2>1. HeldUnits(a) = {}
    BY DEF KernelInit, HeldUnits, Outstanding
  <2> QED  BY <2>1, FS_EmptySet DEF KernelInit
<1>3. SumInv => ReservedAddsUp
  BY DEF SumInv, ReservedAddsUp
<1> QED  BY <1>1, <1>2, <1>3, InitTypes, NextTypes, NextCharge, NextSum, PTL DEF KernelSpec

(***************************************************************************)
(* Authority: an issued token keeps its subject and target for ever.       *)
(***************************************************************************)
\* Operations on tokens keep what an issued token says.
LEMMA TokensKeep ==
    ASSUME TypeInv,
           \/ \E k \in Tokens : \/ \E a \in Pids, o \in Objects \cup {"*"} : IssueCapability(k, a, o)
                                \/ RevokeCapability(k)
                                \/ ExpireToken(k)
           \/ \E th \in Threads : CapabilityStage(th)
           \/ UNCHANGED token
    PROVE  \A k \in Tokens : token[k].state # "unissued" =>
             /\ token'[k].state # "unissued"
             /\ token'[k].subject = token[k].subject
             /\ token'[k].target = token[k].target
<1>1. token \in [Tokens -> [state : {"unissued", "live", "expired", "gone"},
                             subject : Pids \cup {Nil},
                             target : Objects \cup {Nil, "*"}]]
  BY DEF TypeInv, KernelTypeOK
<1>2. CASE \E th \in Threads : CapabilityStage(th)
  <2>1. PICK th \in Threads : token' = AfterAuthorize(call[th].token)
    BY <1>2 DEF CapabilityStage
  <2>2. call[th].token \in Tokens \cup {Nil}
    BY DEF TypeInv, KernelTypeOK, Calls
  <2> QED  BY <1>1, <2>1, <2>2 DEF AfterAuthorize
<1> QED  BY <1>1, <1>2 DEF IssueCapability, RevokeCapability, ExpireToken

\* Calls that passed the capability stage stay authorized while tokens keep what
\* they say and no other call enters.
LEMMA AuthKept ==
    ASSUME TypeInv, AuthInv,
           \A k \in Tokens : token[k].state # "unissued" =>
             /\ token'[k].state # "unissued"
             /\ token'[k].subject = token[k].subject
             /\ token'[k].target = token[k].target,
           \A th \in Threads : call'[th].pc \in AuthPlaces =>
             /\ call[th].pc \in AuthPlaces
             /\ call'[th].agent = call[th].agent /\ call'[th].object = call[th].object
             /\ call'[th].by = call[th].by
    PROVE  AuthInv'
<1>1. \A th \in Threads : call[th].by \in Tokens \cup {Nil}
  BY DEF TypeInv, KernelTypeOK, Calls
<1> QED  BY <1>1 DEF AuthInv, AllowIsAuthorized, AuthPlaces

\* AuthInv for one thread.
AuthAt(th) ==
    call[th].pc \in AuthPlaces =>
      IF call[th].by = Nil THEN <<call[th].agent, call[th].object>> \notin Refused \cup Asking
      ELSE /\ token[call[th].by].subject = call[th].agent
           /\ token[call[th].by].target \in {call[th].object, "*"}
           /\ token[call[th].by].state # "unissued"

LEMMA CapabilityAuth ==
    ASSUME TypeInv, AuthInv, NEW th \in Threads, CapabilityStage(th)
    PROVE  AuthInv'
<1> DEFINE c == call[th]
<1>1. /\ call \in [Threads -> Calls] /\ c \in Calls /\ c.by = Nil /\ c.pc = "capability"
      /\ c.token \in Tokens \cup {Nil}
  BY DEF CapabilityStage, TypeInv, KernelTypeOK, InHand, Calls
<1>2. \A k \in Tokens : token[k].state # "unissued" =>
        /\ token'[k].state # "unissued"
        /\ token'[k].subject = token[k].subject
        /\ token'[k].target = token[k].target
  BY TokensKeep
<1>3. CASE call' = [call EXCEPT ![th] = Idle]
  BY <1>1, <1>2, <1>3, AuthKept, IdleType DEF AuthPlaces
<1>4. CASE /\ ~Authorizes(c.token, c.agent, c.object)
           /\ <<c.agent, c.object>> \notin Refused \cup Asking
           /\ call' = [call EXCEPT ![th].pc = "quota"]
  <2>1. /\ call'[th].by = Nil /\ call'[th].agent = c.agent /\ call'[th].object = c.object
        /\ \A other \in Threads : other # th => call'[other] = call[other]
    BY <1>1, <1>4 DEF Calls
  <2>2. \A other \in Threads : call[other].by \in Tokens \cup {Nil}
    BY <1>1 DEF Calls
  <2> QED  BY <1>2, <1>4, <2>1, <2>2 DEF AuthInv, AllowIsAuthorized, AuthPlaces
<1>5. CASE /\ Authorizes(c.token, c.agent, c.object)
           /\ call' = [call EXCEPT ![th].pc = "quota", ![th].by = c.token]
  <2>1. /\ call'[th].by = c.token /\ call'[th].agent = c.agent /\ call'[th].object = c.object
        /\ \A other \in Threads : other # th => call'[other] = call[other]
    BY <1>1, <1>5 DEF Calls
  <2>2. \A other \in Threads : call[other].by \in Tokens \cup {Nil}
    BY <1>1 DEF Calls
  <2>3. /\ c.token \in Tokens /\ token[c.token].state # "unissued"
        /\ token[c.token].subject = c.agent /\ token[c.token].target \in {c.object, "*"}
    BY <1>1, <1>5 DEF Authorizes
  <2>4. /\ token'[c.token].state # "unissued"
        /\ token'[c.token].subject = c.agent /\ token'[c.token].target \in {c.object, "*"}
    BY <1>2, <2>3
  <2>5. c.token # Nil
    BY <1>5 DEF Authorizes
  <2> HIDE DEF c
  <2>6. ASSUME NEW other \in Threads, other # th PROVE AuthAt(other)'
    BY <1>2, <2>1, <2>2, <2>6 DEF AuthInv, AllowIsAuthorized, AuthPlaces, AuthAt
  <2>7. AuthAt(th)'
    BY <2>1, <2>4, <2>5 DEF AuthAt
  <2> QED  BY <2>6, <2>7 DEF AuthInv, AllowIsAuthorized, AuthPlaces, AuthAt
<1> HIDE DEF c
<1>6. \/ call' = [call EXCEPT ![th] = Idle]
      \/ /\ ~Authorizes(c.token, c.agent, c.object)
         /\ <<c.agent, c.object>> \notin Refused \cup Asking
         /\ call' = [call EXCEPT ![th].pc = "quota"]
      \/ /\ Authorizes(c.token, c.agent, c.object)
         /\ call' = [call EXCEPT ![th].pc = "quota", ![th].by = c.token]
  BY DEF CapabilityStage, Refuse, c
<1> QED  BY <1>3, <1>4, <1>5, <1>6

LEMMA NextAuth == TypeInv /\ AuthInv /\ [KernelNext]_kernelVars => AuthInv'
<1> SUFFICES ASSUME TypeInv, AuthInv, [KernelNext]_kernelVars PROVE AuthInv'
  OBVIOUS
<1>1. call \in [Threads -> Calls]
  BY DEF TypeInv, KernelTypeOK
<1>2. ASSUME UNCHANGED token, NEW th \in Threads, NEW c,
             call' = [call EXCEPT ![th] = c],
             c.pc \in AuthPlaces =>
               /\ call[th].pc \in AuthPlaces /\ c.agent = call[th].agent
               /\ c.object = call[th].object /\ c.by = call[th].by
      PROVE  AuthInv'
  BY <1>1, <1>2, TokensKeep, AuthKept
<1>3. ASSUME UNCHANGED <<token, call>> PROVE AuthInv'
  BY <1>3, TokensKeep, AuthKept
<1>4. ASSUME \E k \in Tokens : \/ \E a \in Pids, o \in Objects \cup {"*"} : IssueCapability(k, a, o)
                               \/ RevokeCapability(k)
                               \/ ExpireToken(k)
      PROVE  AuthInv'
  <2>1. UNCHANGED call
    BY <1>4 DEF IssueCapability, RevokeCapability, ExpireToken
  <2> QED  BY <1>4, <2>1, TokensKeep, AuthKept
<1>5. ASSUME NEW th \in Threads, NEW kind \in CallerKinds, NEW a \in Pids, NEW o \in Objects,
             NEW k \in Tokens \cup {Nil}, NEW usd \in Costs \cup {0}, NEW outside \in BOOLEAN,
             Syscall(th, kind, a, o, k, usd, outside)
      PROVE  AuthInv'
  BY <1>2, <1>5 DEF Syscall, AuthPlaces
<1>6. ASSUME NEW th \in Threads, UNCHANGED token, call' = [call EXCEPT ![th] = Idle]
      PROVE  AuthInv'
  BY <1>2, <1>6, IdleType DEF AuthPlaces
<1>7. ASSUME NEW th \in Threads, UNCHANGED token, call[th].pc \in AuthPlaces,
             NEW place \in AuthPlaces, call' = [call EXCEPT ![th].pc = place]
      PROVE  AuthInv'
  <2>1. call' = [call EXCEPT ![th] = [call[th] EXCEPT !.pc = place]]
    BY <1>1, <1>7
  <2>2. LET c == [call[th] EXCEPT !.pc = place]
        IN  c.agent = call[th].agent /\ c.object = call[th].object /\ c.by = call[th].by
    BY <1>1 DEF Calls
  <2> QED  BY <1>2, <1>7, <2>1, <2>2
<1>8. ASSUME NEW th \in Threads, QuotaStage(th) PROVE AuthInv'
  <2>1. UNCHANGED token /\ call[th].pc = "quota"
    BY <1>8 DEF QuotaStage
  <2>2. CASE call' = [call EXCEPT ![th] = Idle]
    BY <1>6, <2>1, <2>2
  <2>3. ASSUME NEW t, call' = [call EXCEPT ![th].pc = "boundary", ![th].ticket = t]
        PROVE  AuthInv'
    <3>1. call' = [call EXCEPT ![th] = [call[th] EXCEPT !.pc = "boundary", !.ticket = t]]
      BY <1>1, <2>3
    <3>2. LET c == [call[th] EXCEPT !.pc = "boundary", !.ticket = t]
          IN  c.agent = call[th].agent /\ c.object = call[th].object /\ c.by = call[th].by
      BY <1>1 DEF Calls
    <3> QED  BY <1>2, <2>1, <3>1, <3>2 DEF AuthPlaces
  <2>4. \/ call' = [call EXCEPT ![th] = Idle]
        \/ \E t \in Tickets : call' = [call EXCEPT ![th].pc = "boundary", ![th].ticket = t]
    BY <1>8 DEF QuotaStage, Refuse
  <2> QED  BY <2>2, <2>3, <2>4
<1>9. ASSUME NEW th \in Threads, BoundaryStage(th) \/ DispatchStage(th) PROVE AuthInv'
  <2>1. UNCHANGED token /\ call[th].pc \in AuthPlaces
    BY <1>9 DEF BoundaryStage, DispatchStage, AuthPlaces
  <2> QED  BY <1>6, <1>7, <1>9, <2>1 DEF BoundaryStage, DispatchStage, Refuse, Allow, AuthPlaces
<1>10. ASSUME NEW th \in Threads, ToolSuspends(th) \/ EngineCommits(th) PROVE AuthInv'
  <2>1. UNCHANGED token /\ call[th].pc \in AuthPlaces
    BY <1>10 DEF ToolSuspends, EngineCommits, AuthPlaces
  <2> QED  BY <1>6, <1>7, <1>10, <2>1 DEF ToolSuspends, EngineCommits, AuthPlaces
<1>11. ASSUME NEW th \in Threads,
              RecordCost(th) \/ \E t \in Tickets, cost \in Costs \cup {Nil} : Commit(th, t, cost)
       PROVE  AuthInv'
  <2>1. UNCHANGED token
    BY <1>11 DEF RecordCost, Commit
  <2>2. CASE RecordCost(th)
    BY <1>6, <2>1, <2>2 DEF RecordCost
  <2>3. ASSUME NEW t, NEW cost,
               call' = [call EXCEPT ![th] = [Idle EXCEPT !.pc = "recording",
                          !.agent = reservation[t].agent, !.usd = cost, !.ticket = t]]
        PROVE  AuthInv'
    <3>1. [Idle EXCEPT !.pc = "recording", !.agent = reservation[t].agent, !.usd = cost,
                       !.ticket = t].pc = "recording"
      BY DEF Idle
    <3> QED  BY <1>2, <2>1, <2>3, <3>1 DEF AuthPlaces
  <2>4. CASE \E t \in Tickets, cost \in Costs \cup {Nil} : Commit(th, t, cost)
    BY <1>3, <2>1, <2>3, <2>4 DEF Commit
  <2> QED  BY <1>11, <2>2, <2>4
<1>12. ASSUME \/ \E a \in Pids, usd \in Costs : Reserve(a, usd)
              \/ \E t \in Tickets : Release(t)
              \/ UNCHANGED kernelVars
       PROVE  AuthInv'
  BY <1>3, <1>12 DEF Reserve, Release, kernelVars
<1> QED  BY <1>4, <1>5, <1>8, <1>9, <1>10, <1>11, <1>12, CapabilityAuth DEF KernelNext

\* No call gets past the capability stage without the ACL's consent or a token
\* issued to its agent for its object, whatever is issued, revoked or expires
\* while it is on its way (capability_stage).
THEOREM Authority == KernelSpec => []AllowIsAuthorized
<1>1. KernelInit => AuthInv
  BY IdleType DEF KernelInit, AuthInv, AllowIsAuthorized, AuthPlaces
<1>2. AuthInv => AllowIsAuthorized
  BY DEF AuthInv
<1> QED  BY <1>1, <1>2, InitTypes, NextTypes, NextAuth, PTL DEF KernelSpec

(***************************************************************************)
(* Tickets: whoever lets go of one has given it back or answers for it.    *)
(***************************************************************************)

\* A call draws its ticket in the quota stage.
NoTicketYet ==
    \A th \in Threads : call[th].pc \in {"idle", "capability", "quota"} => call[th].ticket = Nil

KeepInv == NoTicketForgotten /\ NoTicketYet

\* Who answers for tickets in the next state.
Keepers == held \cup parked \cup lost \cup {call[th].ticket : th \in Threads}

\* A step of one call: the books, the ghosts and the other calls only gain, and
\* what it held is still in its hands, given back or answered for.
LEMMA StepKeeps ==
    ASSUME TypeInv, KeepInv, NEW th \in Threads, NEW c, call' = [call EXCEPT ![th] = c],
           held \subseteq held', parked \subseteq parked', lost \subseteq lost',
           c.pc \in {"idle", "capability", "quota"} => c.ticket = Nil,
           \A u \in Tickets : reservation'[u] # Nothing =>
             /\ reservation[u] # Nothing \/ c.ticket = u
             /\ call[th].ticket = u => c.ticket = u \/ u \in held' \cup parked' \cup lost'
    PROVE  KeepInv'
<1>1. call \in [Threads -> Calls]
  BY DEF TypeInv, KernelTypeOK
<1>2. call'[th] = c /\ \A other \in Threads : other # th => call'[other] = call[other]
  BY <1>1
<1>3. NoTicketYet'
  BY <1>2 DEF KeepInv, NoTicketYet
<1>4. ASSUME NEW u \in Tickets, reservation'[u] # Nothing PROVE u \in Keepers'
  <2>1. CASE c.ticket = u
    BY <1>2, <2>1 DEF Keepers
  <2>2. CASE c.ticket # u
    <3>1. u \in Keepers
      BY <1>4, <2>2 DEF KeepInv, NoTicketForgotten, Outstanding, Keepers
    <3>2. CASE u \in held \cup parked \cup lost
      BY <3>2 DEF Keepers
    <3>3. ASSUME NEW other \in Threads, u = call[other].ticket PROVE u \in Keepers'
      BY <1>2, <1>4, <2>2, <3>3 DEF Keepers
    <3> QED  BY <3>1, <3>2, <3>3 DEF Keepers
  <2> QED  BY <2>1, <2>2
<1> QED  BY <1>3, <1>4 DEF KeepInv, NoTicketForgotten, Outstanding, Keepers

\* A step of no call.
LEMMA QuietKeeps ==
    ASSUME TypeInv, KeepInv, UNCHANGED call,
           held \subseteq held', parked \subseteq parked', lost \subseteq lost',
           \A u \in Tickets : reservation'[u] # Nothing => reservation[u] # Nothing \/ u \in held'
    PROVE  KeepInv'
BY DEF KeepInv, NoTicketForgotten, NoTicketYet, Outstanding

LEMMA NextKeeps == TypeInv /\ ChargeInv /\ KeepInv /\ [KernelNext]_kernelVars => KeepInv'
<1> SUFFICES ASSUME TypeInv, ChargeInv, KeepInv, [KernelNext]_kernelVars PROVE KeepInv'
  OBVIOUS
<1>0. call \in [Threads -> Calls]
  BY DEF TypeInv, KernelTypeOK
<1>1. ASSUME NEW th \in Threads, UNCHANGED <<reservation, held, parked>>, Refuse(th)
      PROVE  KeepInv'
  <2>1. \A u \in Tickets : call[th].ticket = u => u \in lost'
    BY <1>1, KernelAssumption DEF Refuse
  <2> QED  BY <1>1, <2>1, IdleType, StepKeeps DEF Refuse
<1>2. ASSUME NEW th \in Threads, NEW place \in StagePlaces \ {"capability", "quota"},
             call' = [call EXCEPT ![th].pc = place],
             held \subseteq held', parked \subseteq parked', lost \subseteq lost',
             \A u \in Tickets : reservation'[u] # Nothing => reservation[u] # Nothing
      PROVE  KeepInv'
  <2> DEFINE c == [call[th] EXCEPT !.pc = place]
  <2>1. call' = [call EXCEPT ![th] = c] /\ c.pc = place /\ c.ticket = call[th].ticket
    BY <1>0, <1>2 DEF Calls
  <2>2. place \notin {"idle", "capability", "quota"}
    BY DEF StagePlaces
  <2> HIDE DEF c
  <2> QED  BY <1>2, <2>1, <2>2, StepKeeps
<1>3. ASSUME \/ \E k \in Tokens : \/ \E a \in Pids, o \in Objects \cup {"*"} : IssueCapability(k, a, o)
                                  \/ RevokeCapability(k)
                                  \/ ExpireToken(k)
             \/ UNCHANGED kernelVars
      PROVE  KeepInv'
  <2>1. UNCHANGED <<call, reservation, held, parked, lost>>
    BY <1>3 DEF IssueCapability, RevokeCapability, ExpireToken, budgetVars, kernelVars
  <2> QED  BY <2>1, QuietKeeps
<1>4. ASSUME NEW th \in Threads, NEW kind \in CallerKinds, NEW a \in Pids, NEW o \in Objects,
             NEW k \in Tokens \cup {Nil}, NEW usd \in Costs \cup {0}, NEW outside \in BOOLEAN,
             Syscall(th, kind, a, o, k, usd, outside)
      PROVE  KeepInv'
  <2> DEFINE c == [pc |-> "capability", kind |-> kind, agent |-> a, object |-> o, token |-> k,
                   usd |-> usd, outside |-> outside, ticket |-> Nil, by |-> Nil]
  <2>1. call' = [call EXCEPT ![th] = c] /\ UNCHANGED <<reservation, held, parked, lost>>
    BY <1>4 DEF Syscall, budgetVars
  <2>2. c.ticket = Nil /\ \A u \in Tickets : call[th].ticket # u
    BY <1>4, IdleType, KernelAssumption DEF Syscall
  <2> HIDE DEF c
  <2> QED  BY <2>1, <2>2, StepKeeps
<1>5. ASSUME NEW th \in Threads, CapabilityStage(th) PROVE KeepInv'
  <2>1. /\ UNCHANGED <<reservation, held, parked>>
        /\ call[th].pc = "capability" /\ call[th].ticket = Nil
    BY <1>5 DEF CapabilityStage, budgetVars, KeepInv, NoTicketYet
  <2>2. ASSUME NEW c, call' = [call EXCEPT ![th] = c], c.ticket = Nil, UNCHANGED lost
        PROVE  KeepInv'
    <3>1. \A u \in Tickets : call[th].ticket # u
      BY <2>1, KernelAssumption
    <3> QED  BY <2>1, <2>2, <3>1, StepKeeps
  <2>3. CASE call' = [call EXCEPT ![th].pc = "quota"] /\ UNCHANGED lost
    <3>1. call' = [call EXCEPT ![th] = [call[th] EXCEPT !.pc = "quota"]]
          /\ [call[th] EXCEPT !.pc = "quota"].ticket = Nil
      BY <1>0, <2>1, <2>3 DEF Calls
    <3> QED  BY <2>2, <2>3, <3>1
  <2>4. ASSUME NEW k, call' = [call EXCEPT ![th].pc = "quota", ![th].by = k], UNCHANGED lost
        PROVE  KeepInv'
    <3>1. call' = [call EXCEPT ![th] = [call[th] EXCEPT !.pc = "quota", !.by = k]]
      BY <2>4, Zenon
    <3>2. [call[th] EXCEPT !.pc = "quota", !.by = k].ticket = Nil
      BY <1>0, <2>1 DEF Calls
    <3> QED  BY <2>2, <2>4, <3>1, <3>2
  <2> QED  BY <1>1, <1>5, <2>1, <2>3, <2>4 DEF CapabilityStage
<1>6. ASSUME NEW th \in Threads, QuotaStage(th) PROVE KeepInv'
  <2>1. /\ UNCHANGED <<held, parked>> /\ call[th].pc = "quota" /\ call[th].ticket = Nil
    BY <1>6 DEF QuotaStage, KeepInv, NoTicketYet
  <2>2. CASE Refuse(th) /\ UNCHANGED budgetVars
    BY <1>1, <2>1, <2>2 DEF budgetVars
  <2>3. ASSUME NEW t \in Tickets, Hold(t, call[th].agent, call[th].usd), UNCHANGED lost,
               call' = [call EXCEPT ![th].pc = "boundary", ![th].ticket = t]
        PROVE  KeepInv'
    <3> DEFINE c == [call[th] EXCEPT !.pc = "boundary", !.ticket = t]
    <3>1. call' = [call EXCEPT ![th] = c] /\ c.pc = "boundary" /\ c.ticket = t
      BY <1>0, <2>3 DEF Calls
    <3>2. \A u \in Tickets : u # t => reservation'[u] = reservation[u] /\ call[th].ticket # u
      BY <2>1, <2>3, KernelAssumption DEF Hold, TypeInv, KernelTypeOK
    <3> HIDE DEF c
    <3>3. \A u \in Tickets : reservation'[u] # Nothing =>
            /\ reservation[u] # Nothing \/ c.ticket = u
            /\ call[th].ticket = u => c.ticket = u
      BY <3>1, <3>2
    <3>4. held \subseteq held' /\ parked \subseteq parked' /\ lost \subseteq lost'
      BY <2>1, <2>3
    <3>5. c.pc \notin {"idle", "capability", "quota"}
      BY <3>1
    <3> QED  BY <3>1, <3>3, <3>4, <3>5, StepKeeps
  <2> QED  BY <1>6, <2>2, <2>3 DEF QuotaStage
<1>7. ASSUME NEW th \in Threads, BoundaryStage(th) PROVE KeepInv'
  BY <1>1, <1>2, <1>7 DEF BoundaryStage, budgetVars, StagePlaces
<1>8. ASSUME NEW th \in Threads, DispatchStage(th) PROVE KeepInv'
  <2>1. UNCHANGED reservation /\ call[th].pc = "dispatch" /\ call[th].ticket \in Tickets
    BY <1>8 DEF DispatchStage, budgetVars, TypeInv, KernelTypeOK, InHand, TicketPlaces, Calls
  <2>2. CASE Allow(th) /\ UNCHANGED lost
    <3>1. CASE call' = [call EXCEPT ![th].pc = "executing"] /\ UNCHANGED <<held, parked>>
      BY <1>2, <2>1, <2>2, <3>1 DEF StagePlaces
    <3>2. CASE /\ call' = [call EXCEPT ![th] = Idle]
               /\ \/ held' = held \cup {call[th].ticket} /\ UNCHANGED parked
                  \/ parked' = parked \cup {call[th].ticket} /\ UNCHANGED held
      BY <2>1, <2>2, <3>2, IdleType, StepKeeps
    <3> QED  BY <2>2, <3>1, <3>2 DEF Allow
  <2>3. CASE Refuse(th) /\ UNCHANGED <<held, parked>>
    BY <1>1, <2>1, <2>3
  <2> QED  BY <1>8, <2>2, <2>3 DEF DispatchStage
<1>9. ASSUME NEW th \in Threads, ToolSuspends(th) \/ EngineCommits(th) PROVE KeepInv'
  <2>1. /\ call[th].ticket \in Tickets /\ GiveBack(call[th].ticket)
        /\ UNCHANGED <<held, parked, lost>>
    BY <1>9 DEF ToolSuspends, EngineCommits, TypeInv, KernelTypeOK, InHand, TicketPlaces, Calls
  <2>2. /\ reservation'[call[th].ticket] = Nothing
        /\ \A u \in Tickets : reservation'[u] # Nothing => reservation[u] # Nothing
    BY <2>1, GiveBackBooks
  <2> QED  BY <1>2, <1>9, <2>1, <2>2, IdleType, StepKeeps
           DEF ToolSuspends, EngineCommits, StagePlaces
<1>10. ASSUME NEW th \in Threads, NEW t \in Tickets, NEW cost \in Costs \cup {Nil},
              Commit(th, t, cost)
       PROVE  KeepInv'
  <2>1. /\ GiveBack(t) /\ UNCHANGED <<held, parked, lost>> /\ call[th] = Idle
        /\ \A u \in Tickets : call[th].ticket # u
    BY <1>10, IdleType, KernelAssumption DEF Commit
  <2>2. \A u \in Tickets : reservation'[u] # Nothing => reservation[u] # Nothing
    BY <2>1, GiveBackBooks
  <2>3. CASE UNCHANGED call
    BY <2>1, <2>2, <2>3, QuietKeeps
  <2>4. ASSUME NEW c, call' = [call EXCEPT ![th] = c], c.pc = "recording"
        PROVE  KeepInv'
    BY <2>1, <2>2, <2>4, StepKeeps
  <2>5. [Idle EXCEPT !.pc = "recording", !.agent = reservation[t].agent,
                     !.usd = cost, !.ticket = t].pc = "recording"
    BY DEF Idle
  <2> QED  BY <1>10, <2>3, <2>4, <2>5 DEF Commit
<1>11. ASSUME NEW th \in Threads, RecordCost(th) PROVE KeepInv'
  <2>1. /\ UNCHANGED <<reservation, held, parked, lost>>
        /\ call' = [call EXCEPT ![th] = Idle] /\ call[th].pc = "recording"
    BY <1>11 DEF RecordCost, budgetVars
  <2>2. \A u \in Tickets : call[th].ticket = u => reservation[u] = Nothing
    BY <2>1 DEF ChargeInv, Recording
  <2> QED  BY <2>1, <2>2, IdleType, StepKeeps
<1>12. ASSUME NEW a \in Pids, NEW usd \in Costs, Reserve(a, usd) PROVE KeepInv'
  <2>1. PICK t \in Tickets : Hold(t, a, usd) /\ held' = held \cup {t}
    BY <1>12 DEF Reserve
  <2>2. \A u \in Tickets : u # t => reservation'[u] = reservation[u]
    BY <2>1 DEF Hold, TypeInv, KernelTypeOK
  <2> QED  BY <1>12, <2>1, <2>2, QuietKeeps DEF Reserve
<1>13. ASSUME NEW t \in Tickets, Release(t) PROVE KeepInv'
  <2>1. GiveBack(t) /\ UNCHANGED <<call, held, parked, lost>>
    BY <1>13 DEF Release
  <2> QED  BY <2>1, GiveBackBooks, QuietKeeps
<1> QED  BY <1>3, <1>4, <1>5, <1>6, <1>7, <1>8, <1>9, <1>10, <1>11, <1>12, <1>13 DEF KernelNext

\* The engine forgets no ticket: what is still reserved is in a call's hands or
\* accounted for by whoever was given it (StepEngine._dispatch's finally,
\* BudgetManager.commit and release).
THEOREM NoneForgotten == KernelSpec => []NoTicketForgotten
<1>1. KernelInit => ChargeInv
  BY IdleType DEF KernelInit, ChargeInv, Recording
<1>2. KernelInit => KeepInv
  BY IdleType DEF KernelInit, KeepInv, NoTicketForgotten, NoTicketYet, Outstanding
<1>3. KeepInv => NoTicketForgotten
  BY DEF KeepInv
<1> QED  BY <1>1, <1>2, <1>3, InitTypes, NextTypes, NextCharge, NextKeeps, PTL DEF KernelSpec

=============================================================================
