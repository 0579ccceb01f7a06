---------------------------- MODULE ApprovalProofs ----------------------------
(***************************************************************************)
(* For any requests, askers, hosts and number of crashes: the gateway      *)
(* implements its abstract specification, Decision, and so decides each    *)
(* request once and tells nobody of a verdict that does not stand.         *)
(***************************************************************************)
EXTENDS ApprovalGateway, TLAPS

RowStatuses == {"none", "pending"} \cup Verdicts
Hearings == {"nothing", "pending"} \cup Verdicts
AskerStates == {Idle} \cup [at : {"waiting"}, host : Gateways, req : Requests]

LEMMA InitApprovalTypes == ApprovalInit => ApprovalTypeOK
  BY ApprovalAssumption DEF ApprovalInit, ApprovalTypeOK

\* An asker that waits does so for a request, at a host.
LEMMA WaitingAsker ==
  ASSUME ApprovalTypeOK, NEW w \in Askers, asker[w].at = "waiting"
  PROVE  asker[w].req \in Requests /\ asker[w].host \in Gateways
  BY DEF ApprovalTypeOK, Idle

\* What check_status returns is something an asker can hear.
LEMMA StatusIsHeard ==
  ASSUME ApprovalTypeOK, NEW r \in Requests
  PROVE  Status(r) \in Hearings
  BY DEF ApprovalTypeOK, Status, Hearings

\* The conditional update keeps the types of the row and of the signals.
LEMMA UpdateTypes ==
  ASSUME ApprovalTypeOK, NEW h \in Gateways, NEW r \in Requests,
         NEW v \in Verdicts, UpdateStatus(h, r, v)
  PROVE  /\ row' \in [Requests -> RowStatuses]
         /\ signals' \subseteq Gateways \X Requests
  BY DEF ApprovalTypeOK, UpdateStatus, RowStatuses, Verdicts

\* So does what is told to an asker.
LEMMA HearTypes ==
  ASSUME ApprovalTypeOK, NEW w \in Askers, NEW r \in Requests,
         NEW what \in Hearings, Hear(w, r, what)
  PROVE  heard' \in [Askers -> [Requests -> Hearings]]
  BY DEF ApprovalTypeOK, Hear, Hearings

LEMMA NextApprovalTypes ==
  ApprovalTypeOK /\ [ApprovalNext]_approvalVars => ApprovalTypeOK'
<1> SUFFICES ASSUME ApprovalTypeOK, [ApprovalNext]_approvalVars
             PROVE  ApprovalTypeOK'
  OBVIOUS
<1>0. /\ row \in [Requests -> RowStatuses]
      /\ heard \in [Askers -> [Requests -> Hearings]]
      /\ asker \in [Askers -> AskerStates]
  BY DEF ApprovalTypeOK, RowStatuses, Hearings, AskerStates
<1> USE DEF RowStatuses, Hearings, AskerStates
<1>1. ASSUME NEW h \in Gateways, NEW r \in Requests,
             \/ Submit(h, r) \/ Arm(h, r) \/ SignalWaiter(h, r)
      PROVE  ApprovalTypeOK'
  <2>1. CASE Submit(h, r)
    BY <2>1, <1>0 DEF Submit, ApprovalTypeOK
  <2>2. CASE Arm(h, r)
    BY <2>2 DEF Arm, ApprovalTypeOK
  <2>3. CASE SignalWaiter(h, r)
    BY <2>3 DEF SignalWaiter, ApprovalTypeOK
  <2> QED
    BY <1>1, <2>1, <2>2, <2>3
<1>2. ASSUME NEW h \in Gateways, NEW r \in Requests,
             NEW v \in {"approved", "rejected"}, AnswerApproval(h, r, v)
      PROVE  ApprovalTypeOK'
  <2>1. v \in Verdicts
    BY DEF Verdicts
  <2> QED
    BY <1>2, <2>1, UpdateTypes DEF AnswerApproval, ApprovalTypeOK
<1>3. ASSUME NEW h \in Gateways, NEW r \in Requests, Expire(h, r)
      PROVE  ApprovalTypeOK'
  <2>1. "expired" \in Verdicts
    BY DEF Verdicts
  <2> QED
    BY <1>3, <2>1, UpdateTypes DEF Expire, ApprovalTypeOK
<1>4. ASSUME NEW h \in Gateways, NEW r \in Requests, NEW w \in Askers,
             WaitForDecision(w, h, r)
      PROVE  ApprovalTypeOK'
  <2>1. CASE r \in armed[h]
    <3>1. asker' \in [Askers -> AskerStates]
      BY <1>0, <1>4, <2>1 DEF WaitForDecision
    <3> QED
      BY <1>4, <2>1, <3>1 DEF WaitForDecision, ApprovalTypeOK
  <2>2. CASE r \notin armed[h]
    <3>1. heard' \in [Askers -> [Requests -> Hearings]]
      BY <1>4, <2>2, HearTypes, StatusIsHeard DEF WaitForDecision
    <3> QED
      BY <1>4, <2>2, <3>1 DEF WaitForDecision, ApprovalTypeOK
  <2> QED
    BY <2>1, <2>2
<1>5. ASSUME NEW w \in Askers, Wake(w) \/ WaitTimesOut(w)
      PROVE  ApprovalTypeOK'
  <2>1. asker[w].req \in Requests
    BY <1>5, WaitingAsker DEF Wake, WaitTimesOut
  <2>2. Status(asker[w].req) \in Hearings /\ "nothing" \in Hearings
    BY <2>1, StatusIsHeard
  <2>3. heard' \in [Askers -> [Requests -> Hearings]]
    BY <1>5, <2>1, <2>2, HearTypes DEF Wake, WaitTimesOut
  <2>4. asker' \in [Askers -> AskerStates]
    BY <1>0, <1>5 DEF Wake, WaitTimesOut
  <2> QED
    BY <1>5, <2>3, <2>4 DEF Wake, WaitTimesOut, ApprovalTypeOK
<1>6. ASSUME NEW r \in Requests, DeadlinePasses(r)
      PROVE  ApprovalTypeOK'
  BY <1>6 DEF DeadlinePasses, ApprovalTypeOK
<1>7. ASSUME NEW h \in Gateways, ListExpired(h) \/ SweepFails(h)
      PROVE  ApprovalTypeOK'
  <2>1. Expired(h) \subseteq Requests
    BY DEF Expired, ApprovalTypeOK
  <2>2. sweep' \in [Gateways -> SUBSET Requests]
    BY <1>7, <2>1 DEF ListExpired, SweepFails, ApprovalTypeOK
  <2> QED
    BY <1>7, <2>2 DEF ListExpired, SweepFails, ApprovalTypeOK
<1>8. ASSUME NEW h \in Gateways, HostCrash(h)
      PROVE  ApprovalTypeOK'
  <2>1. asker' \in [Askers -> AskerStates]
    BY <1>0, <1>8 DEF HostCrash
  <2> QED
    BY <1>8, <2>1, ApprovalAssumption DEF HostCrash, ApprovalTypeOK
<1>9. CASE UNCHANGED approvalVars
  BY <1>9 DEF approvalVars, ApprovalTypeOK
<1> QED
  BY <1>1, <1>2, <1>3, <1>4, <1>5, <1>6, <1>7, <1>8, <1>9 DEF ApprovalNext

\* The rows, the events and waiters of every process and what each asker was
\* told keep their types, through crashes too (HITLGateway).
THEOREM ApprovalTypes == ApprovalSpec => []ApprovalTypeOK
  BY InitApprovalTypes, NextApprovalTypes, PTL DEF ApprovalSpec

-----------------------------------------------------------------------------
(* The refinement.                                                         *)

\* An update decides the request or leaves it alone.
LEMMA UpdateDecides ==
  ASSUME NEW h \in Gateways, NEW r \in Requests, NEW v \in Verdicts,
         UpdateStatus(h, r, v), UNCHANGED heard
  PROVE  D!DecisionNext \/ UNCHANGED <<row, heard>>
<1>1. v \in D!Verdicts
  BY DEF D!Verdicts, Verdicts
<1> QED
  BY <1>1 DEF UpdateStatus, D!DecisionNext, D!Decide

\* What an asker hears, it is told.
LEMMA HearTells ==
  ASSUME NEW w \in Askers, NEW r \in Requests, UNCHANGED row,
         NEW what \in {Status(r), "nothing"}, Hear(w, r, what)
  PROVE  D!DecisionNext
<1>1. what \in {row[r], "nothing"} /\ what # "none"
  BY DEF Status
<1>2. D!Tell(w, r)
  BY <1>1 DEF Hear, D!Tell
<1> QED
  BY <1>2 DEF D!DecisionNext

LEMMA StepDecides ==
  ApprovalTypeOK /\ [ApprovalNext]_approvalVars
      => [D!DecisionNext]_<<row, heard>>
<1> SUFFICES ASSUME ApprovalTypeOK, [ApprovalNext]_approvalVars
             PROVE  D!DecisionNext \/ UNCHANGED <<row, heard>>
  OBVIOUS
<1>1. ASSUME NEW h \in Gateways, NEW r \in Requests, Submit(h, r)
      PROVE  D!DecisionNext
  BY <1>1 DEF Submit, D!DecisionNext, D!Propose
<1>2. ASSUME NEW h \in Gateways, NEW r \in Requests,
             NEW v \in {"approved", "rejected"}, AnswerApproval(h, r, v)
      PROVE  D!DecisionNext \/ UNCHANGED <<row, heard>>
  BY <1>2, UpdateDecides DEF AnswerApproval, Verdicts
<1>3. ASSUME NEW h \in Gateways, NEW r \in Requests, Expire(h, r)
      PROVE  D!DecisionNext \/ UNCHANGED <<row, heard>>
  BY <1>3, UpdateDecides DEF Expire, Verdicts
<1>4. ASSUME NEW h \in Gateways, NEW r \in Requests, NEW w \in Askers,
             WaitForDecision(w, h, r)
      PROVE  D!DecisionNext \/ UNCHANGED <<row, heard>>
  BY <1>4, HearTells DEF WaitForDecision
<1>5. ASSUME NEW w \in Askers, Wake(w) \/ WaitTimesOut(w)
      PROVE  D!DecisionNext
  BY <1>5, WaitingAsker, HearTells DEF Wake, WaitTimesOut
<1>6. ASSUME NEW h \in Gateways, NEW r \in Requests,
             Arm(h, r) \/ SignalWaiter(h, r)
      PROVE  UNCHANGED <<row, heard>>
  BY <1>6 DEF Arm, SignalWaiter
<1>7. ASSUME NEW r \in Requests, DeadlinePasses(r)
      PROVE  UNCHANGED <<row, heard>>
  BY <1>7 DEF DeadlinePasses
<1>8. ASSUME NEW h \in Gateways, ListExpired(h) \/ SweepFails(h) \/ HostCrash(h)
      PROVE  UNCHANGED <<row, heard>>
  BY <1>8 DEF ListExpired, SweepFails, HostCrash
<1>9. CASE UNCHANGED approvalVars
  BY <1>9 DEF approvalVars
<1> QED
  BY <1>1, <1>2, <1>3, <1>4, <1>5, <1>6, <1>7, <1>8, <1>9 DEF ApprovalNext

\* The gateway implements Decision: saving, updating and checking rows, with
\* events of each process, their loss and the expiry sweep, is proposing,
\* deciding once and telling how things stand (HITLGateway).
THEOREM GatewayDecides == ApprovalSpec => ApprovalsAreDecisions
<1>1. ApprovalInit => D!DecisionInit
  BY DEF ApprovalInit, D!DecisionInit
<1> QED
  BY <1>1, ApprovalTypes, StepDecides, PTL
     DEF ApprovalSpec, ApprovalsAreDecisions, D!DecisionSpec

-----------------------------------------------------------------------------
(* What the abstract specification promises.                               *)

Agreed == D!DecisionTypeOK /\ D!Agreement

LEMMA AgreedInit == D!DecisionInit => Agreed
  BY DEF D!DecisionInit, Agreed, D!DecisionTypeOK, D!Agreement, D!Standings,
         D!Verdicts

LEMMA AgreedNext == Agreed /\ [D!DecisionNext]_<<row, heard>> => Agreed'
<1> SUFFICES ASSUME Agreed, [D!DecisionNext]_<<row, heard>>
             PROVE  Agreed'
  OBVIOUS
<1> USE DEF Agreed, D!DecisionTypeOK, D!Agreement, D!Standings, D!Verdicts
<1>1. ASSUME NEW r \in Requests, D!Propose(r)
      PROVE  Agreed'
  BY <1>1 DEF D!Propose
<1>2. ASSUME NEW r \in Requests, NEW v \in D!Verdicts, D!Decide(r, v)
      PROVE  Agreed'
  BY <1>2 DEF D!Decide
<1>3. ASSUME NEW r \in Requests, NEW w \in Askers, D!Tell(w, r)
      PROVE  Agreed'
  BY <1>3 DEF D!Tell
<1>4. CASE UNCHANGED <<row, heard>>
  BY <1>4
<1> QED
  BY <1>1, <1>2, <1>3, <1>4 DEF D!DecisionNext

\* Through the refinement: no two askers, of whatever processes, ever hold
\* different verdicts of one request, and the one they hold is the row's
\* (check_status after a wait_for_decision that was woken, missed or late).
THEOREM AskersAgree == ApprovalSpec => []D!Agreement
<1>1. Agreed => D!Agreement
  BY DEF Agreed
<1> QED
  BY <1>1, GatewayDecides, AgreedInit, AgreedNext, PTL
     DEF ApprovalsAreDecisions, D!DecisionSpec
=============================================================================
