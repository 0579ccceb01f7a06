-------------------------- MODULE AgenticLoopProofs --------------------------
(***************************************************************************)
(* For any tools, turns, retries and number of calls: every call is        *)
(* answered in its place, takes effect as its answer says, and no tool is  *)
(* guided more often than the run allows.                                  *)
(***************************************************************************)
EXTENDS AgenticLoop, FiniteSetTheorems, SequenceTheorems, TLAPS

Whats == {"none", "guidance", "denied", "refused", "result", "error"}
Rulings == {"none", "guidance", "denied"}

Messages == [who : {"model"}, calls : Seq(Tools)]
            \cup [who : {"tools"}, answers : Seq([to : CallIds, what : Whats])]

Live == {"idle", "asking", "ruling", "running"}

\* The conversation alternates, and its length says which turn it is.
TalkInv ==
    /\ talk \in Seq(Messages)
    /\ \A k \in DOMAIN talk :
           IF k % 2 = 1
           THEN talk[k].calls \in Seq(Tools) /\ Len(talk[k].calls) \in CallIds
           ELSE talk[k].answers \in Seq([to : CallIds, what : Whats])
    /\ Len(talk) \in {2 * turn, 2 * turn + 1}
    /\ stage \in {"idle", "asking"} => Len(talk) = 2 * turn
    /\ stage \in {"ruling", "running"} => Len(talk) = 2 * turn + 1
    /\ stage \in Live => turn < MaxToolTurns

\* The calls of the turn under way: the ones ruled out have their answers and
\* never run, the others have effects on their attempts' account only.
TurnInv ==
    /\ stage = "ruling" => Len(ruling) < Len(TurnCalls)
    /\ Len(talk) = 2 * turn + 1 => Len(ruling) <= Len(TurnCalls)
    /\ stage = "running" =>
           /\ Len(ruling) = Len(TurnCalls)
           /\ \A i \in CallIds :
                  /\ i \in DOMAIN ruling /\ ruling[i] # "none" =>
                         answer[i] = ruling[i] /\ attempt[i] = 0
                  /\ i \in DOMAIN ruling /\ ruling[i] = "none" =>
                         attempt[i] > 0 /\ answer[i] \notin {"guidance", "denied"}
                  /\ i \notin DOMAIN ruling => attempt[i] = 0
                  /\ answer[i] = "result" => effects[Call(i)] > 0
                  /\ effects[Call(i)] <= attempt[i]
                  /\ Runs(i) => effects[Call(i)] < attempt[i]
    /\ \A c \in AllCalls :
           \/ c[1] > turn + 1
           \/ c[1] = turn + 1 /\ stage \in {"idle", "asking", "ruling"}
           => effects[c] = 0

\* Guidance given in the turn under way, not yet part of the conversation.
GuidedNow(t) ==
    {c \in {Len(talk) + 1} \X CallIds :
        /\ Len(talk) % 2 = 1
        /\ c[2] \in DOMAIN ruling
        /\ ruling[c[2]] = "guidance"
        /\ TurnCalls[c[2]] = t}

GuideInv ==
    \A t \in Tools :
        LET G == Guidances(t) \cup GuidedNow(t) IN
        /\ IsFiniteSet(G)
        /\ Cardinality(G) <= guided[t]
        /\ Cardinality(G) < MaxGuidance

LoopInv ==
    /\ LoopTypeOK
    /\ TalkInv
    /\ TurnInv
    /\ CallsAreAnswered
    /\ EffectsAsAnswered
    /\ GuideInv

-----------------------------------------------------------------------------
(* Arithmetic of turns and messages.                                       *)

LEMMA Parity ==
  ASSUME NEW n \in Nat
  PROVE  /\ (2 * n) % 2 = 0 /\ (2 * n + 1) % 2 = 1 /\ (2 * n + 2) % 2 = 0
         /\ (2 * n) \div 2 = n /\ (2 * n + 2) \div 2 = n + 1
  OBVIOUS

\* An even position of the conversation belongs to a turn that is over.
LEMMA TurnOfAnswer ==
  ASSUME LoopTypeOK, TalkInv, NEW k \in DOMAIN talk, k % 2 = 0
  PROVE  /\ k \div 2 \in 1 .. turn /\ k = 2 * (k \div 2)
         /\ k - 1 \in DOMAIN talk /\ (k - 1) % 2 = 1
<1>1. k \in 1 .. Len(talk) /\ Len(talk) \in Nat /\ turn \in Nat
  BY DEF TalkInv, LoopTypeOK
<1>2. k = 2 * (k \div 2)
  BY <1>1
<1>3. k <= 2 * turn + 1
  BY <1>1 DEF TalkInv
<1>4. k \div 2 \in Int
  BY <1>1
<1>5. k \div 2 \in 1 .. turn
  BY <1>1, <1>2, <1>3, <1>4
<1>6. (k - 1) % 2 = 1
  BY <1>1, <1>2, <1>4
<1> QED
  BY <1>1, <1>2, <1>5, <1>6 DEF TalkInv

\* What one more message does to the conversation.
LEMMA Said ==
  ASSUME talk \in Seq(Messages), NEW m \in Messages, talk' = Append(talk, m)
  PROVE  /\ talk' \in Seq(Messages) /\ Len(talk') = Len(talk) + 1
         /\ talk'[Len(talk) + 1] = m
         /\ \A k \in DOMAIN talk : talk'[k] = talk[k]
         /\ DOMAIN talk = 1 .. Len(talk)
         /\ DOMAIN talk' = DOMAIN talk \cup {Len(talk) + 1}
<1>1. Len(talk) \in Nat /\ DOMAIN talk = 1 .. Len(talk)
  OBVIOUS
<1>2. /\ talk' \in Seq(Messages) /\ Len(talk') = Len(talk) + 1
      /\ talk'[Len(talk) + 1] = m
      /\ \A k \in 1 .. Len(talk) : talk'[k] = talk[k]
  BY AppendProperties
<1>3. DOMAIN talk' = 1 .. Len(talk) + 1
  BY <1>2
<1>4. 1 .. Len(talk) + 1 = (1 .. Len(talk)) \cup {Len(talk) + 1}
  BY <1>1
<1> QED
  BY <1>1, <1>2, <1>3, <1>4

\* A step that leaves the conversation and its account of guidance alone.
LEMMA GuideKept ==
  ASSUME GuideInv, UNCHANGED <<talk, ruling, guided>>
  PROVE  GuideInv'
<1>1. TurnCalls' = TurnCalls
  BY DEF TurnCalls
<1>2. ASSUME NEW t \in Tools
      PROVE  Guidances(t)' = Guidances(t) /\ GuidedNow(t)' = GuidedNow(t)
  <2>1. Guidances(t)' = Guidances(t)
    BY DEF Guidances
  <2>2. GuidedNow(t)' = GuidedNow(t)
    BY <1>1 DEF GuidedNow
  <2> QED
    BY <2>1, <2>2
<1>3. ASSUME NEW t \in Tools
      PROVE  (Guidances(t) \cup GuidedNow(t))' = Guidances(t) \cup GuidedNow(t)
  BY <1>2
<1> HIDE DEF Guidances, GuidedNow
<1> QED
  BY <1>3 DEF GuideInv

\* A step after which every answer is an old one, to the same calls.
LEMMA AnsweredKept ==
  ASSUME CallsAreAnswered, stage' = "asking" => Len(talk') % 2 = 0,
         \A k \in DOMAIN talk' : k % 2 = 0 =>
             k \in DOMAIN talk /\ talk'[k] = talk[k] /\ talk'[k - 1] = talk[k - 1]
  PROVE  CallsAreAnswered'
<1> SUFFICES ASSUME NEW k \in DOMAIN talk', k % 2 = 0
             PROVE  /\ Len(talk'[k].answers) = Len(talk'[k - 1].calls)
                    /\ \A i \in DOMAIN talk'[k].answers :
                           /\ talk'[k].answers[i].to = i
                           /\ talk'[k].answers[i].what # "none"
  BY DEF CallsAreAnswered
<1>1. k \in DOMAIN talk /\ talk'[k] = talk[k] /\ talk'[k - 1] = talk[k - 1]
  OBVIOUS
<1> QED
  BY <1>1 DEF CallsAreAnswered

-----------------------------------------------------------------------------
(* Init.                                                                   *)

LEMMA InitLoopInv == LoopInit => LoopInv
<1> SUFFICES ASSUME LoopInit PROVE LoopInv
  OBVIOUS
<1>1. LoopTypeOK
  BY LoopAssumption DEF LoopInit, LoopTypeOK, Unanswered
<1>2. TalkInv
  BY LoopAssumption DEF LoopInit, TalkInv, Live
<1>3. TurnInv
  BY LoopAssumption DEF LoopInit, TurnInv, AllCalls
<1>4. CallsAreAnswered /\ EffectsAsAnswered
  BY DEF LoopInit, CallsAreAnswered, EffectsAsAnswered
<1>5. ASSUME NEW t \in Tools
      PROVE  Guidances(t) \cup GuidedNow(t) = {}
  BY DEF LoopInit, Guidances, GuidedNow
<1>6. GuideInv
  <2>1. IsFiniteSet({}) /\ Cardinality({}) = 0
    BY FS_EmptySet
  <2>2. MaxGuidance > 0 /\ \A t \in Tools : guided[t] = 0
    BY LoopAssumption DEF LoopInit
  <2> SUFFICES ASSUME NEW t \in Tools
               PROVE  LET G == Guidances(t) \cup GuidedNow(t) IN
                      /\ IsFiniteSet(G)
                      /\ Cardinality(G) <= guided[t]
                      /\ Cardinality(G) < MaxGuidance
    BY DEF GuideInv
  <2>3. guided[t] = 0
    BY <2>2
  <2> QED
    BY <1>5, <2>1, <2>2, <2>3
<1> QED
  BY <1>1, <1>2, <1>3, <1>4, <1>6 DEF LoopInv

-----------------------------------------------------------------------------
(* Steps that leave the turn's work alone: asking the model, failing, being *)
(* cancelled with nothing under way.                                       *)

LEMMA QuietStep ==
  ASSUME LoopInv, UNCHANGED <<turn, talk, ruling, guided, attempt, answer, effects>>,
         provider' \in {"primary", "fallback"}, tries' \in 0 .. MaxTries - 1,
         \/ stage' \in LoopEndings
         \/ stage \in {"idle", "asking"} /\ stage' = "asking"
         \/ stage' = stage
  PROVE  LoopInv'
<1>1. LoopTypeOK'
  BY DEF LoopInv, LoopTypeOK, LoopEndings
<1>2. TalkInv'
  BY DEF LoopInv, TalkInv, Live, LoopEndings
<1>3. TurnInv'
  BY DEF LoopInv, TurnInv, LoopEndings, TurnCalls, Call, Runs
<1>4. CallsAreAnswered'
  <2>1. Len(talk) = 2 * turn \/ stage' # "asking"
    BY DEF LoopInv, TalkInv, LoopEndings
  <2>2. stage' = "asking" => Len(talk) % 2 = 0
    BY <2>1, Parity DEF LoopInv, LoopTypeOK
  <2> QED
    BY <2>2 DEF LoopInv, CallsAreAnswered
<1>5. EffectsAsAnswered'
  BY DEF LoopInv, EffectsAsAnswered
<1>6. GuideInv'
  BY GuideKept DEF LoopInv
<1> QED
  BY <1>1, <1>2, <1>3, <1>4, <1>5, <1>6 DEF LoopInv

\* A response with calls: the conversation grows by it, and its turn begins.
LEMMA ModelCallsStep ==
  ASSUME LoopInv, NEW n \in CallIds, NEW cs \in [1 .. n -> Tools], ModelCalls(cs)
  PROVE  LoopInv'
<1> DEFINE msg == [who |-> "model", calls |-> cs]
<1>0. /\ stage = "asking" /\ stage' = "ruling"
      /\ provider' = "primary" /\ tries' = 0 /\ ruling' = << >>
      /\ talk' = Append(talk, msg)
      /\ UNCHANGED <<turn, guided, attempt, answer, effects>>
  BY DEF ModelCalls
<1>1. cs \in Seq(Tools) /\ Len(cs) = n /\ msg \in Messages
  BY LoopAssumption DEF CallIds, Messages
<1>2. /\ talk \in Seq(Messages) /\ Len(talk) = 2 * turn /\ turn \in Nat
      /\ turn < MaxToolTurns
  BY <1>0 DEF LoopInv, LoopTypeOK, TalkInv, Live
<1> HIDE DEF msg
<1>3. /\ talk' \in Seq(Messages) /\ Len(talk') = 2 * turn + 1
      /\ talk'[2 * turn + 1] = msg
      /\ \A k \in DOMAIN talk : talk'[k] = talk[k]
      /\ DOMAIN talk' = DOMAIN talk \cup {2 * turn + 1}
      /\ DOMAIN talk = 1 .. 2 * turn
  BY <1>0, <1>1, <1>2, Said
<1>4. (2 * turn + 1) % 2 = 1
  BY <1>2, Parity
<1>5. msg.calls = cs
  BY DEF msg
<1>6. LoopTypeOK'
  BY <1>0, LoopAssumption DEF LoopInv, LoopTypeOK
<1>7. TalkInv'
  BY <1>0, <1>1, <1>2, <1>3, <1>4, <1>5 DEF LoopInv, TalkInv, Live
<1>8. TurnInv'
  <2>1. Len(ruling') = 0 /\ TurnCalls' = cs /\ n > 0
    BY <1>0, <1>3, <1>5 DEF TurnCalls, CallIds
  <2>2. \A c \in AllCalls :
            \/ c[1] > turn + 1
            \/ c[1] = turn + 1 /\ stage \in {"idle", "asking", "ruling"}
            => effects[c] = 0
    BY DEF LoopInv, TurnInv
  <2>3. n \in Nat
    BY LoopAssumption DEF CallIds
  <2> QED
    BY <1>0, <1>1, <2>1, <2>2, <2>3 DEF TurnInv
<1>9. CallsAreAnswered'
  <2>1. ASSUME NEW k \in DOMAIN talk', k % 2 = 0
        PROVE  k \in DOMAIN talk /\ talk'[k] = talk[k] /\ talk'[k - 1] = talk[k - 1]
    <3>1. k \in DOMAIN talk
      BY <1>3, <1>4, <2>1
    <3>2. k - 1 \in DOMAIN talk
      BY <2>1, <3>1, TurnOfAnswer DEF LoopInv
    <3> QED
      BY <1>3, <3>1, <3>2
  <2> QED
    BY <1>0, <2>1, AnsweredKept DEF LoopInv
<1>10. EffectsAsAnswered'
  <2>1. ASSUME NEW k \in DOMAIN talk', k % 2 = 0
        PROVE  k \in DOMAIN talk /\ talk'[k] = talk[k]
    BY <1>3, <1>4, <2>1
  <2> QED
    BY <1>0, <2>1 DEF LoopInv, EffectsAsAnswered
<1>11. GuideInv'
  <2>1. ASSUME NEW t \in Tools
        PROVE  (Guidances(t) \cup GuidedNow(t))' = Guidances(t) \cup GuidedNow(t)
    <3>1. GuidedNow(t) = {}
      BY <1>2, Parity DEF GuidedNow
    <3>2. GuidedNow(t)' = {}
      BY <1>0 DEF GuidedNow
    <3>3. ASSUME NEW k \in DOMAIN talk', k % 2 = 0
          PROVE  k \in DOMAIN talk /\ talk'[k] = talk[k] /\ talk'[k - 1] = talk[k - 1]
      <4>1. k \in DOMAIN talk
        BY <1>3, <1>4, <3>3
      <4>2. k - 1 \in DOMAIN talk
        BY <3>3, <4>1, TurnOfAnswer DEF LoopInv
      <4> QED
        BY <1>3, <4>1, <4>2
    <3>4. Guidances(t)' = Guidances(t)
      BY <1>3, <3>3 DEF Guidances
    <3> QED
      BY <3>1, <3>2, <3>4
  <2> QED
    BY <1>0, <2>1 DEF LoopInv, GuideInv
<1> QED
  BY <1>6, <1>7, <1>8, <1>9, <1>10, <1>11 DEF LoopInv

-----------------------------------------------------------------------------
(* The callbacks' word on the next call.                                   *)

\* What a decision comes to; it is guidance only below the limit.
Ruled(decision, t) ==
    CASE decision = "guide" -> Escalated(guided[t] + 1)
      [] decision = "deny"  -> "denied"
      [] OTHER              -> "none"

LEMMA CallbacksSayStep ==
  ASSUME LoopInv, NEW decision \in {"approve", "guide", "deny"},
         CallbacksSay(decision)
  PROVE  LoopInv'
<1> DEFINE n == Len(ruling) + 1
           t == TurnCalls[n]
           what == Ruled(decision, t)
<1>0. /\ stage = "ruling"
      /\ UNCHANGED <<turn, provider, tries, talk, effects>>
  BY DEF CallbacksSay
<1>1. /\ ruling \in Seq(Rulings) /\ Len(ruling) \in Nat /\ Len(ruling) < Len(TurnCalls)
      /\ turn \in Nat /\ Len(talk) = 2 * turn + 1
      /\ guided \in [Tools -> Nat]
  BY <1>0 DEF LoopInv, LoopTypeOK, TalkInv, TurnInv, Rulings
<1>2. /\ Len(talk) % 2 = 1 /\ Len(talk) \in DOMAIN talk
      /\ TurnCalls \in Seq(Tools) /\ Len(TurnCalls) \in CallIds
  <2>1. Len(talk) % 2 = 1
    BY <1>1, Parity
  <2>2. Len(talk) \in DOMAIN talk
    BY <1>1 DEF LoopInv, TalkInv
  <2> QED
    BY <2>1, <2>2 DEF LoopInv, TalkInv, TurnCalls
<1>3. n \in 1 .. Len(TurnCalls) /\ n \in CallIds /\ t \in Tools
  BY <1>1, <1>2, LoopAssumption DEF CallIds
<1>4. guided' = [guided EXCEPT ![t] = IF decision = "guide" THEN @ + 1 ELSE @]
  BY DEF CallbacksSay
<1>5. ruling' = Append(ruling, what)
  <2>1. decision = "guide" => guided'[t] = guided[t] + 1
    BY <1>1, <1>3, <1>4
  <2>2. ruling' = Append(ruling, CASE decision = "guide" -> Escalated(guided'[t])
                                   [] decision = "deny"  -> "denied"
                                   [] OTHER              -> "none")
    BY DEF CallbacksSay
  <2> QED
    BY <2>1, <2>2 DEF Ruled
<1>6. /\ what \in Rulings
      /\ what = "guidance" =>
             decision = "guide" /\ guided[t] + 1 < MaxGuidance
  BY <1>1, <1>3, LoopAssumption DEF Ruled, Escalated, Rulings
<1>7. IF Len(ruling') = Len(TurnCalls)
      THEN /\ stage' = "running"
           /\ answer' = [i \in CallIds |->
                            IF i \in DOMAIN ruling' THEN ruling'[i] ELSE "none"]
           /\ attempt' = [i \in CallIds |->
                             IF i \in DOMAIN ruling' /\ ruling'[i] = "none"
                             THEN 1 ELSE 0]
      ELSE UNCHANGED <<stage, answer, attempt>>
  BY DEF CallbacksSay
<1> HIDE DEF n, t, what
<1>8. /\ ruling' \in Seq(Rulings) /\ Len(ruling') = n
      /\ ruling'[n] = what
      /\ \A i \in 1 .. Len(ruling) : ruling'[i] = ruling[i]
      /\ DOMAIN ruling = 1 .. Len(ruling) /\ DOMAIN ruling' = 1 .. n
      /\ n = Len(ruling) + 1
  BY <1>1, <1>5, <1>6 DEF n
<1>9. TurnCalls' = TurnCalls
  BY <1>0 DEF TurnCalls
<1>10. LoopTypeOK'
  <2>1. guided' \in [Tools -> Nat]
    <3>1. (IF decision = "guide" THEN guided[t] + 1 ELSE guided[t]) \in Nat
      BY <1>1, <1>3
    <3> QED
      BY <1>1, <1>3, <1>4, <3>1
  <2>2. Len(ruling') <= MaxCalls
    BY <1>2, <1>3, <1>8 DEF CallIds
  <2>3. answer' \in [CallIds -> Whats]
    BY <1>7, <1>8 DEF LoopInv, LoopTypeOK, Whats, Rulings
  <2>4. attempt' \in [CallIds -> 0 .. MaxToolRetries + 1]
    <3>1. 0 \in 0 .. MaxToolRetries + 1 /\ 1 \in 0 .. MaxToolRetries + 1
      BY LoopAssumption
    <3>2. attempt \in [CallIds -> 0 .. MaxToolRetries + 1]
      BY DEF LoopInv, LoopTypeOK
    <3> QED
      BY <1>7, <3>1, <3>2
  <2> QED
    BY <1>0, <1>7, <1>8, <2>1, <2>2, <2>3, <2>4
       DEF LoopInv, LoopTypeOK, Whats, Rulings
<1>11. TalkInv'
  BY <1>0, <1>7 DEF LoopInv, TalkInv, Live
<1>12. TurnInv'
  <2>1. \A c \in AllCalls : c[1] >= turn + 1 => effects[c] = 0
    BY <1>0, <1>1 DEF LoopInv, TurnInv, AllCalls
  <2>2. \A i \in CallIds : Call(i)' = Call(i) /\ effects[Call(i)] = 0
    <3>1. turn + 1 \in 1 .. MaxToolTurns
      BY <1>0, LoopAssumption DEF LoopInv, LoopTypeOK, TalkInv, Live
    <3> QED
      BY <1>0, <2>1, <3>1 DEF Call, AllCalls
  <2>3. Len(ruling') <= Len(TurnCalls)
    BY <1>1, <1>8
  <2>4. CASE Len(ruling') = Len(TurnCalls)
    <3>1. \A i \in CallIds :
              /\ i \in DOMAIN ruling' /\ ruling'[i] # "none" =>
                     answer'[i] = ruling'[i] /\ attempt'[i] = 0
              /\ i \in DOMAIN ruling' /\ ruling'[i] = "none" =>
                     attempt'[i] = 1 /\ answer'[i] = "none"
              /\ i \notin DOMAIN ruling' => attempt'[i] = 0
              /\ answer'[i] \in Rulings /\ attempt'[i] \in {0, 1}
      BY <1>7, <1>8, <2>4 DEF Rulings
    <3>2. \A c \in AllCalls :
              \/ c[1] > turn' + 1
              \/ c[1] = turn' + 1 /\ stage' \in {"idle", "asking", "ruling"}
              => effects'[c] = 0
      BY <1>0, <1>1, <2>1 DEF AllCalls
    <3>3. ASSUME NEW i \in CallIds
          PROVE  /\ answer'[i] # "result" /\ answer'[i] \notin {"refused", "error"}
                 /\ effects'[Call(i)'] = 0
                 /\ attempt'[i] >= 0 /\ (Runs(i)' => attempt'[i] > 0)
      BY <1>0, <2>2, <3>1 DEF Rulings, Runs
    <3> QED
      BY <1>7, <1>9, <2>3, <2>4, <3>1, <3>2, <3>3 DEF TurnInv
  <2>5. CASE Len(ruling') # Len(TurnCalls)
    BY <1>0, <1>1, <1>2, <1>7, <1>8, <1>9, <2>1, <2>3, <2>5
       DEF TurnInv, Runs, LoopInv
  <2> QED
    BY <2>4, <2>5
<1>13. CallsAreAnswered'
  BY <1>0, <1>7 DEF LoopInv, CallsAreAnswered
<1>14. EffectsAsAnswered'
  BY <1>0 DEF LoopInv, EffectsAsAnswered
<1>15. GuideInv'
  <2>1. ASSUME NEW u \in Tools
        PROVE  Guidances(u)' = Guidances(u)
    BY <1>0 DEF Guidances
  <2>2. ASSUME NEW u \in Tools
        PROVE  GuidedNow(u)' =
                   IF u = t /\ what = "guidance"
                   THEN GuidedNow(u) \cup {<<Len(talk) + 1, n>>} ELSE GuidedNow(u)
    BY <1>0, <1>2, <1>3, <1>8, <1>9 DEF GuidedNow, t
  <2> SUFFICES ASSUME NEW u \in Tools
               PROVE  LET G == (Guidances(u) \cup GuidedNow(u))' IN
                      /\ IsFiniteSet(G)
                      /\ Cardinality(G) <= guided'[u]
                      /\ Cardinality(G) < MaxGuidance
    BY DEF GuideInv
  <2> DEFINE G == Guidances(u) \cup GuidedNow(u)
  <2>3. /\ IsFiniteSet(G) /\ Cardinality(G) <= guided[u]
        /\ Cardinality(G) < MaxGuidance
    BY DEF LoopInv, GuideInv
  <2>4. Cardinality(G) \in Nat /\ guided[u] \in Nat /\ MaxGuidance \in Nat
    BY <1>1, <2>3, FS_CardinalityType, LoopAssumption
  <2>5. guided'[u] \in Nat /\ guided'[u] >= guided[u]
    BY <1>1, <1>3, <1>4
  <2>6. CASE u = t /\ what = "guidance"
    <3>1. G' = G \cup {<<Len(talk) + 1, n>>}
      BY <2>1, <2>2, <2>6
    <3>2. guided'[u] = guided[u] + 1 /\ guided[u] + 1 < MaxGuidance
      BY <1>1, <1>3, <1>4, <1>6, <2>6
    <3> HIDE DEF G
    <3>3. /\ IsFiniteSet(G \cup {<<Len(talk) + 1, n>>})
          /\ \/ Cardinality(G \cup {<<Len(talk) + 1, n>>}) = Cardinality(G)
             \/ Cardinality(G \cup {<<Len(talk) + 1, n>>}) = Cardinality(G) + 1
      BY <2>3, FS_AddElement
    <3>4. /\ Cardinality(G \cup {<<Len(talk) + 1, n>>}) <= guided'[u]
          /\ Cardinality(G \cup {<<Len(talk) + 1, n>>}) < MaxGuidance
      BY <2>3, <2>4, <3>2, <3>3
    <3> QED
      BY <3>1, <3>3, <3>4 DEF G
  <2>7. CASE ~(u = t /\ what = "guidance")
    <3>1. G' = G
      BY <2>1, <2>2, <2>7
    <3> HIDE DEF G
    <3>2. Cardinality(G) <= guided'[u]
      BY <2>3, <2>4, <2>5
    <3> QED
      BY <2>3, <3>1, <3>2 DEF G
  <2> QED
    BY <2>6, <2>7
<1> QED
  BY <1>10, <1>11, <1>12, <1>13, <1>14, <1>15 DEF LoopInv

-----------------------------------------------------------------------------
(* Calls that run.                                                         *)

LEMMA CallIsTurns ==
  ASSUME LoopInv, stage = "running", NEW i \in CallIds
  PROVE  /\ Call(i) \in AllCalls /\ Call(i)[1] = turn + 1
         /\ turn \in Nat /\ Len(talk) = 2 * turn + 1
         /\ effects[Call(i)] \in Nat /\ attempt[i] \in Nat
<1>1. turn \in Nat /\ turn < MaxToolTurns /\ Len(talk) = 2 * turn + 1
  BY DEF LoopInv, LoopTypeOK, TalkInv, Live
<1>2. turn + 1 \in 1 .. MaxToolTurns
  BY <1>1, LoopAssumption
<1>3. Call(i) \in AllCalls /\ Call(i)[1] = turn + 1
  BY <1>2 DEF Call, AllCalls
<1>4. attempt[i] \in Nat
  BY LoopAssumption DEF LoopInv, LoopTypeOK
<1> QED
  BY <1>1, <1>3, <1>4 DEF LoopInv, LoopTypeOK

\* What is done about the turn under way leaves the answers of the conversation
\* and their effects alone.
LEMMA PastEffects ==
  ASSUME LoopInv, effects' \in [AllCalls -> Nat],
         \A c \in AllCalls : c[1] <= turn => effects'[c] = effects[c],
         UNCHANGED talk
  PROVE  EffectsAsAnswered'
<1>1. ASSUME NEW k \in DOMAIN talk, k % 2 = 0,
             NEW j \in DOMAIN talk[k].answers
      PROVE  effects'[<<k \div 2, j>>] = effects[<<k \div 2, j>>]
  <2>1. k \div 2 \in 1 .. turn /\ k - 1 \in DOMAIN talk /\ (k - 1) % 2 = 1
    BY <1>1, TurnOfAnswer DEF LoopInv
  <2>2. turn \in Nat /\ turn <= MaxToolTurns
    BY LoopAssumption DEF LoopInv, LoopTypeOK
  <2>3. j \in 1 .. Len(talk[k].answers)
    <3>1. ~ (k % 2 = 1)
      BY <1>1
    <3>2. talk[k].answers \in Seq([to : CallIds, what : Whats])
      BY <1>1, <3>1 DEF LoopInv, TalkInv
    <3> HIDE DEF CallIds, Whats
    <3> QED
      BY <1>1, <3>2
  <2>4. /\ Len(talk[k].answers) = Len(talk[k - 1].calls)
        /\ Len(talk[k - 1].calls) \in CallIds
    BY <1>1, <2>1 DEF LoopInv, CallsAreAnswered, TalkInv
  <2>5. j \in CallIds
    BY <2>3, <2>4, LoopAssumption DEF CallIds
  <2>6. <<k \div 2, j>> \in AllCalls
    BY <2>1, <2>2, <2>5, LoopAssumption DEF AllCalls
  <2> QED
    BY <2>1, <2>6
<1> QED
  BY <1>1 DEF LoopInv, EffectsAsAnswered

LEMMA RunStep ==
  ASSUME LoopInv, NEW i \in CallIds, Runs(i), NEW e \in {0, 1},
         NEW a \in Nat, NEW b \in {"none", "refused", "result", "error"},
         a <= MaxToolRetries + 1,
         a = IF b = "none" THEN attempt[i] + 1 ELSE attempt[i],
         b = "result" => e = 1,
         effects' = [effects EXCEPT ![Call(i)] = @ + e],
         attempt' = [attempt EXCEPT ![i] = a],
         answer' = [answer EXCEPT ![i] = b],
         UNCHANGED <<stage, turnVars>>
  PROVE  LoopInv'
<1>0. /\ stage = "running" /\ attempt[i] > 0 /\ answer[i] = "none"
      /\ UNCHANGED <<turn, provider, tries, talk, ruling, guided>>
  BY DEF Runs, turnVars
<1>1. /\ effects \in [AllCalls -> Nat] /\ answer \in [CallIds -> Whats]
      /\ attempt \in [CallIds -> 0 .. MaxToolRetries + 1]
  BY DEF LoopInv, LoopTypeOK, Whats
<1>2. \A j \in CallIds : Call(j) \in AllCalls /\ Call(j)' = Call(j)
                          /\ (j # i => Call(j) # Call(i))
  BY <1>0, CallIsTurns DEF Call
<1>3. /\ effects[Call(i)] \in Nat /\ attempt[i] \in Nat
      /\ effects[Call(i)] < attempt[i]
      /\ i \in DOMAIN ruling /\ ruling[i] = "none"
  BY <1>0, CallIsTurns DEF LoopInv, TurnInv
<1>4. /\ effects'[Call(i)] = effects[Call(i)] + e
      /\ attempt'[i] = a /\ answer'[i] = b
      /\ \A j \in CallIds \ {i} : /\ effects'[Call(j)] = effects[Call(j)]
                                   /\ attempt'[j] = attempt[j]
                                   /\ answer'[j] = answer[j]
      /\ \A c \in AllCalls : c # Call(i) => effects'[c] = effects[c]
  BY <1>1, <1>2
<1>5. effects' \in [AllCalls -> Nat]
  <2>1. effects[Call(i)] + e \in Nat
    BY <1>3
  <2> QED
    BY <1>1, <1>2, <2>1
<1>6. LoopTypeOK'
  <2>1. attempt' \in [CallIds -> 0 .. MaxToolRetries + 1]
    BY <1>1, LoopAssumption
  <2>2. answer' \in [CallIds -> Whats]
    BY <1>1 DEF Whats
  <2> QED
    BY <1>0, <1>5, <2>1, <2>2 DEF LoopInv, LoopTypeOK, Whats
<1>7. TalkInv'
  BY <1>0 DEF LoopInv, TalkInv
<1>8. TurnInv'
  <2>1. TurnCalls' = TurnCalls
    BY <1>0 DEF TurnCalls
  <2>2. ASSUME NEW j \in CallIds
        PROVE  /\ j \in DOMAIN ruling /\ ruling[j] # "none" =>
                      answer'[j] = ruling[j] /\ attempt'[j] = 0
               /\ j \in DOMAIN ruling /\ ruling[j] = "none" =>
                      attempt'[j] > 0 /\ answer'[j] \notin {"guidance", "denied"}
               /\ j \notin DOMAIN ruling => attempt'[j] = 0
               /\ answer'[j] = "result" => effects'[Call(j)] > 0
               /\ effects'[Call(j)] <= attempt'[j]
               /\ Runs(j)' => effects'[Call(j)] < attempt'[j]
    <3>1. CASE j = i
      BY <1>0, <1>3, <1>4, <3>1 DEF Runs
    <3>2. CASE j # i
      <4>1. /\ effects'[Call(j)] = effects[Call(j)]
            /\ attempt'[j] = attempt[j] /\ answer'[j] = answer[j]
            /\ Runs(j)' <=> Runs(j)
        BY <1>0, <1>4, <3>2 DEF Runs
      <4> QED
        BY <1>0, <4>1 DEF LoopInv, TurnInv
    <3> QED
      BY <3>1, <3>2
  <2>3. ASSUME NEW c \in AllCalls, c[1] > turn + 1
        PROVE  effects'[c] = 0
    <3>1. turn \in Nat /\ Call(i)[1] = turn + 1
      BY <1>0, CallIsTurns
    <3>2. c # Call(i) /\ effects[c] = 0
      BY <2>3, <3>1 DEF LoopInv, TurnInv
    <3> QED
      BY <1>4, <3>2
  <2>4. Len(ruling) = Len(TurnCalls) /\ Len(ruling) <= Len(TurnCalls)
    <3>1. Len(ruling) = Len(TurnCalls) /\ Len(ruling) \in Nat
      BY <1>0 DEF LoopInv, TurnInv, LoopTypeOK
    <3> QED
      BY <3>1
  <2> QED
    BY <1>0, <1>2, <2>1, <2>2, <2>3, <2>4 DEF TurnInv
<1>9. CallsAreAnswered'
  BY <1>0 DEF LoopInv, CallsAreAnswered
<1>10. EffectsAsAnswered'
  <2>1. turn \in Nat /\ Call(i)[1] = turn + 1
    BY <1>0, CallIsTurns
  <2>2. \A c \in AllCalls : c[1] <= turn => effects'[c] = effects[c]
    BY <1>4, <2>1
  <2> QED
    BY <1>0, <1>5, <2>2, PastEffects
<1>11. GuideInv'
  BY <1>0, GuideKept DEF LoopInv
<1> QED
  BY <1>6, <1>7, <1>8, <1>9, <1>10, <1>11 DEF LoopInv

LEMMA ReturnsStep ==
  ASSUME LoopInv, NEW i \in CallIds, Returns(i)
  PROVE  LoopInv'
<1>0. /\ Runs(i) /\ UNCHANGED <<stage, turnVars>> /\ attempt' = attempt
  BY DEF Returns
<1>1. /\ attempt[i] \in Nat /\ attempt[i] <= MaxToolRetries + 1
      /\ attempt' = [attempt EXCEPT ![i] = attempt[i]]
  BY <1>0, LoopAssumption DEF LoopInv, LoopTypeOK
<1>2. CASE /\ effects' = [effects EXCEPT ![Call(i)] = @ + 1]
           /\ answer' = [answer EXCEPT ![i] = "result"]
  BY <1>0, <1>1, <1>2, RunStep
<1>3. CASE UNCHANGED effects /\ answer' = [answer EXCEPT ![i] = "refused"]
  <2>1. effects[Call(i)] \in Nat
    BY <1>0, CallIsTurns DEF Runs
  <2>2. effects' = [effects EXCEPT ![Call(i)] = @ + 0]
    BY <1>3, <2>1 DEF LoopInv, LoopTypeOK
  <2> QED
    BY <1>0, <1>1, <1>3, <2>2, RunStep
<1> QED
  BY <1>2, <1>3 DEF Returns

LEMMA FailsStep ==
  ASSUME LoopInv, NEW i \in CallIds, Fails(i)
  PROVE  LoopInv'
<1>0. /\ Runs(i) /\ UNCHANGED <<stage, turnVars>>
      /\ answer[i] = "none" /\ answer \in [CallIds -> Whats]
      /\ attempt \in [CallIds -> 0 .. MaxToolRetries + 1]
  BY DEF Fails, Runs, LoopInv, LoopTypeOK, Whats
<1>1. attempt[i] \in Nat /\ attempt[i] <= MaxToolRetries + 1
  BY <1>0, LoopAssumption
<1>2. PICK e \in {0, 1} : effects' = [effects EXCEPT ![Call(i)] = @ + e]
  BY DEF Fails
<1>3. CASE Retries(i)
  <2>1. /\ attempt' = [attempt EXCEPT ![i] = attempt[i] + 1]
        /\ answer' = [answer EXCEPT ![i] = "none"]
    BY <1>0, <1>3 DEF Fails
  <2>2. attempt[i] + 1 \in Nat /\ attempt[i] + 1 <= MaxToolRetries + 1
    BY <1>1, <1>3, LoopAssumption DEF Retries
  <2> QED
    BY <1>0, <1>2, <2>1, <2>2, RunStep
<1>4. CASE ~Retries(i)
  <2>1. /\ attempt' = [attempt EXCEPT ![i] = attempt[i]]
        /\ answer' = [answer EXCEPT ![i] = "error"]
    BY <1>0, <1>4 DEF Fails
  <2> QED
    BY <1>0, <1>1, <1>2, <2>1, RunStep
<1> QED
  BY <1>3, <1>4

-----------------------------------------------------------------------------
(* The turn's answers join the conversation.                               *)

LEMMA CollectStep ==
  ASSUME LoopInv, Collect
  PROVE  LoopInv'
<1> DEFINE p == 2 * turn + 2
           msg == [who |-> "tools", answers |-> Answers]
<1>0. /\ stage = "running" /\ \A i \in DOMAIN TurnCalls : answer[i] # "none"
      /\ talk' = Append(talk, msg) /\ turn' = turn + 1
      /\ stage' = IF turn' = MaxToolTurns THEN "completed" ELSE "asking"
      /\ answer' = Unanswered /\ attempt' = [i \in CallIds |-> 0]
      /\ UNCHANGED <<provider, tries, ruling, guided, effects>>
  BY DEF Collect
<1>1. /\ turn \in Nat /\ turn < MaxToolTurns /\ Len(talk) = 2 * turn + 1
      /\ talk \in Seq(Messages) /\ answer \in [CallIds -> Whats]
  BY <1>0 DEF LoopInv, LoopTypeOK, TalkInv, Live, Whats
<1>2. /\ p % 2 = 0 /\ p \div 2 = turn + 1 /\ (p - 1) % 2 = 1
      /\ p - 1 = Len(talk) /\ p \in Nat
  BY <1>1, Parity
<1>3. /\ Len(talk) \in DOMAIN talk /\ TurnCalls = talk[p - 1].calls
      /\ TurnCalls \in Seq(Tools) /\ Len(TurnCalls) \in CallIds
  <2>1. Len(talk) \in DOMAIN talk
    BY <1>1
  <2> QED
    BY <1>2, <2>1 DEF LoopInv, TalkInv, TurnCalls
<1>4. /\ Len(TurnCalls) \in Nat /\ DOMAIN TurnCalls = 1 .. Len(TurnCalls)
      /\ DOMAIN TurnCalls \subseteq CallIds
  BY <1>3, LoopAssumption DEF CallIds
<1>5. /\ Answers \in Seq([to : CallIds, what : Whats])
      /\ Len(Answers) = Len(TurnCalls) /\ DOMAIN Answers = DOMAIN TurnCalls
      /\ \A i \in DOMAIN TurnCalls : Answers[i].to = i /\ Answers[i].what = answer[i]
  <2>1. \A i \in 1 .. Len(TurnCalls) :
            [to |-> i, what |-> answer[i]] \in [to : CallIds, what : Whats]
    BY <1>1, <1>4
  <2> HIDE DEF CallIds, Whats
  <2>2. Answers = [i \in 1 .. Len(TurnCalls) |-> [to |-> i, what |-> answer[i]]]
    BY <1>4 DEF Answers
  <2>3. Answers \in [1 .. Len(TurnCalls) -> [to : CallIds, what : Whats]]
    BY <2>1, <2>2
  <2>4. Answers \in Seq([to : CallIds, what : Whats])
    <3> DEFINE S == [to : CallIds, what : Whats]
    <3>1. Answers \in [1 .. Len(TurnCalls) -> S] /\ Len(TurnCalls) \in Nat
      BY <1>4, <2>3
    <3> HIDE DEF S
    <3>2. Answers \in Seq(S)
      BY <3>1, SeqDef
    <3> QED
      BY <3>2 DEF S
  <2>5. DOMAIN Answers = 1 .. Len(TurnCalls)
    BY <2>2
  <2>6. Len(Answers) = Len(TurnCalls)
    BY <1>4, <2>4, <2>5
  <2> QED
    BY <1>4, <2>2, <2>4, <2>6
<1>6. msg \in Messages /\ msg.answers = Answers
  BY <1>5 DEF Messages
<1> HIDE DEF msg, p
<1>7. /\ talk' \in Seq(Messages) /\ Len(talk') = 2 * turn + 2
      /\ talk'[p] = msg /\ p \in DOMAIN talk' /\ p - 1 \in DOMAIN talk
      /\ \A k \in DOMAIN talk : talk'[k] = talk[k]
      /\ DOMAIN talk' = DOMAIN talk \cup {p}
  <2>0. talk \in Seq(Messages) /\ talk' = Append(talk, msg) /\ msg \in Messages
    BY <1>0, <1>1, <1>6
  <2> HIDE DEF Messages
  <2>1. talk' \in Seq(Messages) /\ Len(talk') = Len(talk) + 1
    BY <2>0, Said
  <2>2. talk'[Len(talk) + 1] = msg /\ \A k \in 1 .. Len(talk) : talk'[k] = talk[k]
    BY <2>0, Said
  <2>3. p = Len(talk) + 1 /\ DOMAIN talk = 1 .. Len(talk) /\ DOMAIN talk' = 1 .. p
    BY <1>1, <2>1 DEF p
  <2>4. Len(talk) \in Nat /\ Len(talk) >= 1
    BY <1>1
  <2> QED
    BY <1>1, <2>1, <2>2, <2>3, <2>4
<1>8. turn' \in Nat /\ turn' <= MaxToolTurns /\ Len(talk') = 2 * turn'
  BY <1>0, <1>1, <1>7, LoopAssumption
<1>9. ASSUME NEW k \in DOMAIN talk', k % 2 = 0, k # p
      PROVE  /\ k \in DOMAIN talk /\ talk'[k] = talk[k]
             /\ k - 1 \in DOMAIN talk /\ talk'[k - 1] = talk[k - 1]
  <2>1. k \in DOMAIN talk
    BY <1>7, <1>9
  <2>2. k - 1 \in DOMAIN talk
    BY <1>9, <2>1, TurnOfAnswer DEF LoopInv
  <2> QED
    BY <1>7, <2>1, <2>2
<1>10. LoopTypeOK'
  <2>1. answer' \in [CallIds -> Whats] /\ attempt' \in [CallIds -> 0 .. MaxToolRetries + 1]
    BY <1>0, LoopAssumption DEF Unanswered, Whats
  <2>2. stage' \in {"completed", "asking"} /\ turn' \in 0 .. MaxToolTurns
    BY <1>0, <1>8, LoopAssumption
  <2> QED
    BY <1>0, <2>1, <2>2 DEF LoopInv, LoopTypeOK, Whats, LoopEndings
<1>11. TalkInv'
  <2>1. \A k \in DOMAIN talk' :
           IF k % 2 = 1
           THEN talk'[k].calls \in Seq(Tools) /\ Len(talk'[k].calls) \in CallIds
           ELSE talk'[k].answers \in Seq([to : CallIds, what : Whats])
    <3>1. ASSUME NEW k \in DOMAIN talk', k # p
          PROVE  k \in DOMAIN talk /\ talk'[k] = talk[k]
      BY <1>7, <3>1
    <3>2. ~ (p % 2 = 1) /\ talk'[p].answers = Answers
      BY <1>2, <1>6, <1>7
    <3>3. ASSUME NEW k \in DOMAIN talk
          PROVE  IF k % 2 = 1
                 THEN talk[k].calls \in Seq(Tools) /\ Len(talk[k].calls) \in CallIds
                 ELSE talk[k].answers \in Seq([to : CallIds, what : Whats])
      BY DEF LoopInv, TalkInv
    <3> QED
      BY <1>5, <3>1, <3>2, <3>3
  <2>2. stage' \in {"asking", "completed"} /\ (stage' = "asking" => turn' < MaxToolTurns)
    BY <1>0, <1>8, LoopAssumption
  <2> QED
    BY <1>7, <1>8, <2>1, <2>2 DEF TalkInv, Live
<1>12. TurnInv'
  <2>1. stage' \in {"asking", "completed"}
    BY <1>0
  <2>2. \A c \in AllCalls : c[1] > turn + 1 => effects[c] = 0
    BY DEF LoopInv, TurnInv
  <2>3. \A c \in AllCalls : c[1] \in Nat
    BY DEF AllCalls
  <2>4. \A c \in AllCalls :
            \/ c[1] > turn' + 1
            \/ c[1] = turn' + 1 /\ stage' \in {"idle", "asking", "ruling"}
            => effects'[c] = 0
    BY <1>0, <1>1, <2>2, <2>3
  <2>5. Len(talk') # 2 * turn' + 1
    BY <1>8
  <2> QED
    BY <2>1, <2>4, <2>5 DEF TurnInv
<1>13. CallsAreAnswered'
  <2>1. Len(talk') % 2 = 0
    BY <1>8, Parity
  <2>2. ASSUME NEW k \in DOMAIN talk', k % 2 = 0
        PROVE  /\ Len(talk'[k].answers) = Len(talk'[k - 1].calls)
               /\ \A i \in DOMAIN talk'[k].answers :
                      /\ talk'[k].answers[i].to = i
                      /\ talk'[k].answers[i].what # "none"
    <3>1. CASE k = p
      <4>1. talk'[k].answers = Answers /\ talk'[k - 1] = talk[p - 1]
        BY <1>6, <1>7, <3>1
      <4> QED
        BY <1>0, <1>3, <1>5, <4>1
    <3>2. CASE k # p
      BY <1>9, <2>2, <3>2 DEF LoopInv, CallsAreAnswered
    <3> QED
      BY <3>1, <3>2
  <2> QED
    BY <2>1, <2>2 DEF CallsAreAnswered
<1>14. EffectsAsAnswered'
  <2> SUFFICES ASSUME NEW k \in DOMAIN talk', k % 2 = 0,
                      NEW i \in DOMAIN talk'[k].answers
               PROVE  LET n == effects[<<k \div 2, i>>]
                          a == talk'[k].answers[i].what
                      IN  /\ n <= MaxToolRetries + 1
                          /\ a \in {"guidance", "denied"} => n = 0
                          /\ a = "result" => n > 0
    BY <1>0 DEF EffectsAsAnswered
  <2>1. CASE k # p
    BY <1>9, <2>1 DEF LoopInv, EffectsAsAnswered
  <2>2. CASE k = p
    <3>1. /\ i \in DOMAIN TurnCalls /\ i \in CallIds
          /\ talk'[k].answers[i].what = answer[i]
          /\ <<k \div 2, i>> = Call(i)
      BY <1>2, <1>4, <1>5, <1>6, <1>7, <2>2 DEF Call
    <3>2. i \in DOMAIN ruling /\ ruling \in Seq(Rulings)
      BY <1>0, <1>4, <3>1 DEF LoopInv, TurnInv, LoopTypeOK, Rulings
    <3>3. /\ ruling[i] # "none" => answer[i] = ruling[i] /\ attempt[i] = 0
          /\ ruling[i] = "none" => answer[i] \notin {"guidance", "denied"}
          /\ answer[i] = "result" => effects[Call(i)] > 0
          /\ effects[Call(i)] <= attempt[i]
      BY <1>0, <3>1, <3>2 DEF LoopInv, TurnInv
    <3>4. effects[Call(i)] \in Nat /\ attempt[i] \in Nat
      BY <1>0, <3>1, CallIsTurns
    <3>5. attempt[i] <= MaxToolRetries + 1
      BY <3>1, LoopAssumption DEF LoopInv, LoopTypeOK
    <3>6. effects[Call(i)] <= MaxToolRetries + 1
      BY <3>3, <3>4, <3>5, LoopAssumption
    <3>7. answer[i] \in {"guidance", "denied"} => effects[Call(i)] = 0
      BY <3>3, <3>4
    <3> QED
      BY <3>1, <3>3, <3>6, <3>7
  <2> QED
    BY <2>1, <2>2
<1>15. GuideInv'
  <2>1. ASSUME NEW t \in Tools
        PROVE  (Guidances(t) \cup GuidedNow(t))' = Guidances(t) \cup GuidedNow(t)
    <3>1. GuidedNow(t)' = {}
      <4>1. Len(talk') % 2 = 0
        BY <1>8, Parity
      <4> QED
        BY <4>1 DEF GuidedNow
    <3>2. \A i \in DOMAIN TurnCalls : i \in CallIds
              /\ i \in DOMAIN ruling
              /\ (answer[i] = "guidance" <=> ruling[i] = "guidance")
      BY <1>0, <1>4 DEF LoopInv, TurnInv, LoopTypeOK
    <3>3. DOMAIN ruling = DOMAIN TurnCalls
      BY <1>0, <1>4 DEF LoopInv, TurnInv, LoopTypeOK
    <3>4. ASSUME NEW c
          PROVE  c \in Guidances(t)' <=> c \in Guidances(t) \cup GuidedNow(t)
      <4>1. CASE c \in {p} \X CallIds
        <5>1. c \notin Guidances(t)
          <6>1. c[1] = p /\ p \notin DOMAIN talk
            BY <1>1, <1>2, <4>1
          <6> QED
            BY <6>1 DEF Guidances
        <5>2. c \in Guidances(t)' <=>
                  /\ c[2] \in DOMAIN TurnCalls /\ answer[c[2]] = "guidance"
                  /\ TurnCalls[c[2]] = t
          <6>1. /\ c \in (DOMAIN talk') \X CallIds /\ c[1] = p /\ p % 2 = 0
                /\ talk'[c[1]].answers = Answers /\ talk'[c[1] - 1].calls = TurnCalls
            BY <1>2, <1>3, <1>6, <1>7, <4>1
          <6>2. c \in Guidances(t)' <=>
                  /\ c[2] \in DOMAIN Answers /\ Answers[c[2]].what = "guidance"
                  /\ TurnCalls[Answers[c[2]].to] = t
            BY <6>1 DEF Guidances
          <6> QED
            BY <1>5, <6>2
        <5>3. c \in GuidedNow(t) <=>
                  /\ c[2] \in DOMAIN ruling /\ ruling[c[2]] = "guidance"
                  /\ TurnCalls[c[2]] = t
          BY <1>1, <1>2, <4>1 DEF GuidedNow, p
        <5> QED
          BY <3>2, <3>3, <5>1, <5>2, <5>3
      <4>2. CASE c \notin {p} \X CallIds
        <5>1. c \notin GuidedNow(t)
          BY <1>2, <4>2 DEF GuidedNow
        <5>2. c \in Guidances(t)' <=> c \in Guidances(t)
          <6>1. c \in (DOMAIN talk') \X CallIds /\ c[1] % 2 = 0 =>
                    c \in (DOMAIN talk) \X CallIds /\ c[1] # p
            BY <1>7, <4>2
          <6>2. c \in (DOMAIN talk) \X CallIds => c \in (DOMAIN talk') \X CallIds
            BY <1>7
          <6>3. c \in (DOMAIN talk) \X CallIds /\ c[1] % 2 = 0 =>
                    talk'[c[1]] = talk[c[1]] /\ talk'[c[1] - 1] = talk[c[1] - 1]
            <7> SUFFICES ASSUME c \in (DOMAIN talk) \X CallIds, c[1] % 2 = 0
                         PROVE  /\ talk'[c[1]] = talk[c[1]]
                                /\ talk'[c[1] - 1] = talk[c[1] - 1]
              OBVIOUS
            <7>1. c[1] \in DOMAIN talk' /\ c[1] # p
              BY <6>1, <6>2
            <7> QED
              BY <1>9, <7>1
          <6> QED
            BY <6>1, <6>2, <6>3 DEF Guidances
        <5> QED
          BY <5>1, <5>2
      <4> QED
        BY <4>1, <4>2
    <3> QED
      BY <3>1, <3>4
  <2> QED
    BY <1>0, <2>1 DEF LoopInv, GuideInv
<1> QED
  BY <1>10, <1>11, <1>12, <1>13, <1>14, <1>15 DEF LoopInv

\* What was under way when the run is cancelled may take effect, unanswered.
LEMMA CancelStep ==
  ASSUME LoopInv, Cancel
  PROVE  LoopInv'
<1>0. /\ stage' = "cancelled"
      /\ UNCHANGED <<turn, provider, tries, talk, ruling, guided, attempt, answer>>
  BY DEF Cancel, turnVars
<1>1. PICK done \in SUBSET {i \in CallIds : Runs(i)} :
           effects' = [c \in AllCalls |->
               effects[c] + (IF \E i \in done : c = Call(i) THEN 1 ELSE 0)]
  BY DEF Cancel
<1>2. \A i \in done : stage = "running" /\ Call(i)[1] = turn + 1 /\ turn \in Nat
  BY <1>1, CallIsTurns DEF Runs
<1>3. effects \in [AllCalls -> Nat] /\ turn \in Nat
  BY DEF LoopInv, LoopTypeOK
<1>4. effects' \in [AllCalls -> Nat]
  BY <1>1, <1>3
<1>5. \A c \in AllCalls : c[1] # turn + 1 => effects'[c] = effects[c]
  BY <1>1, <1>2, <1>3
<1>6. \A c \in AllCalls : c[1] \in Nat
  BY DEF AllCalls
<1>7. LoopTypeOK'
  BY <1>0, <1>4 DEF LoopInv, LoopTypeOK, LoopEndings
<1>8. TalkInv'
  BY <1>0 DEF LoopInv, TalkInv, Live
<1>9. TurnInv'
  <2>1. \A c \in AllCalls : c[1] > turn + 1 => effects'[c] = 0
    BY <1>3, <1>5, <1>6 DEF LoopInv, TurnInv
  <2>2. TurnCalls' = TurnCalls
    BY <1>0 DEF TurnCalls
  <2> QED
    BY <1>0, <2>1, <2>2 DEF LoopInv, TurnInv
<1>10. CallsAreAnswered'
  BY <1>0 DEF LoopInv, CallsAreAnswered
<1>11. EffectsAsAnswered'
  BY <1>0, <1>3, <1>4, <1>5, <1>6, PastEffects
<1>12. GuideInv'
  BY <1>0, GuideKept DEF LoopInv
<1> QED
  BY <1>7, <1>8, <1>9, <1>10, <1>11, <1>12 DEF LoopInv

-----------------------------------------------------------------------------
(* Every step, and what follows.                                           *)

LEMMA NextLoopInv == LoopInv /\ [LoopNext]_loopVars => LoopInv'
<1> SUFFICES ASSUME LoopInv, [LoopNext]_loopVars PROVE LoopInv'
  OBVIOUS
<1>0. provider \in {"primary", "fallback"} /\ tries \in 0 .. MaxTries - 1
  BY DEF LoopInv, LoopTypeOK
<1>1. CASE Begin
  BY <1>0, <1>1, QuietStep DEF Begin, turnVars, LoopEndings
<1>2. ASSUME NEW transient \in BOOLEAN, ModelFails(transient) PROVE LoopInv'
  <2>1. provider' \in {"primary", "fallback"} /\ tries' \in 0 .. MaxTries - 1
    BY <1>0, <1>2, LoopAssumption DEF ModelFails, TriesAgain
  <2> QED
    BY <1>2, <2>1, QuietStep DEF ModelFails, LoopEndings
<1>3. CASE ModelDenied
  BY <1>0, <1>3, QuietStep DEF ModelDenied, turnVars, LoopEndings
<1>4. CASE ModelIsDone
  BY <1>0, <1>4, QuietStep DEF ModelIsDone, turnVars, LoopEndings
<1>5. ASSUME NEW n \in CallIds, NEW cs \in [1 .. n -> Tools], ModelCalls(cs)
      PROVE  LoopInv'
  BY <1>5, ModelCallsStep
<1>6. ASSUME NEW decision \in {"approve", "guide", "deny"}, CallbacksSay(decision)
      PROVE  LoopInv'
  BY <1>6, CallbacksSayStep
<1>7. ASSUME NEW i \in CallIds, Returns(i) \/ Fails(i) PROVE LoopInv'
  BY <1>7, ReturnsStep, FailsStep
<1>8. CASE Collect
  BY <1>8, CollectStep
<1>9. CASE Cancel
  BY <1>9, CancelStep
<1>10. CASE UNCHANGED loopVars
  BY <1>0, <1>10, QuietStep DEF loopVars
<1> QED
  BY <1>1, <1>2, <1>3, <1>4, <1>5, <1>6, <1>7, <1>8, <1>9, <1>10 DEF LoopNext

\* What LoopInv says of the conversation, the turn under way and the guidance
\* given holds throughout run_agentic_loop.
THEOREM LoopInvariant == LoopSpec => []LoopInv
  BY InitLoopInv, NextLoopInv, PTL DEF LoopSpec

\* The loop's turn, its retries, its answers and its counts stay within what
\* run_agentic_loop allows.
THEOREM LoopTypes == LoopSpec => []LoopTypeOK
<1>1. LoopInv => LoopTypeOK
  BY DEF LoopInv
<1> QED
  BY <1>1, LoopInvariant, PTL

\* Whatever callbacks, tools and timeouts do, run_agentic_loop never asks the
\* model again before each of its calls has one answer in its place.
THEOREM AnsweredCalls == LoopSpec => []CallsAreAnswered
<1>1. LoopInv => CallsAreAnswered
  BY DEF LoopInv
<1> QED
  BY <1>1, LoopInvariant, PTL

\* A call that _execute_tool ran takes effect at most once per attempt; one a
\* callback ruled out never does; one reported as a result did.
THEOREM EffectsOfAnswers == LoopSpec => []EffectsAsAnswered
<1>1. LoopInv => EffectsAsAnswered
  BY DEF LoopInv
<1> QED
  BY <1>1, LoopInvariant, PTL

\* _check_guidance guides no tool MAX_GUIDANCE_RETRIES times in a run: it
\* refuses it instead.
THEOREM BoundedGuidance == LoopSpec => []GuidanceEscalates
<1>1. ASSUME LoopInv, NEW t \in Tools
      PROVE  Cardinality(Guidances(t)) < MaxGuidance
  <2> DEFINE G == Guidances(t) \cup GuidedNow(t)
  <2>1. IsFiniteSet(G) /\ Cardinality(G) < MaxGuidance
    BY <1>1 DEF LoopInv, GuideInv
  <2>2. Guidances(t) \subseteq G
    OBVIOUS
  <2> HIDE DEF G
  <2>3. /\ IsFiniteSet(Guidances(t)) /\ Cardinality(Guidances(t)) <= Cardinality(G)
    BY <2>1, <2>2, FS_Subset
  <2>4. Cardinality(Guidances(t)) \in Nat /\ Cardinality(G) \in Nat
    BY <2>1, <2>3, FS_CardinalityType
  <2> QED
    BY <2>1, <2>3, <2>4, LoopAssumption
<1>2. LoopInv => GuidanceEscalates
  BY <1>1 DEF GuidanceEscalates
<1> QED
  BY <1>2, LoopInvariant, PTL
=============================================================================
