----------------------------- MODULE AgenticLoop -----------------------------
(***************************************************************************)
(* run_agentic_loop (src/platform/agentic_loop.py), the tool-use loop of   *)
(* the stacks that cannot suspend, with the retries and the failover of    *)
(* LLMRouter (src/platform/llm_router.py) and the guidance of the callback *)
(* registry (src/platform/callbacks.py) it runs through.                   *)
(*                                                                         *)
(* The model's response names tool calls.  Callbacks rule on each in turn; *)
(* the others run side by side, each under a timeout and retried, while    *)
(* what a timeout gave up on may still be at work in a thread.             *)
(***************************************************************************)
EXTENDS Naturals, Sequences, FiniteSets

CONSTANTS
    Tools,
    MaxToolTurns,       \* MAX_TOOL_TURNS
    MaxToolRetries,     \* TOOL_MAX_RETRIES
    MaxGuidance,        \* MAX_GUIDANCE_RETRIES
    MaxTries,           \* the router's MAX_RETRIES
    HasFallback,        \* the agent has another provider to fall back to
    MaxCalls            \* bound: tool calls of one response

ASSUME LoopAssumption ==
    /\ {MaxToolTurns, MaxTries, MaxGuidance, MaxCalls} \subseteq Nat \ {0}
    /\ MaxToolRetries \in Nat /\ HasFallback \in BOOLEAN

VARIABLES
    stage,      \* what the loop awaits
    turn,       \* turns that are over
    provider, tries,    \* whom the router asks, and its failed tries with it
    talk,       \* the messages since the prompt
    ruling,     \* what the callbacks said of this turn's calls so far
    guided,     \* guidance_counts
    attempt,    \* attempts begun of each of this turn's calls
    answer,     \* what each of this turn's calls came to
    effects     \* ghost: the attempts of each call, by turn, that took effect or
                \* were given up on and may yet, in a thread or a remote server

loopVars == <<stage, turn, provider, tries, talk, ruling, guided, attempt,
              answer, effects>>
turnVars == <<turn, provider, tries, talk, ruling, guided>>

CallIds == 1 .. MaxCalls
AllCalls == (1 .. MaxToolTurns) \X CallIds
Unanswered == [i \in CallIds |-> "none"]
LoopEndings == {"completed", "failed", "cancelled"}

LoopTypeOK ==
    /\ stage \in {"idle", "asking", "ruling", "running"} \cup LoopEndings
    /\ turn \in 0 .. MaxToolTurns
    /\ provider \in {"primary", "fallback"} /\ tries \in 0 .. MaxTries - 1
    /\ ruling \in Seq({"none", "guidance", "denied"}) /\ Len(ruling) <= MaxCalls
    /\ guided \in [Tools -> Nat]
    /\ attempt \in [CallIds -> 0 .. MaxToolRetries + 1]
    /\ answer \in [CallIds -> {"none", "guidance", "denied", "refused",
                               "result", "error"}]
    /\ effects \in [AllCalls -> Nat]

LoopInit ==
    /\ stage = "idle"
    /\ turn = 0
    /\ provider = "primary" /\ tries = 0
    /\ talk = << >> /\ ruling = << >>
    /\ guided = [t \in Tools |-> 0]
    /\ attempt = [i \in CallIds |-> 0]
    /\ answer = Unanswered
    /\ effects = [c \in AllCalls |-> 0]

\* The run begins, or the tenant's daily tokens or monthly cost are used up.
Begin ==
    /\ stage = "idle"
    /\ stage' \in {"asking", "failed"}
    /\ UNCHANGED <<turnVars, attempt, answer, effects>>

-----------------------------------------------------------------------------
(* chat: a try is repeated after a transient error, the other provider is  *)
(* asked when the first one is given up, and a callback may refuse it all. *)

TriesAgain(transient) == transient /\ tries + 1 < MaxTries

ModelFails(transient) ==
    /\ stage = "asking"
    /\ IF TriesAgain(transient)
       THEN tries' = tries + 1 /\ UNCHANGED <<provider, stage>>
       ELSE IF HasFallback /\ provider = "primary"
       THEN provider' = "fallback" /\ tries' = 0 /\ UNCHANGED stage
       ELSE stage' = "failed" /\ UNCHANGED <<provider, tries>>
    /\ UNCHANGED <<turn, talk, ruling, guided, attempt, answer,
                   effects>>

ModelDenied ==
    /\ stage = "asking" /\ provider = "primary" /\ tries = 0
    /\ stage' = "failed"
    /\ UNCHANGED <<turnVars, attempt, answer, effects>>

ModelIsDone ==
    /\ stage = "asking"
    /\ stage' = "completed"
    /\ UNCHANGED <<turnVars, attempt, answer, effects>>

ModelCalls(cs) ==
    /\ stage = "asking"
    /\ stage' = "ruling"
    /\ provider' = "primary" /\ tries' = 0
    /\ talk' = Append(talk, [who |-> "model", calls |-> cs])
    /\ ruling' = << >>
    /\ UNCHANGED <<turn, guided, attempt, answer, effects>>

-----------------------------------------------------------------------------
(* _check_guidance, call by call.  A tool guided too often is refused.     *)

TurnCalls == talk[Len(talk)].calls

Escalated(n) == IF n >= MaxGuidance THEN "denied" ELSE "guidance"

\* The bug of counting the guidance of one response only.
SayAfresh(decision) ==
    LET t == TurnCalls[Len(ruling) + 1] IN
    /\ stage = "ruling"
    /\ guided' = [s \in Tools |-> IF s = t /\ decision = "guide" THEN 1 ELSE 0]
    /\ ruling' = Append(ruling,
                    CASE decision = "guide" -> Escalated(guided'[t])
                      [] decision = "deny"  -> "denied"
                      [] OTHER              -> "none")
    /\ stage' = IF Len(ruling') = Len(TurnCalls) THEN "running" ELSE stage
    /\ answer' = [i \in CallIds |->
                     IF i \in DOMAIN ruling' THEN ruling'[i] ELSE "none"]
    /\ attempt' = [i \in CallIds |->
                      IF i \in DOMAIN ruling' /\ ruling'[i] = "none" THEN 1 ELSE 0]
    /\ UNCHANGED <<turn, provider, tries, talk, effects>>

\* What is deferred or modified is let through like what is approved.
CallbacksSay(decision) ==
    LET t == TurnCalls[Len(ruling) + 1] IN
    /\ stage = "ruling"
    /\ guided' = [guided EXCEPT ![t] = IF decision = "guide" THEN @ + 1 ELSE @]
    /\ ruling' = Append(ruling,
                    CASE decision = "guide" -> Escalated(guided'[t])
                      [] decision = "deny"  -> "denied"
                      [] OTHER              -> "none")
    /\ IF Len(ruling') = Len(TurnCalls)
       THEN /\ stage' = "running"
            /\ answer' = [i \in CallIds |->
                             IF i \in DOMAIN ruling' THEN ruling'[i] ELSE "none"]
            /\ attempt' = [i \in CallIds |->
                              IF i \in DOMAIN ruling' /\ ruling'[i] = "none"
                              THEN 1 ELSE 0]
       ELSE UNCHANGED <<stage, answer, attempt>>
    /\ UNCHANGED <<turn, provider, tries, talk, effects>>

-----------------------------------------------------------------------------
(* _execute_tool.                                                          *)

Runs(i) == stage = "running" /\ attempt[i] > 0 /\ answer[i] = "none"
Call(i) == <<turn + 1, i>>

\* It did what it was asked, or was refused before doing anything: by the
\* kernel, its schema, the whitelist.
Returns(i) ==
    /\ Runs(i)
    /\ \/ /\ effects' = [effects EXCEPT ![Call(i)] = @ + 1]
          /\ answer' = [answer EXCEPT ![i] = "result"]
       \/ UNCHANGED effects /\ answer' = [answer EXCEPT ![i] = "refused"]
    /\ UNCHANGED <<stage, turnVars, attempt>>

\* The bug of one retry too many.
RetriesMore(i) == attempt[i] <= MaxToolRetries + 1

Retries(i) == attempt[i] <= MaxToolRetries

\* The bug of retrying without counting.
FailsForever(i) ==
    /\ Runs(i)
    /\ UNCHANGED <<stage, turnVars, attempt, answer, effects>>

\* It raised or its time was up, with or without effect.
Fails(i) ==
    /\ Runs(i)
    /\ \E n \in {0, 1} : effects' = [effects EXCEPT ![Call(i)] = @ + n]
    /\ IF Retries(i)
       THEN attempt' = [attempt EXCEPT ![i] = @ + 1] /\ UNCHANGED answer
       ELSE answer' = [answer EXCEPT ![i] = "error"] /\ UNCHANGED attempt
    /\ UNCHANGED <<stage, turnVars>>

-----------------------------------------------------------------------------
(* gather: the answers, in the order of the calls, and the next turn.      *)

\* The bug of answering the calls that ran and no others.
AnswersOfRun ==
    SelectSeq([i \in DOMAIN TurnCalls |-> [to |-> i, what |-> answer[i]]],
              LAMBDA a : a.what \notin {"guidance", "denied"})

Answers == [i \in DOMAIN TurnCalls |-> [to |-> i, what |-> answer[i]]]

Collect ==
    /\ stage = "running"
    /\ \A i \in DOMAIN TurnCalls : answer[i] # "none"
    /\ talk' = Append(talk, [who |-> "tools", answers |-> Answers])
    /\ turn' = turn + 1
    /\ stage' = IF turn' = MaxToolTurns THEN "completed" ELSE "asking"
    /\ answer' = Unanswered
    /\ attempt' = [i \in CallIds |-> 0]
    /\ UNCHANGED <<provider, tries, ruling, guided, effects>>

\* Whoever invoked the agent is stopped or times out, with calls under way.
Cancel ==
    /\ stage \notin LoopEndings \cup {"idle"}
    /\ stage' = "cancelled"
    /\ \E done \in SUBSET {i \in CallIds : Runs(i)} :
           effects' = [c \in AllCalls |->
               effects[c] + (IF \E i \in done : c = Call(i) THEN 1 ELSE 0)]
    /\ UNCHANGED <<turnVars, attempt, answer>>

LoopNext ==
    \/ Begin
    \/ \E transient \in BOOLEAN : ModelFails(transient)
    \/ ModelDenied
    \/ ModelIsDone
    \/ \E n \in CallIds : \E cs \in [1 .. n -> Tools] : ModelCalls(cs)
    \/ \E decision \in {"approve", "guide", "deny"} : CallbacksSay(decision)
    \/ \E i \in CallIds : Returns(i) \/ Fails(i)
    \/ Collect
    \/ Cancel

\* Provider clients and tool calls time out if nothing else ends them, and
\* callbacks return.
LoopFairness ==
    /\ WF_loopVars(\E transient \in BOOLEAN : ModelFails(transient))
    /\ WF_loopVars(\E d \in {"approve", "guide", "deny"} : CallbacksSay(d))
    /\ \A i \in CallIds : WF_loopVars(Fails(i))
    /\ WF_loopVars(Collect)

LoopSpec == LoopInit /\ [][LoopNext]_loopVars /\ LoopFairness

-----------------------------------------------------------------------------
\* Every call the model made has exactly one answer, in its place, before the
\* model is asked again (providers refuse a conversation without them):
\* refused, guided, timed out and failed calls among others included.
CallsAreAnswered ==
    /\ stage = "asking" => Len(talk) % 2 = 0
    /\ \A k \in DOMAIN talk : k % 2 = 0 =>
           /\ Len(talk[k].answers) = Len(talk[k - 1].calls)
           /\ \A i \in DOMAIN talk[k].answers :
                  /\ talk[k].answers[i].to = i
                  /\ talk[k].answers[i].what # "none"

\* A call takes effect at most once per attempt, attempts that were given up
\* and go on in a thread included (_execute_tool), never when a callback ruled
\* it out, and always when the model is told of a result.
EffectsAsAnswered ==
    \A k \in DOMAIN talk : k % 2 = 0 =>
        \A i \in DOMAIN talk[k].answers :
            LET n == effects[<<k \div 2, i>>]
                a == talk[k].answers[i].what
            IN  /\ n <= MaxToolRetries + 1
                /\ a \in {"guidance", "denied"} => n = 0
                /\ a = "result" => n > 0

\* The answers of the conversation that guide a call of t.
Guidances(t) ==
    {c \in (DOMAIN talk) \X CallIds :
        LET answers == talk[c[1]].answers IN
        /\ c[1] % 2 = 0
        /\ c[2] \in DOMAIN answers
        /\ answers[c[2]].what = "guidance"
        /\ talk[c[1] - 1].calls[answers[c[2]].to] = t}

\* A tool is guided a bounded number of times in the whole run, over turns and
\* over the calls of one response, before it is refused (_check_guidance).
GuidanceEscalates == \A t \in Tools : Cardinality(Guidances(t)) < MaxGuidance

\* A run that began ends, whatever providers, callbacks and tools answer.
LoopSettles == stage = "asking" ~> stage \in LoopEndings
=============================================================================
