------------------------------- MODULE Kernel -------------------------------
(***************************************************************************)
(* The agent kernel of one process: the syscall pipeline every tool call   *)
(* and every shell command passes (platform/kernel/_syscall.py), the       *)
(* budget manager with its two-phase reservations (BudgetManager in        *)
(* platform/kernel/_facade.py) and the capability tokens that stand in for *)
(* a human's approval (platform/kernel/_capabilities.py).                  *)
(*                                                                         *)
(* One Kernel object, one pipeline and one budget manager serve all        *)
(* threads of the process: the event loops of the runtime and of the web   *)
(* requests, and the pool threads that asyncio.to_thread starts for        *)
(* env.exec.  A thread is interrupted between any two stages; a stage that *)
(* holds the budget manager's lock, or reads the token store once, is one  *)
(* step.                                                                   *)
(*                                                                         *)
(* Left out: the license stage, which passes when no license manager is    *)
(* wired, and the audit stage, which records and never decides.  The       *)
(* policy stage is there with what it does: it calls evaluate with one     *)
(* argument, the TypeError is swallowed and the stage always passes.       *)
(* Amounts are natural numbers of one small currency unit.  All agents     *)
(* belong to one tenant.                                                   *)
(***************************************************************************)
EXTENDS Naturals, FiniteSets, FiniteSetsExt

CONSTANTS
    Pids,           \* pids of registered agents
    Objects,        \* tools, and environments agents may run commands in
    Refused,        \* <<agent, object>>: the ACL denies it
    Asking,         \* <<agent, object>>: an approval rule asks a human
    Threads,        \* threads of the process
    Tickets,        \* bound: the reservations of a behaviour
    Tokens,         \* bound: the capability tokens of a behaviour
    Costs,          \* estimated and actual costs callers name
    Daily,          \* agent -> daily_usd, 0 where the manifest sets none
    PerTask,        \* agent -> per_task_usd, 0 where the manifest sets none
    EnforcerFails,  \* TRUE: the usage enforcer may raise
    Nil             \* Python's None

ASSUME KernelAssumption ==
    /\ Refused \subseteq Pids \X Objects
    /\ Asking \subseteq Pids \X Objects
    /\ Costs \subseteq Nat
    /\ Daily \in [Pids -> Nat]
    /\ PerTask \in [Pids -> Nat]
    /\ EnforcerFails \in BOOLEAN
    /\ Nil \notin Pids \cup Objects \cup Threads \cup Tickets \cup Tokens
    /\ "*" \notin Objects

VARIABLES
    dispatcher,     \* the thread whose dispatcher is the pipeline's dispatch stage
    call,           \* thread -> the call it is in
    reservation,    \* ticket -> agent and amount held, the dict _reservations
    reserved,       \* agent -> the amount in _reserved_by_agent
    spent,          \* today's cost of the tenant in the usage enforcer
    token,          \* capability token -> subject, target and state
    issued,         \* tickets drawn so far (uuid4 draws no ticket twice)
    held,           \* tickets the code of an agent has been given
    lost,           \* tickets of calls refused after their reservation
    parked,         \* tickets given to a caller that settles none
    charged         \* ticket -> how often its actual cost was recorded

budgetVars == <<reservation, reserved, issued>>
kernelVars == <<dispatcher, call, reservation, reserved, spent, token, issued, held,
          lost, parked, charged>>

CallerKinds == {"engine", "executor", "env", "sdk"}
Pcs == {"idle", "capability", "quota", "boundary", "dispatch", "executing",
        "settling", "recording"}

Nothing == [agent |-> Nil, usd |-> 0]
Idle == [pc |-> "idle", kind |-> Nil, agent |-> Nil, object |-> Nil,
         token |-> Nil, usd |-> 0, outside |-> FALSE, ticket |-> Nil,
         by |-> Nil]

Outstanding == {t \in Tickets : reservation[t] # Nothing}

-----------------------------------------------------------------------------
(* Budget manager.                                                         *)

\* get_monthly_summary of the usage enforcer, which sums over the tenant; an
\* exception counts as nothing spent.
TodayCost == {spent} \cup (IF EnforcerFails THEN {0} ELSE {})

\* Mutant: the daily limit is compared with the estimate and today's cost only.
CheckBudgetAlone(a, usd, today) ==
    IF PerTask[a] # 0 /\ usd > PerTask[a] THEN "deny"
    ELSE IF Daily[a] # 0 /\ today + usd > Daily[a] THEN "rate_limit"
    ELSE "allow"

\* check_budget: "deny", "rate_limit" or "allow" for an estimate of usd. A
\* limit of 0 is falsy in Python and sets no limit.
CheckBudget(a, usd, today) ==
    IF PerTask[a] # 0 /\ usd > PerTask[a] THEN "deny"
    ELSE IF Daily[a] # 0 /\ today + reserved[a] + usd > Daily[a] THEN "rate_limit"
    ELSE "allow"

\* reserve: the check and the entry, under the lock.
Hold(t, a, usd) ==
    /\ t \notin issued
    /\ issued' = issued \cup {t}
    /\ reservation' = [reservation EXCEPT ![t] = [agent |-> a, usd |-> usd]]
    /\ reserved' = [reserved EXCEPT ![a] = @ + usd]

\* Mutants: the entry is read and not popped; the amount is not clamped either.
GiveBackKeepingTicket(t) ==
    /\ reserved' = IF reservation[t] = Nothing THEN reserved
                   ELSE [reserved EXCEPT ![reservation[t].agent] =
                           IF reservation[t].usd > @ THEN 0 ELSE @ - reservation[t].usd]
    /\ UNCHANGED <<reservation, issued>>

GiveBackUnclamped(t) ==
    /\ reserved' = IF reservation[t] = Nothing THEN reserved
                   ELSE [reserved EXCEPT ![reservation[t].agent] = @ - reservation[t].usd]
    /\ UNCHANGED <<reservation, issued>>

\* release, and the part of commit under the lock: the entry is popped and its
\* amount given back, max(0.0, ...). An unknown ticket changes nothing.
GiveBack(t) ==
    /\ reservation' = [reservation EXCEPT ![t] = Nothing]
    /\ reserved' = IF reservation[t] = Nothing THEN reserved
                   ELSE LET a == reservation[t].agent
                            usd == reservation[t].usd
                        IN  [reserved EXCEPT ![a] = IF usd > @ THEN 0 ELSE @ - usd]
    /\ UNCHANGED issued

-----------------------------------------------------------------------------
(* Capability tokens.                                                      *)

\* Mutant: the subject of the token is not compared.
AuthorizesAnySubject(k, a, o) ==
    k # Nil /\ token[k].state = "live" /\ token[k].target \in {o, "*"}

\* CapabilityToken.authorizes, and the load and expiry check of authorize.
Authorizes(k, a, o) ==
    /\ k # Nil
    /\ token[k].state = "live"
    /\ token[k].subject = a
    /\ token[k].target \in {o, "*"}

\* authorize deletes a token it finds expired.
AfterAuthorize(k) ==
    IF k # Nil /\ token[k].state = "expired"
    THEN [token EXCEPT ![k].state = "gone"]
    ELSE token

\* issue: a human's approval (ResumeService) or an agent's request_capability.
IssueCapability(k, a, o) ==
    /\ token[k].state = "unissued"
    /\ token' = [token EXCEPT ![k] = [state |-> "live", subject |-> a, target |-> o]]
    /\ UNCHANGED <<dispatcher, call, budgetVars, spent, held, lost, parked,
                   charged>>

\* revoke deletes the record, expired or not.
RevokeCapability(k) ==
    /\ token[k].state \in {"live", "expired"}
    /\ token' = [token EXCEPT ![k].state = "gone"]
    /\ UNCHANGED <<dispatcher, call, budgetVars, spent, held, lost, parked,
                   charged>>

\* The clock passes expires_at; tokens issued without a ttl never get here.
ExpireToken(k) ==
    /\ token[k].state = "live"
    /\ token' = [token EXCEPT ![k].state = "expired"]
    /\ UNCHANGED <<dispatcher, call, budgetVars, spent, held, lost, parked,
                   charged>>

-----------------------------------------------------------------------------
(* The pipeline.                                                           *)

\* Kernel.syscall: the dispatcher of this call becomes the dispatch stage of
\* the one pipeline, then run starts. The engine admits without a dispatcher and
\* with an estimate of 0, the tool executor with its context's estimate, env.exec
\* with a dispatcher and no estimate; an agent's code chooses freely.
Syscall(th, kind, a, o, k, usd, outside) ==
    /\ call[th] = Idle
    /\ kind \in {"engine", "env"} => usd = 0
    /\ kind # "sdk" => ~outside
    /\ call' = [call EXCEPT ![th] =
                  [pc |-> "capability", kind |-> kind, agent |-> a, object |-> o,
                   token |-> k, usd |-> usd, outside |-> outside,
                   ticket |-> Nil, by |-> Nil]]
    /\ dispatcher' = IF kind = "env" THEN th ELSE Nil
    /\ UNCHANGED <<budgetVars, spent, token, held, lost, parked, charged>>

\* The run ends with a decision other than allow: the caller gets no ticket.
Refuse(th) ==
    /\ call' = [call EXCEPT ![th] = Idle]
    /\ lost' = lost \cup ({call[th].ticket} \ {Nil})

\* The capability stage: a token that authorizes skips the ACL and the approval
\* rules; without one the ACL refuses, asks a human, or lets the call pass.
CapabilityStage(th) ==
    LET a == call[th].agent
        o == call[th].object
        k == call[th].token
    IN  /\ call[th].pc = "capability"
        /\ token' = AfterAuthorize(k)
        /\ \/ /\ Authorizes(k, a, o)
              /\ call' = [call EXCEPT ![th].pc = "quota", ![th].by = k]
              /\ UNCHANGED lost
           \/ /\ ~Authorizes(k, a, o)
              /\ <<a, o>> \notin Refused \cup Asking
              /\ call' = [call EXCEPT ![th].pc = "quota"]
              /\ UNCHANGED lost
           \/ /\ ~Authorizes(k, a, o)
              /\ <<a, o>> \in Refused \cup Asking
              /\ Refuse(th)
        /\ UNCHANGED <<dispatcher, budgetVars, spent, held, parked, charged>>

\* The quota stage reserves the estimate. The policy stage behind it passes.
QuotaStage(th) ==
    LET a == call[th].agent
        usd == call[th].usd
    IN  /\ call[th].pc = "quota"
        /\ \E today \in TodayCost :
             \/ /\ CheckBudget(a, usd, today) = "allow"
                /\ \E t \in Tickets :
                     /\ Hold(t, a, usd)
                     /\ call' = [call EXCEPT ![th].pc = "boundary", ![th].ticket = t]
                /\ UNCHANGED lost
             \/ /\ CheckBudget(a, usd, today) # "allow"
                /\ Refuse(th)
                /\ UNCHANGED budgetVars
        /\ UNCHANGED <<dispatcher, spent, token, held, parked, charged>>

\* The boundary stage refuses a call whose target namespace the agent may not
\* reach; the ticket drawn one stage earlier stays reserved.
BoundaryStage(th) ==
    /\ call[th].pc = "boundary"
    /\ \/ /\ call[th].outside
          /\ Refuse(th)
       \/ /\ ~call[th].outside
          /\ call' = [call EXCEPT ![th].pc = "dispatch"]
          /\ UNCHANGED lost
    /\ UNCHANGED <<dispatcher, budgetVars, spent, token, held, parked, charged>>

\* The run ends with allow: the engine executes the tool and settles the ticket
\* itself, an agent's code gets the ticket to settle, the tool executor parks it
\* on its context and the env tool ignores it.
Allow(th) ==
    LET t == call[th].ticket
    IN  \/ /\ call[th].kind = "engine"
           /\ call' = [call EXCEPT ![th].pc = "executing"]
           /\ UNCHANGED <<held, parked>>
        \/ /\ call[th].kind = "sdk"
           /\ call' = [call EXCEPT ![th] = Idle]
           /\ held' = held \cup {t}
           /\ UNCHANGED parked
        \/ /\ call[th].kind \in {"executor", "env"}
           /\ call' = [call EXCEPT ![th] = Idle]
           /\ parked' = parked \cup {t}
           /\ UNCHANGED held

\* The dispatch stage reads the dispatcher that is installed now, which may be
\* that of another thread's call or none. A dispatcher that raises is a stage
\* that crashed: deny.
DispatchStage(th) ==
    /\ call[th].pc = "dispatch"
    /\ \/ /\ dispatcher = Nil
          /\ Allow(th)
          /\ UNCHANGED lost
       \/ /\ dispatcher # Nil
          /\ \/ Allow(th) /\ UNCHANGED lost
             \/ Refuse(th) /\ UNCHANGED <<held, parked>>
    /\ UNCHANGED <<dispatcher, budgetVars, spent, token, charged>>

-----------------------------------------------------------------------------
(* The engine's calls after admission.                                     *)

\* _dispatch: a tool that raises Suspend releases the ticket before the finally
\* commits it.
ToolSuspends(th) ==
    /\ call[th].pc = "executing"
    /\ GiveBack(call[th].ticket)
    /\ call' = [call EXCEPT ![th].pc = "settling"]
    /\ UNCHANGED <<dispatcher, spent, token, held, lost, parked, charged>>

\* Mutant: no finally, the ticket of a tool that returned stays reserved.
EngineForgets(th) ==
    /\ call[th].pc \in {"executing", "settling"}
    /\ call' = [call EXCEPT ![th] = Idle]
    /\ UNCHANGED <<dispatcher, budgetVars, spent, token, held, lost, parked, charged>>

\* The finally of _dispatch: commit without an actual cost records nothing.
EngineCommits(th) ==
    /\ call[th].pc \in {"executing", "settling"}
    /\ GiveBack(call[th].ticket)
    /\ call' = [call EXCEPT ![th] = Idle]
    /\ UNCHANGED <<dispatcher, spent, token, held, lost, parked, charged>>

-----------------------------------------------------------------------------
(* Runtime.reserve, commit and release, called by the code of an agent.    *)

Reserve(a, usd) ==
    /\ \E today \in TodayCost : CheckBudget(a, usd, today) = "allow"
    /\ \E t \in Tickets : Hold(t, a, usd) /\ held' = held \cup {t}
    /\ UNCHANGED <<dispatcher, call, spent, token, lost, parked, charged>>

Release(t) ==
    /\ t \in held
    /\ GiveBack(t)
    /\ UNCHANGED <<dispatcher, call, spent, token, held, lost, parked, charged>>

\* commit, up to the end of its lock. cost is Nil or the actual cost; an
\* unknown or settled ticket returns at once.
Commit(th, t, cost) ==
    /\ call[th] = Idle
    /\ t \in held
    /\ reservation[t] # Nothing
    /\ GiveBack(t)
    /\ \/ /\ cost = Nil
          /\ UNCHANGED call
       \/ /\ cost # Nil
          /\ call' = [call EXCEPT ![th] = [Idle EXCEPT
                        !.pc = "recording", !.agent = reservation[t].agent,
                        !.usd = cost, !.ticket = t]]
    /\ UNCHANGED <<dispatcher, spent, token, held, lost, parked, charged>>

\* The rest of commit, after the lock: record_cost, whose exception is
\* swallowed.
RecordCost(th) ==
    /\ call[th].pc = "recording"
    /\ call' = [call EXCEPT ![th] = Idle]
    /\ \/ /\ spent' = spent + call[th].usd
          /\ charged' = [charged EXCEPT ![call[th].ticket] = @ + 1]
       \/ /\ EnforcerFails
          /\ UNCHANGED <<spent, charged>>
    /\ UNCHANGED <<dispatcher, budgetVars, token, held, lost, parked>>

-----------------------------------------------------------------------------
KernelInit ==
    /\ dispatcher = Nil
    /\ call = [th \in Threads |-> Idle]
    /\ reservation = [t \in Tickets |-> Nothing]
    /\ reserved = [a \in Pids |-> 0]
    /\ spent = 0
    /\ token = [k \in Tokens |-> [state |-> "unissued", subject |-> Nil, target |-> Nil]]
    /\ issued = {} /\ held = {} /\ lost = {} /\ parked = {}
    /\ charged = [t \in Tickets |-> 0]

KernelNext ==
    \/ \E k \in Tokens :
         \/ \E a \in Pids, o \in Objects \cup {"*"} : IssueCapability(k, a, o)
         \/ RevokeCapability(k)
         \/ ExpireToken(k)
    \/ \E th \in Threads :
         \/ \E kind \in CallerKinds, a \in Pids, o \in Objects, k \in Tokens \cup {Nil},
               usd \in Costs \cup {0}, outside \in BOOLEAN :
              Syscall(th, kind, a, o, k, usd, outside)
         \/ CapabilityStage(th)
         \/ QuotaStage(th)
         \/ BoundaryStage(th)
         \/ DispatchStage(th)
         \/ ToolSuspends(th)
         \/ EngineCommits(th)
         \/ \E t \in Tickets, cost \in Costs \cup {Nil} : Commit(th, t, cost)
         \/ RecordCost(th)
    \/ \E a \in Pids, usd \in Costs : Reserve(a, usd)
    \/ \E t \in Tickets : Release(t)

KernelSpec == KernelInit /\ [][KernelNext]_kernelVars

-----------------------------------------------------------------------------
(* Properties.                                                             *)

Calls == [pc : Pcs, kind : CallerKinds \cup {Nil}, agent : Pids \cup {Nil},
          object : Objects \cup {Nil}, token : Tokens \cup {Nil}, usd : Nat,
          outside : BOOLEAN, ticket : Tickets \cup {Nil}, by : Tokens \cup {Nil}]

\* Every variable has its type: the dictionaries and counters of the kernel, the
\* local variables of a pass, and the ghosts.
KernelTypeOK ==
    /\ dispatcher \in Threads \cup {Nil}
    /\ call \in [Threads -> Calls]
    /\ reservation \in [Tickets -> [agent : Pids, usd : Nat] \cup {Nothing}]
    /\ reserved \in [Pids -> Nat]
    /\ spent \in Nat
    /\ token \in [Tokens -> [state : {"unissued", "live", "expired", "gone"},
                             subject : Pids \cup {Nil},
                             target : Objects \cup {Nil, "*"}]]
    /\ issued \subseteq Tickets /\ held \subseteq issued
    /\ lost \subseteq issued /\ parked \subseteq issued
    /\ charged \in [Tickets -> Nat]

\* The units that an agent's outstanding reservations hold, one by one.
Units(t) == {t} \X (1 .. reservation[t].usd)
HeldUnits(a) == UNION {Units(t) : t \in {u \in Outstanding : reservation[u].agent = a}}

\* The total kept per agent is the sum of the reservations kept per ticket,
\* counted unit by unit, whichever threads commit, release and release again the
\* same ticket: no unit is forgotten and none is given back twice.
ReservedAddsUp == \A a \in Pids : reserved[a] = Cardinality(HeldUnits(a))

\* Concurrent calls never hold more than an agent's daily budget: every
\* reservation counts those of the other threads (reserve checks under the lock).
ReservedWithinDaily ==
    \A a \in Pids : Daily[a] # 0 => reserved[a] <= Daily[a]

\* The cost of one ticket reaches the usage enforcer at most once, however often
\* and from however many threads it is committed and released.
ChargedOnce == \A t \in Tickets : charged[t] <= 1

\* The engine gives every reservation back: what is still reserved belongs to a
\* call in progress, was handed to an agent's code or to a caller that settles
\* nothing, or was lost when its call was refused after the reservation.
NoTicketForgotten ==
    Outstanding \subseteq
        held \cup parked \cup lost \cup {call[th].ticket : th \in Threads}

\* A call gets past the capability stage only with the ACL's consent or under
\* a token issued to this agent for this object.
AllowIsAuthorized ==
    \A th \in Threads :
        LET c == call[th]
        IN  c.pc \in {"quota", "boundary", "dispatch", "executing", "settling"} =>
              IF c.by = Nil THEN <<c.agent, c.object>> \notin Refused \cup Asking
              ELSE /\ token[c.by].subject = c.agent
                   /\ token[c.by].target \in {c.object, "*"}

\* A pass runs no dispatcher but that of its own call, so a dispatcher runs after
\* the admission of its call (env_tools.py: "Runs only after admission stages
\* pass").
DispatchAfterAdmission ==
    [][\A th \in Threads :
         call[th].pc = "dispatch" /\ call'[th] # call[th] => dispatcher \in {th, Nil}]_kernelVars

\* What commit has popped and not yet recorded.
InFlight ==
    MapThenSumSet(LAMBDA th : call[th].usd, {th \in Threads : call[th].pc = "recording"})

\* A reservation is granted only if it fits beside what the agent has reserved
\* and what has been committed today (BudgetManager.reserve: "each reservation is
\* deducted up front and released only after commit").
GrantedWithinDaily ==
    [][\A a \in Pids :
         Daily[a] # 0 /\ reserved'[a] > reserved[a]
           => spent + InFlight + reserved'[a] <= Daily[a]]_kernelVars
=============================================================================
