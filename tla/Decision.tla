------------------------------ MODULE Decision ------------------------------
(***************************************************************************)
(* What an approval gateway promises, whatever its stores, processes and   *)
(* events: a request is decided at most once, and whoever asks about it is *)
(* told how it stands at that moment, or nothing.                          *)
(***************************************************************************)
CONSTANTS
    Requests,       \* the approval requests
    Askers          \* those who wait for a decision

VARIABLES
    standing,       \* how each request stands
    told            \* what each asker was told of each request last

Verdicts == {"approved", "rejected", "expired"}
Standings == {"none", "pending"} \cup Verdicts

DecisionInit ==
    /\ standing = [r \in Requests |-> "none"]
    /\ told = [w \in Askers |-> [r \in Requests |-> "nothing"]]

Propose(r) ==
    /\ standing[r] = "none"
    /\ standing' = [standing EXCEPT ![r] = "pending"]
    /\ UNCHANGED told

Decide(r, v) ==
    /\ standing[r] = "pending"
    /\ standing' = [standing EXCEPT ![r] = v]
    /\ UNCHANGED told

\* Nothing is said of a request that is unknown, or after a timeout.
Tell(w, r) ==
    /\ \E s \in {standing[r], "nothing"} :
           /\ s # "none"
           /\ told' = [told EXCEPT ![w][r] = s]
    /\ UNCHANGED standing

DecisionNext ==
    \E r \in Requests :
        \/ Propose(r)
        \/ \E v \in Verdicts : Decide(r, v)
        \/ \E w \in Askers : Tell(w, r)

DecisionSpec == DecisionInit /\ [][DecisionNext]_<<standing, told>>

-----------------------------------------------------------------------------
DecisionTypeOK ==
    /\ standing \in [Requests -> Standings]
    /\ told \in [Askers -> [Requests -> {"nothing", "pending"} \cup Verdicts]]

\* No two askers are ever told different verdicts of one request, and a
\* verdict that somebody was told is the one that stands.
Agreement ==
    \A w \in Askers, r \in Requests :
        told[w][r] \in Verdicts => told[w][r] = standing[r]
=============================================================================
