------------------------------ MODULE AtomicGate ------------------------------
(***************************************************************************)
(* What the turn gate promises its users                                   *)
(* (crates/hya-core/src/engine/turn_gate.rs): every operation is one step. *)
(* There are no lease ids, tokens, queues or wake-ups here: a session is   *)
(* free or has the one task that runs its turn, and the gate is open or    *)
(* closed.  The models of the parts above the gate (Handoff, ResidentTeam) *)
(* use it in this form; TurnGate implements it.                            *)
(***************************************************************************)
CONSTANTS
    Sessions,   \* session ids
    Tasks,      \* tasks that run turns
    Causes,     \* why a turn may be cancelled
    NoCause,    \* not a cause
    Handoff     \* the cause of a drain that may be taken back

VARIABLES
    holders,    \* session -> the tasks that hold its turn
    cause,      \* session -> why its turn was cancelled
    draining,   \* why the gate was closed for good
    holding,    \* the gate is closed for a restart
    started     \* sessions that had a turn when it was

vars == <<holders, cause, draining, holding, started>>

Running == {s \in Sessions : holders[s] # {}}

Init ==
    /\ holders = [s \in Sessions |-> {}]
    /\ cause = [s \in Sessions |-> NoCause]
    /\ draining = NoCause
    /\ holding = FALSE
    /\ started = {}

\* A task takes a free session's turn from an open gate.
Enter(t, s) ==
    /\ draining = NoCause /\ ~holding
    /\ holders[s] = {}
    /\ holders' = [holders EXCEPT ![s] = {t}]
    /\ cause' = [cause EXCEPT ![s] = NoCause]
    /\ UNCHANGED <<draining, holding, started>>

\* The task that has it gives it back.
Leave(t, s) ==
    /\ holders[s] = {t}
    /\ holders' = [holders EXCEPT ![s] = {}]
    /\ cause' = [cause EXCEPT ![s] = NoCause]
    /\ UNCHANGED <<draining, holding, started>>

\* The first cause of a turn stays.
CancelTurn(s, why) ==
    /\ s \in Running
    /\ cause' = [cause EXCEPT ![s] = IF @ = NoCause THEN why ELSE @]
    /\ UNCHANGED <<holders, draining, holding, started>>

\* The gate closes and every turn it finds is cancelled.
Drain(why) ==
    /\ draining' = IF draining = NoCause THEN why ELSE draining
    /\ cause' = [s \in Sessions |-> IF s \in Running /\ cause[s] = NoCause THEN why ELSE cause[s]]
    /\ UNCHANGED <<holders, holding, started>>

Reopen ==
    /\ draining = Handoff
    /\ draining' = NoCause
    /\ UNCHANGED <<holders, cause, holding, started>>

\* The gate closes and no turn is touched.
Quiesce ==
    /\ holding' = TRUE
    /\ started' = started \cup Running
    /\ UNCHANGED <<holders, cause, draining>>

\* A drain that comes in between keeps the gate closed.
Lift ==
    /\ holding' = FALSE
    /\ UNCHANGED <<holders, cause, draining, started>>

ForgetStarted ==
    /\ started' = {}
    /\ UNCHANGED <<holders, cause, draining, holding>>

Next ==
    \/ \E t \in Tasks, s \in Sessions : Enter(t, s) \/ Leave(t, s)
    \/ \E s \in Sessions, why \in Causes : CancelTurn(s, why)
    \/ \E why \in Causes : Drain(why)
    \/ Reopen \/ Quiesce \/ Lift \/ ForgetStarted

Spec == Init /\ [][Next]_vars
===============================================================================
