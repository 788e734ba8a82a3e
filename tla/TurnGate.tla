------------------------------- MODULE TurnGate -------------------------------
(***************************************************************************)
(* The engine's single-active-turn gate                                    *)
(* (crates/hya-core/src/engine/turn_gate.rs) and the tasks that use it.    *)
(*                                                                         *)
(* A caller is a task that runs turns; a controller is a task that aborts  *)
(* a turn, drains or quiesces the gate, or waits for it to go idle.  Every *)
(* action is one critical section of the gate's mutex, or one effect the   *)
(* code has after it dropped the mutex (cancelling a cloned token, waking  *)
(* the waiters of the Notify).  The interleavings between those are the    *)
(* subject of the model.                                                   *)
(***************************************************************************)
EXTENDS Naturals, Integers, FiniteSets

CONSTANTS
    Sessions,       \* session ids
    Callers,        \* tasks that open turns
    Controllers,    \* tasks that cancel, drain, quiesce or wait
    NoSession,      \* not a session
    ChildOf(_),     \* sessions a turn on a session may run a nested turn on
    Causes,         \* FinishCause values a cancel or a drain may carry
    MaxRequests     \* bound: number of turn requests of all callers together

\* Absent values: no lease id, and no FinishCause.
NoId == -1
NoCause == "none"
Handoff == "handoff"

ASSUME SessionsAssumption == NoSession \notin Sessions
ASSUME TasksAssumption == Callers \cap Controllers = {}
ASSUME CausesAssumption == NoCause \notin Causes
ASSUME RequestsAssumption == MaxRequests \in Nat
ASSUME ChildAssumption == \A s \in Sessions : ChildOf(s) \subseteq Sessions

VARIABLES
    active,     \* GateState.active: session -> ActiveTurn, NoTurn when absent
    draining,   \* GateState.draining
    holding,    \* GateState.holding
    handoff,    \* GateState.handoff_started
    nextId,     \* TurnGate.next_id
    pc,         \* caller -> where its code stands
    want,       \* caller -> session of the request it is claiming a turn for
    lease,      \* caller -> session -> id of the TurnLease it holds
    enrolled,   \* tasks whose enabled Notified has not been notified yet
    requests,   \* number of requests made so far (bounded by MaxRequests)
    kpc,        \* controller -> where its code stands
    kfire,      \* controller -> tokens it cloned and has yet to cancel
    kscope      \* controller -> sessions it waits to see released

gate == <<active, draining, holding, handoff, nextId>>
callers == <<pc, want, lease, requests>>
controllers == <<kpc, kfire, kscope>>
vars == <<gate, callers, enrolled, controllers>>

-----------------------------------------------------------------------------
(* Data. *)

\* ActiveTurn: the lease id, the recorded cause, and its cancel token: whether
\* bind_cancel has replaced the lease's own token by the child of the caller's
\* one, and whether the engine has cancelled the token it holds now.
ActiveTurn == [id : Nat \cup {NoId}, cause : Causes \cup {NoCause},
               bound : BOOLEAN, cancelled : BOOLEAN]
Turn(id) == [id |-> id, cause |-> NoCause, bound |-> FALSE, cancelled |-> FALSE]
NoTurn == Turn(NoId)

IsActive(s) == active[s].id # NoId
ActiveSessions == {s \in Sessions : IsActive(s)}
\* MUTANT: only a quiesce closes the gate.
Closed_holdingOnly == holding

Closed == draining # NoCause \/ holding

\* The token ActiveTurn.cancel holds: one token per lease before the binding
\* and one after it.
Token(s) == <<active[s].id, active[s].bound>>

\* Option::get_or_insert on the cause of a turn, or of the drain.
FirstCause(old, new) == IF old = NoCause THEN new ELSE old

Held(c) == {s \in Sessions : lease[c][s] # NoId}

\* The innermost lease of a task: leases are taken in id order.
Innermost(c, s) == /\ s \in Held(c)
                   /\ \A t \in Held(c) : lease[c][t] <= lease[c][s]

\* A request is over: the task goes back to the turn it still holds, if any,
\* and drops its Notified.
Return(c, rest) ==
    /\ pc' = [pc EXCEPT ![c] = IF rest = {} THEN "idle" ELSE "running"]
    /\ want' = [want EXCEPT ![c] = NoSession]

\* Notify::notify_waiters: every Notified enabled so far is notified.
NotifyWaiters == enrolled' = {}

\* Who has changed the gate and has still to call notify_waiters.
NotifyOwed == \/ \E c \in Callers : pc[c] = "notify"
              \/ \E k \in Controllers : kpc[k] = "notifying"

-----------------------------------------------------------------------------
Init ==
    /\ active = [s \in Sessions |-> NoTurn]
    /\ draining = NoCause
    /\ holding = FALSE
    /\ handoff = {}
    /\ nextId = 0
    /\ pc = [c \in Callers |-> "idle"]
    /\ want = [c \in Callers |-> NoSession]
    /\ lease = [c \in Callers |-> [s \in Sessions |-> NoId]]
    /\ enrolled = {}
    /\ requests = 0
    /\ kpc = [k \in Controllers |-> "idle"]
    /\ kfire = [k \in Controllers |-> {}]
    /\ kscope = [k \in Controllers |-> {}]

-----------------------------------------------------------------------------
(* Callers. *)

\* MUTANT: the busy session is not looked up before the insert.
Insert_unchecked(c, s) ==
    /\ ~Closed
    /\ active' = [active EXCEPT ![s] = Turn(nextId)]
    /\ lease' = [lease EXCEPT ![c][s] = nextId]
    /\ nextId' = nextId + 1

\* try_acquire, the accepting half: insert the ActiveTurn, hand out the lease.
Insert(c, s) ==
    /\ ~Closed
    /\ ~IsActive(s)
    /\ active' = [active EXCEPT ![s] = Turn(nextId)]
    /\ lease' = [lease EXCEPT ![c][s] = nextId]
    /\ nextId' = nextId + 1

\* try_begin_turn: a non-blocking claim. A refusal changes nothing.
TryBegin(c, s) ==
    /\ pc[c] = "idle"
    /\ requests < MaxRequests
    /\ Insert(c, s)
    /\ pc' = [pc EXCEPT ![c] = "leased"]
    /\ want' = [want EXCEPT ![c] = s]
    /\ requests' = requests + 1
    /\ UNCHANGED <<draining, holding, handoff, enrolled, controllers>>

\* A queued request: run_turn* without a lease, from an idle task or nested in
\* the turn the task is running.
Request(c, s) ==
    /\ \/ pc[c] = "idle"
       \/ pc[c] = "running" /\ \E t \in Sessions : Innermost(c, t) /\ s \in ChildOf(t) \cup {t}
    /\ requests < MaxRequests
    /\ requests' = requests + 1
    /\ want' = [want EXCEPT ![c] = s]
    /\ pc' = [pc EXCEPT ![c] = "check"]
    /\ UNCHANGED <<gate, lease, enrolled, controllers>>

\* MUTANT: no HELD_TURNS check.
CheckHeld_never(c) ==
    /\ pc[c] = "check"
    /\ pc' = [pc EXCEPT ![c] = "enable"]
    /\ UNCHANGED <<gate, want, lease, requests, enrolled, controllers>>

\* acquire: the HELD_TURNS check refuses a claim on a session this task holds.
CheckHeld(c) ==
    /\ pc[c] = "check"
    /\ IF want[c] \in Held(c)
       THEN Return(c, Held(c))
       ELSE pc' = [pc EXCEPT ![c] = "enable"] /\ UNCHANGED want
    /\ UNCHANGED <<gate, lease, requests, enrolled, controllers>>

\* acquire, loop head: a fresh Notified, enabled before the gate is looked at.
Enable(c) ==
    /\ pc[c] = "enable"
    /\ enrolled' = enrolled \cup {c}
    /\ pc' = [pc EXCEPT ![c] = "try"]
    /\ UNCHANGED <<gate, want, lease, requests, controllers>>

\* acquire: try_acquire gave the lease.
Acquired(c) ==
    /\ pc[c] = "try"
    /\ Insert(c, want[c])
    /\ pc' = [pc EXCEPT ![c] = "leased"]
    /\ enrolled' = enrolled \ {c}
    /\ UNCHANGED <<draining, holding, handoff, want, requests, controllers>>

\* acquire: try_acquire said Cancelled, the request ends without a turn.
RefusedClosed(c) ==
    /\ pc[c] = "try"
    /\ Closed
    /\ Return(c, Held(c))
    /\ enrolled' = enrolled \ {c}
    /\ UNCHANGED <<gate, lease, requests, controllers>>

\* acquire: try_acquire said TurnAlreadyActive.
Busy(c) ==
    /\ pc[c] = "try"
    /\ ~Closed
    /\ IsActive(want[c])
    /\ pc' = [pc EXCEPT ![c] = "busy"]
    /\ UNCHANGED <<gate, want, lease, requests, enrolled, controllers>>

\* MUTANT: the Notified is created only now, after the gate was looked at.
Park_createsLate(c) ==
    /\ pc[c] = "busy"
    /\ pc' = [pc EXCEPT ![c] = "parked"]
    /\ enrolled' = enrolled \cup {c}
    /\ UNCHANGED <<gate, want, lease, requests, controllers>>

\* acquire: the select polls the Notified that was enabled before the look.
Park(c) ==
    /\ pc[c] = "busy"
    /\ pc' = [pc EXCEPT ![c] = "parked"]
    /\ UNCHANGED <<gate, want, lease, requests, enrolled, controllers>>

\* acquire: the select saw the request's token cancelled.  The token belongs to
\* the caller, which may fire it at any time.
QueuedCancel(c) ==
    /\ pc[c] = "parked"
    /\ Return(c, Held(c))
    /\ enrolled' = enrolled \ {c}
    /\ UNCHANGED <<gate, lease, requests, controllers>>

\* acquire: the select saw the wake-up and no cancel; round the loop again.
Wake(c) ==
    /\ pc[c] = "parked"
    /\ c \notin enrolled
    /\ pc' = [pc EXCEPT ![c] = "enable"]
    /\ UNCHANGED <<gate, want, lease, requests, enrolled, controllers>>

\* bind_cancel: a child of the caller's token replaces the lease's own; a cancel
\* that already fired the lease's token is carried over.
Bind(c) ==
    /\ pc[c] = "leased"
    /\ active' = IF active[want[c]].id = lease[c][want[c]]
                 THEN [active EXCEPT ![want[c]].bound = TRUE] ELSE active
    /\ pc' = [pc EXCEPT ![c] = "running"]
    /\ want' = [want EXCEPT ![c] = NoSession]
    /\ UNCHANGED <<draining, holding, handoff, nextId, lease, requests, enrolled, controllers>>

\* MUTANT: the lease goes, the entry stays.
Release_leavesEntry(c, s) ==
    /\ pc[c] \in {"leased", "running"}
    /\ Innermost(c, s)
    /\ lease' = [lease EXCEPT ![c][s] = NoId]
    /\ pc' = [pc EXCEPT ![c] = "notify"]
    /\ UNCHANGED <<gate, want, requests, enrolled, controllers>>

\* TurnLease::drop -> release: remove the entry if the id still matches. The
\* turn ended (running), or its lease was dropped unused (leased).
Release(c, s) ==
    /\ pc[c] \in {"leased", "running"}
    /\ Innermost(c, s)
    /\ lease' = [lease EXCEPT ![c][s] = NoId]
    /\ IF active[s].id = lease[c][s]
       THEN /\ active' = [active EXCEPT ![s] = NoTurn]
            /\ pc' = [pc EXCEPT ![c] = "notify"]
            /\ UNCHANGED want
       ELSE /\ active' = active
            /\ Return(c, Held(c) \ {s})
    /\ UNCHANGED <<draining, holding, handoff, nextId, requests, enrolled, controllers>>

\* release, after the mutex: wake every queued claim and every waiter.
ReleaseNotify(c) ==
    /\ pc[c] = "notify"
    /\ NotifyWaiters
    /\ Return(c, Held(c))
    /\ UNCHANGED <<gate, lease, requests, controllers>>

-----------------------------------------------------------------------------
(* Controllers. *)

\* cancel, under the mutex: record the cause, clone the token.
Cancel(k, s, cause) ==
    /\ kpc[k] = "idle"
    /\ IsActive(s)
    /\ active' = [active EXCEPT ![s].cause = FirstCause(@, cause)]
    /\ kfire' = [kfire EXCEPT ![k] = {Token(s)}]
    /\ kpc' = [kpc EXCEPT ![k] = "cancelling"]
    /\ UNCHANGED <<draining, holding, handoff, nextId, callers, enrolled, kscope>>

\* begin_drain, under the mutex: close the gate, record causes, clone tokens.
BeginDrain(k, cause) ==
    /\ kpc[k] = "idle"
    /\ draining' = FirstCause(draining, cause)
    /\ active' = [s \in Sessions |->
                    IF IsActive(s) THEN [active[s] EXCEPT !.cause = FirstCause(@, cause)]
                                   ELSE active[s]]
    /\ kfire' = [kfire EXCEPT ![k] = {Token(s) : s \in ActiveSessions}]
    /\ kpc' = [kpc EXCEPT ![k] = "notifying"]
    /\ UNCHANGED <<holding, handoff, nextId, callers, enrolled, kscope>>

\* cancel and begin_drain, after the mutex: cancel one cloned token.
Fire(k) ==
    /\ \E t \in kfire[k] :
         /\ kfire' = [kfire EXCEPT ![k] = @ \ {t}]
         /\ active' = [s \in Sessions |->
                         IF Token(s) = t THEN [active[s] EXCEPT !.cancelled = TRUE]
                                         ELSE active[s]]
    /\ kpc' = [kpc EXCEPT ![k] = IF @ = "cancelling" THEN "idle" ELSE @]
    /\ UNCHANGED <<draining, holding, handoff, nextId, callers, enrolled, kscope>>

\* begin_quiesce: close the gate, cancel nothing, remember who is running.
BeginQuiesce(k) ==
    /\ kpc[k] = "idle"
    /\ holding' = TRUE
    /\ handoff' = handoff \cup ActiveSessions
    /\ kpc' = [kpc EXCEPT ![k] = "notifying"]
    /\ UNCHANGED <<active, draining, nextId, callers, enrolled, kfire, kscope>>

\* lift_quiesce, first critical section: a drain makes it a no-op.
LiftCheck(k) ==
    /\ kpc[k] = "idle"
    /\ draining = NoCause
    /\ kpc' = [kpc EXCEPT ![k] = "lifting"]
    /\ UNCHANGED <<gate, callers, enrolled, kfire, kscope>>

\* lift_quiesce, second critical section.
LiftClear(k) ==
    /\ kpc[k] = "lifting"
    /\ holding' = FALSE
    /\ kpc' = [kpc EXCEPT ![k] = "notifying"]
    /\ UNCHANGED <<active, draining, handoff, nextId, callers, enrolled, kfire, kscope>>

\* begin_drain, begin_quiesce, lift_quiesce: the trailing notify_waiters.
ControlNotify(k) ==
    /\ kpc[k] = "notifying"
    /\ kfire[k] = {}
    /\ NotifyWaiters
    /\ kpc' = [kpc EXCEPT ![k] = "idle"]
    /\ UNCHANGED <<gate, callers, kfire, kscope>>

\* clear_handoff_drain: reopen after a handoff drain; notifies under the mutex.
ClearHandoffDrain(k) ==
    /\ kpc[k] = "idle"
    /\ draining = Handoff
    /\ draining' = NoCause
    /\ NotifyWaiters
    /\ UNCHANGED <<active, holding, handoff, nextId, callers, controllers>>

\* clear_handoff_started.
ClearHandoffStarted(k) ==
    /\ kpc[k] = "idle"
    /\ handoff' = {}
    /\ UNCHANGED <<active, draining, holding, nextId, callers, enrolled, controllers>>

\* wait_idle (every session) and wait_released (one): enable a fresh Notified.
WaitEnable(k, scope) ==
    /\ \/ kpc[k] = "idle"
       \/ kpc[k] = "waiting" /\ k \notin enrolled /\ kscope[k] = scope
    /\ enrolled' = enrolled \cup {k}
    /\ kpc' = [kpc EXCEPT ![k] = "look"]
    /\ kscope' = [kscope EXCEPT ![k] = scope]
    /\ UNCHANGED <<gate, callers, kfire>>

WaitReturn(k) ==
    /\ kpc' = [kpc EXCEPT ![k] = "idle"]
    /\ kscope' = [kscope EXCEPT ![k] = {}]
    /\ enrolled' = enrolled \ {k}

\* wait_idle, wait_released: look at the gate, return true or go to the await.
WaitLook(k) ==
    /\ kpc[k] = "look"
    /\ IF kscope[k] \cap ActiveSessions = {}
       THEN WaitReturn(k)
       ELSE kpc' = [kpc EXCEPT ![k] = "busy"] /\ UNCHANGED <<kscope, enrolled>>
    /\ UNCHANGED <<gate, callers, kfire>>

\* wait_idle, wait_released: timeout_at polls the Notified enabled before.
WaitAwait(k) ==
    /\ kpc[k] = "busy"
    /\ kpc' = [kpc EXCEPT ![k] = "waiting"]
    /\ UNCHANGED <<gate, callers, enrolled, kfire, kscope>>

\* wait_idle, wait_released: the deadline passed; the answer is what holds now.
WaitTimeout(k) ==
    /\ kpc[k] = "waiting"
    /\ WaitReturn(k)
    /\ UNCHANGED <<gate, callers, kfire>>

-----------------------------------------------------------------------------
CallerNext(c) ==
    \/ \E s \in Sessions : TryBegin(c, s) \/ Request(c, s) \/ Release(c, s)
    \/ CheckHeld(c) \/ Enable(c) \/ Acquired(c) \/ RefusedClosed(c) \/ Busy(c) \/ Park(c)
    \/ QueuedCancel(c) \/ Wake(c) \/ Bind(c) \/ ReleaseNotify(c)

ControllerNext(k) ==
    \/ \E s \in Sessions, cause \in Causes : Cancel(k, s, cause)
    \/ \E cause \in Causes : BeginDrain(k, cause)
    \/ Fire(k) \/ BeginQuiesce(k) \/ LiftCheck(k) \/ LiftClear(k) \/ ControlNotify(k)
    \/ ClearHandoffDrain(k) \/ ClearHandoffStarted(k)
    \/ WaitEnable(k, Sessions)
    \/ \E s \in Sessions : WaitEnable(k, {s})
    \/ WaitLook(k) \/ WaitAwait(k) \/ WaitTimeout(k)

Next ==
    \/ \E c \in Callers : CallerNext(c)
    \/ \E k \in Controllers : ControllerNext(k)

Spec == Init /\ [][Next]_vars

\* The runtime keeps polling every task that is not waiting on something, and
\* every turn ends (its future completes, or is dropped).
Fairness ==
    /\ \A c \in Callers :
         WF_vars(CheckHeld(c) \/ Enable(c) \/ Acquired(c) \/ RefusedClosed(c) \/ Busy(c) \/ Park(c)
                 \/ Wake(c) \/ Bind(c) \/ ReleaseNotify(c))
    /\ \A c \in Callers : WF_vars(\E s \in Sessions : pc[c] = "running" /\ Release(c, s))
    /\ \A k \in Controllers : WF_vars(Fire(k) \/ LiftClear(k) \/ ControlNotify(k) \/ WaitLook(k)
                                    \/ WaitAwait(k))

FairSpec == Spec /\ Fairness

-----------------------------------------------------------------------------
(* Properties. *)

CallerPc == {"idle", "check", "enable", "try", "busy", "parked", "leased", "running", "notify"}
ControllerPc == {"idle", "cancelling", "notifying", "lifting", "look", "busy", "waiting"}

\* Type correctness of the gate's fields and of the tasks' local state.
TypeOK ==
    /\ active \in [Sessions -> ActiveTurn]
    /\ draining \in Causes \cup {NoCause}
    /\ holding \in BOOLEAN
    /\ handoff \in SUBSET Sessions
    /\ nextId \in Nat
    /\ pc \in [Callers -> CallerPc]
    /\ want \in [Callers -> Sessions \cup {NoSession}]
    /\ lease \in [Callers -> [Sessions -> Nat \cup {NoId}]]
    /\ enrolled \in SUBSET (Callers \cup Controllers)
    /\ requests \in 0 .. MaxRequests
    /\ kpc \in [Controllers -> ControllerPc]
    /\ kfire \in [Controllers -> SUBSET (Nat \X BOOLEAN)]
    /\ kscope \in [Controllers -> SUBSET Sessions]

\* A session runs at most one turn: whoever holds a TurnLease on a session owns
\* the gate's entry for it, so no two tasks hold leases on the same session,
\* and no entry is left behind by a task that no longer holds its lease.
SingleActiveTurn ==
    \A s \in Sessions :
        /\ \A c \in Callers : s \in Held(c) => lease[c][s] = active[s].id
        /\ \A c, d \in Callers : s \in Held(c) /\ s \in Held(d) => c = d
        /\ IsActive(s) => \E c \in Callers : s \in Held(c)

\* acquire never sleeps through its wake-up: a waiting, unnotified claim either
\* still has a reason to wait (its session is busy and the gate is open) or a
\* task that changed the gate is about to call notify_waiters.
NoLostWakeup ==
    \A c \in Callers :
        pc[c] \in {"busy", "parked"} /\ c \in enrolled =>
            (IsActive(want[c]) /\ ~Closed) \/ NotifyOwed

\* wait_idle and wait_released never sleep through the release they wait for.
NoLostIdle ==
    \A k \in Controllers :
        kpc[k] \in {"busy", "waiting"} /\ k \in enrolled =>
            kscope[k] \cap ActiveSessions # {} \/ NotifyOwed

\* No change of the gate is missed by a task that waits for it: neither a queued claim
\* nor an idle waiter sleeps while the gate is as it wants it and nobody owes a notify.
NoLostNotify == NoLostWakeup /\ NoLostIdle

\* A drain or a quiesce admits no straggler: once the gate is closed, the leases
\* of the turns it still has to wait for were all handed out before.  A turn
\* whose lease was taken while the gate was open is cancelled by the drain that
\* finds it: every active turn of a draining gate has a cause recorded.
DrainReachesAll ==
    draining # NoCause => \A s \in ActiveSessions : active[s].cause # NoCause

Gate == INSTANCE AtomicGate
          WITH Tasks <- Callers, started <- handoff,
               holders <- [s \in Sessions |-> {c \in Callers : s \in Held(c)}],
               cause <- [s \in Sessions |-> active[s].cause]

\* The gate is as good as one step: seen from the tasks that hold leases, a turn enters a
\* free session of an open gate, only its own task ends it, the first cause stays, and a
\* drain finds every turn, although ids are matched, tokens fired and waiters woken outside
\* the mutex.
ImplementsGate == Gate!Spec

\* Every queued run_turn* call is answered: it gets the lease, is refused, or is
\* cancelled.  A nested claim on a session the task itself holds never waits.
QueuedResolves ==
    \A c \in Callers :
        pc[c] \in {"check", "enable", "try", "busy", "parked"} ~>
            pc[c] \in {"idle", "leased", "running"}

\* A drain empties the gate: with no turn starting and every active turn ending,
\* a draining gate either goes idle or is reopened (handoff only).
DrainCompletes ==
    draining # NoCause ~> (ActiveSessions = {} \/ draining = NoCause)
=============================================================================
