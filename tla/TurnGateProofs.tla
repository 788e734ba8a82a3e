--------------------------- MODULE TurnGateProofs ---------------------------
(***************************************************************************)
(* What the turn gate guarantees for any number of sessions, tasks,        *)
(* controllers and requests.                                               *)
(***************************************************************************)
EXTENDS TurnGate, TLAPS

\* A fresh ActiveTurn, and the absent one, have the record's type.
LEMMA TurnType ==
    /\ \A id \in Nat \cup {NoId} : Turn(id) \in ActiveTurn
    /\ NoTurn \in ActiveTurn
BY DEF Turn, NoTurn, ActiveTurn

\* Recording a cause keeps the type of a turn.
LEMMA CauseType ==
    ASSUME NEW turn \in ActiveTurn, NEW cause \in Causes
    PROVE  [turn EXCEPT !.cause = FirstCause(@, cause)] \in ActiveTurn
BY DEF ActiveTurn, FirstCause

\* Binding or cancelling its token keeps the type of a turn.
LEMMA TokenType ==
    ASSUME NEW turn \in ActiveTurn
    PROVE  /\ [turn EXCEPT !.bound = TRUE] \in ActiveTurn
           /\ [turn EXCEPT !.cancelled = TRUE] \in ActiveTurn
BY DEF ActiveTurn

\* The gate and every task's local state keep their types.
THEOREM TypeCorrect == Spec => []TypeOK
<1>1. Init => TypeOK
  <2> SUFFICES ASSUME Init PROVE TypeOK
    OBVIOUS
  <2>1. /\ active \in [Sessions -> ActiveTurn]
        /\ lease \in [Callers -> [Sessions -> Nat \cup {NoId}]]
    BY TurnType DEF Init
  <2>2. /\ pc \in [Callers -> CallerPc]
        /\ kpc \in [Controllers -> ControllerPc]
    BY DEF Init, CallerPc, ControllerPc
  <2>3. requests \in 0 .. MaxRequests
    BY RequestsAssumption DEF Init
  <2>4. want \in [Callers -> Sessions \cup {NoSession}]
    BY DEF Init
  <2>5. /\ kfire \in [Controllers -> SUBSET (Nat \X BOOLEAN)]
        /\ kscope \in [Controllers -> SUBSET Sessions]
    BY DEF Init
  <2> QED
    BY <2>1, <2>2, <2>3, <2>4, <2>5 DEF Init, TypeOK
<1>2. TypeOK /\ [Next]_vars => TypeOK'
  <2> SUFFICES ASSUME TypeOK, [Next]_vars PROVE TypeOK'
    OBVIOUS
  <2> USE RequestsAssumption
      DEF TypeOK, gate, callers, controllers, CallerPc, ControllerPc
  <2>1. ASSUME NEW c \in Callers, NEW s \in Sessions, TryBegin(c, s) PROVE TypeOK'
    BY <2>1, TurnType DEF TryBegin, Insert
  <2>2. ASSUME NEW c \in Callers, NEW s \in Sessions, Request(c, s) PROVE TypeOK'
    BY <2>2 DEF Request
  <2>3. ASSUME NEW c \in Callers, NEW s \in Sessions, Release(c, s) PROVE TypeOK'
    BY <2>3, TurnType DEF Release, Return
  <2>4. ASSUME NEW c \in Callers, CheckHeld(c) PROVE TypeOK'
    BY <2>4 DEF CheckHeld, Return
  <2>5. ASSUME NEW c \in Callers, Enable(c) PROVE TypeOK'
    BY <2>5 DEF Enable
  <2>6. ASSUME NEW c \in Callers, Acquired(c) PROVE TypeOK'
    <3>1. active' \in [Sessions -> ActiveTurn]
      BY <2>6, TurnType DEF Acquired, Insert
    <3>2. lease' \in [Callers -> [Sessions -> Nat \cup {NoId}]]
      BY <2>6 DEF Acquired, Insert
    <3> QED BY <2>6, <3>1, <3>2 DEF Acquired, Insert
  <2>7. ASSUME NEW c \in Callers, RefusedClosed(c) \/ QueuedCancel(c) PROVE TypeOK'
    BY <2>7 DEF RefusedClosed, QueuedCancel, Return
  <2>8. ASSUME NEW c \in Callers, Busy(c) \/ Park(c) \/ Wake(c) PROVE TypeOK'
    BY <2>8 DEF Busy, Park, Wake
  <2>9. ASSUME NEW c \in Callers, Bind(c) PROVE TypeOK'
    <3>1. active' \in [Sessions -> ActiveTurn]
      BY <2>9, TokenType DEF Bind
    <3> QED BY <2>9, <3>1 DEF Bind
  <2>10. ASSUME NEW c \in Callers, ReleaseNotify(c) PROVE TypeOK'
    BY <2>10 DEF ReleaseNotify, Return, NotifyWaiters
  <2>12. ASSUME NEW k \in Controllers, NEW s \in Sessions, NEW cause \in Causes,
                Cancel(k, s, cause)
         PROVE  TypeOK'
    <3>1. active' \in [Sessions -> ActiveTurn]
      BY <2>12, CauseType DEF Cancel
    <3>2. Token(s) \in Nat \X BOOLEAN
      BY <2>12 DEF Cancel, Token, IsActive, ActiveTurn
    <3> QED BY <2>12, <3>1, <3>2 DEF Cancel
  <2>13. ASSUME NEW k \in Controllers, NEW cause \in Causes, BeginDrain(k, cause)
         PROVE  TypeOK'
    <3>1. active' \in [Sessions -> ActiveTurn]
      BY <2>13, CauseType DEF BeginDrain
    <3>2. {Token(s) : s \in ActiveSessions} \in SUBSET (Nat \X BOOLEAN)
      BY DEF Token, IsActive, ActiveSessions, ActiveTurn
    <3> QED BY <2>13, <3>1, <3>2 DEF BeginDrain, FirstCause
  <2>14. ASSUME NEW k \in Controllers, Fire(k) PROVE TypeOK'
    <3>1. \A s \in Sessions : [active[s] EXCEPT !.cancelled = TRUE] \in ActiveTurn
      BY TokenType
    <3>2. PICK t \in kfire[k] :
            active' = [s \in Sessions |->
                         IF Token(s) = t THEN [active[s] EXCEPT !.cancelled = TRUE]
                                         ELSE active[s]]
      BY <2>14 DEF Fire
    <3>3. active' \in [Sessions -> ActiveTurn]
      BY <3>1, <3>2
    <3> QED BY <2>14, <3>3 DEF Fire
  <2>15. ASSUME NEW k \in Controllers, BeginQuiesce(k) PROVE TypeOK'
    BY <2>15 DEF BeginQuiesce, ActiveSessions
  <2>16. ASSUME NEW k \in Controllers, LiftCheck(k) \/ LiftClear(k) PROVE TypeOK'
    BY <2>16 DEF LiftCheck, LiftClear
  <2>17. ASSUME NEW k \in Controllers, ControlNotify(k) \/ ClearHandoffDrain(k)
         PROVE  TypeOK'
    BY <2>17 DEF ControlNotify, ClearHandoffDrain, NotifyWaiters
  <2>18. ASSUME NEW k \in Controllers, ClearHandoffStarted(k) PROVE TypeOK'
    BY <2>18 DEF ClearHandoffStarted
  <2>19. ASSUME NEW k \in Controllers, NEW scope \in SUBSET Sessions, WaitEnable(k, scope)
         PROVE  TypeOK'
    BY <2>19 DEF WaitEnable
  <2>20. ASSUME NEW k \in Controllers, WaitLook(k) \/ WaitAwait(k) \/ WaitTimeout(k) PROVE TypeOK'
    BY <2>20 DEF WaitLook, WaitAwait, WaitTimeout, WaitReturn
  <2>21. CASE UNCHANGED vars
    BY <2>21 DEF vars
  <2> QED
    BY <2>1, <2>2, <2>3, <2>4, <2>5, <2>6, <2>7, <2>8, <2>9, <2>10, <2>12, <2>13, <2>14,
       <2>15, <2>16, <2>17, <2>18, <2>19, <2>20, <2>21
       DEF Next, CallerNext, ControllerNext
<1> QED BY <1>1, <1>2, PTL DEF Spec

-----------------------------------------------------------------------------
(* One turn per session. *)

\* What most steps leave alone: the leases and the ids of the gate's entries.
SameTurns == /\ lease' = lease
             /\ \A s \in Sessions : active'[s].id = active[s].id

LEMMA SameTurnsPreserves ==
    ASSUME SingleActiveTurn, SameTurns
    PROVE  SingleActiveTurn'
BY DEF SingleActiveTurn, SameTurns, Held, IsActive

\* try_acquire inserts an entry where there was none and hands out its lease.
LEMMA InsertPreserves ==
    ASSUME TypeOK, SingleActiveTurn, NEW c \in Callers, NEW s \in Sessions, Insert(c, s)
    PROVE  SingleActiveTurn'
<1>1. nextId # NoId
  BY DEF TypeOK, NoId
<1>2. \A d \in Callers : lease[d][s] = NoId
  BY DEF SingleActiveTurn, Held, IsActive, Insert
<1>3. /\ active'[s].id = nextId
      /\ \A t \in Sessions \ {s} : active'[t] = active[t]
      /\ lease'[c][s] = nextId
      /\ \A d \in Callers, t \in Sessions : d # c \/ t # s => lease'[d][t] = lease[d][t]
  BY DEF Insert, TypeOK, Turn
<1> QED BY <1>1, <1>2, <1>3 DEF SingleActiveTurn, Held, IsActive

\* release removes the lease and, because the id matches, the entry.
LEMMA ReleasePreserves ==
    ASSUME TypeOK, SingleActiveTurn, NEW c \in Callers, NEW s \in Sessions, Release(c, s)
    PROVE  SingleActiveTurn'
<1>1. active[s].id = lease[c][s]
  BY DEF Release, Innermost, SingleActiveTurn
<1>2. \A d \in Callers \ {c} : lease[d][s] = NoId
  BY DEF SingleActiveTurn, Held, Release, Innermost
<1>3. /\ active'[s].id = NoId
      /\ \A t \in Sessions \ {s} : active'[t] = active[t]
      /\ lease'[c][s] = NoId
      /\ \A d \in Callers, t \in Sessions : d # c \/ t # s => lease'[d][t] = lease[d][t]
  BY <1>1 DEF Release, TypeOK, NoTurn, Turn
<1> QED BY <1>2, <1>3 DEF SingleActiveTurn, Held, IsActive

\* A task that claims has a session to claim.
WantOK == \A c \in Callers :
            pc[c] \in {"check", "enable", "try", "busy", "parked", "leased"} => want[c] \in Sessions

LEMMA WantCorrect == Spec => []WantOK
<1>1. Init => WantOK
  BY DEF Init, WantOK
<1>2. TypeOK /\ WantOK /\ [Next]_vars => WantOK'
  <2> SUFFICES ASSUME TypeOK, WantOK, [Next]_vars PROVE WantOK'
    OBVIOUS
  <2> USE DEF TypeOK, WantOK
  <2>1. ASSUME NEW c \in Callers, CallerNext(c) PROVE WantOK'
    BY <2>1 DEF CallerNext, TryBegin, Request, Release, CheckHeld, Enable, Acquired,
       RefusedClosed, Busy, Park, QueuedCancel, Wake, Bind, ReleaseNotify, Return
  <2>2. ASSUME NEW k \in Controllers, ControllerNext(k) PROVE WantOK'
    BY <2>2 DEF ControllerNext, callers, Cancel, BeginDrain, Fire, BeginQuiesce, LiftCheck,
       LiftClear, ControlNotify, ClearHandoffDrain, ClearHandoffStarted, WaitEnable,
       WaitLook, WaitAwait, WaitTimeout
  <2>3. CASE UNCHANGED vars
    BY <2>3 DEF vars, callers
  <2> QED BY <2>1, <2>2, <2>3 DEF Next
<1> QED BY <1>1, <1>2, TypeCorrect, PTL DEF Spec

\* A session runs at most one turn: no two tasks hold leases on one session,
\* each lease owns the gate's entry for its session, and no entry outlives its
\* lease.
THEOREM OneTurn == Spec => []SingleActiveTurn
<1>1. Init => SingleActiveTurn
  BY DEF Init, SingleActiveTurn, Held, IsActive, NoTurn, Turn
<1>2. TypeOK /\ WantOK /\ SingleActiveTurn /\ [Next]_vars => SingleActiveTurn'
  <2> SUFFICES ASSUME TypeOK, WantOK, SingleActiveTurn, [Next]_vars PROVE SingleActiveTurn'
    OBVIOUS
  <2>1. ASSUME NEW c \in Callers, NEW s \in Sessions, TryBegin(c, s) PROVE SingleActiveTurn'
    BY <2>1, InsertPreserves DEF TryBegin
  <2>2. ASSUME NEW c \in Callers, Acquired(c) PROVE SingleActiveTurn'
    <3>1. want[c] \in Sessions /\ Insert(c, want[c])
      BY <2>2 DEF Acquired, WantOK
    <3> QED BY <3>1, InsertPreserves
  <2>3. ASSUME NEW c \in Callers, NEW s \in Sessions, Release(c, s) PROVE SingleActiveTurn'
    BY <2>3, ReleasePreserves
  <2>4. ASSUME NEW c \in Callers, Bind(c) PROVE SameTurns
    BY <2>4 DEF Bind, SameTurns, TypeOK, ActiveTurn
  <2>5. ASSUME NEW c \in Callers,
               \/ \E s \in Sessions : Request(c, s)
               \/ CheckHeld(c) \/ Enable(c) \/ RefusedClosed(c) \/ Busy(c) \/ Park(c) \/ QueuedCancel(c)
               \/ Wake(c) \/ ReleaseNotify(c)
        PROVE  SameTurns
    BY <2>5 DEF Request, CheckHeld, Enable, RefusedClosed, Busy, Park, QueuedCancel, Wake,
       ReleaseNotify, gate, SameTurns
  <2>6. ASSUME NEW k \in Controllers, NEW s \in Sessions, NEW cause \in Causes,
               Cancel(k, s, cause)
        PROVE  SameTurns
    BY <2>6 DEF Cancel, SameTurns, TypeOK, ActiveTurn, callers
  <2>7. ASSUME NEW k \in Controllers, NEW cause \in Causes, BeginDrain(k, cause)
        PROVE  SameTurns
    BY <2>7 DEF BeginDrain, SameTurns, TypeOK, ActiveTurn, callers
  <2>8. ASSUME NEW k \in Controllers, Fire(k) PROVE SameTurns
    BY <2>8 DEF Fire, SameTurns, TypeOK, ActiveTurn, callers
  <2>9. ASSUME NEW k \in Controllers,
               \/ BeginQuiesce(k) \/ LiftCheck(k) \/ LiftClear(k) \/ ControlNotify(k)
               \/ ClearHandoffDrain(k) \/ ClearHandoffStarted(k) \/ WaitLook(k) \/ WaitAwait(k) \/ WaitTimeout(k)
               \/ WaitEnable(k, Sessions) \/ \E s \in Sessions : WaitEnable(k, {s})
        PROVE  SameTurns
    BY <2>9 DEF BeginQuiesce, LiftCheck, LiftClear, ControlNotify, ClearHandoffDrain,
       ClearHandoffStarted, WaitLook, WaitAwait, WaitTimeout, WaitEnable, gate, callers, SameTurns
  <2>10. CASE UNCHANGED vars
    BY <2>10, SameTurnsPreserves DEF vars, gate, callers, SameTurns
  <2> QED
    BY <2>1, <2>2, <2>3, <2>4, <2>5, <2>6, <2>7, <2>8, <2>9, <2>10, SameTurnsPreserves
       DEF Next, CallerNext, ControllerNext
<1> QED BY <1>1, <1>2, TypeCorrect, WantCorrect, PTL DEF Spec

-----------------------------------------------------------------------------
(* No lost wake-up.  What every enabled Notified relies on: it was enabled before its
   task looked at the gate, so a change of the gate after the look finds it enrolled. *)

\* Steps that open no reason to wake and call notify_waiters not at all.
QuietStep ==
    /\ \A s \in Sessions : IsActive(s) => IsActive(s)'
    /\ Closed' => Closed
    /\ \A c \in Callers : pc[c] = "notify" => pc'[c] = "notify"
    /\ \A k \in Controllers : kpc[k] = "notifying" => kpc'[k] = "notifying"

\* No claim or wait goes to sleep, or is enrolled, in the step.
NoSleeper ==
    /\ \A c \in Callers : pc'[c] \in {"busy", "parked"} /\ c \in enrolled' =>
                              pc[c] \in {"busy", "parked"} /\ c \in enrolled /\ want'[c] = want[c]
    /\ \A k \in Controllers : kpc'[k] \in {"busy", "waiting"} /\ k \in enrolled' =>
                              kpc[k] \in {"busy", "waiting"} /\ k \in enrolled /\ kscope'[k] = kscope[k]

LEMMA QuietPreserves ==
    ASSUME TypeOK, WantOK, NoLostNotify, QuietStep, NoSleeper
    PROVE  NoLostNotify'
<1>1. NoLostWakeup'
  BY DEF QuietStep, NoSleeper, NoLostNotify, NoLostWakeup, NotifyOwed, WantOK
<1>2. NoLostIdle'
  BY DEF QuietStep, NoSleeper, NoLostNotify, NoLostIdle, NotifyOwed, ActiveSessions, TypeOK
<1> QED BY <1>1, <1>2 DEF NoLostNotify

\* A step that empties the waiter list, or leaves a task that owes it, is safe.
LEMMA OwedPreserves == NotifyOwed' => NoLostNotify'
BY DEF NoLostNotify, NoLostWakeup, NoLostIdle

LEMMA NotifiedPreserves == enrolled' = {} => NoLostNotify'
BY DEF NoLostNotify, NoLostWakeup, NoLostIdle

\* Queued claims and idle waiters never sleep through their wake-up.
THEOREM NoWakeupLost == Spec => []NoLostNotify
<1>1. Init => NoLostNotify
  BY DEF Init, NoLostNotify, NoLostWakeup, NoLostIdle
<1>2. TypeOK /\ WantOK /\ SingleActiveTurn /\ NoLostNotify /\ [Next]_vars => NoLostNotify'
  <2> SUFFICES ASSUME TypeOK, WantOK, SingleActiveTurn, NoLostNotify, [Next]_vars
               PROVE  NoLostNotify'
    OBVIOUS
  <2> USE TasksAssumption DEF TypeOK, gate, callers, controllers
  <2>1. ASSUME NEW c \in Callers, NEW s \in Sessions, TryBegin(c, s) PROVE NoLostNotify'
    <3>1. QuietStep
      BY <2>1 DEF TryBegin, Insert, QuietStep, IsActive, Closed, Turn, NoId
    <3>2. NoSleeper
      BY <2>1 DEF TryBegin, NoSleeper
    <3> QED BY <3>1, <3>2, QuietPreserves
  <2>2. ASSUME NEW c \in Callers, Acquired(c) PROVE NoLostNotify'
    <3>1. QuietStep
      BY <2>2 DEF Acquired, Insert, QuietStep, IsActive, Closed, Turn, NoId
    <3>2. NoSleeper
      BY <2>2 DEF Acquired, NoSleeper
    <3> QED BY <3>1, <3>2, QuietPreserves
  <2>3. ASSUME NEW c \in Callers, NEW s \in Sessions, Release(c, s) PROVE NoLostNotify'
    <3>1. active[s].id = lease[c][s]
      BY <2>3 DEF Release, Innermost, SingleActiveTurn
    <3>2. NotifyOwed'
      BY <2>3, <3>1 DEF Release, NotifyOwed
    <3> QED BY <3>2, OwedPreserves
  <2>4. ASSUME NEW c \in Callers, Busy(c) PROVE NoLostNotify'
    <3>1. NoLostWakeup'
      BY <2>4 DEF Busy, NoLostNotify, NoLostWakeup, NotifyOwed, IsActive, Closed
    <3>2. NoLostIdle'
      BY <2>4 DEF Busy, NoLostNotify, NoLostIdle, NotifyOwed, ActiveSessions, IsActive
    <3> QED BY <3>1, <3>2 DEF NoLostNotify
  <2>5. ASSUME NEW c \in Callers, Bind(c) PROVE NoLostNotify'
    <3>1. QuietStep
      BY <2>5 DEF Bind, QuietStep, IsActive, Closed, ActiveTurn
    <3>2. NoSleeper
      BY <2>5 DEF Bind, NoSleeper
    <3> QED BY <3>1, <3>2, QuietPreserves
  <2>6. ASSUME NEW c \in Callers,
               \/ \E s \in Sessions : Request(c, s)
               \/ CheckHeld(c) \/ Enable(c) \/ RefusedClosed(c) \/ QueuedCancel(c)
               \/ Park(c) \/ Wake(c)
        PROVE  NoLostNotify'
    <3>1. QuietStep
      BY <2>6 DEF Request, CheckHeld, Enable, RefusedClosed, QueuedCancel, Park, Wake, Return, QuietStep, IsActive, Closed
    <3>2. NoSleeper
      BY <2>6 DEF Request, CheckHeld, Enable, RefusedClosed, QueuedCancel, Park, Wake, Return, NoSleeper
    <3> QED BY <3>1, <3>2, QuietPreserves
  <2>7. ASSUME NEW c \in Callers, ReleaseNotify(c) PROVE NoLostNotify'
    BY <2>7, NotifiedPreserves DEF ReleaseNotify, NotifyWaiters
  <2>8. ASSUME NEW k \in Controllers, NEW s \in Sessions, NEW cause \in Causes,
               Cancel(k, s, cause)
        PROVE  NoLostNotify'
    <3>1. QuietStep
      BY <2>8 DEF Cancel, QuietStep, IsActive, Closed, ActiveTurn
    <3>2. NoSleeper
      BY <2>8 DEF Cancel, NoSleeper
    <3> QED BY <3>1, <3>2, QuietPreserves
  <2>9. ASSUME NEW k \in Controllers,
               \/ \E cause \in Causes : BeginDrain(k, cause)
               \/ BeginQuiesce(k) \/ LiftClear(k)
        PROVE  NoLostNotify'
    <3>1. NotifyOwed'
      BY <2>9 DEF BeginDrain, BeginQuiesce, LiftClear, NotifyOwed
    <3> QED BY <3>1, OwedPreserves
  <2>10. ASSUME NEW k \in Controllers, Fire(k) PROVE NoLostNotify'
    <3>1. QuietStep
      BY <2>10 DEF Fire, QuietStep, IsActive, Closed, ActiveTurn
    <3>2. NoSleeper
      BY <2>10 DEF Fire, NoSleeper
    <3> QED BY <3>1, <3>2, QuietPreserves
  <2>11. ASSUME NEW k \in Controllers, ControlNotify(k) \/ ClearHandoffDrain(k)
         PROVE  NoLostNotify'
    BY <2>11, NotifiedPreserves DEF ControlNotify, ClearHandoffDrain, NotifyWaiters
  <2>12. ASSUME NEW k \in Controllers, WaitLook(k) PROVE NoLostNotify'
    <3>1. CASE kscope[k] \cap ActiveSessions = {}
      <4>1. QuietStep
        BY <2>12, <3>1 DEF WaitLook, WaitReturn, QuietStep, IsActive, Closed
      <4>2. NoSleeper
        BY <2>12, <3>1 DEF WaitLook, WaitReturn, NoSleeper
      <4> QED BY <4>1, <4>2, QuietPreserves
    <3>2. CASE kscope[k] \cap ActiveSessions # {}
      <4>1. NoLostWakeup'
        BY <2>12, <3>2 DEF WaitLook, NoLostNotify, NoLostWakeup, NotifyOwed, IsActive, Closed
      <4>2. NoLostIdle'
        BY <2>12, <3>2 DEF WaitLook, NoLostNotify, NoLostIdle, NotifyOwed, ActiveSessions, IsActive
      <4> QED BY <4>1, <4>2 DEF NoLostNotify
    <3> QED BY <3>1, <3>2
  <2>13. ASSUME NEW k \in Controllers,
                \/ LiftCheck(k) \/ ClearHandoffStarted(k) \/ WaitAwait(k) \/ WaitTimeout(k)
                \/ \E scope \in SUBSET Sessions : WaitEnable(k, scope)
         PROVE  NoLostNotify'
    <3>1. QuietStep
      BY <2>13 DEF LiftCheck, ClearHandoffStarted, WaitAwait, WaitTimeout, WaitEnable, WaitReturn,
         QuietStep, IsActive, Closed
    <3>2. NoSleeper
      BY <2>13 DEF LiftCheck, ClearHandoffStarted, WaitAwait, WaitTimeout, WaitEnable, WaitReturn,
         NoSleeper
    <3> QED BY <3>1, <3>2, QuietPreserves
  <2>14. CASE UNCHANGED vars
    <3>1. QuietStep /\ NoSleeper
      BY <2>14 DEF vars, QuietStep, NoSleeper, IsActive, Closed
    <3> QED BY <3>1, QuietPreserves
  <2>15. ASSUME NEW c \in Callers, CallerNext(c) PROVE NoLostNotify'
    BY <2>1, <2>2, <2>3, <2>4, <2>5, <2>6, <2>7, <2>15 DEF CallerNext
  <2>16. ASSUME NEW k \in Controllers, ControllerNext(k) PROVE NoLostNotify'
    BY <2>8, <2>9, <2>10, <2>11, <2>12, <2>13, <2>16 DEF ControllerNext
  <2> QED
    BY <2>14, <2>15, <2>16 DEF Next
<1> QED BY <1>1, <1>2, TypeCorrect, WantCorrect, OneTurn, PTL DEF Spec
-----------------------------------------------------------------------------
(* A drain reaches every turn.  Nothing enters a closed gate, and a cause, once
   recorded, is dropped only together with its turn. *)

\* Every turn of a draining gate that has a cause keeps one; none comes in without.
CausesKept ==
    /\ draining' = draining
    /\ \A s \in Sessions : IsActive(s)' /\ draining # NoCause =>
                               IsActive(s) /\ (active[s].cause # NoCause => active'[s].cause # NoCause)

LEMMA CausesPreserve ==
    ASSUME DrainReachesAll, CausesKept
    PROVE  DrainReachesAll'
BY DEF DrainReachesAll, CausesKept, ActiveSessions, IsActive

\* begin_drain records a cause for every turn it finds, and a closed gate lets no turn in
\* behind it, for any sessions, callers and controllers.
THEOREM DrainFindsAll == Spec => []DrainReachesAll
<1>1. Init => DrainReachesAll
  BY DEF Init, DrainReachesAll
<1>2. TypeOK /\ DrainReachesAll /\ [Next]_vars => DrainReachesAll'
  <2> SUFFICES ASSUME TypeOK, DrainReachesAll, [Next]_vars
               PROVE  DrainReachesAll'
    OBVIOUS
  <2>1. ASSUME NEW c \in Callers,
               \/ Acquired(c) \/ \E s \in Sessions : TryBegin(c, s)
        PROVE  CausesKept
    BY <2>1 DEF Acquired, TryBegin, Insert, Closed, CausesKept
  <2>2. ASSUME NEW c \in Callers, NEW s \in Sessions, Release(c, s) PROVE CausesKept
    <3>1. draining' = draining /\ (active' = active \/ active' = [active EXCEPT ![s] = NoTurn])
      BY <2>2 DEF Release
    <3>2. NoTurn.id = NoId
      BY DEF NoTurn, Turn
    <3> QED BY <3>1, <3>2 DEF CausesKept, IsActive, TypeOK
  <2>3. ASSUME NEW c \in Callers, Bind(c) PROVE CausesKept
    BY <2>3 DEF Bind, CausesKept, IsActive, TypeOK, ActiveTurn
  <2>4. ASSUME NEW c \in Callers,
               \/ \E s \in Sessions : Request(c, s)
               \/ CheckHeld(c) \/ Enable(c) \/ RefusedClosed(c) \/ Busy(c) \/ Park(c)
               \/ QueuedCancel(c) \/ Wake(c) \/ ReleaseNotify(c)
        PROVE  CausesKept
    BY <2>4 DEF Request, CheckHeld, Enable, RefusedClosed, Busy, Park, QueuedCancel, Wake,
       ReleaseNotify, gate, CausesKept, IsActive
  <2>5. ASSUME NEW k \in Controllers, NEW s \in Sessions, NEW cause \in Causes,
               Cancel(k, s, cause)
        PROVE  CausesKept
    BY <2>5, CausesAssumption DEF Cancel, FirstCause, CausesKept, IsActive, TypeOK, ActiveTurn
  <2>6. ASSUME NEW k \in Controllers, NEW cause \in Causes, BeginDrain(k, cause)
        PROVE  DrainReachesAll'
    BY <2>6, CausesAssumption DEF BeginDrain, FirstCause, DrainReachesAll, ActiveSessions,
       IsActive, TypeOK, ActiveTurn
  <2>7. ASSUME NEW k \in Controllers, Fire(k) PROVE CausesKept
    BY <2>7 DEF Fire, CausesKept, IsActive, TypeOK, ActiveTurn
  <2>8. ASSUME NEW k \in Controllers, ClearHandoffDrain(k) PROVE DrainReachesAll'
    BY <2>8 DEF ClearHandoffDrain, DrainReachesAll
  <2>9. ASSUME NEW k \in Controllers,
               \/ BeginQuiesce(k) \/ LiftCheck(k) \/ LiftClear(k) \/ ControlNotify(k)
               \/ ClearHandoffStarted(k) \/ WaitLook(k) \/ WaitAwait(k) \/ WaitTimeout(k)
               \/ WaitEnable(k, Sessions) \/ \E s \in Sessions : WaitEnable(k, {s})
        PROVE  CausesKept
    BY <2>9 DEF BeginQuiesce, LiftCheck, LiftClear, ControlNotify, ClearHandoffStarted,
       WaitLook, WaitAwait, WaitTimeout, WaitEnable, gate, CausesKept, IsActive
  <2>10. ASSUME UNCHANGED vars PROVE CausesKept
    BY <2>10 DEF vars, gate, CausesKept, IsActive
  <2> QED
    BY <2>1, <2>2, <2>3, <2>4, <2>5, <2>6, <2>7, <2>8, <2>9, <2>10, CausesPreserve
       DEF Next, CallerNext, ControllerNext
<1> QED BY <1>1, <1>2, TypeCorrect, PTL DEF Spec
-----------------------------------------------------------------------------
(* The gate implements its one-step specification.  SingleActiveTurn ties the leases, in
   which the specification speaks, to the entries that the code looks at. *)

Holders == [s \in Sessions |-> {c \in Callers : s \in Held(c)}]
CauseOf == [s \in Sessions |-> active[s].cause]

\* A session has an entry exactly while some task holds its turn.
LEMMA EntryIsHeld ==
    ASSUME SingleActiveTurn, NEW s \in Sessions
    PROVE  IsActive(s) <=> Holders[s] # {}
BY DEF SingleActiveTurn, Holders, IsActive, Held

LEMMA RunningIsActive == SingleActiveTurn => Gate!Running = ActiveSessions
BY EntryIsHeld DEF Gate!Running, ActiveSessions, Holders

\* Steps that touch neither leases, causes nor the state of the gate.
SameGate == /\ UNCHANGED <<lease, draining, holding, handoff>>
            /\ \A s \in Sessions : active'[s].cause = active[s].cause

LEMMA SameGateRefines == SameGate => UNCHANGED Gate!vars
BY DEF SameGate, Gate!vars, Held

\* try_acquire: the entry was free, so the session was.
LEMMA InsertRefines ==
    ASSUME TypeOK, SingleActiveTurn, NEW c \in Callers, NEW s \in Sessions, Insert(c, s),
           UNCHANGED <<draining, holding, handoff>>
    PROVE  Gate!Enter(c, s)
<1>1. nextId # NoId
  BY DEF TypeOK, NoId
<1>2. /\ Turn(nextId).cause = NoCause
      /\ active'[s] = Turn(nextId)
      /\ \A t \in Sessions \ {s} : active'[t] = active[t]
      /\ lease'[c][s] = nextId
      /\ \A d \in Callers, t \in Sessions : d # c \/ t # s => lease'[d][t] = lease[d][t]
  BY DEF Insert, TypeOK, Turn
<1>3. Holders[s] = {} /\ draining = NoCause /\ ~holding
  BY EntryIsHeld DEF Insert, Closed
<1>4. Holders' = [Holders EXCEPT ![s] = {c}]
  <2>1. Holders'[s] = {c}
    <3>1. \A d \in Callers : lease[d][s] = NoId
      BY <1>3 DEF Holders, Held
    <3> QED BY <1>1, <1>2, <3>1 DEF Holders, Held
  <2>2. \A t \in Sessions \ {s} : Holders'[t] = Holders[t]
    BY <1>2 DEF Holders, Held
  <2> QED BY <2>1, <2>2 DEF Holders
<1>5. CauseOf' = [CauseOf EXCEPT ![s] = NoCause]
  BY <1>2 DEF CauseOf
<1> QED BY <1>3, <1>4, <1>5 DEF Gate!Enter, Holders, CauseOf

\* release: the id matches, so the turn that goes is the task's own and the only one.
LEMMA ReleaseRefines ==
    ASSUME TypeOK, SingleActiveTurn, NEW c \in Callers, NEW s \in Sessions, Release(c, s)
    PROVE  Gate!Leave(c, s)
<1>1. s \in Held(c) /\ active[s].id = lease[c][s]
  BY DEF Release, Innermost, SingleActiveTurn
<1>2. /\ active'[s].cause = NoCause
      /\ \A t \in Sessions \ {s} : active'[t] = active[t]
      /\ lease'[c][s] = NoId
      /\ \A d \in Callers, t \in Sessions : d # c \/ t # s => lease'[d][t] = lease[d][t]
      /\ UNCHANGED <<draining, holding, handoff>>
  BY <1>1 DEF Release, TypeOK, NoTurn, Turn
<1>3. Holders[s] = {c}
  BY <1>1 DEF SingleActiveTurn, Holders
<1>4. Holders' = [Holders EXCEPT ![s] = {}]
  <2>1. Holders'[s] = {}
    <3>1. \A d \in Callers \ {c} : lease[d][s] = NoId
      BY <1>1 DEF SingleActiveTurn, Held
    <3> QED BY <1>2, <3>1 DEF Holders, Held
  <2>2. \A t \in Sessions \ {s} : Holders'[t] = Holders[t]
    BY <1>2 DEF Holders, Held
  <2> QED BY <2>1, <2>2 DEF Holders
<1>5. CauseOf' = [CauseOf EXCEPT ![s] = NoCause]
  BY <1>2 DEF CauseOf
<1> QED BY <1>2, <1>3, <1>4, <1>5 DEF Gate!Leave, Holders, CauseOf

\* cancel and begin_drain look at the entries; the leases say the same.
LEMMA CancelRefines ==
    ASSUME TypeOK, SingleActiveTurn, NEW k \in Controllers, NEW s \in Sessions,
           NEW why \in Causes, Cancel(k, s, why)
    PROVE  Gate!CancelTurn(s, why)
<1>1. s \in Gate!Running
  BY RunningIsActive DEF Cancel, ActiveSessions
<1>2. /\ active'[s].cause = FirstCause(active[s].cause, why)
      /\ \A t \in Sessions \ {s} : active'[t] = active[t]
      /\ UNCHANGED <<lease, draining, holding, handoff>>
  BY DEF Cancel, TypeOK, ActiveTurn, callers
<1>3. CauseOf' = [CauseOf EXCEPT ![s] = IF @ = NoCause THEN why ELSE @]
  BY <1>2 DEF CauseOf, FirstCause
<1>4. Holders' = Holders
  BY <1>2 DEF Holders, Held
<1> QED BY <1>1, <1>2, <1>3, <1>4 DEF Gate!CancelTurn, CauseOf, Holders

LEMMA DrainRefines ==
    ASSUME TypeOK, SingleActiveTurn, NEW k \in Controllers, NEW why \in Causes, BeginDrain(k, why)
    PROVE  Gate!Drain(why)
<1>1. /\ \A s \in Sessions : active'[s].cause = IF s \in ActiveSessions
                                                THEN FirstCause(active[s].cause, why)
                                                ELSE active[s].cause
      /\ draining' = FirstCause(draining, why)
      /\ UNCHANGED <<lease, holding, handoff>>
  BY DEF BeginDrain, TypeOK, ActiveTurn, ActiveSessions, callers
<1>2. CauseOf' = [s \in Sessions |-> IF s \in ActiveSessions /\ CauseOf[s] = NoCause
                                     THEN why ELSE CauseOf[s]]
  BY <1>1 DEF CauseOf, FirstCause
<1>3. Holders' = Holders
  BY <1>1 DEF Holders, Held
<1> QED BY <1>1, <1>2, <1>3, RunningIsActive DEF Gate!Drain, CauseOf, Holders, FirstCause

\* For any sessions, tasks and controllers, the gate behaves as if each of its operations
\* were one step: every step of the code is one of AtomicGate or changes nothing of it.
THEOREM GateIsAtomic == Spec => ImplementsGate
<1>1. Init => Gate!Init
  BY DEF Init, Gate!Init, Held, NoTurn, Turn
<1>2. TypeOK /\ WantOK /\ SingleActiveTurn /\ [Next]_vars => [Gate!Next]_(Gate!vars)
  <2> SUFFICES ASSUME TypeOK, WantOK, SingleActiveTurn, [Next]_vars
               PROVE  Gate!Next \/ SameGate
    BY SameGateRefines
  <2>1. ASSUME NEW c \in Callers, NEW s \in Sessions, TryBegin(c, s) PROVE Gate!Next
    BY <2>1, InsertRefines DEF TryBegin, Gate!Next
  <2>2. ASSUME NEW c \in Callers, Acquired(c) PROVE Gate!Next
    <3>1. PICK s \in Sessions : s = want[c]
      BY <2>2 DEF Acquired, WantOK
    <3> QED BY <2>2, <3>1, InsertRefines DEF Acquired, Gate!Next
  <2>3. ASSUME NEW c \in Callers, NEW s \in Sessions, Release(c, s) PROVE Gate!Next
    BY <2>3, ReleaseRefines DEF Gate!Next
  <2>4. ASSUME NEW c \in Callers, Bind(c) PROVE SameGate
    BY <2>4 DEF Bind, SameGate, TypeOK, ActiveTurn
  <2>5. ASSUME NEW c \in Callers,
               \/ \E s \in Sessions : Request(c, s)
               \/ CheckHeld(c) \/ Enable(c) \/ RefusedClosed(c) \/ Busy(c) \/ Park(c) \/ QueuedCancel(c)
               \/ Wake(c) \/ ReleaseNotify(c)
        PROVE  SameGate
    BY <2>5 DEF Request, CheckHeld, Enable, RefusedClosed, Busy, Park, QueuedCancel, Wake,
       ReleaseNotify, gate, SameGate
  <2>6. ASSUME NEW k \in Controllers, NEW s \in Sessions, NEW why \in Causes, Cancel(k, s, why)
        PROVE  Gate!Next
    BY <2>6, CancelRefines DEF Gate!Next
  <2>7. ASSUME NEW k \in Controllers, NEW why \in Causes, BeginDrain(k, why) PROVE Gate!Next
    BY <2>7, DrainRefines DEF Gate!Next
  <2>8. ASSUME NEW k \in Controllers, Fire(k) PROVE SameGate
    BY <2>8 DEF Fire, SameGate, TypeOK, ActiveTurn, callers
  <2>9. ASSUME NEW k \in Controllers, BeginQuiesce(k) PROVE Gate!Next
    <3>1. Gate!Quiesce
      BY <2>9, RunningIsActive DEF BeginQuiesce, Gate!Quiesce, callers, Held
    <3> QED BY <3>1 DEF Gate!Next
  <2>10. ASSUME NEW k \in Controllers, LiftClear(k) \/ ClearHandoffDrain(k) \/ ClearHandoffStarted(k)
         PROVE  Gate!Next
    <3>1. Gate!Lift \/ Gate!Reopen \/ Gate!ForgetStarted
      BY <2>10 DEF LiftClear, ClearHandoffDrain, ClearHandoffStarted, Gate!Lift, Gate!Reopen,
         Gate!ForgetStarted, callers, Held
    <3> QED BY <3>1 DEF Gate!Next
  <2>11. ASSUME NEW k \in Controllers,
                \/ LiftCheck(k) \/ ControlNotify(k) \/ WaitLook(k) \/ WaitAwait(k) \/ WaitTimeout(k)
                \/ WaitEnable(k, Sessions) \/ \E s \in Sessions : WaitEnable(k, {s})
         PROVE  SameGate
    BY <2>11 DEF LiftCheck, ControlNotify, WaitLook, WaitAwait, WaitTimeout, WaitEnable, gate,
       callers, SameGate
  <2>12. CASE UNCHANGED vars
    BY <2>12 DEF vars, gate, callers, SameGate
  <2> QED
    BY <2>1, <2>2, <2>3, <2>4, <2>5, <2>6, <2>7, <2>8, <2>9, <2>10, <2>11, <2>12
       DEF Next, CallerNext, ControllerNext
<1> QED
  BY <1>1, <1>2, TypeCorrect, WantCorrect, OneTurn, PTL DEF Spec, ImplementsGate, Gate!Spec
=============================================================================
