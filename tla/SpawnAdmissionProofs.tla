------------------------- MODULE SpawnAdmissionProofs -------------------------
(* Theorems about SpawnAdmission, for every set of operations, roots and     *)
(* actors and every value of the bounds.                                     *)
EXTENDS SpawnAdmission, GovernorProofs, TLAPS

USE DEF budget, residents, tasks, ghosts

LEMMA TypeInit == Init => TypeOK
  <1> SUFFICES ASSUME Init PROVE TypeOK
    OBVIOUS
  <1> QED
    BY BudgetAssumption, EpochAssumption, RunsAssumption, FaultsAssumption, NoOpAssumption
    DEF Init, TypeOK, BudgetType, Absent, Claim, Row, NoRow, States, Open, Terminals, Idle, SupPcs, CleanPcs, TaskPcs

LEMMA ReleaseOperationType ==
  ASSUME BudgetType, NEW o \in Ops, ReleaseOperation(o) PROVE BudgetType'
  <1>1. RootOf(o) \in Roots /\ Units(o) \in Nat
    BY OpsAssumption
  <1>2. remaining' \in [Roots -> 0..Budget \cup {Absent}]
    BY <1>1, BudgetAssumption DEF BudgetType, ReleaseOperation, CappedAt, Absent
  <1> QED
    BY <1>2 DEF BudgetType, ReleaseOperation

LEMMA AcquireType ==
  ASSUME BudgetType, NEW o \in Ops, Acquire(o) PROVE BudgetType'
  <1>1. RootOf(o) \in Roots /\ Units(o) \in Nat
    BY OpsAssumption
  <1>2. Seeded(RootOf(o)) \in 0..Budget
    BY <1>1, BudgetAssumption DEF BudgetType, Seeded, Absent
  <1>3. remaining' \in [Roots -> 0..Budget \cup {Absent}]
    BY <1>1, <1>2, BudgetAssumption DEF BudgetType, Acquire, Fits
  <1> QED
    BY <1>3 DEF BudgetType, Acquire

LEMMA OverloadType ==
  ASSUME BudgetType, NEW o \in Ops, Overload(o) PROVE BudgetType'
  <1>1. RootOf(o) \in Roots
    BY OpsAssumption
  <1>2. Seeded(RootOf(o)) \in 0..Budget
    BY <1>1, BudgetAssumption DEF BudgetType, Seeded, Absent
  <1>3. remaining' \in [Roots -> 0..Budget \cup {Absent}]
    BY <1>1, <1>2, BudgetAssumption DEF BudgetType, Overload
  <1> QED
    BY <1>3 DEF BudgetType, Overload

LEMMA TerminalizedType ==
  ASSUME NEW row \in Row, NEW t \in Terminals PROVE Terminalized(row, t) \in Row
  BY DEF Row, Terminalized, States

LEMMA FinalizeType ==
  ASSUME journal \in [Ops -> Row], NEW o \in Ops, NEW t \in Terminals, Finalize(o, t)
  PROVE journal' \in [Ops -> Row]
  BY TerminalizedType DEF Finalize

LEMMA AbortRowsType ==
  ASSUME journal \in [Ops -> Row], NEW S \in SUBSET Ops PROVE AbortRows(S) \in [Ops -> Row]
  <1>1. "aborted" \in Terminals
    BY DEF Terminals
  <1> QED
    BY <1>1, TerminalizedType DEF AbortRows

LEMMA ClaimType ==
  ASSUME claim \in [Actors -> Claim], run \in 1..MaxRuns, NEW a \in Actors,
         RecoverClaim(a) \/ SetReleased(a)
  PROVE  claim' \in [Actors -> Claim]
  <1>1. CASE RecoverClaim(a)
    <2>1. [epoch |-> claim[a].epoch + 1, owner |-> run, state |-> "active"] \in Claim
      BY <1>1, EpochAssumption, RunsAssumption DEF RecoverClaim, Claim
    <2>2. QED
      BY <1>1, <2>1 DEF RecoverClaim
  <1>2. CASE SetReleased(a)
    <2>1. [claim[a] EXCEPT !.state = "released"] \in Claim
      BY DEF Claim
    <2>2. QED
      BY <1>2, <2>1 DEF SetReleased
  <1>3. QED
    BY <1>1, <1>2

LEMMA TypeStep == TypeOK /\ [Next]_vars => TypeOK'
  <1> SUFFICES ASSUME TypeOK, [Next]_vars PROVE TypeOK'
    OBVIOUS
  <1> USE BudgetAssumption, EpochAssumption, RunsAssumption, FaultsAssumption, OpsAssumption,
          IssuerAssumption, WorkflowAssumption, NoOpAssumption
      DEF TypeOK, BudgetType, Claim, Terminals, Idle, SupPcs, CleanPcs, TaskPcs, SupAt, SupGoto
  <1>1. ASSUME NEW o \in Ops, Reconcile(o) PROVE TypeOK'
    BY <1>1, ReleaseOperationType DEF Reconcile
  <1>2. CASE CancelledBeforeDebit
    BY <1>2, FinalizeType DEF CancelledBeforeDebit, EndUnadmitted, StoreFault
  <1>3. CASE DepthExceeded
    BY <1>3, FinalizeType DEF DepthExceeded, EndUnadmitted, StoreFault
  <1>4. CASE CheckPassed
    BY <1>4 DEF CheckPassed
  <1>5. CASE Reserved
    BY <1>5, AcquireType DEF Reserved
  <1>6. CASE FirstOverload
    BY <1>6, OverloadType DEF FirstOverload
  <1>7. CASE ListReleased
    <2>1. CASE sup' = Idle /\ StoreFault
      BY <1>7, <2>1 DEF ListReleased, StoreFault
    <2>2. CASE sup' = [sup EXCEPT !.pc = "retry", !.todo = ReleasedOps(RootOf(sup.op))] /\ UNCHANGED faults
      BY <1>7, <2>2 DEF ListReleased, ReleasedOps
    <2>3. QED
      BY <1>7, <2>1, <2>2 DEF ListReleased
  <1>8. CASE SecondOverload
    BY <1>8, OverloadType DEF SecondOverload
  <1>9. CASE AbortUnadmitted
    BY <1>9, FinalizeType DEF AbortUnadmitted, EndUnadmitted, StoreFault
  <1>10. CASE Started
    <2>1. journal' \in [Ops -> Row]
      <3>1. journal[sup.op] \in Row /\ "started" \in States
        BY <1>10 DEF Started, States, Open
      <3>2. [journal[sup.op] EXCEPT !.state = "started"] \in Row
        BY <3>1 DEF Row
      <3>3. QED
        BY <1>10, <3>2 DEF Started
    <2>2. spawns' \in [Ops -> Nat]
      BY <1>10 DEF Started
    <2>3. QED
      BY <1>10, <2>1, <2>2 DEF Started
  <1>11. CASE StartedElsewhere
    BY <1>11, ReleaseOperationType DEF StartedElsewhere
  <1>12. CASE StartFails
    <2>1. faults' \in 0..MaxFaults
      BY <1>12 DEF StartFails, StoreFault
    <2>2. BudgetType'
      BY <1>12, ReleaseOperationType DEF StartFails
    <2>3. QED
      BY <1>12, <2>1, <2>2 DEF StartFails
  <1>13. ASSUME NEW o \in Ops, ClaimAdmission(o) PROVE TypeOK'
    BY <1>13 DEF ClaimAdmission, Fenced, Row, States, Open
  <1>14. ASSUME NEW o \in Ops, CancelRequest(o) PROVE TypeOK'
    BY <1>14 DEF CancelRequest, BudgetType
  <1>15. ASSUME NEW o \in Ops, Registered(o) PROVE TypeOK'
    BY <1>15 DEF Registered
  <1>16. ASSUME NEW o \in Ops, RegistrationFailed(o) PROVE TypeOK'
    BY <1>16 DEF RegistrationFailed
  <1>17. ASSUME NEW o \in Ops, FinishTask(o) PROVE TypeOK'
    BY <1>17, FinalizeType DEF FinishTask
  <1>18. ASSUME NEW o \in Ops, FinishRefused(o) PROVE TypeOK'
    BY <1>18 DEF FinishRefused, StoreFault
  <1>19. ASSUME NEW o \in Ops, TaskRefund(o) PROVE TypeOK'
    BY <1>19, ReleaseOperationType DEF TaskRefund
  <1>20. ASSUME NEW r \in Roots, RootTurnEnds(r) PROVE TypeOK'
    BY <1>20 DEF RootTurnEnds, CancelOperations, DebitsOf, BudgetType
  <1>21. ASSUME NEW r \in Roots, ListRows(r) PROVE TypeOK'
    <2>1. faults' \in 0..MaxFaults
      BY <1>21 DEF ListRows, StoreFault
    <2>2. RootRows(r) \in SUBSET Ops
      BY DEF RootRows
    <2>3. CASE clean' = [clean EXCEPT ![r] = [Idle EXCEPT !.pc = "failed"]]
      BY <1>21, <2>1, <2>3 DEF ListRows
    <2>4. CASE clean' = [clean EXCEPT ![r] = [pc |-> "sweep", op |-> NoOp, todo |-> RootRows(r)]]
      BY <1>21, <2>1, <2>2, <2>4 DEF ListRows
    <2>5. QED
      BY <1>21, <2>3, <2>4 DEF ListRows
  <1>22. ASSUME NEW r \in Roots, NEW o \in Ops, SweepRow(r, o) PROVE TypeOK'
    BY <1>22, FinalizeType DEF SweepRow, CleanAt
  <1>23. ASSUME NEW r \in Roots, NEW o \in Ops, SweepCancelled(r, o) PROVE TypeOK'
    BY <1>23 DEF SweepCancelled, CleanAt
  <1>24. ASSUME NEW r \in Roots, NEW o \in Ops, SweepFails(r, o) PROVE TypeOK'
    <2>1. faults' \in 0..MaxFaults
      BY <1>24 DEF SweepFails, StoreFault
    <2>2. QED
      BY <1>24, <2>1 DEF SweepFails, CleanAt
  <1>25. ASSUME NEW r \in Roots, SweepRefund(r) PROVE TypeOK'
    BY <1>25, ReleaseOperationType DEF SweepRefund, CleanAt
  <1>26. ASSUME NEW r \in Roots, SweepDone(r) PROVE TypeOK'
    BY <1>26 DEF SweepDone, ReleaseRoot, DebitsOf, BudgetType, CleanAt, Absent
  <1>27. ASSUME NEW r \in Roots, WorkflowReserve(r) PROVE TypeOK'
    BY <1>27 DEF WorkflowReserve, ReserveExact, Seeded, BudgetType, Absent
  <1>28. ASSUME NEW r \in Roots, WorkflowRefund(r) PROVE TypeOK'
    BY <1>28 DEF WorkflowRefund, RefundReserved, CappedAt, BudgetType, Absent
  <1>29. ASSUME NEW a \in Actors, ClaimActor(a) PROVE TypeOK'
    BY <1>29 DEF ClaimActor, TryClaimNew
  <1>30. ASSUME NEW a \in Actors, TakeOver(a) PROVE TypeOK'
    <2>1. claim' \in [Actors -> Claim]
      BY <1>30, ClaimType DEF TakeOver
    <2>2. claim[a].epoch \in 0..MaxEpoch /\ claim'[a].epoch \in 0..MaxEpoch
      BY <2>1
    <2>3. recov' \in [Actors -> 0..MaxEpoch] /\ held' \in [Actors -> SUBSET (0..MaxEpoch)]
      BY <1>30, <2>2 DEF TakeOver
    <2>4. QED
      BY <1>30, <2>1, <2>3 DEF TakeOver
  <1>31. ASSUME NEW a \in Actors, RecoverActor(a) PROVE TypeOK'
    BY <1>31, AbortRowsType DEF RecoverActor, ReleasedIn, RowsUpTo
  <1>32. ASSUME NEW a \in Actors, NEW o \in Ops, ActorRefund(a, o) PROVE TypeOK'
    BY <1>32, ReleaseOperationType DEF ActorRefund
  <1>33. ASSUME NEW a \in Actors, RecoveryFails(a) PROVE TypeOK'
    <2>1. faults' \in 0..MaxFaults
      BY <1>33 DEF RecoveryFails, StoreFault
    <2>2. claim' \in [Actors -> Claim]
      BY <1>33, ClaimType DEF RecoveryFails
    <2>3. journal' \in [Ops -> Row] /\ owed' \in [Actors -> SUBSET Ops]
      BY <1>33, AbortRowsType DEF RecoveryFails, ReleasedIn, RowsAt
    <2>4. QED
      BY <1>33, <2>1, <2>2, <2>3 DEF RecoveryFails
  <1>34. ASSUME NEW a \in Actors, ReleaseActor(a) PROVE TypeOK'
    <2>1. claim' \in [Actors -> Claim]
      BY <1>34, ClaimType DEF ReleaseActor
    <2>2. journal' \in [Ops -> Row] /\ owed' \in [Actors -> SUBSET Ops]
      BY <1>34, AbortRowsType DEF ReleaseActor, ReleasedIn, RowsAt
    <2>3. QED
      BY <1>34, <2>1, <2>2 DEF ReleaseActor
  <1>35. CASE Crash
    BY <1>35 DEF Crash, BudgetType, Absent
  <1>36. ASSUME NEW a \in Actors, BootClaim(a) PROVE TypeOK'
    <2>1. claim' \in [Actors -> Claim]
      BY <1>36, ClaimType DEF BootClaim
    <2>2. claim[a].epoch \in 0..MaxEpoch /\ claim'[a].epoch \in 0..MaxEpoch
      BY <2>1
    <2>3. recov' \in [Actors -> 0..MaxEpoch] /\ held' \in [Actors -> SUBSET (0..MaxEpoch)]
      BY <1>36, <2>2 DEF BootClaim
    <2>4. QED
      BY <1>36, <2>1, <2>3 DEF BootClaim
  <1>37. CASE BootAdmissions
    BY <1>37, AbortRowsType DEF BootAdmissions
  <1>38. CASE BootDone
    BY <1>38 DEF BootDone
  <1>39. CASE UNCHANGED vars
    BY <1>39 DEF vars
  <1>40. QED
    BY <1>1, <1>2, <1>3, <1>4, <1>5, <1>6, <1>7, <1>8, <1>9, <1>10, <1>11, <1>12, <1>13,
       <1>14, <1>15, <1>16, <1>17, <1>18, <1>19, <1>20, <1>21, <1>22, <1>23, <1>24,
       <1>25, <1>26, <1>27, <1>28, <1>29, <1>30, <1>31, <1>32, <1>33, <1>34, <1>35,
       <1>36, <1>37, <1>38, <1>39
    DEF Next, Admit, Task, Sweep, Recovery, Boot

(* Type correctness. *)

\* Every variable keeps its type: a root's budget stays between zero and
\* per_run_budget whatever is reserved, refunded and released (Governor).
THEOREM TypeCorrect == Spec => []TypeOK
  <1>1. Init => TypeOK
    BY TypeInit
  <1>2. TypeOK /\ [Next]_vars => TypeOK'
    BY TypeStep
  <1>3. QED
    BY <1>1, <1>2, PTL DEF Spec

-----------------------------------------------------------------------------
(* What a step may do to a row of the journal. *)

Inserted(o) ==
    /\ journal[o].state = "absent"
    /\ journal'[o].state = "accepted"
    /\ journal'[o].released = FALSE
    /\ ActorOf(o) # NoActor => Fenced(ActorOf(o), journal'[o].epoch)

Begun(o) ==
    /\ journal[o].state = "accepted"
    /\ journal'[o].state = "started"
    /\ journal'[o].epoch = journal[o].epoch
    /\ journal'[o].released = journal[o].released
    /\ MayWrite(o)

Ended(o) ==
    /\ journal[o].state \in Open
    /\ journal'[o].state \in Terminals
    /\ journal'[o].epoch = journal[o].epoch
    /\ journal'[o].released = (journal[o].released \/ journal[o].state = "started")
    /\ journal'[o].state = "completed" => MayWrite(o)

RowStep(o) == journal'[o] = journal[o] \/ Inserted(o) \/ Begun(o) \/ Ended(o)

LEMMA FinalizeEffect ==
  ASSUME journal \in [Ops -> Row], NEW o \in Ops, NEW t \in Terminals,
         FinalizeApplies(o, t), t = "completed" => MayWrite(o), Finalize(o, t)
  PROVE  \A p \in Ops : RowStep(p)
  <1>1. journal'[o] = Terminalized(journal[o], t) /\ \A p \in Ops \ {o} : journal'[p] = journal[p]
    BY DEF Finalize
  <1>2. Terminalized(journal[o], t).state = t
        /\ Terminalized(journal[o], t).epoch = journal[o].epoch
        /\ Terminalized(journal[o], t).released = (journal[o].released \/ journal[o].state = "started")
    BY DEF Terminalized, Row
  <1>3. Ended(o)
    BY <1>1, <1>2 DEF Ended, FinalizeApplies, IsOpen
  <1>4. QED
    BY <1>1, <1>3 DEF RowStep

LEMMA AbortEffect ==
  ASSUME journal \in [Ops -> Row], NEW S \in SUBSET Ops, \A p \in S : IsOpen(p),
         journal' = AbortRows(S)
  PROVE  \A p \in Ops : RowStep(p)
  <1> SUFFICES ASSUME NEW p \in Ops PROVE RowStep(p)
    OBVIOUS
  <1>1. CASE p \in S
    <2>1. journal'[p] = Terminalized(journal[p], "aborted")
      BY <1>1 DEF AbortRows
    <2>2. Terminalized(journal[p], "aborted").state = "aborted"
          /\ Terminalized(journal[p], "aborted").epoch = journal[p].epoch
          /\ Terminalized(journal[p], "aborted").released
                = (journal[p].released \/ journal[p].state = "started")
      BY DEF Terminalized, Row
    <2>3. Ended(p)
      BY <1>1, <2>1, <2>2 DEF Ended, IsOpen, Terminals
    <2>4. QED
      BY <2>3 DEF RowStep
  <1>2. CASE p \notin S
    BY <1>2 DEF AbortRows, RowStep
  <1>3. QED
    BY <1>1, <1>2

LEMMA JournalEffect == TypeOK /\ [Next]_vars => \A p \in Ops : RowStep(p)
  <1> SUFFICES ASSUME TypeOK, [Next]_vars PROVE \A p \in Ops : RowStep(p)
    OBVIOUS
  <1> USE DEF TypeOK, Terminals, RowStep
  <1>1. ASSUME NEW o \in Ops, Reconcile(o) PROVE \A p \in Ops : RowStep(p)
    BY <1>1 DEF Reconcile
  <1>2. CASE CancelledBeforeDebit
    <2>1. sup.op \in Ops
      BY <1>2 DEF CancelledBeforeDebit, SupAt
    <2>2. QED
      BY <1>2, <2>1, FinalizeEffect DEF CancelledBeforeDebit, EndUnadmitted
  <1>3. CASE DepthExceeded
    <2>1. sup.op \in Ops
      BY <1>3 DEF DepthExceeded, SupAt
    <2>2. QED
      BY <1>3, <2>1, FinalizeEffect DEF DepthExceeded, EndUnadmitted
  <1>4. CASE CheckPassed
    BY <1>4 DEF CheckPassed
  <1>5. CASE Reserved
    BY <1>5 DEF Reserved
  <1>6. CASE FirstOverload
    BY <1>6 DEF FirstOverload
  <1>7. CASE ListReleased
    BY <1>7 DEF ListReleased
  <1>8. CASE SecondOverload
    BY <1>8 DEF SecondOverload
  <1>9. CASE AbortUnadmitted
    <2>1. sup.op \in Ops
      BY <1>9 DEF AbortUnadmitted, SupAt
    <2>2. QED
      BY <1>9, <2>1, FinalizeEffect DEF AbortUnadmitted, EndUnadmitted
  <1>10. CASE Started
    <2>1. sup.op \in Ops /\ journal[sup.op] \in Row
      BY <1>10 DEF Started, SupAt
    <2>2. Begun(sup.op)
      BY <1>10, <2>1 DEF Started, Startable, Begun, Row
    <2>3. QED
      BY <1>10, <2>1, <2>2 DEF Started
  <1>11. CASE StartedElsewhere
    BY <1>11 DEF StartedElsewhere
  <1>12. CASE StartFails
    BY <1>12 DEF StartFails
  <1>13. ASSUME NEW o \in Ops, ClaimAdmission(o) PROVE \A p \in Ops : RowStep(p)
    <2>1. Inserted(o)
      BY <1>13 DEF ClaimAdmission, Inserted
    <2>2. QED
      BY <1>13, <2>1 DEF ClaimAdmission
  <1>14. ASSUME NEW o \in Ops, CancelRequest(o) PROVE \A p \in Ops : RowStep(p)
    BY <1>14 DEF CancelRequest
  <1>15. ASSUME NEW o \in Ops, Registered(o) PROVE \A p \in Ops : RowStep(p)
    BY <1>15 DEF Registered
  <1>16. ASSUME NEW o \in Ops, RegistrationFailed(o) PROVE \A p \in Ops : RowStep(p)
    BY <1>16 DEF RegistrationFailed
  <1>17. ASSUME NEW o \in Ops, FinishTask(o) PROVE \A p \in Ops : RowStep(p)
    BY <1>17, FinalizeEffect DEF FinishTask
  <1>18. ASSUME NEW o \in Ops, FinishRefused(o) PROVE \A p \in Ops : RowStep(p)
    BY <1>18 DEF FinishRefused
  <1>19. ASSUME NEW o \in Ops, TaskRefund(o) PROVE \A p \in Ops : RowStep(p)
    BY <1>19 DEF TaskRefund
  <1>20. ASSUME NEW r \in Roots, RootTurnEnds(r) PROVE \A p \in Ops : RowStep(p)
    BY <1>20 DEF RootTurnEnds
  <1>21. ASSUME NEW r \in Roots, ListRows(r) PROVE \A p \in Ops : RowStep(p)
    BY <1>21 DEF ListRows
  <1>22. ASSUME NEW r \in Roots, NEW o \in Ops, SweepRow(r, o) PROVE \A p \in Ops : RowStep(p)
    BY <1>22, FinalizeEffect DEF SweepRow
  <1>23. ASSUME NEW r \in Roots, NEW o \in Ops, SweepCancelled(r, o) PROVE \A p \in Ops : RowStep(p)
    BY <1>23 DEF SweepCancelled
  <1>24. ASSUME NEW r \in Roots, NEW o \in Ops, SweepFails(r, o) PROVE \A p \in Ops : RowStep(p)
    BY <1>24 DEF SweepFails
  <1>25. ASSUME NEW r \in Roots, SweepRefund(r) PROVE \A p \in Ops : RowStep(p)
    BY <1>25 DEF SweepRefund
  <1>26. ASSUME NEW r \in Roots, SweepDone(r) PROVE \A p \in Ops : RowStep(p)
    BY <1>26 DEF SweepDone
  <1>27. ASSUME NEW r \in Roots, WorkflowReserve(r) PROVE \A p \in Ops : RowStep(p)
    BY <1>27 DEF WorkflowReserve
  <1>28. ASSUME NEW r \in Roots, WorkflowRefund(r) PROVE \A p \in Ops : RowStep(p)
    BY <1>28 DEF WorkflowRefund
  <1>29. ASSUME NEW a \in Actors, ClaimActor(a) PROVE \A p \in Ops : RowStep(p)
    BY <1>29 DEF ClaimActor
  <1>30. ASSUME NEW a \in Actors, TakeOver(a) PROVE \A p \in Ops : RowStep(p)
    BY <1>30 DEF TakeOver
  <1>31. ASSUME NEW a \in Actors, RecoverActor(a) PROVE \A p \in Ops : RowStep(p)
    <2>1. RowsUpTo(a, recov[a]) \in SUBSET Ops
          /\ \A p \in RowsUpTo(a, recov[a]) : IsOpen(p)
      BY DEF RowsUpTo
    <2>2. journal' = AbortRows(RowsUpTo(a, recov[a]))
      BY <1>31 DEF RecoverActor
    <2>3. QED
      BY <2>1, <2>2, AbortEffect
  <1>32. ASSUME NEW a \in Actors, NEW o \in Ops, ActorRefund(a, o) PROVE \A p \in Ops : RowStep(p)
    BY <1>32 DEF ActorRefund
  <1>33. ASSUME NEW a \in Actors, RecoveryFails(a) PROVE \A p \in Ops : RowStep(p)
    <2>1. RowsAt(a, claim[a].epoch) \in SUBSET Ops
          /\ \A p \in RowsAt(a, claim[a].epoch) : IsOpen(p)
      BY DEF RowsAt
    <2>2. QED
      BY <1>33, <2>1, AbortEffect DEF RecoveryFails
  <1>34. ASSUME NEW a \in Actors, ReleaseActor(a) PROVE \A p \in Ops : RowStep(p)
    <2>1. RowsAt(a, claim[a].epoch) \in SUBSET Ops
          /\ \A p \in RowsAt(a, claim[a].epoch) : IsOpen(p)
      BY DEF RowsAt
    <2>2. QED
      BY <1>34, <2>1, AbortEffect DEF ReleaseActor
  <1>35. CASE Crash
    BY <1>35 DEF Crash
  <1>36. ASSUME NEW a \in Actors, BootClaim(a) PROVE \A p \in Ops : RowStep(p)
    BY <1>36 DEF BootClaim
  <1>37. CASE BootAdmissions
    <2> DEFINE S == {o \in Ops : ActorOf(o) = NoActor /\ IsOpen(o)}
    <2>1. S \in SUBSET Ops /\ \A p \in S : IsOpen(p)
      OBVIOUS
    <2>2. journal' = AbortRows(S)
      BY <1>37 DEF BootAdmissions
    <2> HIDE DEF S
    <2>3. QED
      BY <2>1, <2>2, AbortEffect
  <1>38. CASE BootDone
    BY <1>38 DEF BootDone
  <1>39. CASE UNCHANGED vars
    BY <1>39 DEF vars
  <1>40. QED
    BY <1>1, <1>2, <1>3, <1>4, <1>5, <1>6, <1>7, <1>8, <1>9, <1>10, <1>11, <1>12, <1>13,
       <1>14, <1>15, <1>16, <1>17, <1>18, <1>19, <1>20, <1>21, <1>22, <1>23, <1>24,
       <1>25, <1>26, <1>27, <1>28, <1>29, <1>30, <1>31, <1>32, <1>33, <1>34, <1>35,
       <1>36, <1>37, <1>38, <1>39
    DEF Next, Admit, Task, Sweep, Recovery, Boot

-----------------------------------------------------------------------------
(* The journal moves forward, and only the current incarnation of an actor   *)
(* moves its rows forward.                                                   *)

\* Only a terminal row is marked released.
ReleasedIsTerminal == \A o \in Ops : journal[o].released => journal[o].state \in Terminals

LEMMA ReleasedInvariant == Spec => []ReleasedIsTerminal
  <1>1. Init => ReleasedIsTerminal
    BY DEF Init, ReleasedIsTerminal, NoRow
  <1>2. TypeOK /\ ReleasedIsTerminal /\ [Next]_vars => ReleasedIsTerminal'
    <2> SUFFICES ASSUME TypeOK, ReleasedIsTerminal, [Next]_vars, NEW o \in Ops, journal'[o].released
                 PROVE  journal'[o].state \in Terminals
      BY DEF ReleasedIsTerminal
    <2>1. RowStep(o)
      BY JournalEffect
    <2>2. QED
      BY <2>1 DEF RowStep, Inserted, Begun, Ended, ReleasedIsTerminal, Terminals
  <1>3. QED
    BY <1>1, <1>2, TypeCorrect, PTL DEF Spec

\* Rows never move backwards, terminal rows never change, and logical_released
\* is set exactly by the step that ends a started row, so that a debit is
\* released at most once per operation, in any number of restarts.
THEOREM JournalMonotone == Spec => JournalForward
  <1>1. TypeOK /\ ReleasedIsTerminal /\ [Next]_vars =>
            [\A o \in Ops : journal'[o] # journal[o] =>
                /\ journal[o].state \notin Terminals
                /\ journal'[o].state # "absent"
                /\ journal[o].state = "started" => journal'[o].state \in Terminals
                /\ journal'[o].released <=> (journal[o].state = "started")]_vars
    <2> SUFFICES ASSUME TypeOK, ReleasedIsTerminal, [Next]_vars, NEW o \in Ops,
                        journal'[o] # journal[o]
                 PROVE  /\ journal[o].state \notin Terminals
                        /\ journal'[o].state # "absent"
                        /\ journal[o].state = "started" => journal'[o].state \in Terminals
                        /\ journal'[o].released <=> (journal[o].state = "started")
      OBVIOUS
    <2>1. RowStep(o) /\ journal[o].released \in BOOLEAN
      BY JournalEffect DEF TypeOK, Row
    <2>2. QED
      BY <2>1 DEF RowStep, Inserted, Begun, Ended, ReleasedIsTerminal, Terminals, Open
  <1>2. QED
    BY <1>1, TypeCorrect, ReleasedInvariant, PTL DEF Spec, JournalForward

\* A request captured under an epoch that is no longer the actor's current one
\* neither enters the journal nor is started or completed there.
THEOREM FencedProgress == Spec => StaleNeverAdvances
  <1>1. TypeOK /\ [Next]_vars =>
            [\A o \in Ops :
                /\ ActorOf(o) # NoActor
                /\ journal'[o].state # journal[o].state
                /\ journal'[o].state \in {"accepted", "started", "completed"}
                => /\ Active(ActorOf(o))
                   /\ journal'[o].epoch = claim[ActorOf(o)].epoch]_vars
    <2> SUFFICES ASSUME TypeOK, [Next]_vars, NEW o \in Ops, ActorOf(o) # NoActor,
                        journal'[o].state # journal[o].state,
                        journal'[o].state \in {"accepted", "started", "completed"}
                 PROVE  Active(ActorOf(o)) /\ journal'[o].epoch = claim[ActorOf(o)].epoch
      OBVIOUS
    <2>1. RowStep(o)
      BY JournalEffect
    <2>2. QED
      BY <2>1 DEF RowStep, Inserted, Begun, Ended, MayWrite, Fenced, Active, Terminals
  <1>2. QED
    BY <1>1, TypeCorrect, PTL DEF Spec, StaleNeverAdvances

-----------------------------------------------------------------------------
(* An operation spawns once. *)

\* A row that is not started yet has no registration task behind it.
SpawnInv ==
    \A o \in Ops : /\ spawns[o] <= 1
                   /\ journal[o].state \in {"absent", "accepted"} => spawns[o] = 0

LEMMA SpawnEffect == TypeOK /\ [Next]_vars => Started \/ spawns' = spawns
  <1> SUFFICES ASSUME TypeOK, [Next]_vars PROVE Started \/ spawns' = spawns
    OBVIOUS
  <1>1. ASSUME NEW o \in Ops, Reconcile(o) PROVE Started \/ spawns' = spawns
    BY <1>1 DEF Reconcile
  <1>2. CASE CancelledBeforeDebit
    BY <1>2 DEF CancelledBeforeDebit, EndUnadmitted
  <1>3. CASE DepthExceeded
    BY <1>3 DEF DepthExceeded, EndUnadmitted
  <1>4. CASE CheckPassed
    BY <1>4 DEF CheckPassed
  <1>5. CASE Reserved
    BY <1>5 DEF Reserved
  <1>6. CASE FirstOverload
    BY <1>6 DEF FirstOverload
  <1>7. CASE ListReleased
    BY <1>7 DEF ListReleased
  <1>8. CASE SecondOverload
    BY <1>8 DEF SecondOverload
  <1>9. CASE AbortUnadmitted
    BY <1>9 DEF AbortUnadmitted, EndUnadmitted
  <1>10. CASE Started
    BY <1>10
  <1>11. CASE StartedElsewhere
    BY <1>11 DEF StartedElsewhere
  <1>12. CASE StartFails
    BY <1>12 DEF StartFails
  <1>13. ASSUME NEW o \in Ops, ClaimAdmission(o) PROVE Started \/ spawns' = spawns
    BY <1>13 DEF ClaimAdmission
  <1>14. ASSUME NEW o \in Ops, CancelRequest(o) PROVE Started \/ spawns' = spawns
    BY <1>14 DEF CancelRequest
  <1>15. ASSUME NEW o \in Ops, Registered(o) PROVE Started \/ spawns' = spawns
    BY <1>15 DEF Registered
  <1>16. ASSUME NEW o \in Ops, RegistrationFailed(o) PROVE Started \/ spawns' = spawns
    BY <1>16 DEF RegistrationFailed
  <1>17. ASSUME NEW o \in Ops, FinishTask(o) PROVE Started \/ spawns' = spawns
    BY <1>17 DEF FinishTask
  <1>18. ASSUME NEW o \in Ops, FinishRefused(o) PROVE Started \/ spawns' = spawns
    BY <1>18 DEF FinishRefused
  <1>19. ASSUME NEW o \in Ops, TaskRefund(o) PROVE Started \/ spawns' = spawns
    BY <1>19 DEF TaskRefund
  <1>20. ASSUME NEW r \in Roots, RootTurnEnds(r) PROVE Started \/ spawns' = spawns
    BY <1>20 DEF RootTurnEnds
  <1>21. ASSUME NEW r \in Roots, ListRows(r) PROVE Started \/ spawns' = spawns
    BY <1>21 DEF ListRows
  <1>22. ASSUME NEW r \in Roots, NEW o \in Ops, SweepRow(r, o) PROVE Started \/ spawns' = spawns
    BY <1>22 DEF SweepRow
  <1>23. ASSUME NEW r \in Roots, NEW o \in Ops, SweepCancelled(r, o) PROVE Started \/ spawns' = spawns
    BY <1>23 DEF SweepCancelled
  <1>24. ASSUME NEW r \in Roots, NEW o \in Ops, SweepFails(r, o) PROVE Started \/ spawns' = spawns
    BY <1>24 DEF SweepFails
  <1>25. ASSUME NEW r \in Roots, SweepRefund(r) PROVE Started \/ spawns' = spawns
    BY <1>25 DEF SweepRefund
  <1>26. ASSUME NEW r \in Roots, SweepDone(r) PROVE Started \/ spawns' = spawns
    BY <1>26 DEF SweepDone
  <1>27. ASSUME NEW r \in Roots, WorkflowReserve(r) PROVE Started \/ spawns' = spawns
    BY <1>27 DEF WorkflowReserve
  <1>28. ASSUME NEW r \in Roots, WorkflowRefund(r) PROVE Started \/ spawns' = spawns
    BY <1>28 DEF WorkflowRefund
  <1>29. ASSUME NEW a \in Actors, ClaimActor(a) PROVE Started \/ spawns' = spawns
    BY <1>29 DEF ClaimActor
  <1>30. ASSUME NEW a \in Actors, TakeOver(a) PROVE Started \/ spawns' = spawns
    BY <1>30 DEF TakeOver
  <1>31. ASSUME NEW a \in Actors, RecoverActor(a) PROVE Started \/ spawns' = spawns
    BY <1>31 DEF RecoverActor
  <1>32. ASSUME NEW a \in Actors, NEW o \in Ops, ActorRefund(a, o) PROVE Started \/ spawns' = spawns
    BY <1>32 DEF ActorRefund
  <1>33. ASSUME NEW a \in Actors, RecoveryFails(a) PROVE Started \/ spawns' = spawns
    BY <1>33 DEF RecoveryFails
  <1>34. ASSUME NEW a \in Actors, ReleaseActor(a) PROVE Started \/ spawns' = spawns
    BY <1>34 DEF ReleaseActor
  <1>35. CASE Crash
    BY <1>35 DEF Crash
  <1>36. ASSUME NEW a \in Actors, BootClaim(a) PROVE Started \/ spawns' = spawns
    BY <1>36 DEF BootClaim
  <1>37. CASE BootAdmissions
    BY <1>37 DEF BootAdmissions
  <1>38. CASE BootDone
    BY <1>38 DEF BootDone
  <1>39. CASE UNCHANGED vars
    BY <1>39 DEF vars
  <1>40. QED
    BY <1>1, <1>2, <1>3, <1>4, <1>5, <1>6, <1>7, <1>8, <1>9, <1>10, <1>11, <1>12, <1>13,
       <1>14, <1>15, <1>16, <1>17, <1>18, <1>19, <1>20, <1>21, <1>22, <1>23, <1>24,
       <1>25, <1>26, <1>27, <1>28, <1>29, <1>30, <1>31, <1>32, <1>33, <1>34, <1>35,
       <1>36, <1>37, <1>38, <1>39
    DEF Next, Admit, Task, Sweep, Recovery, Boot

\* No operation ever gets a second registration task: not by a replayed
\* request, not by a restart, not by a takeover of the actor that issued it.
THEOREM AtMostOnce == Spec => []SpawnedOnce
  <1>1. Init => SpawnInv
    BY DEF Init, SpawnInv
  <1>2. TypeOK /\ SpawnInv /\ [Next]_vars => SpawnInv'
    <2> SUFFICES ASSUME TypeOK, SpawnInv, [Next]_vars, NEW o \in Ops
                 PROVE  /\ spawns'[o] <= 1
                        /\ journal'[o].state \in {"absent", "accepted"} => spawns'[o] = 0
      BY DEF SpawnInv
    <2>1. RowStep(o)
      BY JournalEffect
    <2>2. journal'[o].state \in {"absent", "accepted"} => journal[o].state \in {"absent", "accepted"}
      BY <2>1 DEF RowStep, Inserted, Begun, Ended, Terminals
    <2>3. CASE spawns' = spawns
      BY <2>2, <2>3 DEF SpawnInv
    <2>4. CASE Started
      <3>1. sup.op \in Ops /\ journal[sup.op].state = "accepted" /\ spawns \in [Ops -> Nat]
        BY <2>4 DEF Started, SupAt, Startable, TypeOK
      <3>2. spawns'[sup.op] = 1 /\ journal'[sup.op].state = "started"
        BY <2>4, <3>1 DEF Started, SpawnInv, TypeOK, Row
      <3>3. o # sup.op => spawns'[o] = spawns[o]
        BY <2>4, <3>1 DEF Started
      <3>4. QED
        BY <2>2, <3>2, <3>3 DEF SpawnInv
    <2>5. QED
      BY <2>3, <2>4, SpawnEffect
  <1>3. SpawnInv => SpawnedOnce
    BY DEF SpawnInv, SpawnedOnce
  <1>4. QED
    BY <1>1, <1>2, <1>3, TypeCorrect, PTL DEF Spec

-----------------------------------------------------------------------------
(* No debit is leaked. *)

InHand(o) == sup.op = o /\ sup.pc = "start"

\* A step that takes no new debit and does not let go of the one in hand.
LEMMA DebitsKept ==
  ASSUME DebitRecoverable, \A p \in Ops : RowStep(p), debits \subseteq Ops, debits' \subseteq debits,
         \A o \in debits' : InHand(o) => InHand(o)' \/ journal'[o].state = "started"
  PROVE  DebitRecoverable'
  <1> SUFFICES ASSUME NEW o \in debits'
               PROVE  \/ InHand(o)'
                      \/ journal'[o].state = "started"
                      \/ journal'[o].state \in Terminals /\ journal'[o].released
    BY DEF DebitRecoverable, InHand
  <1>1. o \in debits /\ o \in Ops
    OBVIOUS
  <1>2. CASE InHand(o)
    BY <1>2
  <1>3. CASE journal[o].state = "started" \/ (journal[o].state \in Terminals /\ journal[o].released)
    <2>1. RowStep(o)
      BY <1>1
    <2>2. CASE journal[o].state = "started"
      BY <2>1, <2>2 DEF RowStep, Inserted, Begun, Ended
    <2>3. CASE journal[o].state \in Terminals /\ journal[o].released
      <3>1. journal'[o] = journal[o]
        BY <2>1, <2>3 DEF RowStep, Inserted, Begun, Ended, Terminals, Open
      <3>2. QED
        BY <2>3, <3>1
    <2>4. QED
      BY <1>3, <2>2, <2>3
  <1>4. QED
    BY <1>1, <1>2, <1>3 DEF DebitRecoverable, InHand

LEMMA DebitStep == TypeOK /\ DebitRecoverable /\ [Next]_vars => DebitRecoverable'
  <1> SUFFICES ASSUME TypeOK, DebitRecoverable, [Next]_vars PROVE DebitRecoverable'
    OBVIOUS
  <1> USE JournalEffect, DebitsKept DEF InHand, SupAt, SupGoto
  <1>a. debits \subseteq Ops
    BY DEF TypeOK, BudgetType
  <1>1. ASSUME NEW o \in Ops, Reconcile(o) PROVE DebitRecoverable'
    BY <1>1, <1>a DEF Reconcile, ReleaseOperation
  <1>2. CASE CancelledBeforeDebit
    BY <1>2, <1>a DEF CancelledBeforeDebit, EndUnadmitted
  <1>3. CASE DepthExceeded
    BY <1>3, <1>a DEF DepthExceeded, EndUnadmitted
  <1>4. CASE CheckPassed
    BY <1>4, <1>a DEF CheckPassed
  <1>5. CASE Reserved
    <2>1. sup' = [sup EXCEPT !.pc = "start"] /\ journal' = journal /\ debits' = debits \cup {sup.op}
      BY <1>5 DEF Reserved, Acquire
    <2>2. sup'.op = sup.op /\ sup'.pc = "start" /\ sup.pc # "start"
      BY <1>5, <2>1 DEF Reserved, TypeOK
    <2>3. QED
      BY <2>1, <2>2 DEF DebitRecoverable
  <1>6. CASE FirstOverload
    BY <1>6, <1>a DEF FirstOverload, Overload
  <1>7. CASE ListReleased
    BY <1>7, <1>a DEF ListReleased, SupAt, Idle
  <1>8. CASE SecondOverload
    BY <1>8, <1>a DEF SecondOverload, Overload
  <1>9. CASE AbortUnadmitted
    BY <1>9, <1>a DEF AbortUnadmitted, EndUnadmitted
  <1>10. CASE Started
    <2>1. sup.op \in Ops /\ journal[sup.op] \in Row
      BY <1>10 DEF Started, TypeOK
    <2>2. journal'[sup.op].state = "started" /\ debits' = debits
      BY <1>10, <2>1 DEF Started, TypeOK, Row
    <2>3. QED
      BY <2>2, <1>a
  <1>11. CASE StartedElsewhere
    BY <1>11, <1>a DEF StartedElsewhere, ReleaseOperation
  <1>12. CASE StartFails
    BY <1>12, <1>a DEF StartFails, ReleaseOperation
  <1>13. ASSUME NEW o \in Ops, ClaimAdmission(o) PROVE DebitRecoverable'
    BY <1>13, <1>a DEF ClaimAdmission
  <1>14. ASSUME NEW o \in Ops, CancelRequest(o) PROVE DebitRecoverable'
    BY <1>14, <1>a DEF CancelRequest
  <1>15. ASSUME NEW o \in Ops, Registered(o) PROVE DebitRecoverable'
    BY <1>15, <1>a DEF Registered
  <1>16. ASSUME NEW o \in Ops, RegistrationFailed(o) PROVE DebitRecoverable'
    BY <1>16, <1>a DEF RegistrationFailed
  <1>17. ASSUME NEW o \in Ops, FinishTask(o) PROVE DebitRecoverable'
    BY <1>17, <1>a DEF FinishTask
  <1>18. ASSUME NEW o \in Ops, FinishRefused(o) PROVE DebitRecoverable'
    BY <1>18, <1>a DEF FinishRefused
  <1>19. ASSUME NEW o \in Ops, TaskRefund(o) PROVE DebitRecoverable'
    BY <1>19, <1>a DEF TaskRefund, ReleaseOperation
  <1>20. ASSUME NEW r \in Roots, RootTurnEnds(r) PROVE DebitRecoverable'
    BY <1>20, <1>a DEF RootTurnEnds, CancelOperations
  <1>21. ASSUME NEW r \in Roots, ListRows(r) PROVE DebitRecoverable'
    BY <1>21, <1>a DEF ListRows
  <1>22. ASSUME NEW r \in Roots, NEW o \in Ops, SweepRow(r, o) PROVE DebitRecoverable'
    BY <1>22, <1>a DEF SweepRow
  <1>23. ASSUME NEW r \in Roots, NEW o \in Ops, SweepCancelled(r, o) PROVE DebitRecoverable'
    BY <1>23, <1>a DEF SweepCancelled
  <1>24. ASSUME NEW r \in Roots, NEW o \in Ops, SweepFails(r, o) PROVE DebitRecoverable'
    BY <1>24, <1>a DEF SweepFails
  <1>25. ASSUME NEW r \in Roots, SweepRefund(r) PROVE DebitRecoverable'
    BY <1>25, <1>a DEF SweepRefund, ReleaseOperation
  <1>26. ASSUME NEW r \in Roots, SweepDone(r) PROVE DebitRecoverable'
    BY <1>26, <1>a DEF SweepDone, ReleaseRoot
  <1>27. ASSUME NEW r \in Roots, WorkflowReserve(r) PROVE DebitRecoverable'
    BY <1>27, <1>a DEF WorkflowReserve, ReserveExact
  <1>28. ASSUME NEW r \in Roots, WorkflowRefund(r) PROVE DebitRecoverable'
    BY <1>28, <1>a DEF WorkflowRefund, RefundReserved
  <1>29. ASSUME NEW a \in Actors, ClaimActor(a) PROVE DebitRecoverable'
    BY <1>29, <1>a DEF ClaimActor
  <1>30. ASSUME NEW a \in Actors, TakeOver(a) PROVE DebitRecoverable'
    BY <1>30, <1>a DEF TakeOver
  <1>31. ASSUME NEW a \in Actors, RecoverActor(a) PROVE DebitRecoverable'
    BY <1>31, <1>a DEF RecoverActor
  <1>32. ASSUME NEW a \in Actors, NEW o \in Ops, ActorRefund(a, o) PROVE DebitRecoverable'
    BY <1>32, <1>a DEF ActorRefund, ReleaseOperation
  <1>33. ASSUME NEW a \in Actors, RecoveryFails(a) PROVE DebitRecoverable'
    BY <1>33, <1>a DEF RecoveryFails
  <1>34. ASSUME NEW a \in Actors, ReleaseActor(a) PROVE DebitRecoverable'
    BY <1>34, <1>a DEF ReleaseActor
  <1>35. CASE Crash
    BY <1>35, <1>a DEF Crash
  <1>36. ASSUME NEW a \in Actors, BootClaim(a) PROVE DebitRecoverable'
    BY <1>36, <1>a DEF BootClaim
  <1>37. CASE BootAdmissions
    BY <1>37, <1>a DEF BootAdmissions
  <1>38. CASE BootDone
    BY <1>38, <1>a DEF BootDone
  <1>39. CASE UNCHANGED vars
    BY <1>39, <1>a DEF vars
  <1>40. QED
    BY <1>1, <1>2, <1>3, <1>4, <1>5, <1>6, <1>7, <1>8, <1>9, <1>10, <1>11, <1>12, <1>13,
       <1>14, <1>15, <1>16, <1>17, <1>18, <1>19, <1>20, <1>21, <1>22, <1>23, <1>24,
       <1>25, <1>26, <1>27, <1>28, <1>29, <1>30, <1>31, <1>32, <1>33, <1>34, <1>35,
       <1>36, <1>37, <1>38, <1>39
    DEF Next, Admit, Task, Sweep, Recovery, Boot

\* Whatever interleaving of requests, sweeps, takeovers, failures and restarts
\* happened, each debit in the budget can still be returned.
THEOREM NoDebitLeaked == Spec => []DebitRecoverable
  <1>1. Init => DebitRecoverable
    BY DEF Init, DebitRecoverable
  <1>2. QED
    BY <1>1, DebitStep, TypeCorrect, PTL DEF Spec

-----------------------------------------------------------------------------
(* No row of an actor is stranded. *)

\* The claim row against the runs and the takeovers, and every actor row
\* against the claim: an epoch is at most the current one, and a takeover in
\* hand is the one that made the current epoch.
ClaimInv ==
    /\ \A a \in Actors : claim[a].owner <= run
    /\ \A a \in Actors : Active(a) => claim[a].epoch >= 1
    /\ \A a \in Actors : recov[a] # 0 =>
            Active(a) /\ claim[a].owner = run /\ claim[a].epoch = recov[a] + 1
    /\ \A o \in Ops : ActorOf(o) # NoActor /\ journal[o].state # "absent" =>
            journal[o].epoch >= 1 /\ journal[o].epoch <= claim[ActorOf(o)].epoch

StrandInv == ClaimInv /\ NoStrandedRow

LEMMA IssuerType == \A o \in Ops : ActorOf(o) # NoActor => ActorOf(o) \in Actors
  BY IssuerAssumption

\* A step that leaves the claims alone.
LEMMA StrandKept ==
  ASSUME TypeOK, StrandInv, \A p \in Ops : RowStep(p), UNCHANGED <<claim, run, recov, gaveUp>>
  PROVE  StrandInv'
  <1>1. ASSUME NEW o \in Ops, ActorOf(o) # NoActor, journal'[o].state # "absent"
        PROVE  journal'[o].epoch >= 1 /\ journal'[o].epoch <= claim[ActorOf(o)].epoch
    <2>1. RowStep(o) /\ ActorOf(o) \in Actors
      BY <1>1, IssuerType
    <2>2. CASE Inserted(o)
      <3>1. claim[ActorOf(o)].epoch = journal'[o].epoch /\ Active(ActorOf(o))
        BY <1>1, <2>2 DEF Inserted, Fenced, Active
      <3>2. claim[ActorOf(o)].epoch \in Nat /\ claim[ActorOf(o)].epoch >= 1
        BY <2>1, <3>1, EpochAssumption DEF TypeOK, Claim, StrandInv, ClaimInv
      <3>3. QED
        BY <3>1, <3>2
    <2>3. CASE ~Inserted(o)
      BY <1>1, <2>1, <2>3 DEF RowStep, Begun, Ended, StrandInv, ClaimInv, Open
    <2>4. QED
      BY <2>2, <2>3
  <1>2. ClaimInv'
    BY <1>1 DEF StrandInv, ClaimInv, Active
  <1>3. ASSUME NEW o \in Ops, ActorOf(o) # NoActor, journal'[o].state \in Open
        PROVE  LET a == ActorOf(o) IN
               \/ Active(a) /\ journal'[o].epoch = claim[a].epoch
               \/ Active(a) /\ journal'[o].epoch <= recov[a]
               \/ Active(a) /\ claim[a].owner # run
               \/ a \in gaveUp
    <2>1. RowStep(o)
      BY <1>3
    <2>2. CASE Inserted(o)
      BY <1>3, <2>2 DEF Inserted, Fenced, Active
    <2>3. CASE ~Inserted(o)
      <3>1. journal[o].state \in Open /\ journal'[o].epoch = journal[o].epoch
        BY <1>3, <2>1, <2>3 DEF RowStep, Begun, Ended, Open, Terminals
      <3>2. QED
        BY <1>3, <3>1 DEF StrandInv, NoStrandedRow, IsOpen
    <2>4. QED
      BY <2>2, <2>3
  <1>4. NoStrandedRow'
    BY <1>3 DEF NoStrandedRow, IsOpen, Active
  <1>5. QED
    BY <1>2, <1>4 DEF StrandInv

\* What aborting a set of rows does to one row.
LEMMA AbortedRow ==
  ASSUME journal \in [Ops -> Row], NEW S \in SUBSET Ops, \A q \in S : IsOpen(q), NEW o \in Ops
  PROVE  /\ AbortRows(S)[o].epoch = journal[o].epoch
         /\ AbortRows(S)[o].state = "absent" <=> journal[o].state = "absent"
         /\ AbortRows(S)[o].state \in Open => o \notin S
         /\ o \notin S => AbortRows(S)[o] = journal[o]
  <1>1. CASE o \in S
    BY <1>1 DEF AbortRows, Terminalized, Row, Open, IsOpen
  <1>2. CASE o \notin S
    BY <1>2 DEF AbortRows
  <1>3. QED
    BY <1>1, <1>2

LEMMA StrandStep == TypeOK /\ StrandInv /\ [Next]_vars => StrandInv'
  <1> SUFFICES ASSUME TypeOK, StrandInv, [Next]_vars PROVE StrandInv'
    OBVIOUS
  <1>a. \A p \in Ops : RowStep(p)
    BY JournalEffect
  <1>1. ASSUME NEW o \in Ops, Reconcile(o) PROVE StrandInv'
    BY <1>1, <1>a, StrandKept DEF Reconcile
  <1>2. CASE CancelledBeforeDebit
    BY <1>2, <1>a, StrandKept DEF CancelledBeforeDebit, EndUnadmitted
  <1>3. CASE DepthExceeded
    BY <1>3, <1>a, StrandKept DEF DepthExceeded, EndUnadmitted
  <1>4. CASE CheckPassed
    BY <1>4, <1>a, StrandKept DEF CheckPassed
  <1>5. CASE Reserved
    BY <1>5, <1>a, StrandKept DEF Reserved
  <1>6. CASE FirstOverload
    BY <1>6, <1>a, StrandKept DEF FirstOverload
  <1>7. CASE ListReleased
    BY <1>7, <1>a, StrandKept DEF ListReleased
  <1>8. CASE SecondOverload
    BY <1>8, <1>a, StrandKept DEF SecondOverload
  <1>9. CASE AbortUnadmitted
    BY <1>9, <1>a, StrandKept DEF AbortUnadmitted, EndUnadmitted
  <1>10. CASE Started
    BY <1>10, <1>a, StrandKept DEF Started
  <1>11. CASE StartedElsewhere
    BY <1>11, <1>a, StrandKept DEF StartedElsewhere
  <1>12. CASE StartFails
    BY <1>12, <1>a, StrandKept DEF StartFails
  <1>13. ASSUME NEW o \in Ops, ClaimAdmission(o) PROVE StrandInv'
    BY <1>13, <1>a, StrandKept DEF ClaimAdmission
  <1>14. ASSUME NEW o \in Ops, CancelRequest(o) PROVE StrandInv'
    BY <1>14, <1>a, StrandKept DEF CancelRequest
  <1>15. ASSUME NEW o \in Ops, Registered(o) PROVE StrandInv'
    BY <1>15, <1>a, StrandKept DEF Registered
  <1>16. ASSUME NEW o \in Ops, RegistrationFailed(o) PROVE StrandInv'
    BY <1>16, <1>a, StrandKept DEF RegistrationFailed
  <1>17. ASSUME NEW o \in Ops, FinishTask(o) PROVE StrandInv'
    BY <1>17, <1>a, StrandKept DEF FinishTask
  <1>18. ASSUME NEW o \in Ops, FinishRefused(o) PROVE StrandInv'
    BY <1>18, <1>a, StrandKept DEF FinishRefused
  <1>19. ASSUME NEW o \in Ops, TaskRefund(o) PROVE StrandInv'
    BY <1>19, <1>a, StrandKept DEF TaskRefund
  <1>20. ASSUME NEW r \in Roots, RootTurnEnds(r) PROVE StrandInv'
    BY <1>20, <1>a, StrandKept DEF RootTurnEnds
  <1>21. ASSUME NEW r \in Roots, ListRows(r) PROVE StrandInv'
    BY <1>21, <1>a, StrandKept DEF ListRows
  <1>22. ASSUME NEW r \in Roots, NEW o \in Ops, SweepRow(r, o) PROVE StrandInv'
    BY <1>22, <1>a, StrandKept DEF SweepRow
  <1>23. ASSUME NEW r \in Roots, NEW o \in Ops, SweepCancelled(r, o) PROVE StrandInv'
    BY <1>23, <1>a, StrandKept DEF SweepCancelled
  <1>24. ASSUME NEW r \in Roots, NEW o \in Ops, SweepFails(r, o) PROVE StrandInv'
    BY <1>24, <1>a, StrandKept DEF SweepFails
  <1>25. ASSUME NEW r \in Roots, SweepRefund(r) PROVE StrandInv'
    BY <1>25, <1>a, StrandKept DEF SweepRefund
  <1>26. ASSUME NEW r \in Roots, SweepDone(r) PROVE StrandInv'
    BY <1>26, <1>a, StrandKept DEF SweepDone
  <1>27. ASSUME NEW r \in Roots, WorkflowReserve(r) PROVE StrandInv'
    BY <1>27, <1>a, StrandKept DEF WorkflowReserve
  <1>28. ASSUME NEW r \in Roots, WorkflowRefund(r) PROVE StrandInv'
    BY <1>28, <1>a, StrandKept DEF WorkflowRefund
  <1>29. ASSUME NEW a \in Actors, ClaimActor(a) PROVE StrandInv'
    <2>1. ~Active(a) /\ claim'[a] = [epoch |-> claim[a].epoch + 1, owner |-> run, state |-> "active"]
          /\ (\A b \in Actors \ {a} : claim'[b] = claim[b])
          /\ UNCHANGED <<journal, run, recov, gaveUp>>
      BY <1>29 DEF ClaimActor, TryClaimNew, TypeOK
    <2>2. claim[a].epoch \in Nat /\ run \in Nat /\ recov[a] = 0
      BY <2>1, EpochAssumption, RunsAssumption DEF TypeOK, Claim, StrandInv, ClaimInv
    <2>3. ClaimInv'
      <3>1. \A b \in Actors : /\ claim'[b].owner <= run
                              /\ Active(b)' => claim'[b].epoch >= 1
                              /\ recov'[b] # 0 =>
                                    Active(b)' /\ claim'[b].owner = run /\ claim'[b].epoch = recov'[b] + 1
        BY <2>1, <2>2 DEF StrandInv, ClaimInv, Active
      <3>2. ASSUME NEW o \in Ops, ActorOf(o) # NoActor, journal[o].state # "absent"
            PROVE  journal[o].epoch >= 1 /\ journal[o].epoch <= claim'[ActorOf(o)].epoch
        <4>1. ActorOf(o) \in Actors /\ journal[o].epoch \in Nat
          BY <3>2, IssuerType, EpochAssumption DEF TypeOK, Row
        <4>2. journal[o].epoch >= 1 /\ journal[o].epoch <= claim[ActorOf(o)].epoch
          BY <3>2 DEF StrandInv, ClaimInv
        <4>3. QED
          BY <2>1, <2>2, <4>1, <4>2
      <3>3. journal' = journal /\ run' = run
        BY <2>1, <2>2
      <3>4. \A o \in Ops : ActorOf(o) # NoActor /\ journal'[o].state # "absent" =>
                journal'[o].epoch >= 1 /\ journal'[o].epoch <= claim'[ActorOf(o)].epoch
        BY <3>2, <3>3
      <3>5. \A b \in Actors : recov'[b] # 0 =>
                Active(b)' /\ claim'[b].owner = run' /\ claim'[b].epoch = recov'[b] + 1
        BY <3>1, <3>3 DEF Active
      <3>6. \A b \in Actors : claim'[b].owner <= run' /\ (Active(b)' => claim'[b].epoch >= 1)
        BY <3>1, <3>3 DEF Active
      <3>7. QED
        BY <3>4, <3>5, <3>6 DEF ClaimInv, Active
    <2>4. NoStrandedRow'
      BY <2>1, <2>2, IssuerType DEF StrandInv, NoStrandedRow, Active, IsOpen
    <2>5. QED
      BY <2>3, <2>4 DEF StrandInv
  <1>30. ASSUME NEW a \in Actors, TakeOver(a) PROVE StrandInv'
    <2>1. Active(a) /\ claim'[a] = [epoch |-> claim[a].epoch + 1, owner |-> run, state |-> "active"]
          /\ (\A b \in Actors \ {a} : claim'[b] = claim[b])
      BY <1>30 DEF TakeOver, RecoverClaim, TypeOK
    <2>2. recov'[a] = claim[a].epoch /\ (\A b \in Actors \ {a} : recov'[b] = recov[b])
          /\ UNCHANGED <<journal, run, gaveUp>>
      BY <1>30 DEF TakeOver, TypeOK
    <2>3. claim[a].epoch \in Nat /\ claim[a].epoch >= 1 /\ run \in Nat
      BY <2>1, EpochAssumption, RunsAssumption DEF TypeOK, Claim, StrandInv, ClaimInv
    <2>4. ClaimInv'
      <3>1. \A b \in Actors : /\ claim'[b].owner <= run
                              /\ Active(b)' => claim'[b].epoch >= 1
                              /\ recov'[b] # 0 =>
                                    Active(b)' /\ claim'[b].owner = run /\ claim'[b].epoch = recov'[b] + 1
        BY <2>1, <2>2, <2>3 DEF StrandInv, ClaimInv, Active
      <3>2. ASSUME NEW o \in Ops, ActorOf(o) # NoActor, journal[o].state # "absent"
            PROVE  journal[o].epoch >= 1 /\ journal[o].epoch <= claim'[ActorOf(o)].epoch
        <4>1. ActorOf(o) \in Actors /\ journal[o].epoch \in Nat
          BY <3>2, IssuerType, EpochAssumption DEF TypeOK, Row
        <4>2. journal[o].epoch >= 1 /\ journal[o].epoch <= claim[ActorOf(o)].epoch
          BY <3>2 DEF StrandInv, ClaimInv
        <4>3. QED
          BY <2>1, <2>3, <4>1, <4>2
      <3>3. journal' = journal /\ run' = run
        BY <2>1, <2>2
      <3>4. \A o \in Ops : ActorOf(o) # NoActor /\ journal'[o].state # "absent" =>
                journal'[o].epoch >= 1 /\ journal'[o].epoch <= claim'[ActorOf(o)].epoch
        BY <3>2, <3>3
      <3>5. \A b \in Actors : recov'[b] # 0 =>
                Active(b)' /\ claim'[b].owner = run' /\ claim'[b].epoch = recov'[b] + 1
        BY <3>1, <3>3 DEF Active
      <3>6. \A b \in Actors : claim'[b].owner <= run' /\ (Active(b)' => claim'[b].epoch >= 1)
        BY <3>1, <3>3 DEF Active
      <3>7. QED
        BY <3>4, <3>5, <3>6 DEF ClaimInv, Active
    <2>5. NoStrandedRow'
      <3> SUFFICES ASSUME NEW o \in Ops, ActorOf(o) # NoActor, IsOpen(o)
                   PROVE  LET b == ActorOf(o) IN
                          \/ Active(b)' /\ journal[o].epoch = claim'[b].epoch
                          \/ Active(b)' /\ journal[o].epoch <= recov'[b]
                          \/ Active(b)' /\ claim'[b].owner # run
                          \/ b \in gaveUp
        BY <2>2 DEF NoStrandedRow, IsOpen
      <3>1. ActorOf(o) \in Actors
        BY IssuerType
      <3>2. CASE ActorOf(o) = a
        <4>1. journal[o].epoch <= claim[a].epoch
          BY <3>2 DEF StrandInv, ClaimInv, IsOpen, Open
        <4>2. QED
          BY <2>1, <2>2, <3>2, <4>1 DEF Active
      <3>3. CASE ActorOf(o) # a
        BY <2>1, <2>2, <3>1, <3>3 DEF StrandInv, NoStrandedRow, Active
      <3>4. QED
        BY <3>2, <3>3
    <2>6. QED
      BY <2>4, <2>5 DEF StrandInv
  <1>31. ASSUME NEW a \in Actors, RecoverActor(a) PROVE StrandInv'
    <2>1. UNCHANGED <<claim, run>> /\ gaveUp' = gaveUp \ {a} /\ recov[a] # 0
          /\ recov'[a] = 0 /\ (\A b \in Actors \ {a} : recov'[b] = recov[b])
      BY <1>31 DEF RecoverActor, TypeOK
    <2>2. Active(a) /\ claim[a].owner = run /\ claim[a].epoch = recov[a] + 1 /\ recov[a] \in Nat
      BY <2>1, EpochAssumption DEF StrandInv, ClaimInv, TypeOK
    <2>3. ASSUME NEW o \in Ops PROVE journal'[o].epoch = journal[o].epoch
                                     /\ (journal'[o].state = "absent" <=> journal[o].state = "absent")
      BY <1>31, AbortedRow DEF RecoverActor, TypeOK, RowsUpTo
    <2>4. ASSUME NEW o \in Ops, journal'[o].state \in Open
          PROVE  journal[o].state \in Open /\ (ActorOf(o) = a => journal[o].epoch > recov[a])
      <3> DEFINE S == RowsUpTo(a, recov[a])
      <3>a. S \in SUBSET Ops /\ (\A q \in S : IsOpen(q)) /\ journal' = AbortRows(S)
            /\ journal \in [Ops -> Row]
        BY <1>31 DEF RecoverActor, RowsUpTo, TypeOK
      <3> HIDE DEF S
      <3>1. o \notin S /\ journal'[o] = journal[o]
        BY <2>4, <3>a, AbortedRow
      <3>2. journal[o].epoch \in Nat
        BY EpochAssumption DEF TypeOK, Row
      <3>3. QED
        BY <2>2, <2>4, <3>1, <3>2 DEF S, RowsUpTo, IsOpen
    <2>5. ClaimInv'
      BY <2>1, <2>2, <2>3 DEF StrandInv, ClaimInv, Active
    <2>6. NoStrandedRow'
      <3> SUFFICES ASSUME NEW o \in Ops, ActorOf(o) # NoActor, journal'[o].state \in Open
                   PROVE  LET b == ActorOf(o) IN
                          \/ Active(b) /\ journal[o].epoch = claim[b].epoch
                          \/ Active(b) /\ journal[o].epoch <= recov'[b]
                          \/ Active(b) /\ claim[b].owner # run
                          \/ b \in gaveUp'
        BY <2>1, <2>3 DEF NoStrandedRow, IsOpen, Active
      <3>1. ActorOf(o) \in Actors /\ journal[o].state \in Open /\ journal[o].epoch \in Nat
        BY <2>4, IssuerType, EpochAssumption DEF TypeOK, Row
      <3>2. CASE ActorOf(o) = a
        <4>1. journal[o].epoch > recov[a] /\ journal[o].epoch <= recov[a] + 1
          BY <2>2, <2>4, <3>1, <3>2 DEF StrandInv, ClaimInv, Open
        <4>2. QED
          BY <2>2, <3>1, <3>2, <4>1
      <3>3. CASE ActorOf(o) # a
        BY <2>1, <3>1, <3>3 DEF StrandInv, NoStrandedRow, IsOpen
      <3>4. QED
        BY <3>2, <3>3
    <2>7. QED
      BY <2>5, <2>6 DEF StrandInv
  <1>32. ASSUME NEW a \in Actors, NEW o \in Ops, ActorRefund(a, o) PROVE StrandInv'
    BY <1>32, <1>a, StrandKept DEF ActorRefund
  <1>33. ASSUME NEW a \in Actors, RecoveryFails(a) PROVE StrandInv'
    <2>1. (\A b \in Actors \ {a} : claim'[b] = claim[b] /\ recov'[b] = recov[b]) /\ run' = run
          /\ claim'[a].state = "released" /\ recov'[a] = 0
          /\ claim'[a].epoch = claim[a].epoch /\ claim'[a].owner = claim[a].owner
      BY <1>33 DEF RecoveryFails, SetReleased, TypeOK, Claim
    <2>2. ASSUME NEW o \in Ops PROVE journal'[o].epoch = journal[o].epoch
                                     /\ (journal'[o].state = "absent" <=> journal[o].state = "absent")
      BY <1>33, AbortedRow DEF RecoveryFails, TypeOK, RowsAt
    <2>3. ASSUME NEW o \in Ops, journal'[o].state \in Open
          PROVE  journal[o].state \in Open /\ (ActorOf(o) = a => journal[o].epoch # claim[a].epoch)
      <3>1. o \notin RowsAt(a, claim[a].epoch) /\ journal'[o] = journal[o]
        BY <1>33, <2>3, AbortedRow DEF RecoveryFails, TypeOK, RowsAt, Open
      <3>2. QED
        BY <2>3, <3>1 DEF RowsAt, IsOpen
    <2>4. ClaimInv'
      BY <2>1, <2>2, IssuerType DEF StrandInv, ClaimInv, Active
    <2>5. NoStrandedRow'
      <3> SUFFICES ASSUME NEW o \in Ops, ActorOf(o) # NoActor, journal'[o].state \in Open
                   PROVE  LET b == ActorOf(o) IN
                          \/ Active(b)' /\ journal[o].epoch = claim'[b].epoch
                          \/ Active(b)' /\ journal[o].epoch <= recov'[b]
                          \/ Active(b)' /\ claim'[b].owner # run
                          \/ b \in gaveUp'
        BY <2>1, <2>2 DEF NoStrandedRow, IsOpen
      <3>1. ActorOf(o) \in Actors /\ journal[o].state \in Open
        BY <2>3, IssuerType
      <3>2. CASE ActorOf(o) = a
        BY <1>33, <3>2 DEF RecoveryFails
      <3>3. CASE ActorOf(o) # a
        BY <1>33, <2>1, <3>1, <3>3 DEF RecoveryFails, StrandInv, NoStrandedRow, IsOpen, Active
      <3>4. QED
        BY <3>2, <3>3
    <2>6. QED
      BY <2>4, <2>5 DEF StrandInv
  <1>34. ASSUME NEW a \in Actors, ReleaseActor(a) PROVE StrandInv'
    <2>1. (\A b \in Actors \ {a} : claim'[b] = claim[b] /\ recov'[b] = recov[b]) /\ run' = run
          /\ claim'[a].state = "released" /\ recov'[a] = 0
          /\ claim'[a].epoch = claim[a].epoch /\ claim'[a].owner = claim[a].owner
      BY <1>34 DEF ReleaseActor, SetReleased, TypeOK, Claim
    <2>2. ASSUME NEW o \in Ops PROVE journal'[o].epoch = journal[o].epoch
                                     /\ (journal'[o].state = "absent" <=> journal[o].state = "absent")
      BY <1>34, AbortedRow DEF ReleaseActor, TypeOK, RowsAt
    <2>3. ASSUME NEW o \in Ops, journal'[o].state \in Open
          PROVE  journal[o].state \in Open /\ (ActorOf(o) = a => journal[o].epoch # claim[a].epoch)
      <3>1. o \notin RowsAt(a, claim[a].epoch) /\ journal'[o] = journal[o]
        BY <1>34, <2>3, AbortedRow DEF ReleaseActor, TypeOK, RowsAt, Open
      <3>2. QED
        BY <2>3, <3>1 DEF RowsAt, IsOpen
    <2>4. ClaimInv'
      BY <2>1, <2>2, IssuerType DEF StrandInv, ClaimInv, Active
    <2>5. NoStrandedRow'
      <3> SUFFICES ASSUME NEW o \in Ops, ActorOf(o) # NoActor, journal'[o].state \in Open
                   PROVE  LET b == ActorOf(o) IN
                          \/ Active(b)' /\ journal[o].epoch = claim'[b].epoch
                          \/ Active(b)' /\ journal[o].epoch <= recov'[b]
                          \/ Active(b)' /\ claim'[b].owner # run
                          \/ b \in gaveUp'
        BY <2>1, <2>2 DEF NoStrandedRow, IsOpen
      <3>1. ActorOf(o) \in Actors /\ journal[o].state \in Open
        BY <2>3, IssuerType
      <3>2. CASE ActorOf(o) = a
        <4>1. recov[a] = 0 /\ claim[a].owner = run /\ gaveUp' = gaveUp
          BY <1>34 DEF ReleaseActor, Fenced
        <4>2. journal[o].epoch # claim[a].epoch /\ journal[o].epoch >= 1 /\ journal[o].epoch \in Nat
          BY <2>3, <3>1, <3>2, EpochAssumption DEF StrandInv, ClaimInv, Open, TypeOK, Row
        <4>3. a \in gaveUp
          BY <3>1, <3>2, <4>1, <4>2 DEF StrandInv, NoStrandedRow, IsOpen
        <4>4. QED
          BY <3>2, <4>1, <4>3
      <3>3. CASE ActorOf(o) # a
        BY <1>34, <2>1, <3>1, <3>3 DEF ReleaseActor, StrandInv, NoStrandedRow, IsOpen, Active
      <3>4. QED
        BY <3>2, <3>3
    <2>6. QED
      BY <2>4, <2>5 DEF StrandInv
  <1>35. CASE Crash
    <2>1. UNCHANGED <<claim, journal, gaveUp>> /\ run' = run + 1 /\ (\A a \in Actors : recov'[a] = 0)
      BY <1>35 DEF Crash
    <2>2. run \in Nat /\ \A a \in Actors : claim[a].owner \in Nat /\ claim[a].owner <= run
      BY RunsAssumption DEF TypeOK, Claim, StrandInv, ClaimInv
    <2>3. ClaimInv'
      BY <2>1, <2>2 DEF StrandInv, ClaimInv, Active
    <2>4. NoStrandedRow'
      BY <2>1, <2>2, IssuerType DEF StrandInv, NoStrandedRow, IsOpen, Active
    <2>5. QED
      BY <2>3, <2>4 DEF StrandInv
  <1>36. ASSUME NEW a \in Actors, BootClaim(a) PROVE StrandInv'
    <2>1. Active(a) /\ claim'[a] = [epoch |-> claim[a].epoch + 1, owner |-> run, state |-> "active"]
          /\ (\A b \in Actors \ {a} : claim'[b] = claim[b])
      BY <1>36 DEF BootClaim, RecoverClaim, TypeOK
    <2>2. recov'[a] = claim[a].epoch /\ (\A b \in Actors \ {a} : recov'[b] = recov[b])
          /\ UNCHANGED <<journal, run, gaveUp>>
      BY <1>36 DEF BootClaim, TypeOK
    <2>3. claim[a].epoch \in Nat /\ claim[a].epoch >= 1 /\ run \in Nat
      BY <2>1, EpochAssumption, RunsAssumption DEF TypeOK, Claim, StrandInv, ClaimInv
    <2>4. ClaimInv'
      <3>1. \A b \in Actors : /\ claim'[b].owner <= run
                              /\ Active(b)' => claim'[b].epoch >= 1
                              /\ recov'[b] # 0 =>
                                    Active(b)' /\ claim'[b].owner = run /\ claim'[b].epoch = recov'[b] + 1
        BY <2>1, <2>2, <2>3 DEF StrandInv, ClaimInv, Active
      <3>2. ASSUME NEW o \in Ops, ActorOf(o) # NoActor, journal[o].state # "absent"
            PROVE  journal[o].epoch >= 1 /\ journal[o].epoch <= claim'[ActorOf(o)].epoch
        <4>1. ActorOf(o) \in Actors /\ journal[o].epoch \in Nat
          BY <3>2, IssuerType, EpochAssumption DEF TypeOK, Row
        <4>2. journal[o].epoch >= 1 /\ journal[o].epoch <= claim[ActorOf(o)].epoch
          BY <3>2 DEF StrandInv, ClaimInv
        <4>3. QED
          BY <2>1, <2>3, <4>1, <4>2
      <3>3. journal' = journal /\ run' = run
        BY <2>1, <2>2
      <3>4. \A o \in Ops : ActorOf(o) # NoActor /\ journal'[o].state # "absent" =>
                journal'[o].epoch >= 1 /\ journal'[o].epoch <= claim'[ActorOf(o)].epoch
        BY <3>2, <3>3
      <3>5. \A b \in Actors : recov'[b] # 0 =>
                Active(b)' /\ claim'[b].owner = run' /\ claim'[b].epoch = recov'[b] + 1
        BY <3>1, <3>3 DEF Active
      <3>6. \A b \in Actors : claim'[b].owner <= run' /\ (Active(b)' => claim'[b].epoch >= 1)
        BY <3>1, <3>3 DEF Active
      <3>7. QED
        BY <3>4, <3>5, <3>6 DEF ClaimInv, Active
    <2>5. NoStrandedRow'
      <3> SUFFICES ASSUME NEW o \in Ops, ActorOf(o) # NoActor, IsOpen(o)
                   PROVE  LET b == ActorOf(o) IN
                          \/ Active(b)' /\ journal[o].epoch = claim'[b].epoch
                          \/ Active(b)' /\ journal[o].epoch <= recov'[b]
                          \/ Active(b)' /\ claim'[b].owner # run
                          \/ b \in gaveUp
        BY <2>2 DEF NoStrandedRow, IsOpen
      <3>1. ActorOf(o) \in Actors
        BY IssuerType
      <3>2. CASE ActorOf(o) = a
        <4>1. journal[o].epoch <= claim[a].epoch
          BY <3>2 DEF StrandInv, ClaimInv, IsOpen, Open
        <4>2. QED
          BY <2>1, <2>2, <3>2, <4>1 DEF Active
      <3>3. CASE ActorOf(o) # a
        BY <2>1, <2>2, <3>1, <3>3 DEF StrandInv, NoStrandedRow, Active
      <3>4. QED
        BY <3>2, <3>3
    <2>6. QED
      BY <2>4, <2>5 DEF StrandInv
  <1>37. CASE BootAdmissions
    BY <1>37, <1>a, StrandKept DEF BootAdmissions
  <1>38. CASE BootDone
    BY <1>38, <1>a, StrandKept DEF BootDone
  <1>39. CASE UNCHANGED vars
    BY <1>39, <1>a, StrandKept DEF vars
  <1>40. QED
    BY <1>1, <1>2, <1>3, <1>4, <1>5, <1>6, <1>7, <1>8, <1>9, <1>10, <1>11, <1>12, <1>13,
       <1>14, <1>15, <1>16, <1>17, <1>18, <1>19, <1>20, <1>21, <1>22, <1>23, <1>24,
       <1>25, <1>26, <1>27, <1>28, <1>29, <1>30, <1>31, <1>32, <1>33, <1>34, <1>35,
       <1>36, <1>37, <1>38, <1>39
    DEF Next, Admit, Task, Sweep, Recovery, Boot

\* An open row always has someone who will end it: the current incarnation of
\* its actor, a recovery in hand, or the startup that is about to take the
\* actor over, unless a recovery failed.
THEOREM RowsNotStranded == Spec => []NoStrandedRow
  <1>1. Init => StrandInv
    BY RunsAssumption DEF Init, StrandInv, ClaimInv, NoStrandedRow, NoRow, IsOpen, Open, Active
  <1>2. StrandInv => NoStrandedRow
    BY DEF StrandInv
  <1>3. QED
    BY <1>1, <1>2, StrandStep, TypeCorrect, PTL DEF Spec

-----------------------------------------------------------------------------
(* The account of every root's budget. *)

\* What a step may do to the budget: nothing, one critical section of its
\* mutex, a workflow's reservation or refund, or losing it.
BudgetStep ==
    \/ UNCHANGED <<remaining, debits, wf>>
    \/ UNCHANGED wf /\ \E o \in Ops : Acquire(o) \/ Overload(o) \/ ReleaseOperation(o)
    \/ UNCHANGED wf /\ \E r \in Roots : ReleaseRoot(r)
    \/ \E r \in Roots : WorkflowReserve(r) \/ WorkflowRefund(r)
    \/ Crash

LEMMA BudgetEffect == TypeOK /\ [Next]_vars => BudgetStep
  <1> SUFFICES ASSUME TypeOK, [Next]_vars PROVE BudgetStep
    OBVIOUS
  <1> USE DEF BudgetStep
  <1>0. sup.pc # "idle" => sup.op \in Ops
    BY DEF TypeOK
  <1>1. ASSUME NEW o \in Ops, Reconcile(o) PROVE BudgetStep
    BY <1>1 DEF Reconcile
  <1>2. CASE CancelledBeforeDebit
    BY <1>2 DEF CancelledBeforeDebit, EndUnadmitted
  <1>3. CASE DepthExceeded
    BY <1>3 DEF DepthExceeded, EndUnadmitted
  <1>4. CASE CheckPassed
    BY <1>4 DEF CheckPassed
  <1>5. CASE Reserved
    BY <1>5, <1>0 DEF Reserved, SupAt
  <1>6. CASE FirstOverload
    BY <1>6, <1>0 DEF FirstOverload, SupAt
  <1>7. CASE ListReleased
    BY <1>7 DEF ListReleased
  <1>8. CASE SecondOverload
    BY <1>8, <1>0 DEF SecondOverload, SupAt
  <1>9. CASE AbortUnadmitted
    BY <1>9 DEF AbortUnadmitted, EndUnadmitted
  <1>10. CASE Started
    BY <1>10 DEF Started
  <1>11. CASE StartedElsewhere
    BY <1>11, <1>0 DEF StartedElsewhere, SupAt
  <1>12. CASE StartFails
    BY <1>12, <1>0 DEF StartFails, SupAt
  <1>13. ASSUME NEW o \in Ops, ClaimAdmission(o) PROVE BudgetStep
    BY <1>13 DEF ClaimAdmission
  <1>14. ASSUME NEW o \in Ops, CancelRequest(o) PROVE BudgetStep
    BY <1>14 DEF CancelRequest
  <1>15. ASSUME NEW o \in Ops, Registered(o) PROVE BudgetStep
    BY <1>15 DEF Registered
  <1>16. ASSUME NEW o \in Ops, RegistrationFailed(o) PROVE BudgetStep
    BY <1>16 DEF RegistrationFailed
  <1>17. ASSUME NEW o \in Ops, FinishTask(o) PROVE BudgetStep
    BY <1>17 DEF FinishTask
  <1>18. ASSUME NEW o \in Ops, FinishRefused(o) PROVE BudgetStep
    BY <1>18 DEF FinishRefused
  <1>19. ASSUME NEW o \in Ops, TaskRefund(o) PROVE BudgetStep
    BY <1>19 DEF TaskRefund
  <1>20. ASSUME NEW r \in Roots, RootTurnEnds(r) PROVE BudgetStep
    BY <1>20 DEF RootTurnEnds, CancelOperations
  <1>21. ASSUME NEW r \in Roots, ListRows(r) PROVE BudgetStep
    BY <1>21 DEF ListRows
  <1>22. ASSUME NEW r \in Roots, NEW o \in Ops, SweepRow(r, o) PROVE BudgetStep
    BY <1>22 DEF SweepRow
  <1>23. ASSUME NEW r \in Roots, NEW o \in Ops, SweepCancelled(r, o) PROVE BudgetStep
    BY <1>23 DEF SweepCancelled
  <1>24. ASSUME NEW r \in Roots, NEW o \in Ops, SweepFails(r, o) PROVE BudgetStep
    BY <1>24 DEF SweepFails
  <1>25. ASSUME NEW r \in Roots, SweepRefund(r) PROVE BudgetStep
    BY <1>25 DEF SweepRefund, CleanAt, TypeOK
  <1>26. ASSUME NEW r \in Roots, SweepDone(r) PROVE BudgetStep
    BY <1>26 DEF SweepDone
  <1>27. ASSUME NEW r \in Roots, WorkflowReserve(r) PROVE BudgetStep
    BY <1>27 DEF WorkflowReserve
  <1>28. ASSUME NEW r \in Roots, WorkflowRefund(r) PROVE BudgetStep
    BY <1>28 DEF WorkflowRefund
  <1>29. ASSUME NEW a \in Actors, ClaimActor(a) PROVE BudgetStep
    BY <1>29 DEF ClaimActor
  <1>30. ASSUME NEW a \in Actors, TakeOver(a) PROVE BudgetStep
    BY <1>30 DEF TakeOver
  <1>31. ASSUME NEW a \in Actors, RecoverActor(a) PROVE BudgetStep
    BY <1>31 DEF RecoverActor
  <1>32. ASSUME NEW a \in Actors, NEW o \in Ops, ActorRefund(a, o) PROVE BudgetStep
    BY <1>32 DEF ActorRefund
  <1>33. ASSUME NEW a \in Actors, RecoveryFails(a) PROVE BudgetStep
    BY <1>33 DEF RecoveryFails
  <1>34. ASSUME NEW a \in Actors, ReleaseActor(a) PROVE BudgetStep
    BY <1>34 DEF ReleaseActor
  <1>35. CASE Crash
    BY <1>35 DEF Crash
  <1>36. ASSUME NEW a \in Actors, BootClaim(a) PROVE BudgetStep
    BY <1>36 DEF BootClaim
  <1>37. CASE BootAdmissions
    BY <1>37 DEF BootAdmissions
  <1>38. CASE BootDone
    BY <1>38 DEF BootDone
  <1>39. CASE UNCHANGED vars
    BY <1>39 DEF vars
  <1>40. QED
    BY <1>1, <1>2, <1>3, <1>4, <1>5, <1>6, <1>7, <1>8, <1>9, <1>10, <1>11, <1>12, <1>13,
       <1>14, <1>15, <1>16, <1>17, <1>18, <1>19, <1>20, <1>21, <1>22, <1>23, <1>24,
       <1>25, <1>26, <1>27, <1>28, <1>29, <1>30, <1>31, <1>32, <1>33, <1>34, <1>35,
       <1>36, <1>37, <1>38, <1>39
    DEF Next, Admit, Task, Sweep, Recovery, Boot


LEMMA KeptStep == TypeOK /\ NoUnitLost /\ BudgetStep => NoUnitLost'
  <1> SUFFICES ASSUME TypeOK, NoUnitLost, BudgetStep, NEW r \in Roots
               PROVE  Kept(r, wf[r])'
    BY DEF NoUnitLost, Kept
  <1>1. BudgetType /\ wf[r] \in Nat /\ Kept(r, wf[r])
    BY WorkflowAssumption DEF TypeOK, NoUnitLost, Kept
  <1>2. CASE UNCHANGED <<remaining, debits, wf>>
    <2>1. remaining'[r] = remaining[r] /\ DebitsOf(r)' = DebitsOf(r) /\ wf'[r] = wf[r]
      BY <1>2 DEF DebitsOf
    <2>2. QED
      BY <1>1, <2>1, AccountSame DEF Kept
  <1>3. ASSUME UNCHANGED wf, NEW o \in Ops, Acquire(o) PROVE Kept(r, wf[r])'
    BY <1>1, <1>3, AcquireAccount DEF Kept
  <1>4. ASSUME UNCHANGED wf, NEW o \in Ops, Overload(o) PROVE Kept(r, wf[r])'
    BY <1>1, <1>4, OverloadAccount DEF Kept
  <1>5. ASSUME UNCHANGED wf, NEW o \in Ops, ReleaseOperation(o) PROVE Kept(r, wf[r])'
    BY <1>1, <1>5, ReleaseOperationAccount DEF Kept
  <1>6. ASSUME UNCHANGED wf, NEW q \in Roots, ReleaseRoot(q) PROVE Kept(r, wf[r])'
    BY <1>1, <1>6, ReleaseRootAccount DEF Kept
  <1>7. ASSUME NEW q \in Roots, WorkflowReserve(q) PROVE Kept(r, wf[r])'
    <2>1. CASE q = r
      <3>1. ReserveExact(r, WorkflowUnits) /\ wf[r] = 0 /\ wf'[r] = WorkflowUnits
        BY <1>7, <2>1 DEF WorkflowReserve, TypeOK
      <3>2. QED
        BY <1>1, <3>1, WorkflowAssumption, ReserveExactKept DEF Kept
    <2>2. CASE q # r
      <3>1. remaining'[r] = remaining[r] /\ DebitsOf(r)' = DebitsOf(r) /\ wf'[r] = wf[r]
        BY <1>7, <2>2 DEF WorkflowReserve, ReserveExact, DebitsOf, TypeOK, BudgetType
      <3>2. QED
        BY <1>1, <3>1, AccountSame DEF Kept
    <2>3. QED
      BY <2>1, <2>2
  <1>8. ASSUME NEW q \in Roots, WorkflowRefund(q) PROVE Kept(r, wf[r])'
    <2>1. CASE q = r
      <3>1. RefundReserved(r, wf[r]) /\ wf'[r] = 0
        BY <1>8, <2>1 DEF WorkflowRefund, TypeOK
      <3>2. QED
        BY <1>1, <3>1, RefundReservedKept DEF Kept
    <2>2. CASE q # r
      <3>1. remaining'[r] = remaining[r] /\ DebitsOf(r)' = DebitsOf(r) /\ wf'[r] = wf[r]
        BY <1>8, <2>2 DEF WorkflowRefund, RefundReserved, DebitsOf, TypeOK, BudgetType
      <3>2. QED
        BY <1>1, <3>1, AccountSame DEF Kept
    <2>3. QED
      BY <2>1, <2>2
  <1>9. CASE Crash
    BY <1>9 DEF Crash, Kept
  <1>10. QED
    BY <1>2, <1>3, <1>4, <1>5, <1>6, <1>7, <1>8, <1>9 DEF BudgetStep

\* Only the roots that may run a background workflow hold units for one.
GainInv == NoUnitGained /\ \A r \in Roots \ WorkflowRoots : wf[r] = 0

LEMMA BoundedStep == TypeOK /\ GainInv /\ BudgetStep => GainInv'
  <1> SUFFICES ASSUME TypeOK, GainInv, BudgetStep, NEW r \in Roots \ WorkflowRoots
               PROVE  Bounded(r)' /\ wf'[r] = 0
    BY DEF GainInv, NoUnitGained, Bounded
  <1>1. BudgetType /\ 0 \in Nat /\ Bounded(r) /\ wf[r] = 0
    BY DEF TypeOK, GainInv, NoUnitGained, Bounded
  <1>2. CASE UNCHANGED <<remaining, debits, wf>>
    <2>1. remaining'[r] = remaining[r] /\ DebitsOf(r)' = DebitsOf(r)
      BY <1>2 DEF DebitsOf
    <2>2. QED
      BY <1>1, <1>2, <2>1, AccountSame
  <1>3. ASSUME UNCHANGED wf, NEW o \in Ops, Acquire(o) PROVE Bounded(r)' /\ wf'[r] = 0
    BY <1>1, <1>3, AcquireAccount
  <1>4. ASSUME UNCHANGED wf, NEW o \in Ops, Overload(o) PROVE Bounded(r)' /\ wf'[r] = 0
    BY <1>1, <1>4, OverloadAccount
  <1>5. ASSUME UNCHANGED wf, NEW o \in Ops, ReleaseOperation(o) PROVE Bounded(r)' /\ wf'[r] = 0
    BY <1>1, <1>5, ReleaseOperationAccount
  <1>6. ASSUME UNCHANGED wf, NEW q \in Roots, ReleaseRoot(q) PROVE Bounded(r)' /\ wf'[r] = 0
    BY <1>1, <1>6, ReleaseRootAccount
  <1>7. ASSUME NEW q \in Roots, WorkflowReserve(q) \/ WorkflowRefund(q) PROVE Bounded(r)' /\ wf'[r] = 0
    <2>1. q # r
      <3>1. CASE WorkflowReserve(q)
        BY <3>1 DEF WorkflowReserve
      <3>2. CASE WorkflowRefund(q)
        BY <1>1, <3>2 DEF WorkflowRefund
      <3>3. QED
        BY <1>7, <3>1, <3>2
    <2>2. remaining'[r] = remaining[r] /\ DebitsOf(r)' = DebitsOf(r) /\ wf'[r] = wf[r]
      BY <1>7, <2>1 DEF WorkflowReserve, WorkflowRefund, ReserveExact, RefundReserved, DebitsOf, TypeOK, BudgetType
    <2>3. QED
      BY <1>1, <2>2, AccountSame
  <1>8. CASE Crash
    BY <1>8 DEF Crash, Bounded, DebitsOf
  <1>9. QED
    BY <1>2, <1>3, <1>4, <1>5, <1>6, <1>7, <1>8 DEF BudgetStep

\* No unit of a root's budget is ever lost: a credit is capped, an entry is
\* dropped and seeded again, a workflow refunds late, and yet what is left and
\* what is held make up the whole per_run_budget, for any number of operations
\* of any size (release_operation, release, refund_reserved).
THEOREM BudgetNotLost == Spec => []NoUnitLost
  <1>1. Init => NoUnitLost
    BY DEF Init, NoUnitLost
  <1>2. TypeOK /\ NoUnitLost /\ [Next]_vars => NoUnitLost'
    BY BudgetEffect, KeptStep
  <1>3. QED
    BY <1>1, <1>2, TypeCorrect, PTL DEF Spec

\* No debit is ever returned twice: every path that ends a request (the task,
\* the sweep, a takeover, the reconciliation, a failed start) may return its
\* debit, and the root never gets more than it gave (release_operation).
THEOREM BudgetNotGained == Spec => []NoUnitGained
  <1>1. Init => GainInv
    BY DEF Init, GainInv, NoUnitGained, DebitsOf
  <1>2. TypeOK /\ GainInv /\ [Next]_vars => GainInv'
    BY BudgetEffect, BoundedStep
  <1>3. GainInv => NoUnitGained
    BY DEF GainInv
  <1>4. QED
    BY <1>1, <1>2, <1>3, TypeCorrect, PTL DEF Spec

===============================================================================
