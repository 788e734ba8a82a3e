---------------------------- MODULE SpawnAdmission ----------------------------
(***************************************************************************)
(* Admission of spawn requests: the durable admission journal              *)
(* (crates/hya-store/src/admission.rs), the process-local budget it is     *)
(* reconciled with (Governor), the claims that fence the requests of       *)
(* resident actors (ActorClaims), and the tasks that drive them:           *)
(*                                                                         *)
(*   - the spawn supervisor, one loop that admits requests one at a time;  *)
(*   - one registration task per admitted operation, which finalizes it;   *)
(*   - the end of a root's turn, which sweeps the root's open rows;        *)
(*   - the resident supervisor, which claims, takes over and releases      *)
(*     actors;                                                             *)
(*   - startup, which takes over what a stopped process left.              *)
(*                                                                         *)
(* Every action is one SQLite transaction, one critical section of the     *)
(* budget's mutex, or one look at a cancel token: tasks interleave at      *)
(* every one of these.  A crash may fall between any two.                  *)
(***************************************************************************)
EXTENDS Governor, ActorClaims

CONSTANTS
    NoActor,        \* the actor of a request issued by a root's own turn
    NoOp,           \* not an operation
    ActorOf(_),     \* operation -> the resident actor that issued it, or NoActor
    TooDeep(_),     \* operation -> would exceed the maximum subagent depth
    WorkflowRoots,  \* roots under which a background workflow runs
    WorkflowUnits,  \* units such a workflow reserves
    MaxFaults       \* bound: store calls that fail for reasons of their own

ASSUME ActorsAssumption == NoActor \notin Actors
ASSUME NoOpAssumption == NoOp \notin Ops
ASSUME IssuerAssumption ==
    \A o \in Ops : ActorOf(o) \in Actors \cup {NoActor} /\ TooDeep(o) \in BOOLEAN
ASSUME WorkflowAssumption == WorkflowRoots \subseteq Roots /\ WorkflowUnits \in Nat
ASSUME FaultsAssumption == MaxFaults \in Nat

VARIABLES
    journal,    \* operation -> its admission_journal row
    sup,        \* the spawn supervisor's loop: where it stands, on which request
    task,       \* operation -> where its registration task stands
    clean,      \* root -> where the sweep at the end of its turn stands
    recov,      \* actor -> previous_epoch of a takeover not yet recovered, or 0
    held,       \* actor -> epochs the running process has claimed it under
    owed,       \* actor -> operations whose debit its last transaction released
    boot,       \* startup: "claims", then "actors", then "up"
    wf,         \* root -> units a workflow's reservation guard holds
    faults,     \* store failures so far
    spawns,     \* ghost: operation -> registration tasks ever started for it
    gaveUp      \* ghost: actors whose recovery failed after their takeover

tasks == <<sup, task, clean>>
residents == <<claim, recov, held, owed>>
ghosts == <<spawns, gaveUp>>
vars == <<budget, claim, run, journal, tasks, recov, held, owed, boot, wf, faults, ghosts>>

-----------------------------------------------------------------------------
(* The journal. *)

Terminals == {"completed", "cancelled", "aborted"}
Open == {"accepted", "started"}
States == {"absent"} \cup Open \cup Terminals

Row == [state : States, epoch : 0..MaxEpoch, released : BOOLEAN]
NoRow == [state |-> "absent", epoch |-> 0, released |-> FALSE]

IsOpen(o) == journal[o].state \in Open

\* MUTANT: a terminal row does not record that its debit is to be returned.
Terminalized_silent(row, t) == [row EXCEPT !.state = t]

\* A row leaves its open states.  Only one that was started held a debit, and
\* logical_released records that it is to be returned.
Terminalized(row, t) ==
    [row EXCEPT !.state = t, !.released = row.released \/ row.state = "started"]

\* The rows of a set of operations are aborted in one transaction.
AbortRows(S) == [o \in Ops |-> IF o \in S THEN Terminalized(journal[o], "aborted") ELSE journal[o]]

\* The capability captured with the request still stands.  The row keeps the
\* epoch the request was claimed under, and the request presents the same one.
MayWrite(o) == ActorOf(o) # NoActor => Fenced(ActorOf(o), journal[o].epoch)

\* finalize_admission changes the row; it answers with the row when that is
\* in the target state already, and with a conflict when it is in another one.
FinalizeApplies(o, t) == IsOpen(o) /\ (t = "completed" => journal[o].state = "started")

Finalize(o, t) == journal' = [journal EXCEPT ![o] = Terminalized(@, t)]

\* terminal_released_operations_for_root
ReleasedOps(r) == {o \in Ops : RootOf(o) = r /\ journal[o].released /\ ~IsOpen(o)}

\* nonterminal_admissions_for_root
RootRows(r) == {o \in Ops : RootOf(o) = r /\ ActorOf(o) = NoActor /\ IsOpen(o)}

\* The rows a release, a stop or a failure of actor a under epoch e aborts.
RowsAt(a, e) == {o \in Ops : ActorOf(o) = a /\ journal[o].epoch = e /\ IsOpen(o)}

\* MUTANT: only the epoch just fenced is aborted.
RowsUpTo_only(a, e) == {o \in Ops : ActorOf(o) = a /\ journal[o].epoch = e /\ IsOpen(o)}

\* abort_recovered_actor_admissions: the rows of every epoch up to e.
RowsUpTo(a, e) == {o \in Ops : ActorOf(o) = a /\ journal[o].epoch <= e /\ IsOpen(o)}

ReleasedIn(S) == {o \in S : journal[o].state = "started"}

-----------------------------------------------------------------------------
Idle == [pc |-> "idle", op |-> NoOp, todo |-> {}]

Init ==
    /\ remaining = [r \in Roots |-> Absent]
    /\ debits = {}
    /\ cancelled = {}
    /\ claim = [a \in Actors |-> [epoch |-> 0, owner |-> 0, state |-> "none"]]
    /\ run = 1
    /\ journal = [o \in Ops |-> NoRow]
    /\ sup = Idle
    /\ task = [o \in Ops |-> "none"]
    /\ clean = [r \in Roots |-> Idle]
    /\ recov = [a \in Actors |-> 0]
    /\ held = [a \in Actors |-> {}]
    /\ owed = [a \in Actors |-> {}]
    /\ boot = "up"
    /\ wf = [r \in Roots |-> 0]
    /\ faults = 0
    /\ spawns = [o \in Ops |-> 0]
    /\ gaveUp = {}

\* A store call fails although its conditions hold.
StoreFault == faults < MaxFaults /\ faults' = faults + 1

-----------------------------------------------------------------------------
(* The spawn supervisor: SessionEngine::begin_spawn_admission. *)

SupAt(pc) == boot = "up" /\ sup.pc = pc
SupGoto(pc) == sup' = [sup EXCEPT !.pc = pc]

\* MUTANT: the row is replaced when it exists.
ClaimAdmission_replaces(o) ==
    /\ SupAt("idle")
    /\ \E e \in IF ActorOf(o) = NoActor THEN {0} ELSE held[ActorOf(o)] :
        /\ ActorOf(o) # NoActor => Fenced(ActorOf(o), e)
        /\ journal' = [journal EXCEPT ![o] = [state |-> "accepted", epoch |-> e, released |-> FALSE]]
    /\ sup' = [pc |-> "check", op |-> o, todo |-> {}]
    /\ UNCHANGED <<budget, residents, run, task, clean, boot, wf, faults, ghosts>>

\* claim_admission inserts the row.  A request whose row exists already (a
\* duplicate, or a replay after a restart) changes nothing and is answered
\* OperationAlreadyHandled.  The epoch is one the issuing actor ran under in
\* this process, perhaps no longer the current one.
ClaimAdmission(o) ==
    /\ SupAt("idle")
    /\ journal[o].state = "absent"
    /\ \E e \in IF ActorOf(o) = NoActor THEN {0} ELSE held[ActorOf(o)] :
        /\ ActorOf(o) # NoActor => Fenced(ActorOf(o), e)
        /\ journal' = [journal EXCEPT ![o] = [state |-> "accepted", epoch |-> e, released |-> FALSE]]
    /\ sup' = [pc |-> "check", op |-> o, todo |-> {}]
    /\ UNCHANGED <<budget, residents, run, task, clean, boot, wf, faults, ghosts>>

\* The request ends before it holds a debit: its row is finalized, unless the
\* claim is stale, the row is terminal already, or the store fails.
EndUnadmitted(t) ==
    /\ sup' = Idle
    /\ \/ /\ MayWrite(sup.op) /\ FinalizeApplies(sup.op, t)
          /\ Finalize(sup.op, t)
          /\ UNCHANGED faults
       \/ /\ ~(MayWrite(sup.op) /\ FinalizeApplies(sup.op, t))
          /\ UNCHANGED <<journal, faults>>
       \/ StoreFault /\ UNCHANGED journal
    /\ UNCHANGED <<budget, residents, run, task, clean, boot, wf, ghosts>>

CancelledBeforeDebit ==
    /\ SupAt("check")
    /\ sup.op \in cancelled
    /\ EndUnadmitted("cancelled")

DepthExceeded ==
    /\ SupAt("check")
    /\ sup.op \notin cancelled
    /\ TooDeep(sup.op)
    /\ EndUnadmitted("aborted")

CheckPassed ==
    /\ SupAt("check")
    /\ sup.op \notin cancelled
    /\ ~TooDeep(sup.op)
    /\ SupGoto("reserve")
    /\ UNCHANGED <<budget, residents, run, journal, task, clean, boot, wf, faults, ghosts>>

\* try_reserve_spawn_operation: the first attempt, and the one after the
\* journal's released operations have been returned to the budget.
Reserved ==
    /\ SupAt("reserve") \/ (SupAt("retry") /\ sup.todo = {})
    /\ Acquire(sup.op)
    /\ SupGoto("start")
    /\ UNCHANGED <<residents, run, journal, task, clean, boot, wf, faults, ghosts>>

FirstOverload ==
    /\ SupAt("reserve")
    /\ Overload(sup.op)
    /\ SupGoto("list")
    /\ UNCHANGED <<residents, run, journal, task, clean, boot, wf, faults, ghosts>>

\* When the listing fails the error is returned, and the row stays accepted.
ListReleased ==
    /\ SupAt("list")
    /\ \/ sup' = [sup EXCEPT !.pc = "retry", !.todo = ReleasedOps(RootOf(sup.op))] /\ UNCHANGED faults
       \/ sup' = Idle /\ StoreFault
    /\ UNCHANGED <<budget, residents, run, journal, task, clean, boot, wf, ghosts>>

Reconcile(o) ==
    /\ SupAt("retry")
    /\ o \in sup.todo
    /\ ReleaseOperation(o)
    /\ sup' = [sup EXCEPT !.todo = @ \ {o}]
    /\ UNCHANGED <<residents, run, journal, task, clean, boot, wf, faults, ghosts>>

SecondOverload ==
    /\ SupAt("retry")
    /\ sup.todo = {}
    /\ Overload(sup.op)
    /\ SupGoto("abort")
    /\ UNCHANGED <<residents, run, journal, task, clean, boot, wf, faults, ghosts>>

AbortUnadmitted ==
    /\ SupAt("abort")
    /\ EndUnadmitted("aborted")

\* start_admission moves the row on, and the registration task is spawned.
Startable(o) == MayWrite(o) /\ journal[o].state = "accepted"

Started ==
    /\ SupAt("start")
    /\ Startable(sup.op)
    /\ journal' = [journal EXCEPT ![sup.op] = [@ EXCEPT !.state = "started"]]
    /\ task' = [task EXCEPT ![sup.op] = "running"]
    /\ spawns' = [spawns EXCEPT ![sup.op] = @ + 1]
    /\ sup' = Idle
    /\ UNCHANGED <<budget, residents, run, clean, boot, wf, faults, gaveUp>>

\* The row is terminal already: the debit goes back, and that is all.
StartedElsewhere ==
    /\ SupAt("start")
    /\ MayWrite(sup.op) /\ journal[sup.op].state # "accepted"
    /\ ReleaseOperation(sup.op)
    /\ sup' = Idle
    /\ UNCHANGED <<residents, run, journal, task, clean, boot, wf, faults, ghosts>>

\* MUTANT: the error path aborts the row and keeps the debit.
StartFails_keepsDebit ==
    /\ SupAt("start")
    /\ \/ ~MayWrite(sup.op) /\ UNCHANGED faults
       \/ StoreFault
    /\ SupGoto("abort")
    /\ UNCHANGED <<budget, residents, run, journal, task, clean, boot, wf, ghosts>>

\* A stale claim, or a failure of the store: the debit goes back first, then
\* the row is aborted if the store lets it.
StartFails ==
    /\ SupAt("start")
    /\ \/ ~MayWrite(sup.op) /\ UNCHANGED faults
       \/ StoreFault
    /\ ReleaseOperation(sup.op)
    /\ SupGoto("abort")
    /\ UNCHANGED <<residents, run, journal, task, clean, boot, wf, ghosts>>

\* The issuing turn is cancelled while its request is on the way.
CancelRequest(o) ==
    /\ boot = "up"
    /\ sup.op = o \/ task[o] = "running"
    /\ cancelled' = cancelled \cup {o}
    /\ UNCHANGED <<remaining, debits, residents, run, journal, tasks, boot, wf, faults, ghosts>>

-----------------------------------------------------------------------------
(* The registration task of an operation. *)

\* All members are registered, or some could not be: the terminal is chosen.
Registered(o) ==
    /\ task[o] = "running"
    /\ task' = [task EXCEPT ![o] = IF o \in cancelled THEN "cancelled" ELSE "completed"]
    /\ UNCHANGED <<budget, residents, run, journal, sup, clean, boot, wf, faults, ghosts>>

\* MUTANT: a failed registration returns without finalizing.
RegistrationFailed_returns(o) ==
    /\ task[o] = "running"
    /\ o \notin cancelled
    /\ task' = [task EXCEPT ![o] = "done"]
    /\ UNCHANGED <<budget, residents, run, journal, sup, clean, boot, wf, faults, ghosts>>

RegistrationFailed(o) ==
    /\ task[o] = "running"
    /\ o \notin cancelled
    /\ task' = [task EXCEPT ![o] = "aborted"]
    /\ UNCHANGED <<budget, residents, run, journal, sup, clean, boot, wf, faults, ghosts>>

\* finalize_spawn_admission in two steps: the transaction, then the refund if
\* this call ended a started row.
FinishTask(o) ==
    /\ task[o] \in Terminals
    /\ MayWrite(o) /\ FinalizeApplies(o, task[o])
    /\ Finalize(o, task[o])
    /\ task' = [task EXCEPT ![o] = "refund"]
    /\ UNCHANGED <<budget, residents, run, sup, clean, boot, wf, faults, ghosts>>

\* Nothing was changed: stale claim, terminal row, or a failure of the store.
FinishRefused(o) ==
    /\ task[o] \in Terminals
    /\ \/ ~(MayWrite(o) /\ FinalizeApplies(o, task[o])) /\ UNCHANGED faults
       \/ StoreFault
    /\ task' = [task EXCEPT ![o] = "done"]
    /\ UNCHANGED <<budget, residents, run, journal, sup, clean, boot, wf, ghosts>>

TaskRefund(o) ==
    /\ task[o] = "refund"
    /\ ReleaseOperation(o)
    /\ task' = [task EXCEPT ![o] = "done"]
    /\ UNCHANGED <<residents, run, journal, sup, clean, boot, wf, faults, ghosts>>

-----------------------------------------------------------------------------
(* The end of a root's turn: finalize_root_spawn_admissions. *)

CleanAt(r, pc) == clean[r].pc = pc

RootTurnEnds(r) ==
    /\ boot = "up"
    /\ clean[r].pc \in {"idle", "failed"}
    /\ CancelOperations(r)
    /\ clean' = [clean EXCEPT ![r] = [Idle EXCEPT !.pc = "list"]]
    /\ UNCHANGED <<residents, run, journal, sup, task, boot, wf, faults, ghosts>>

ListRows(r) ==
    /\ CleanAt(r, "list")
    /\ \/ /\ clean' = [clean EXCEPT ![r] = [pc |-> "sweep", op |-> NoOp, todo |-> RootRows(r)]]
          /\ UNCHANGED faults
       \/ clean' = [clean EXCEPT ![r] = [Idle EXCEPT !.pc = "failed"]] /\ StoreFault
    /\ UNCHANGED <<budget, residents, run, journal, sup, task, boot, wf, ghosts>>

\* One listed row is cancelled; its refund follows when it was started.
SweepRow(r, o) ==
    /\ CleanAt(r, "sweep")
    /\ o \in clean[r].todo
    /\ FinalizeApplies(o, "cancelled")
    /\ Finalize(o, "cancelled")
    /\ clean' = [clean EXCEPT ![r] =
                    [pc |-> IF journal[o].state = "started" THEN "refund" ELSE "sweep",
                     op |-> o, todo |-> @.todo \ {o}]]
    /\ UNCHANGED <<budget, residents, run, sup, task, boot, wf, faults, ghosts>>

\* The row was cancelled by someone else after it was listed.
SweepCancelled(r, o) ==
    /\ CleanAt(r, "sweep")
    /\ o \in clean[r].todo
    /\ journal[o].state = "cancelled"
    /\ clean' = [clean EXCEPT ![r].todo = @ \ {o}]
    /\ UNCHANGED <<budget, residents, run, journal, sup, task, boot, wf, faults, ghosts>>

\* The row was completed or aborted after it was listed, or the store fails:
\* the error is returned at once, past the other rows and the budget.
SweepFails(r, o) ==
    /\ CleanAt(r, "sweep")
    /\ o \in clean[r].todo
    /\ \/ journal[o].state \in {"completed", "aborted"} /\ UNCHANGED faults
       \/ StoreFault
    /\ clean' = [clean EXCEPT ![r] = [Idle EXCEPT !.pc = "failed"]]
    /\ UNCHANGED <<budget, residents, run, journal, sup, task, boot, wf, ghosts>>

SweepRefund(r) ==
    /\ CleanAt(r, "refund")
    /\ ReleaseOperation(clean[r].op)
    /\ clean' = [clean EXCEPT ![r].pc = "sweep"]
    /\ UNCHANGED <<residents, run, journal, sup, task, boot, wf, faults, ghosts>>

SweepDone(r) ==
    /\ CleanAt(r, "sweep")
    /\ clean[r].todo = {}
    /\ ReleaseRoot(r)
    /\ clean' = [clean EXCEPT ![r] = Idle]
    /\ UNCHANGED <<residents, run, journal, sup, task, boot, wf, faults, ghosts>>

-----------------------------------------------------------------------------
(* The resident supervisor. *)

\* The bound on epochs leaves one for every restart that may still come.
EpochsLeft(a) == claim[a].epoch + (MaxRuns - run) < MaxEpoch

\* An actor is registered, or revived after its claim was released.
ClaimActor(a) ==
    /\ boot = "up"
    /\ EpochsLeft(a)
    /\ TryClaimNew(a)
    /\ held' = [held EXCEPT ![a] = @ \cup {claim'[a].epoch}]
    /\ UNCHANGED <<budget, run, journal, tasks, recov, owed, boot, wf, faults, ghosts>>

\* A running actor lost its sidecar: the process takes its own claim over.
TakeOver(a) ==
    /\ boot = "up"
    /\ recov[a] = 0
    /\ claim[a].owner = run
    /\ EpochsLeft(a)
    /\ RecoverClaim(a)
    /\ recov' = [recov EXCEPT ![a] = claim[a].epoch]
    /\ held' = [held EXCEPT ![a] = @ \cup {claim'[a].epoch}]
    /\ UNCHANGED <<budget, run, journal, tasks, owed, boot, wf, faults, ghosts>>

\* recover_resident_actor, after a takeover and at startup.
RecoverActor(a) ==
    LET rows == RowsUpTo(a, recov[a]) IN
    /\ boot \in {"actors", "up"}
    /\ recov[a] # 0
    /\ Fenced(a, recov[a] + 1)
    /\ journal' = AbortRows(rows)
    /\ owed' = [owed EXCEPT ![a] = @ \cup ReleasedIn(rows)]
    /\ recov' = [recov EXCEPT ![a] = 0]
    /\ gaveUp' = gaveUp \ {a}
    /\ UNCHANGED <<budget, claim, run, tasks, held, boot, wf, faults, spawns>>

\* The recovery of a taken-over actor fails in the store, and
\* finalize_resident_failure gives the new claim up.
RecoveryFails(a) ==
    LET rows == RowsAt(a, claim[a].epoch) IN
    /\ boot = "up"
    /\ recov[a] # 0
    /\ Active(a)
    /\ StoreFault
    /\ SetReleased(a)
    /\ journal' = AbortRows(rows)
    /\ owed' = [owed EXCEPT ![a] = @ \cup ReleasedIn(rows)]
    /\ recov' = [recov EXCEPT ![a] = 0]
    /\ gaveUp' = gaveUp \cup {a}
    /\ UNCHANGED <<budget, run, tasks, held, boot, wf, spawns>>

\* release_claim, finalize_resident_stop, finalize_resident_failure: the rows
\* of the current epoch are aborted in the transaction that releases the claim.
ReleaseActor(a) ==
    LET rows == RowsAt(a, claim[a].epoch) IN
    /\ boot = "up"
    /\ recov[a] = 0
    /\ Fenced(a, claim[a].epoch)
    /\ SetReleased(a)
    /\ journal' = AbortRows(rows)
    /\ owed' = [owed EXCEPT ![a] = @ \cup ReleasedIn(rows)]
    /\ UNCHANGED <<budget, run, tasks, recov, held, boot, wf, faults, ghosts>>

\* One of the operations the actor's transaction released goes back.
ActorRefund(a, o) ==
    /\ o \in owed[a]
    /\ ReleaseOperation(o)
    /\ owed' = [owed EXCEPT ![a] = @ \ {o}]
    /\ UNCHANGED <<claim, run, journal, tasks, recov, held, boot, wf, faults, ghosts>>

-----------------------------------------------------------------------------
(* A background workflow's reservation: taken at preflight, and returned     *)
(* when its guard is dropped, whatever happened to the root in between.      *)

WorkflowReserve(r) ==
    /\ boot = "up"
    /\ r \in WorkflowRoots
    /\ wf[r] = 0
    /\ ReserveExact(r, WorkflowUnits)
    /\ wf' = [wf EXCEPT ![r] = WorkflowUnits]
    /\ UNCHANGED <<residents, run, journal, tasks, boot, faults, ghosts>>

WorkflowRefund(r) ==
    /\ wf[r] # 0
    /\ RefundReserved(r, wf[r])
    /\ wf' = [wf EXCEPT ![r] = 0]
    /\ UNCHANGED <<residents, run, journal, tasks, boot, faults, ghosts>>

-----------------------------------------------------------------------------
(* Crash and startup.  The journal and the claims survive. *)

Crash ==
    /\ run < MaxRuns
    /\ run' = run + 1
    /\ boot' = "claims"
    /\ remaining' = [r \in Roots |-> Absent]
    /\ debits' = {}
    /\ cancelled' = {}
    /\ sup' = Idle
    /\ task' = [o \in Ops |-> "none"]
    /\ clean' = [r \in Roots |-> Idle]
    /\ recov' = [a \in Actors |-> 0]
    /\ held' = [a \in Actors |-> {}]
    /\ owed' = [a \in Actors |-> {}]
    /\ wf' = [r \in Roots |-> 0]
    /\ UNCHANGED <<claim, journal, faults, ghosts>>

\* Startup fences every active actor, one transaction each.
BootClaim(a) ==
    /\ boot = "claims"
    /\ claim[a].owner # run
    /\ RecoverClaim(a)
    /\ recov' = [recov EXCEPT ![a] = claim[a].epoch]
    /\ held' = [held EXCEPT ![a] = @ \cup {claim'[a].epoch}]
    /\ UNCHANGED <<budget, run, journal, tasks, owed, boot, wf, faults, ghosts>>

\* recover_nonterminal_admissions: the open rows of no actor are aborted.
BootAdmissions ==
    LET rows == {o \in Ops : ActorOf(o) = NoActor /\ IsOpen(o)} IN
    /\ boot = "claims"
    /\ \A a \in Actors : Active(a) => claim[a].owner = run
    /\ journal' = AbortRows(rows)
    /\ boot' = "actors"
    /\ UNCHANGED <<budget, residents, run, tasks, wf, faults, ghosts>>

BootDone ==
    /\ boot = "actors"
    /\ \A a \in Actors : recov[a] = 0
    /\ boot' = "up"
    /\ UNCHANGED <<budget, residents, run, journal, tasks, wf, faults, ghosts>>

-----------------------------------------------------------------------------
\* The supervisor carries on with the request it has claimed.
Admit ==
    \/ \E o \in Ops : Reconcile(o)
    \/ CancelledBeforeDebit \/ DepthExceeded \/ CheckPassed
    \/ Reserved \/ FirstOverload \/ ListReleased \/ SecondOverload \/ AbortUnadmitted
    \/ Started \/ StartedElsewhere \/ StartFails

Task(o) ==
    Registered(o) \/ RegistrationFailed(o) \/ FinishTask(o) \/ FinishRefused(o) \/ TaskRefund(o)

Sweep(r) ==
    \/ ListRows(r) \/ SweepRefund(r) \/ SweepDone(r)
    \/ \E o \in Ops : SweepRow(r, o) \/ SweepCancelled(r, o) \/ SweepFails(r, o)

Recovery(a) == RecoverActor(a) \/ \E o \in Ops : ActorRefund(a, o)

Boot == BootAdmissions \/ BootDone \/ \E a \in Actors : BootClaim(a)

Next ==
    \/ Admit
    \/ \E o \in Ops : ClaimAdmission(o) \/ CancelRequest(o) \/ Task(o)
    \/ \E r \in Roots : RootTurnEnds(r) \/ Sweep(r) \/ WorkflowReserve(r) \/ WorkflowRefund(r)
    \/ \E a \in Actors : \/ ClaimActor(a) \/ TakeOver(a) \/ Recovery(a)
                         \/ RecoveryFails(a) \/ ReleaseActor(a)
    \/ Crash
    \/ Boot

Spec == Init /\ [][Next]_vars

-----------------------------------------------------------------------------
(* Properties. *)

SupPcs == {"idle", "check", "reserve", "list", "retry", "start", "abort"}
CleanPcs == {"idle", "list", "sweep", "refund", "failed"}
TaskPcs == {"none", "running", "refund", "done"} \cup Terminals

\* Every variable keeps its type; in particular the budget of a root never
\* becomes negative and never exceeds per_run_budget (orchestrator.rs).
TypeOK ==
    /\ BudgetType
    /\ claim \in [Actors -> Claim]
    /\ run \in 1..MaxRuns
    /\ journal \in [Ops -> Row]
    /\ sup \in [pc : SupPcs, op : Ops \cup {NoOp}, todo : SUBSET Ops]
    /\ sup.pc # "idle" => sup.op \in Ops
    /\ task \in [Ops -> TaskPcs]
    /\ clean \in [Roots -> [pc : CleanPcs, op : Ops \cup {NoOp}, todo : SUBSET Ops]]
    /\ \A r \in Roots : clean[r].pc = "refund" => clean[r].op \in Ops
    /\ recov \in [Actors -> 0..MaxEpoch]
    /\ held \in [Actors -> SUBSET (0..MaxEpoch)]
    /\ owed \in [Actors -> SUBSET Ops]
    /\ boot \in {"claims", "actors", "up"}
    /\ wf \in [Roots -> {0, WorkflowUnits}]
    /\ faults \in 0..MaxFaults
    /\ spawns \in [Ops -> Nat]
    /\ gaveUp \subseteq Actors

\* An operation spawns its members at most once, whatever is replayed,
\* cancelled, taken over or restarted: the journal row is the idempotency key
\* (claim_admission, start_admission).
SpawnedOnce == \A o \in Ops : spawns[o] <= 1

\* No unit of a root's budget is lost: what is left, what the operations hold
\* and what a workflow holds make up at least per_run_budget, so a root is
\* never refused members it has not been given (release_operation, release,
\* refund_reserved).
NoUnitLost ==
    \A r \in Roots : remaining[r] # Absent => remaining[r] + Debited(r) + wf[r] >= Budget

\* No debit is returned twice, and a root without an entry has no debits
\* (try_reserve_operation, release_operation, release).  Roots with background
\* workflows are excepted: one that outlives the root's turn refunds units into a
\* budget that was seeded again (refund_reserved).
NoUnitGained ==
    \A r \in Roots \ WorkflowRoots :
        IF remaining[r] = Absent THEN DebitsOf(r) = {} ELSE remaining[r] + Debited(r) <= Budget

\* No debit is leaked: either the supervisor is about to decide on it, or its
\* row is started, so that whoever ends the row returns it, or its row says it
\* is to be returned, so that reconciliation will find it on the next overload
\* (begin_spawn_admission, terminal_released_operations_for_root).
DebitRecoverable ==
    \A o \in debits :
        \/ sup.op = o /\ sup.pc = "start"
        \/ journal[o].state = "started"
        \/ journal[o].state \in Terminals /\ journal[o].released

\* An open row of an actor belongs to the actor's current incarnation, or to
\* one that the recovery of the current takeover will abort: a released claim
\* strands no open row (release_claim, finalize_resident_with_reason,
\* recover_claim), except where the recovery of a takeover failed.
NoStrandedRow ==
    \A o \in Ops : ActorOf(o) # NoActor /\ IsOpen(o) =>
        LET a == ActorOf(o) IN
        \/ Active(a) /\ journal[o].epoch = claim[a].epoch
        \/ Active(a) /\ journal[o].epoch <= recov[a]
        \/ Active(a) /\ claim[a].owner # run
        \/ a \in gaveUp

\* A terminal row never changes again, an accepted row is not taken back, and
\* a row is marked released in the step that ends it and only if it had been
\* started (finalize_admission and every other update of the journal).
JournalForward ==
    [][\A o \in Ops : journal'[o] # journal[o] =>
        /\ journal[o].state \notin Terminals
        /\ journal'[o].state # "absent"
        /\ journal[o].state = "started" => journal'[o].state \in Terminals
        /\ journal'[o].released <=> (journal[o].state = "started")]_vars

\* Only the current incarnation of an actor starts or completes its requests:
\* a stale claim can change no row but through the recovery that aborts it
\* (fence_actor_claim).
StaleNeverAdvances ==
    [][\A o \in Ops :
        /\ ActorOf(o) # NoActor
        /\ journal'[o].state # journal[o].state
        /\ journal'[o].state \in {"accepted", "started", "completed"}
        => /\ Active(ActorOf(o))
           /\ journal'[o].epoch = claim[ActorOf(o)].epoch]_vars

\* The tasks of a running process make progress; root turns, cancellations,
\* takeovers, crashes and store failures need not happen.
Fairness ==
    /\ WF_vars(Admit)
    /\ \A o \in Ops : WF_vars(Task(o))
    /\ \A r \in Roots : WF_vars(Sweep(r))
    /\ \A a \in Actors : WF_vars(Recovery(a))
    /\ WF_vars(Boot)

FairSpec == Spec /\ Fairness

\* Every admitted operation reaches a terminal row (unless its actor was given
\* up), and every debit is returned, in this process or by losing it.
RowTerminates ==
    \A o \in Ops : IsOpen(o) ~> (~IsOpen(o) \/ ActorOf(o) \in gaveUp)
DebitReturned == \A o \in Ops : o \in debits ~> o \notin debits
===============================================================================
