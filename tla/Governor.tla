------------------------------- MODULE Governor -------------------------------
(***************************************************************************)
(* The process-local spawn budget of SubagentGovernor                      *)
(* (crates/hya-core/src/orchestrator.rs).  Every operator that primes the  *)
(* budget is one critical section of its mutex.  The budget lives in       *)
(* memory only: a restart loses it, and the first reservation under a root *)
(* seeds it again.                                                         *)
(***************************************************************************)
EXTENDS Integers, FiniteSets, FiniteSetsExt

CONSTANTS
    Roots,          \* team-root sessions
    Ops,            \* operation ids of spawn requests
    RootOf(_),      \* operation -> the root whose budget it draws on
    Units(_),       \* operation -> number of members it asks for
    Budget          \* SubagentLimits.per_run_budget

\* The value of remaining[r] when the map has no entry for r.
Absent == -1

ASSUME BudgetAssumption == Budget \in Nat
ASSUME OpsFinite == IsFiniteSet(Ops)
ASSUME OpsAssumption ==
    \A o \in Ops : RootOf(o) \in Roots /\ Units(o) \in Nat

VARIABLES
    remaining,  \* BudgetState.remaining: root -> units left, or Absent
    debits,     \* BudgetState.operations: operations that hold a debit
    cancelled   \* operations whose cancel token is cancelled

budget == <<remaining, debits, cancelled>>

BudgetType ==
    /\ remaining \in [Roots -> 0..Budget \cup {Absent}]
    /\ debits \subseteq Ops
    /\ cancelled \subseteq Ops

DebitsOf(r) == {o \in debits : RootOf(o) = r}

\* The entry of a root, seeded to the per-run budget on first sight.
Seeded(r) == IF remaining[r] = Absent THEN Budget ELSE remaining[r]

\* MUTANT: a credit is not capped at the per-run budget.
CappedAt_none(limit, n) == n

\* saturating_add(..).min(..) of a credit.
CappedAt(limit, n) == IF n > limit THEN limit ELSE n

\* try_reserve_operation refuses a request for nothing, and one that does not fit.
Fits(o) == Units(o) > 0 /\ Units(o) <= Seeded(RootOf(o))

\* OperationReservation::Acquired
Acquire(o) ==
    /\ o \notin debits
    /\ Fits(o)
    /\ remaining' = [remaining EXCEPT ![RootOf(o)] = Seeded(RootOf(o)) - Units(o)]
    /\ debits' = debits \cup {o}
    /\ UNCHANGED cancelled

\* OperationReservation::Overloaded: nothing is debited, the entry is seeded.
Overload(o) ==
    /\ o \notin debits
    /\ ~Fits(o)
    /\ remaining' = [remaining EXCEPT ![RootOf(o)] = Seeded(RootOf(o))]
    /\ UNCHANGED <<debits, cancelled>>

\* MUTANT: the credit is given without looking for the debit.
ReleaseOperation_twice(o) ==
    LET r == RootOf(o) IN
    /\ debits' = debits \ {o}
    /\ remaining' = IF remaining[r] # Absent
                    THEN [remaining EXCEPT ![r] = CappedAt(Budget, @ + Units(o))]
                    ELSE remaining
    /\ UNCHANGED cancelled

\* release_operation: a repeated release is a no-op, and so is the credit to
\* a root whose entry is gone.
ReleaseOperation(o) ==
    LET r == RootOf(o) IN
    /\ debits' = debits \ {o}
    /\ remaining' = IF o \in debits /\ remaining[r] # Absent
                    THEN [remaining EXCEPT ![r] = CappedAt(Budget, @ + Units(o))]
                    ELSE remaining
    /\ UNCHANGED cancelled

\* cancel_operations: the tokens fire, the debits stay.
CancelOperations(r) ==
    /\ cancelled' = cancelled \cup DebitsOf(r)
    /\ UNCHANGED <<remaining, debits>>

\* MUTANT: release drops the debits of the root but not its entry.
ReleaseRoot_keepsEntry(r) ==
    /\ debits' = debits \ DebitsOf(r)
    /\ cancelled' = cancelled \cup DebitsOf(r)
    /\ UNCHANGED remaining

\* release: the entry, the debits and the tokens of a root go together.
ReleaseRoot(r) ==
    /\ remaining' = [remaining EXCEPT ![r] = Absent]
    /\ debits' = debits \ DebitsOf(r)
    /\ cancelled' = cancelled \cup DebitsOf(r)

\* try_reserve_exact, the reservation a workflow makes for its activations.
ReserveExact(r, n) ==
    /\ n <= Seeded(r)
    /\ remaining' = [remaining EXCEPT ![r] = Seeded(r) - n]
    /\ UNCHANGED <<debits, cancelled>>

\* refund_reserved: the entry is dropped when it is whole again and nothing
\* else draws on it.
RefundReserved(r, n) ==
    LET left == CappedAt(Budget, remaining[r] + n) IN
    /\ remaining' = IF remaining[r] = Absent THEN remaining
                    ELSE [remaining EXCEPT ![r] =
                            IF left = Budget /\ DebitsOf(r) = {} THEN Absent ELSE left]
    /\ UNCHANGED <<debits, cancelled>>

\* Units that the debits of a root hold.
Debited(r) == MapThenSumSet(Units, DebitsOf(r))
===============================================================================
