---------------------------- MODULE GovernorProofs ----------------------------
(* The sum of the units that a set of operations holds, and what the         *)
(* operators of Governor do to it.                                           *)
EXTENDS Governor, FiniteSetTheorems, TLAPS

-----------------------------------------------------------------------------
(* MapThenSumSet picks the elements of the set one by one; SumAt is one step *)
(* of that recursion.                                                        *)

First(s) == CHOOSE x \in s : TRUE

SumAt(g, s) == IF s = {} THEN 0 ELSE Units(First(s)) + g[s \ {First(s)}]

\* g gives the sum of every subset of S.
Sums(g, S) == \A s \in SUBSET S : g[s] = SumAt(g, s)

LEMMA SumUnfold ==
  ASSUME NEW S
  PROVE  MapThenSumSet(Units, S) = (CHOOSE g : g = [s \in SUBSET S |-> SumAt(g, s)])[S]
  BY DEF MapThenSumSet, MapThenFoldSet, SumAt, First

\* A set of finite sets that is not empty has a member no other is inside of.
LEMMA Smallest ==
  ASSUME NEW T \in SUBSET SUBSET Ops, T # {}
  PROVE  \E s \in T : \A t \in T : ~(t \subseteq s /\ t # s)
  <1>1. IsWellFoundedOn(StrictSubsetOrdering(Ops), FiniteSubsetsOf(Ops))
    BY FS_StrictSubsetOrderingWellFounded
  <1>2. FiniteSubsetsOf(Ops) = SUBSET Ops
    BY OpsFinite, FS_FiniteSubsetsOfFinite
  <1>3. PICK s \in T : \A t \in T : <<t, s>> \notin StrictSubsetOrdering(Ops)
    BY <1>1, <1>2, WFMin
  <1>4. QED
    BY <1>3 DEF StrictSubsetOrdering

LEMMA FirstIn == ASSUME NEW s, s # {} PROVE First(s) \in s
  BY DEF First

\* Two functions that satisfy the recursion agree where both are defined.
LEMMA SumsAgree ==
  ASSUME NEW S \in SUBSET Ops, NEW T \in SUBSET Ops, NEW g, NEW h, Sums(g, S), Sums(h, T)
  PROVE  \A s \in SUBSET (S \cap T) : g[s] = h[s]
  <1> DEFINE Differ == {s \in SUBSET (S \cap T) : g[s] # h[s]}
  <1> SUFFICES ASSUME Differ # {} PROVE FALSE
    OBVIOUS
  <1>1. PICK s \in Differ : \A t \in Differ : ~(t \subseteq s /\ t # s)
    <2>1. Differ \in SUBSET SUBSET Ops
      OBVIOUS
    <2>2. QED
      BY <2>1, Smallest
  <1>2. g[s] = SumAt(g, s) /\ h[s] = SumAt(h, s)
    BY DEF Sums
  <1>3. s # {}
    BY <1>2 DEF SumAt
  <1>4. s \ {First(s)} \in SUBSET (S \cap T) /\ s \ {First(s)} \subseteq s /\ s \ {First(s)} # s
    BY <1>3, FirstIn
  <1>5. g[s \ {First(s)}] = h[s \ {First(s)}]
    BY <1>1, <1>4
  <1>6. QED
    BY <1>2, <1>3, <1>5 DEF SumAt

Summable(S) == \E g \in [SUBSET S -> Nat] : Sums(g, S)

\* The recursion has a solution on the subsets of every set of operations: the
\* solutions on the proper subsets are put together.
LEMMA AllSummable == ASSUME NEW R \in SUBSET Ops PROVE Summable(R)
  <1> DEFINE Bad == {s \in SUBSET Ops : ~Summable(s)}
  <1> SUFFICES ASSUME Bad # {} PROVE FALSE
    OBVIOUS
  <1>1. PICK S \in Bad : \A t \in Bad : ~(t \subseteq S /\ t # S)
    <2>1. Bad \in SUBSET SUBSET Ops
      OBVIOUS
    <2>2. QED
      BY <2>1, Smallest
  <1> DEFINE Sol(s) == CHOOSE g \in [SUBSET s -> Nat] : Sums(g, s)
             F == [s \in SUBSET S |-> IF s # S THEN Sol(s)[s]
                                      ELSE IF S = {} THEN 0
                                      ELSE Units(First(S)) + Sol(S \ {First(S)})[S \ {First(S)}]]
  <1>2. \A s \in SUBSET S : s # S => Sol(s) \in [SUBSET s -> Nat] /\ Sums(Sol(s), s)
    <2>1. SUFFICES ASSUME NEW s \in SUBSET S, s # S
                   PROVE  Sol(s) \in [SUBSET s -> Nat] /\ Sums(Sol(s), s)
      OBVIOUS
    <2>2. \E g \in [SUBSET s -> Nat] : Sums(g, s)
      BY <1>1, <2>1 DEF Summable
    <2>3. QED
      BY <2>2
  <1> HIDE DEF Sol
  <1>3. \A s \in SUBSET S : s # {} => First(s) \in s /\ s \ {First(s)} \in SUBSET S /\ s \ {First(s)} # S
    BY FirstIn
  <1>4. F \in [SUBSET S -> Nat]
    <2>1. SUFFICES ASSUME NEW s \in SUBSET S PROVE F[s] \in Nat
      OBVIOUS
    <2>2. CASE s # S
      BY <1>2, <2>2
    <2>3. CASE s = S /\ S # {}
      <3>1. Units(First(S)) \in Nat
        BY <2>3, <1>3, OpsAssumption
      <3>2. Sol(S \ {First(S)})[S \ {First(S)}] \in Nat
        <4> DEFINE u == S \ {First(S)}
        <4>1. u \in SUBSET S /\ u # S
          BY <2>3, <1>3
        <4>2. Sol(u) \in [SUBSET u -> Nat] /\ u \in SUBSET u
          BY <4>1, <1>2
        <4>3. QED
          BY <4>2
      <3>3. QED
        BY <2>3, <3>1, <3>2
    <2>4. QED
      BY <2>2, <2>3
  <1>5. ASSUME NEW s \in SUBSET S PROVE F[s] = SumAt(F, s)
    <2>1. CASE s = {}
      <3>1. CASE S = {}
        BY <2>1, <3>1 DEF SumAt
      <3>2. CASE S # {}
        BY <2>1, <3>2, <1>2 DEF SumAt, Sums
      <3>3. QED
        BY <3>1, <3>2
    <2>2. CASE s # {}
      <3> DEFINE u == s \ {First(s)}
      <3>1. u \in SUBSET S /\ u # S /\ u \in SUBSET s /\ F[u] = Sol(u)[u]
        BY <2>2, <1>3
      <3>2. CASE s = S
        BY <2>2, <3>1, <3>2 DEF SumAt
      <3>3. CASE s # S
        <4>1. F[s] = Sol(s)[s] /\ Sol(s)[s] = Units(First(s)) + Sol(s)[u]
          BY <2>2, <3>3, <1>2 DEF Sums, SumAt
        <4>2. Sol(s)[u] = Sol(u)[u]
          <5>1. Sums(Sol(s), s) /\ Sums(Sol(u), u)
            BY <1>2, <3>1, <3>3
          <5>2. u \in SUBSET (s \cap u)
            BY <3>1
          <5>3. QED
            BY <5>1, <5>2, SumsAgree
        <4>3. QED
          BY <2>2, <3>1, <4>1, <4>2 DEF SumAt
      <3>4. QED
        BY <3>2, <3>3
    <2>3. QED
      BY <2>1, <2>2
  <1>6. Summable(S)
    BY <1>4, <1>5 DEF Summable, Sums
  <1>7. QED
    BY <1>1, <1>6

\* The sum as the library computes it satisfies the recursion.
LEMMA SumIsSolution ==
  ASSUME NEW S \in SUBSET Ops, NEW g \in [SUBSET Ops -> Nat], Sums(g, Ops)
  PROVE  MapThenSumSet(Units, S) = g[S]
  <1> DEFINE Rec(h) == h = [s \in SUBSET S |-> SumAt(h, s)]
             H == CHOOSE h : Rec(h)
             G == [s \in SUBSET S |-> g[s]]
  <1>1. Rec(G)
    <2>1. ASSUME NEW s \in SUBSET S PROVE g[s] = SumAt(G, s)
      <3>1. g[s] = SumAt(g, s)
        BY DEF Sums
      <3>2. s # {} => s \ {First(s)} \in SUBSET S
        OBVIOUS
      <3>3. QED
        BY <3>1, <3>2 DEF SumAt
    <2>2. QED
      BY <2>1
  <1>2. Rec(H)
    <2> HIDE DEF Rec
    <2> QED
      BY <1>1
  <1>3. Sums(H, S)
    <2> HIDE DEF H
    <2> QED
      BY <1>2 DEF Sums
  <1>4. H[S] = g[S]
    <2> HIDE DEF H
    <2>1. S \in SUBSET (S \cap Ops)
      OBVIOUS
    <2>2. QED
      BY <1>3, <2>1, SumsAgree
  <1>5. QED
    BY <1>4, SumUnfold

-----------------------------------------------------------------------------
(* The three facts about the sum that the budget needs. *)

LEMMA SumEmpty == MapThenSumSet(Units, {}) = 0
  <1>1. PICK g \in [SUBSET Ops -> Nat] : Sums(g, Ops)
    BY AllSummable DEF Summable
  <1>2. g[{}] = 0
    BY <1>1 DEF Sums, SumAt
  <1>3. QED
    BY <1>1, <1>2, SumIsSolution

LEMMA SumNat == ASSUME NEW S \in SUBSET Ops PROVE MapThenSumSet(Units, S) \in Nat
  <1>1. PICK g \in [SUBSET Ops -> Nat] : Sums(g, Ops)
    BY AllSummable DEF Summable
  <1>2. QED
    BY <1>1, SumIsSolution

\* The sum does not depend on the order in which the elements are picked.
LEMMA SumTake ==
  ASSUME NEW S \in SUBSET Ops, NEW o \in S
  PROVE  MapThenSumSet(Units, S) = Units(o) + MapThenSumSet(Units, S \ {o})
  <1>1. PICK g \in [SUBSET Ops -> Nat] : Sums(g, Ops)
    BY AllSummable DEF Summable
  <1> DEFINE Bad == {s \in SUBSET Ops : \E y \in s : g[s] # Units(y) + g[s \ {y}]}
  <1>2. ASSUME Bad # {} PROVE FALSE
    <2>1. PICK s \in Bad : \A t \in Bad : ~(t \subseteq s /\ t # s)
      <3>1. Bad \in SUBSET SUBSET Ops
        OBVIOUS
      <3>2. QED
        BY <1>2, <3>1, Smallest
    <2>2. PICK y \in s : g[s] # Units(y) + g[s \ {y}]
      OBVIOUS
    <2> DEFINE x == First(s)
    <2>3. x \in s /\ g[s] = Units(x) + g[s \ {x}]
      BY <1>1, <2>2, FirstIn DEF Sums, SumAt
    <2> HIDE DEF x
    <2>4. x # y
      BY <2>2, <2>3
    <2>5. g[s \ {x}] = Units(y) + g[(s \ {x}) \ {y}]
      <3>1. s \ {x} \subseteq s /\ s \ {x} # s /\ s \ {x} \in SUBSET Ops /\ y \in s \ {x}
        BY <2>3, <2>4
      <3>2. QED
        BY <2>1, <3>1
    <2>6. g[s \ {y}] = Units(x) + g[(s \ {y}) \ {x}]
      <3>1. s \ {y} \subseteq s /\ s \ {y} # s /\ s \ {y} \in SUBSET Ops /\ x \in s \ {y}
        BY <2>3, <2>4
      <3>2. QED
        BY <2>1, <3>1
    <2>7. (s \ {x}) \ {y} = (s \ {y}) \ {x}
      OBVIOUS
    <2>8. Units(x) \in Nat /\ Units(y) \in Nat /\ g[(s \ {y}) \ {x}] \in Nat
      BY <2>3, OpsAssumption
    <2>9. \A a, b, c \in Nat : b + (a + c) = a + (b + c)
      OBVIOUS
    <2>10. Units(y) + g[s \ {y}] = Units(x) + (Units(y) + g[(s \ {y}) \ {x}])
      BY <2>6, <2>8, <2>9
    <2>11. g[s] = Units(x) + (Units(y) + g[(s \ {y}) \ {x}])
      BY <2>3, <2>5, <2>7
    <2>12. QED
      BY <2>2, <2>10, <2>11
  <1>3. g[S] = Units(o) + g[S \ {o}]
    BY <1>2
  <1>4. QED
    BY <1>1, <1>3, SumIsSolution

LEMMA SumPut ==
  ASSUME NEW S \in SUBSET Ops, NEW o \in Ops \ S
  PROVE  MapThenSumSet(Units, S \cup {o}) = Units(o) + MapThenSumSet(Units, S)
  <1>1. (S \cup {o}) \ {o} = S /\ S \cup {o} \in SUBSET Ops /\ o \in S \cup {o}
    OBVIOUS
  <1>2. QED
    BY <1>1, SumTake

-----------------------------------------------------------------------------
(* The account of a root: what is left, and what its operations hold. *)

LEMMA DebitedNat ==
  ASSUME debits \subseteq Ops, NEW r PROVE Debited(r) \in Nat
  BY SumNat DEF Debited, DebitsOf

LEMMA DebitedSame ==
  ASSUME NEW r, DebitsOf(r)' = DebitsOf(r) PROVE Debited(r)' = Debited(r)
  BY DEF Debited

\* A debit is taken for one operation.
LEMMA DebitedPut ==
  ASSUME debits \subseteq Ops, NEW o \in Ops \ debits, debits' = debits \cup {o}, NEW r
  PROVE  Debited(r)' = IF RootOf(o) = r THEN Units(o) + Debited(r) ELSE Debited(r)
  <1>1. CASE RootOf(o) = r
    <2>1. DebitsOf(r)' = DebitsOf(r) \cup {o} /\ DebitsOf(r) \in SUBSET Ops /\ o \in Ops \ DebitsOf(r)
      BY <1>1 DEF DebitsOf
    <2>2. QED
      BY <1>1, <2>1, SumPut DEF Debited
  <1>2. CASE RootOf(o) # r
    <2>1. DebitsOf(r)' = DebitsOf(r)
      BY <1>2 DEF DebitsOf
    <2>2. QED
      BY <1>2, <2>1, DebitedSame
  <1>3. QED
    BY <1>1, <1>2

\* The debit of one operation is given up.
LEMMA DebitedTake ==
  ASSUME debits \subseteq Ops, NEW o \in Ops, debits' = debits \ {o}, NEW r
  PROVE  Debited(r) = IF o \in debits /\ RootOf(o) = r THEN Units(o) + Debited(r)' ELSE Debited(r)'
  <1>1. CASE o \in debits /\ RootOf(o) = r
    <2>1. DebitsOf(r)' = DebitsOf(r) \ {o} /\ DebitsOf(r) \in SUBSET Ops /\ o \in DebitsOf(r)
      BY <1>1 DEF DebitsOf
    <2>2. Debited(r) = Units(o) + MapThenSumSet(Units, DebitsOf(r) \ {o})
      BY <2>1, SumTake DEF Debited
    <2>3. Debited(r)' = MapThenSumSet(Units, DebitsOf(r) \ {o})
      BY <2>1 DEF Debited
    <2>4. QED
      BY <1>1, <2>2, <2>3
  <1>2. CASE ~(o \in debits /\ RootOf(o) = r)
    <2>1. DebitsOf(r)' = DebitsOf(r)
      BY <1>2 DEF DebitsOf
    <2>2. QED
      BY <1>2, <2>1, DebitedSame
  <1>3. QED
    BY <1>1, <1>2

\* What is left, what the operations hold and the w units a workflow holds
\* make up at least the budget.
Kept(r, w) == remaining[r] # Absent => remaining[r] + Debited(r) + w >= Budget

\* What is left and what the operations hold make up at most the budget.
Bounded(r) == IF remaining[r] = Absent THEN DebitsOf(r) = {} ELSE remaining[r] + Debited(r) <= Budget

LEMMA NothingDebited ==
  ASSUME NEW r, DebitsOf(r) = {} PROVE Debited(r) = 0
  BY SumEmpty DEF Debited

LEMMA AccountSame ==
  ASSUME BudgetType, NEW r \in Roots, NEW w \in Nat,
         remaining'[r] = remaining[r], DebitsOf(r)' = DebitsOf(r)
  PROVE  (Kept(r, w) => Kept(r, w)') /\ (Bounded(r) => Bounded(r)')
  BY DebitedSame DEF Kept, Bounded

LEMMA AcquireAccount ==
  ASSUME BudgetType, NEW o \in Ops, Acquire(o), NEW r \in Roots, NEW w \in Nat
  PROVE  (Kept(r, w) => Kept(r, w)') /\ (Bounded(r) => Bounded(r)')
  <1>1. RootOf(o) \in Roots /\ Units(o) \in Nat
    BY OpsAssumption
  <1>2. Debited(r) \in Nat /\ (RootOf(o) = r => Debited(r)' = Units(o) + Debited(r))
    BY DebitedNat, DebitedPut DEF BudgetType, Acquire
  <1>3. CASE RootOf(o) = r
    <2>1. remaining'[r] = Seeded(r) - Units(o) /\ remaining'[r] # Absent /\ Seeded(r) \in 0..Budget
      BY <1>1, <1>3, BudgetAssumption DEF BudgetType, Acquire, Fits, Seeded, Absent
    <2>2. remaining'[r] + Debited(r)' = Seeded(r) + Debited(r)
      BY <1>1, <1>2, <1>3, <2>1, BudgetAssumption
    <2>3. Kept(r, w) => Seeded(r) + Debited(r) + w >= Budget
      BY <1>2, BudgetAssumption DEF Kept, Seeded
    <2>4. Bounded(r) => Seeded(r) + Debited(r) <= Budget
      BY <1>2, BudgetAssumption, NothingDebited DEF Bounded, Seeded
    <2>5. QED
      BY <2>1, <2>2, <2>3, <2>4 DEF Kept, Bounded
  <1>4. CASE RootOf(o) # r
    <2>1. remaining'[r] = remaining[r] /\ DebitsOf(r)' = DebitsOf(r)
      BY <1>1, <1>4 DEF Acquire, DebitsOf, BudgetType
    <2>2. QED
      BY <2>1, AccountSame
  <1>5. QED
    BY <1>3, <1>4

LEMMA OverloadAccount ==
  ASSUME BudgetType, NEW o \in Ops, Overload(o), NEW r \in Roots, NEW w \in Nat
  PROVE  (Kept(r, w) => Kept(r, w)') /\ (Bounded(r) => Bounded(r)')
  <1>1. RootOf(o) \in Roots /\ Debited(r) \in Nat
    BY OpsAssumption, DebitedNat DEF BudgetType
  <1>2. DebitsOf(r)' = DebitsOf(r) /\ Debited(r)' = Debited(r)
    BY DebitedSame DEF Overload, DebitsOf
  <1>3. CASE RootOf(o) = r /\ remaining[r] = Absent
    <2>1. remaining'[r] = Budget /\ Budget # Absent
      BY <1>1, <1>3, BudgetAssumption DEF BudgetType, Overload, Seeded, Absent
    <2>2. Bounded(r) => Debited(r) = 0
      BY <1>3, NothingDebited DEF Bounded
    <2>3. QED
      BY <1>1, <1>2, <2>1, <2>2, BudgetAssumption DEF Kept, Bounded
  <1>4. CASE ~(RootOf(o) = r /\ remaining[r] = Absent)
    <2>1. remaining'[r] = remaining[r]
      BY <1>1, <1>4 DEF Overload, Seeded, BudgetType
    <2>2. QED
      BY <1>2, <2>1, AccountSame
  <1>5. QED
    BY <1>3, <1>4

LEMMA ReleaseOperationAccount ==
  ASSUME BudgetType, NEW o \in Ops, ReleaseOperation(o), NEW r \in Roots, NEW w \in Nat
  PROVE  (Kept(r, w) => Kept(r, w)') /\ (Bounded(r) => Bounded(r)')
  <1>1. RootOf(o) \in Roots /\ Units(o) \in Nat
    BY OpsAssumption
  <1>2. Debited(r) \in Nat /\ Debited(r)' \in Nat
    <2>1. debits \subseteq Ops /\ debits' \subseteq Ops
      BY DEF BudgetType, ReleaseOperation
    <2>2. DebitsOf(r)' \in SUBSET Ops
      BY <2>1 DEF DebitsOf
    <2>3. QED
      BY <2>1, <2>2, DebitedNat, SumNat DEF Debited
  <1>3. CASE o \in debits /\ RootOf(o) = r /\ remaining[r] # Absent
    <2>1. Debited(r) = Units(o) + Debited(r)'
      BY <1>3, DebitedTake DEF BudgetType, ReleaseOperation
    <2>2. remaining'[r] = CappedAt(Budget, remaining[r] + Units(o)) /\ remaining[r] \in 0..Budget
      BY <1>3 DEF BudgetType, ReleaseOperation
    <2>3. remaining'[r] # Absent
      BY <1>1, <2>2, BudgetAssumption DEF CappedAt, Absent
    <2>4. QED
      BY <1>1, <1>2, <1>3, <2>1, <2>2, <2>3, BudgetAssumption DEF Kept, Bounded, CappedAt
  <1>4. CASE ~(o \in debits /\ RootOf(o) = r)
    <2>1. remaining'[r] = remaining[r] /\ DebitsOf(r)' = DebitsOf(r)
      BY <1>1, <1>4 DEF BudgetType, ReleaseOperation, DebitsOf
    <2>2. QED
      BY <2>1, AccountSame
  <1>5. CASE o \in debits /\ RootOf(o) = r /\ remaining[r] = Absent
    <2>1. remaining'[r] = Absent
      BY <1>5 DEF BudgetType, ReleaseOperation
    <2>2. o \in DebitsOf(r)
      BY <1>5 DEF DebitsOf
    <2>3. QED
      BY <1>5, <2>1, <2>2 DEF Kept, Bounded
  <1>6. QED
    BY <1>3, <1>4, <1>5

LEMMA ReleaseRootAccount ==
  ASSUME BudgetType, NEW p \in Roots, ReleaseRoot(p), NEW r \in Roots, NEW w \in Nat
  PROVE  (Kept(r, w) => Kept(r, w)') /\ (Bounded(r) => Bounded(r)')
  <1>1. CASE p = r
    <2>1. remaining'[r] = Absent /\ DebitsOf(r)' = {}
      BY <1>1 DEF BudgetType, ReleaseRoot, DebitsOf
    <2>2. QED
      BY <2>1 DEF Kept, Bounded
  <1>2. CASE p # r
    <2>1. remaining'[r] = remaining[r] /\ DebitsOf(r)' = DebitsOf(r)
      BY <1>2 DEF BudgetType, ReleaseRoot, DebitsOf
    <2>2. QED
      BY <2>1, AccountSame
  <1>3. QED
    BY <1>1, <1>2

\* A workflow takes its units: they move from what is left to what it holds.
LEMMA ReserveExactKept ==
  ASSUME BudgetType, NEW r \in Roots, NEW n \in Nat, ReserveExact(r, n), Kept(r, 0)
  PROVE  Kept(r, n)'
  <1>1. Debited(r) \in Nat /\ Debited(r)' = Debited(r)
    <2>1. DebitsOf(r)' = DebitsOf(r)
      BY DEF ReserveExact, DebitsOf
    <2>2. QED
      BY <2>1, DebitedNat, DebitedSame DEF BudgetType
  <1>2. remaining'[r] = Seeded(r) - n /\ Seeded(r) \in 0..Budget
    BY BudgetAssumption DEF BudgetType, ReserveExact, Seeded, Absent
  <1>3. Seeded(r) + Debited(r) >= Budget
    BY <1>1, BudgetAssumption DEF BudgetType, Kept, Seeded, Absent
  <1>4. QED
    BY <1>1, <1>2, <1>3, BudgetAssumption DEF Kept

\* A workflow gives its units back, or the entry is gone.
LEMMA RefundReservedKept ==
  ASSUME BudgetType, NEW r \in Roots, NEW n \in Nat, RefundReserved(r, n), Kept(r, n)
  PROVE  Kept(r, 0)'
  <1>1. Debited(r) \in Nat /\ Debited(r)' = Debited(r)
    <2>1. DebitsOf(r)' = DebitsOf(r)
      BY DEF RefundReserved, DebitsOf
    <2>2. QED
      BY <2>1, DebitedNat, DebitedSame DEF BudgetType
  <1>2. CASE remaining'[r] = Absent
    BY <1>2 DEF Kept
  <1>3. CASE remaining'[r] # Absent
    <2>1. remaining[r] \in 0..Budget /\ remaining'[r] = CappedAt(Budget, remaining[r] + n)
      BY <1>3, BudgetAssumption DEF BudgetType, RefundReserved, Absent
    <2>2. QED
      BY <1>1, <1>3, <2>1, BudgetAssumption DEF Kept, CappedAt, Absent
  <1>4. QED
    BY <1>2, <1>3
===============================================================================
