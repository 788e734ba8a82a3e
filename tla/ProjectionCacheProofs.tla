------------------------- MODULE ProjectionCacheProofs -------------------------
(***************************************************************************)
(* The projection cache implements the plain event log, for any number of  *)
(* sessions, readers, builds and rows.                                     *)
(*                                                                         *)
(* The argument: whatever base a fold starts from, if its last row is in   *)
(* the log, then the base is the log up to that row.  It holds because     *)
(* sequence numbers only grow once committed, and because no fold that saw *)
(* uncommitted rows is ever kept.                                          *)
(***************************************************************************)
EXTENDS ProjectionCache, SequenceTheorems, TLAPS

-----------------------------------------------------------------------------
(* Rows in sequence order. *)

Sorted(rows) == \A i, j \in DOMAIN rows : i < j => rows[i].seq < rows[j].seq

\* A base that the log still anchors is the log up to the anchor.
Prefix(fold, rows) ==
    fold.rows # <<>> =>
      \A i \in DOMAIN rows : rows[i].seq = LastSeq(fold.rows) => fold.rows = SubSeq(rows, 1, i)

\* The rows of a log have sequence numbers.
LEMMA RowsTyped ==
    ASSUME NEW rows \in Seq(Row)
    PROVE  /\ Len(rows) \in Nat
           /\ DOMAIN rows = 1..Len(rows)
           /\ \A i \in DOMAIN rows : rows[i] \in Row /\ rows[i].seq \in Nat
<1>1. Len(rows) \in Nat /\ DOMAIN rows = 1..Len(rows)
  BY LenProperties
<1>2. \A i \in 1..Len(rows) : rows[i] \in Row
  BY ElementOfSeq
<1> QED BY <1>1, <1>2 DEF Row

\* What follows the base is what follows the anchor: the cut is unique.
LEMMA TailAfterAnchor ==
    ASSUME NEW rows \in Seq(Row), Sorted(rows), NEW fold \in Fold,
           NEW i \in 1..Len(rows), rows[i].seq = LastSeq(fold.rows)
    PROVE  TailFrom(fold, rows) = SubSeq(rows, i + 1, Len(rows))
<1> DEFINE Cut(k) == \A j \in DOMAIN rows : rows[j].seq <= LastSeq(fold.rows) <=> j <= k
<1>1. DOMAIN rows = 1..Len(rows) /\ Len(rows) \in Nat
  BY LenProperties
<1>2. \A j \in 1..Len(rows) : rows[j].seq \in Nat
  BY RowsTyped
<1>3. Cut(i)
  BY <1>1, <1>2 DEF Sorted
<1>4. ASSUME NEW k \in 0..Len(rows), Cut(k)
      PROVE  k = i
  <2>1. i <= k
    BY <1>1, <1>2, <1>4
  <2>2. ~(k > i)
    <3> SUFFICES ASSUME k > i PROVE FALSE
      OBVIOUS
    <3>1. rows[k].seq <= LastSeq(fold.rows) /\ rows[i].seq < rows[k].seq
      BY <1>1, <1>4 DEF Sorted
    <3> QED BY <3>1, <1>1, <1>2
  <2> QED BY <2>1, <2>2, <1>1
<1>5. i \in 0..Len(rows)
  BY <1>1
<1>6. (CHOOSE k \in 0..Len(rows) : Cut(k)) = i
  <2> HIDE DEF Cut
  <2> QED BY <1>3, <1>4, <1>5
<1> QED BY <1>6 DEF TailFrom

\* A base with an anchor, and the rows after the anchor, are the whole log.
LEMMA FoldIsReplay ==
    ASSUME NEW rows \in Seq(Row), Sorted(rows), NEW fold \in Fold,
           Prefix(fold, rows), Anchored(fold, rows)
    PROVE  fold.rows \o TailFrom(fold, rows) = rows
<1>1. PICK i \in 1..Len(rows) : rows[i].seq = LastSeq(fold.rows)
  BY LenProperties DEF Anchored, AnchorAt
<1>2. fold.rows = SubSeq(rows, 1, i)
  BY <1>1, LenProperties DEF Prefix, Anchored
<1>3. TailFrom(fold, rows) = SubSeq(rows, i + 1, Len(rows))
  BY <1>1, TailAfterAnchor
<1>4. SubSeq(rows, 1, i) \o SubSeq(rows, i + 1, Len(rows)) = SubSeq(rows, 1, Len(rows))
  <2>1. 1 \in 1..(Len(rows) + 1) /\ i \in (1 - 1)..Len(rows) /\ Len(rows) \in i..Len(rows)
    BY LenProperties
  <2> QED BY <2>1, ConcatAdjacentSubSeq
<1> QED BY <1>2, <1>3, <1>4, SubSeqFull

\* Rows appended with greater sequence numbers keep a base good.
LEMMA PrefixExtends ==
    ASSUME NEW rows \in Seq(Row), NEW more \in Seq(Row), NEW fold \in Fold,
           Prefix(fold, rows), NEW n \in Nat, LastSeq(fold.rows) <= n,
           \A i \in DOMAIN more : more[i].seq > n
    PROVE  Prefix(fold, rows \o more)
<1> SUFFICES ASSUME fold.rows # <<>>, NEW i \in DOMAIN (rows \o more),
                    (rows \o more)[i].seq = LastSeq(fold.rows)
             PROVE  fold.rows = SubSeq(rows \o more, 1, i)
  BY DEF Prefix
<1>1. /\ Len(rows) \in Nat /\ Len(more) \in Nat
      /\ DOMAIN rows = 1..Len(rows) /\ DOMAIN more = 1..Len(more)
      /\ DOMAIN (rows \o more) = 1..(Len(rows) + Len(more))
  BY LenProperties, ConcatProperties
<1>2. (rows \o more)[i] = IF i <= Len(rows) THEN rows[i] ELSE more[i - Len(rows)]
  BY <1>1, ConcatProperties
<1>3. i <= Len(rows)
  <2> SUFFICES ASSUME i > Len(rows) PROVE FALSE
    BY <1>1
  <2>1. i - Len(rows) \in 1..Len(more)
    BY <1>1
  <2>2. more[i - Len(rows)].seq > n /\ more[i - Len(rows)].seq \in Nat
    BY <2>1, <1>1, RowsTyped
  <2>3. more[i - Len(rows)].seq = LastSeq(fold.rows)
    BY <1>2, <1>1
  <2> QED BY <2>2, <2>3
<1>4. fold.rows = SubSeq(rows, 1, i)
  BY <1>1, <1>2, <1>3 DEF Prefix
<1>5. SubSeq(rows \o more, 1, i) = SubSeq(rows, 1, i)
  BY <1>1, <1>3, SubSeqOfConcat1
<1> QED BY <1>4, <1>5

\* Concatenation keeps the order when the second part lies above the first.
LEMMA SortedConcat ==
    ASSUME NEW rows \in Seq(Row), NEW more \in Seq(Row), Sorted(rows), Sorted(more),
           NEW n \in Nat,
           \A i \in DOMAIN rows : rows[i].seq <= n, \A i \in DOMAIN more : more[i].seq > n
    PROVE  Sorted(rows \o more)
<1>1. /\ Len(rows) \in Nat /\ Len(more) \in Nat
      /\ DOMAIN rows = 1..Len(rows) /\ DOMAIN more = 1..Len(more)
      /\ DOMAIN (rows \o more) = 1..(Len(rows) + Len(more))
  BY LenProperties, ConcatProperties
<1>2. \A i \in 1..(Len(rows) + Len(more)) :
        (rows \o more)[i] = IF i <= Len(rows) THEN rows[i] ELSE more[i - Len(rows)]
  BY <1>1, ConcatProperties
<1>3. /\ \A i \in 1..Len(rows) : rows[i].seq \in Nat
      /\ \A i \in 1..Len(more) : more[i].seq \in Nat
  BY RowsTyped
<1> SUFFICES ASSUME NEW i \in DOMAIN (rows \o more), NEW j \in DOMAIN (rows \o more), i < j
             PROVE  (rows \o more)[i].seq < (rows \o more)[j].seq
  BY DEF Sorted
<1>4. CASE j <= Len(rows)
  BY <1>1, <1>2, <1>4 DEF Sorted
<1>5. CASE j > Len(rows) /\ i <= Len(rows)
  <2>1. (rows \o more)[i].seq <= n /\ (rows \o more)[i].seq \in Nat
    BY <1>1, <1>2, <1>3, <1>5
  <2>2. (rows \o more)[j].seq > n /\ (rows \o more)[j].seq \in Nat
    <3>1. j - Len(rows) \in 1..Len(more)
      BY <1>1, <1>5
    <3> QED BY <3>1, <1>1, <1>2, <1>3, <1>5
  <2> QED BY <2>1, <2>2
<1>6. CASE j > Len(rows) /\ i > Len(rows)
  <2>1. i - Len(rows) \in 1..Len(more) /\ j - Len(rows) \in 1..Len(more)
        /\ i - Len(rows) < j - Len(rows)
    BY <1>1, <1>6
  <2> QED BY <2>1, <1>1, <1>2, <1>6 DEF Sorted
<1> QED BY <1>1, <1>4, <1>5, <1>6

-----------------------------------------------------------------------------
(* The inductive invariant. *)

LogInv == \A s \in Sessions : /\ Sorted(log[s])
                              /\ \A i \in DOMAIN log[s] : log[s][i].seq \in 1..seq

\* The rows of the open transaction count on from what is committed.
TxInv == /\ \A i \in DOMAIN tx.rows : tx.rows[i].seq = seq + i
         /\ tx.session = NoSession => tx = NoTx

\* A base that may be folded onto `rows`, the log of a store that has given out
\* n sequence numbers.
Sound(fold, rows, n) == Prefix(fold, rows) /\ LastSeq(fold.rows) <= n

CacheInv == \A s \in Sessions : /\ Sound(cache[s].fold, log[s], seq)
                                /\ cache[s].fold.rows # <<>> => cache[s].fold.by = ver

SnapInv == \A s \in Sessions : Sound(snap[s], log[s], seq)

ReadInv == \A r \in Readers :
    /\ pc[r] = "idle" <=> asked[r] = NoSession
    /\ pc[r] = "idle" => work[r] = NoEntry
    /\ pc[r] # "idle" => Sound(work[r].fold, log[asked[r]], seq)
    /\ Answered(r) \/ work[r].fold.rows # <<>> => work[r].fold.by = ver

IndInv == TypeOK /\ LogInv /\ TxInv /\ CacheInv /\ SnapInv /\ ReadInv

\* LastSeq is a sequence number or zero.
LEMMA LastSeqNat ==
    ASSUME NEW rows \in Seq(Row)
    PROVE  LastSeq(rows) \in Nat
<1>1. CASE rows = <<>>
  BY <1>1 DEF LastSeq
<1>2. CASE rows # <<>>
  <2>1. Len(rows) \in DOMAIN rows
    BY <1>2, EmptySeq, RowsTyped
  <2> QED BY <1>2, <2>1, RowsTyped DEF LastSeq
<1> QED BY <1>1, <1>2

\* The fold of a whole log is a sound base for that log.
LEMMA WholeLogSound ==
    ASSUME NEW rows \in Seq(Row), Sorted(rows), NEW n \in Nat, NEW v,
           \A i \in DOMAIN rows : rows[i].seq <= n
    PROVE  Sound([by |-> v, rows |-> rows], rows, n)
<1>1. LastSeq(rows) <= n
  <2>1. CASE rows = <<>>
    BY <2>1 DEF LastSeq
  <2>2. CASE rows # <<>>
    BY <2>2, EmptySeq, RowsTyped DEF LastSeq
  <2> QED BY <2>1, <2>2
<1>2. ASSUME NEW i \in DOMAIN rows, rows[i].seq = LastSeq(rows), rows # <<>>
      PROVE  rows = SubSeq(rows, 1, i)
  <2>1. i \in 1..Len(rows) /\ Len(rows) \in DOMAIN rows /\ Len(rows) \in Nat
    BY <1>2, EmptySeq, RowsTyped
  <2>2. rows[Len(rows)].seq = rows[i].seq /\ rows[i].seq \in Nat
    BY <1>2, <2>1, RowsTyped DEF LastSeq
  <2>3. i = Len(rows)
    BY <2>1, <2>2 DEF Sorted
  <2> QED BY <2>3, SubSeqFull
<1> QED BY <1>1, <1>2 DEF Sound, Prefix

\* fold() computes what a replay of the whole log computes.
LEMMA FoldOntoIsReplay ==
    ASSUME NEW rows \in Seq(Row), Sorted(rows), NEW fold \in Fold, Prefix(fold, rows),
           fold.rows # <<>> => fold.by = ver
    PROVE  FoldOnto(fold, rows) = FoldNow(rows)
<1>1. CASE Anchored(fold, rows)
  <2>1. fold.rows \o TailFrom(fold, rows) = rows
    BY <1>1, FoldIsReplay
  <2>2. fold.by = ver
    BY <1>1 DEF Anchored
  <2> QED BY <1>1, <2>1, <2>2 DEF FoldOnto, FoldNow, Fold
<1>2. CASE ~Anchored(fold, rows)
  BY <1>2 DEF FoldOnto
<1> QED BY <1>1, <1>2

\* The tail is a sequence of rows.
LEMMA TailTyped ==
    ASSUME NEW rows \in Seq(Row), Sorted(rows), NEW fold \in Fold, Anchored(fold, rows)
    PROVE  TailFrom(fold, rows) \in Seq(Row) /\ Len(TailFrom(fold, rows)) \in Nat
<1>1. PICK i \in 1..Len(rows) : rows[i].seq = LastSeq(fold.rows)
  BY RowsTyped DEF Anchored, AnchorAt
<1>2. TailFrom(fold, rows) = SubSeq(rows, i + 1, Len(rows))
  BY <1>1, TailAfterAnchor
<1>3. i + 1 \in Int /\ Len(rows) \in Int /\ \A j \in (i + 1)..Len(rows) : rows[j] \in Row
  BY RowsTyped
<1>4. SubSeq(rows, i + 1, Len(rows)) \in Seq(Row)
  BY <1>3, SubSeqProperties
<1> QED BY <1>2, <1>4, LenProperties

-----------------------------------------------------------------------------
(* The store: what a step may do to the log. *)

LogStep ==
    /\ seq' \in Nat /\ seq' >= seq
    /\ \A s \in Sessions :
         \/ log'[s] = log[s]
         \/ log'[s] = <<>>
         \/ \E more \in Seq(Row) : /\ log'[s] = log[s] \o more
                                   /\ \A i \in DOMAIN more : more[i].seq > seq

StoreTypeOK ==
    /\ log \in [Sessions -> Seq(Row)]
    /\ seq \in Nat
    /\ tx \in [session : Sessions \cup {NoSession}, rows : Seq(Row), view : Fold]

\* A base that was sound stays sound.
LEMMA SoundKept ==
    ASSUME TypeOK, LogStep, NEW s \in Sessions, NEW f \in Fold, Sound(f, log[s], seq)
    PROVE  Sound(f, log'[s], seq')
<1>1. LastSeq(f.rows) <= seq'
  BY LastSeqNat DEF LogStep, Sound, Fold, TypeOK
<1>2. CASE log'[s] = log[s]
  BY <1>1, <1>2 DEF Sound
<1>3. CASE log'[s] = <<>>
  BY <1>1, <1>3 DEF Sound, Prefix
<1>4. CASE \E more \in Seq(Row) : /\ log'[s] = log[s] \o more
                                  /\ \A i \in DOMAIN more : more[i].seq > seq
  <2>1. PICK more \in Seq(Row) : /\ log'[s] = log[s] \o more
                                 /\ \A i \in DOMAIN more : more[i].seq > seq
    BY <1>4
  <2>2. log[s] \in Seq(Row) /\ seq \in Nat
    BY DEF TypeOK
  <2>3. Prefix(f, log[s] \o more)
    BY <2>1, <2>2, PrefixExtends DEF Sound
  <2> QED BY <1>1, <2>1, <2>3 DEF Sound
<1> QED BY <1>2, <1>3, <1>4 DEF LogStep

\* A session's log grown by rows above all committed ones.
LEMMA Grown ==
    ASSUME TypeOK, LogInv, NEW s \in Sessions, NEW more \in Seq(Row),
           \A i \in DOMAIN more : more[i].seq = seq + i,
           log' = [log EXCEPT ![s] = log[s] \o more], seq' = seq + Len(more)
    PROVE  LogStep /\ LogInv' /\ log' \in [Sessions -> Seq(Row)] /\ seq' \in Nat
<1>1. /\ log[s] \in Seq(Row) /\ seq \in Nat
      /\ Len(more) \in Nat /\ DOMAIN more = 1..Len(more)
  BY RowsTyped DEF TypeOK
<1>2. \A i \in DOMAIN more : more[i].seq > seq /\ more[i].seq \in 1..(seq + Len(more))
  BY <1>1
<1>3. log[s] \o more \in Seq(Row)
  BY <1>1, ConcatProperties
<1>4. log' \in [Sessions -> Seq(Row)] /\ seq' \in Nat
  BY <1>1, <1>3 DEF TypeOK
<1>5. LogStep
  <2>1. seq' \in Nat /\ seq' >= seq
    BY <1>1
  <2>2. \A t \in Sessions : t # s => log'[t] = log[t]
    BY DEF TypeOK
  <2>3. log'[s] = log[s] \o more
    BY DEF TypeOK
  <2> QED BY <1>2, <2>1, <2>2, <2>3 DEF LogStep
<1>6. Sorted(log[s] \o more)
  <2>1. Sorted(more)
    BY <1>1 DEF Sorted
  <2>2. Sorted(log[s]) /\ \A i \in DOMAIN log[s] : log[s][i].seq <= seq
    BY <1>1 DEF LogInv
  <2>3. \A i \in DOMAIN more : more[i].seq > seq
    BY <1>2
  <2> QED BY <1>1, <2>1, <2>2, <2>3, SortedConcat
<1>7. \A i \in DOMAIN (log[s] \o more) : (log[s] \o more)[i].seq \in 1..seq'
  <2> SUFFICES ASSUME NEW i \in DOMAIN (log[s] \o more)
               PROVE  (log[s] \o more)[i].seq \in 1..seq'
    OBVIOUS
  <2>1. /\ DOMAIN log[s] = 1..Len(log[s]) /\ Len(log[s]) \in Nat
        /\ DOMAIN (log[s] \o more) = 1..(Len(log[s]) + Len(more))
        /\ (log[s] \o more)[i] = IF i <= Len(log[s]) THEN log[s][i] ELSE more[i - Len(log[s])]
    BY <1>1, <1>3, RowsTyped, ConcatProperties
  <2>2. CASE i <= Len(log[s])
    <3>1. log[s][i].seq \in 1..seq
      BY <1>1, <2>1, <2>2, RowsTyped DEF LogInv
    <3> QED BY <1>1, <2>1, <2>2, <3>1
  <2>3. CASE i > Len(log[s])
    <3>1. i - Len(log[s]) \in DOMAIN more
      BY <1>1, <2>1, <2>3
    <3> QED BY <1>1, <1>2, <2>1, <2>3, <3>1
  <2> QED BY <2>1, <2>2, <2>3
<1>8. LogInv'
  <2> SUFFICES ASSUME NEW t \in Sessions
               PROVE  Sorted(log'[t]) /\ \A i \in DOMAIN log'[t] : log'[t][i].seq \in 1..seq'
    BY DEF LogInv
  <2>1. CASE t = s
    BY <1>6, <1>7, <2>1 DEF TypeOK
  <2>2. CASE t # s
    <3>1. log'[t] = log[t] /\ log[t] \in Seq(Row)
      BY <2>2 DEF TypeOK
    <3>2. \A i \in DOMAIN log[t] : log[t][i].seq \in 1..seq
      BY <3>1, RowsTyped DEF LogInv
    <3> QED BY <1>1, <3>1, <3>2 DEF LogInv
  <2> QED BY <2>1, <2>2
<1> QED BY <1>4, <1>5, <1>8

\* The next row of the open transaction, or of an append.
LEMMA NextRowTyped ==
    ASSUME TypeOK, NEW e \in Payloads
    PROVE  NextRow(e) \in Row /\ NextRow(e).seq = seq + Len(tx.rows) + 1
<1>1. tx.rows \in Seq(Row) /\ seq \in Nat
  BY DEF TypeOK
<1>2. Len(tx.rows) \in Nat
  BY <1>1, RowsTyped
<1> QED BY <1>1, <1>2 DEF NextRow, Row

\* The fold of a transaction is the replay of the log and of its own rows.
LEMMA TxFoldIsReplay ==
    ASSUME IndInv, TxOpen
    PROVE  /\ FoldOnto(TxBase, InTx) = FoldNow(InTx)
           /\ FoldNow(InTx) \in Fold
<1> DEFINE s == tx.session
<1>1. s \in Sessions /\ log[s] \in Seq(Row) /\ tx.rows \in Seq(Row) /\ seq \in Nat
  BY DEF IndInv, TypeOK, TxOpen
<1>2. /\ \A i \in DOMAIN log[s] : log[s][i].seq <= seq
      /\ Sorted(log[s])
  BY <1>1 DEF IndInv, LogInv
<1>3. /\ Sorted(tx.rows)
      /\ \A i \in DOMAIN tx.rows : tx.rows[i].seq > seq
  <2>1. \A i \in DOMAIN tx.rows : i \in Nat \ {0} /\ tx.rows[i].seq = seq + i
    BY <1>1, RowsTyped DEF IndInv, TxInv
  <2> QED BY <1>1, <2>1 DEF Sorted
<1>4. InTx \in Seq(Row) /\ Sorted(InTx)
  BY <1>1, <1>2, <1>3, ConcatProperties, SortedConcat DEF InTx
<1>5. /\ TxBase \in Fold
      /\ Sound(TxBase, log[s], seq)
      /\ TxBase.rows # <<>> => TxBase.by = ver
  <2>1. CASE cache[s] # NoEntry
    <3>1. TxBase = cache[s].fold
      BY <2>1 DEF TxBase
    <3> QED BY <1>1, <3>1 DEF IndInv, TypeOK, Entry, CacheInv
  <2>2. CASE cache[s] = NoEntry /\ snap[s].by = ver
    <3>1. TxBase = snap[s]
      BY <2>2 DEF TxBase, LoadSnapshot
    <3> QED BY <1>1, <2>2, <3>1 DEF IndInv, TypeOK, SnapInv
  <2>3. CASE cache[s] = NoEntry /\ snap[s].by # ver
    <3>1. TxBase = NoFold
      BY <2>3 DEF TxBase, LoadSnapshot
    <3>2. NoFold \in Fold /\ NoFold.rows = <<>>
      BY EmptySeq DEF NoFold, Fold
    <3> QED BY <1>1, <3>1, <3>2 DEF Sound, Prefix, LastSeq
  <2> QED BY <2>1, <2>2, <2>3
<1>6. Prefix(TxBase, InTx)
  BY <1>1, <1>3, <1>5, PrefixExtends DEF Sound, InTx
<1>7. FoldOnto(TxBase, InTx) = FoldNow(InTx)
  BY <1>4, <1>5, <1>6, FoldOntoIsReplay
<1>8. FoldNow(InTx) \in Fold
  BY <1>4 DEF FoldNow, Fold, IndInv, TypeOK
<1> QED BY <1>7, <1>8

\* Every step keeps the log in order and grows, empties or leaves each session.
LEMMA StoreStep ==
    ASSUME IndInv, [Next]_vars
    PROVE  LogStep /\ LogInv' /\ TxInv' /\ StoreTypeOK'
<1>0. StoreTypeOK /\ LogInv /\ TxInv /\ TypeOK /\ seq \in Nat
  BY DEF IndInv, TypeOK, StoreTypeOK
<1>1. ASSUME UNCHANGED <<log, seq>>
      PROVE  LogStep /\ LogInv' /\ (log \in [Sessions -> Seq(Row)])' /\ (seq \in Nat)'
  BY <1>0, <1>1 DEF LogStep, LogInv, StoreTypeOK
<1>2. NoTx \in [session : Sessions \cup {NoSession}, rows : Seq(Row), view : Fold]
      /\ NoTx.rows = <<>> /\ NoTx.session = NoSession
  BY EmptySeq DEF NoTx, NoFold, Fold
<1>3. ASSUME UNCHANGED <<log, seq>>, tx' = NoTx
      PROVE  LogStep /\ LogInv' /\ TxInv' /\ StoreTypeOK'
  BY <1>1, <1>2, <1>3 DEF TxInv, StoreTypeOK
<1>4. CASE UNCHANGED <<log, seq, tx>>
  BY <1>0, <1>1, <1>4 DEF TxInv, StoreTypeOK
<1>5. ASSUME NEW s \in Sessions, NEW e \in Payloads, AppendEvent(s, e)
      PROVE  LogStep /\ LogInv' /\ TxInv' /\ StoreTypeOK'
  <2>1. tx = NoTx /\ tx' = NoTx /\ Len(tx.rows) = 0
    BY <1>0, <1>2, <1>5, EmptySeq DEF AppendEvent, TxOpen, TxInv
  <2> DEFINE more == <<NextRow(e)>>
  <2>2. NextRow(e) \in Row /\ NextRow(e).seq = seq + 1
    BY <1>0, <2>1, NextRowTyped
  <2>3. more \in Seq(Row) /\ Len(more) = 1 /\ DOMAIN more = 1..1 /\ more[1] = NextRow(e)
    BY <2>2
  <2>4. \A i \in DOMAIN more : more[i].seq = seq + i
    BY <1>0, <2>2, <2>3
  <2>5. log[s] \in Seq(Row)
    BY <1>0 DEF TypeOK
  <2>6. log' = [log EXCEPT ![s] = log[s] \o more] /\ seq' = seq + Len(more)
    BY <1>5, <2>2, <2>3, <2>5, AppendIsConcat DEF AppendEvent
  <2> HIDE DEF more
  <2>7. LogStep /\ LogInv' /\ log' \in [Sessions -> Seq(Row)] /\ seq' \in Nat
    BY <1>0, <2>3, <2>4, <2>6, Grown
  <2> QED BY <1>2, <2>1, <2>7 DEF TxInv, StoreTypeOK
<1>6. ASSUME NEW s \in Sessions, TxBegin(s)
      PROVE  LogStep /\ LogInv' /\ TxInv' /\ StoreTypeOK'
  <2>1. UNCHANGED <<log, seq>> /\ tx' = [NoTx EXCEPT !.session = s] /\ s # NoSession
    BY <1>6, CacheAssumption DEF TxBegin
  <2>2. tx'.rows = <<>> /\ tx'.session = s
        /\ tx' \in [session : Sessions \cup {NoSession}, rows : Seq(Row), view : Fold]
    BY <1>2, <2>1 DEF NoTx
  <2> QED BY <1>1, <2>1, <2>2 DEF TxInv, StoreTypeOK
<1>7. ASSUME NEW e \in Payloads, TxAppend(e)
      PROVE  LogStep /\ LogInv' /\ TxInv' /\ StoreTypeOK'
  <2>1. UNCHANGED <<log, seq>> /\ tx' = [tx EXCEPT !.rows = Append(tx.rows, NextRow(e))]
        /\ tx.session # NoSession
    BY <1>7 DEF TxAppend, TxOpen
  <2>2. tx.rows \in Seq(Row) /\ NextRow(e) \in Row /\ NextRow(e).seq = seq + Len(tx.rows) + 1
    BY <1>0, NextRowTyped DEF TypeOK
  <2>3. /\ Append(tx.rows, NextRow(e)) \in Seq(Row)
        /\ Len(Append(tx.rows, NextRow(e))) = Len(tx.rows) + 1
        /\ \A i \in 1..Len(tx.rows) : Append(tx.rows, NextRow(e))[i] = tx.rows[i]
        /\ Append(tx.rows, NextRow(e))[Len(tx.rows) + 1] = NextRow(e)
    BY <2>2, AppendProperties
  <2>4. /\ Len(tx.rows) \in Nat /\ DOMAIN tx.rows = 1..Len(tx.rows)
        /\ DOMAIN Append(tx.rows, NextRow(e)) = 1..(Len(tx.rows) + 1)
    BY <2>2, <2>3, RowsTyped
  <2>5. \A i \in DOMAIN Append(tx.rows, NextRow(e)) :
          Append(tx.rows, NextRow(e))[i].seq = seq + i
    <3> SUFFICES ASSUME NEW i \in 1..(Len(tx.rows) + 1)
                 PROVE  Append(tx.rows, NextRow(e))[i].seq = seq + i
      BY <2>4
    <3>1. CASE i \in 1..Len(tx.rows)
      BY <1>0, <2>3, <2>4, <3>1 DEF TxInv
    <3>2. CASE i = Len(tx.rows) + 1
      BY <1>0, <2>2, <2>3, <2>4, <3>2
    <3> QED BY <2>4, <3>1, <3>2
  <2>6. /\ tx'.rows = Append(tx.rows, NextRow(e)) /\ tx'.session = tx.session
        /\ tx' \in [session : Sessions \cup {NoSession}, rows : Seq(Row), view : Fold]
    BY <1>0, <2>1, <2>3 DEF TypeOK
  <2> QED BY <1>1, <2>1, <2>5, <2>6 DEF TxInv, StoreTypeOK
<1>8. CASE TxFold
  <2>1. UNCHANGED <<log, seq>> /\ tx.session # NoSession
        /\ tx' = [tx EXCEPT !.view = FoldOnto(TxBase, InTx)]
    BY <1>8 DEF TxFold, TxOpen
  <2>2. FoldOnto(TxBase, InTx) \in Fold
    BY <2>1, TxFoldIsReplay DEF TxOpen
  <2>3. /\ tx'.rows = tx.rows /\ tx'.session = tx.session
        /\ tx' \in [session : Sessions \cup {NoSession}, rows : Seq(Row), view : Fold]
    BY <1>0, <2>1, <2>2 DEF TypeOK
  <2> QED BY <1>0, <1>1, <2>1, <2>3 DEF TxInv, StoreTypeOK
<1>9. CASE TxCommit
  <2>1. /\ tx.session \in Sessions /\ tx.rows \in Seq(Row)
        /\ \A i \in DOMAIN tx.rows : tx.rows[i].seq = seq + i
    BY <1>0, <1>9 DEF TypeOK, TxInv, TxCommit, TxOpen
  <2>2. /\ log' = [log EXCEPT ![tx.session] = log[tx.session] \o tx.rows]
        /\ seq' = seq + Len(tx.rows) /\ tx' = NoTx
    BY <1>9 DEF TxCommit, InTx
  <2>3. LogStep /\ LogInv' /\ log' \in [Sessions -> Seq(Row)] /\ seq' \in Nat
    BY <1>0, <2>1, <2>2, Grown
  <2> QED BY <1>2, <2>2, <2>3 DEF TxInv, StoreTypeOK
<1>10. CASE TxRollback
  BY <1>3, <1>10 DEF TxRollback
<1>11. ASSUME NEW s \in Sessions, Erase(s)
       PROVE  LogStep /\ LogInv' /\ TxInv' /\ StoreTypeOK'
  <2>1. /\ log' = [t \in Sessions |-> IF t \in Tree(s) THEN <<>> ELSE log[t]]
        /\ seq' = seq /\ tx' = tx
    BY <1>11 DEF Erase
  <2>2. <<>> \in Seq(Row) /\ Sorted(<<>>) /\ DOMAIN <<>> = {}
    BY EmptySeq DEF Sorted
  <2>3. \A t \in Sessions : log'[t] = <<>> \/ log'[t] = log[t]
    BY <2>1
  <2>4. log' \in [Sessions -> Seq(Row)]
    BY <1>0, <2>1, <2>2 DEF TypeOK
  <2>5. LogStep
    BY <1>0, <2>1, <2>3 DEF LogStep
  <2>6. LogInv'
    BY <1>0, <2>1, <2>2, <2>3 DEF LogInv
  <2> QED BY <1>0, <2>1, <2>4, <2>5, <2>6 DEF TxInv, StoreTypeOK
<1>12. ASSUME NEW v \in Versions, Restart(v)
       PROVE  LogStep /\ LogInv' /\ TxInv' /\ StoreTypeOK'
  BY <1>3, <1>12 DEF Restart
<1>13. ASSUME NEW r \in Readers, Read(r)
       PROVE  UNCHANGED <<log, seq, tx>>
  BY <1>13 DEF Read, Load, FoldTail, Unanchored, FoldFull, Forget, Persist, Put, Return,
               ReadFails, store
<1>14. ASSUME NEW r \in Readers, NEW s \in Sessions, Hit(r, s) \/ Miss(r, s)
       PROVE  UNCHANGED <<log, seq, tx>>
  BY <1>14 DEF Hit, Miss, store
<1>15. ASSUME NEW s \in Sessions, RemoveAll(s)
       PROVE  UNCHANGED <<log, seq, tx>>
  BY <1>15 DEF RemoveAll, store
<1>16. ASSUME NEW r \in Readers, DeleteAt(r)
       PROVE  Erase(asked[r]) /\ asked[r] \in Sessions
  BY <1>16 DEF DeleteAt, IndInv, ReadInv, TypeOK
<1>17. CASE UNCHANGED vars
  BY <1>4, <1>17 DEF vars, store
<1> QED
  BY <1>4, <1>5, <1>6, <1>7, <1>8, <1>9, <1>10, <1>11, <1>12, <1>13, <1>14, <1>15, <1>16,
     <1>17 DEF Next, Delete

-----------------------------------------------------------------------------
(* The reads. *)

Working(r) == pc[r] \in {"folded", "put"}

\* The empty fold is a base for any log.
LEMMA NoFoldSound ==
    ASSUME NEW rows, NEW n \in Nat
    PROVE  /\ NoFold \in Fold /\ NoEntry \in Entry
           /\ NoEntry.fold = NoFold /\ NoFold.rows = <<>>
           /\ Sound(NoFold, rows, n)
<1>1. NoFold \in Fold /\ NoFold.rows = <<>>
  BY EmptySeq DEF NoFold, Fold
<1> QED BY <1>1 DEF NoEntry, Entry, Sound, Prefix, LastSeq

\* An entry with another fold and more folded rows.
LEMMA EntryUpdate ==
    ASSUME NEW e \in Entry, NEW f \in Fold, NEW k \in Nat
    PROVE  /\ [e EXCEPT !.fold = f, !.unpersisted = @ + k] \in Entry
           /\ [e EXCEPT !.fold = f, !.unpersisted = @ + k].fold = f
<1>1. e.unpersisted + k \in Nat
  BY DEF Entry
<1> QED BY <1>1 DEF Entry

\* A reader in its read has a base for the log it asked for.
LEMMA ReaderTyped ==
    ASSUME IndInv, NEW r \in Readers, pc[r] # "idle"
    PROVE  /\ asked[r] \in Sessions /\ log[asked[r]] \in Seq(Row)
           /\ work[r] \in Entry /\ work[r].fold \in Fold /\ work[r].fold.rows \in Seq(Row)
           /\ work[r].persisted \in Nat /\ work[r].unpersisted \in Nat
           /\ LastSeq(work[r].fold.rows) \in Nat
           /\ Sound(work[r].fold, log[asked[r]], seq)
           /\ Sorted(log[asked[r]])
           /\ \A i \in DOMAIN log[asked[r]] : log[asked[r]][i].seq <= seq
<1>1. asked[r] \in Sessions /\ Sound(work[r].fold, log[asked[r]], seq)
  BY DEF IndInv, ReadInv, TypeOK
<1>2. /\ log[asked[r]] \in Seq(Row) /\ seq \in Nat
      /\ work[r] \in Entry /\ work[r].fold \in Fold /\ work[r].fold.rows \in Seq(Row)
      /\ work[r].persisted \in Nat /\ work[r].unpersisted \in Nat
  BY <1>1 DEF IndInv, TypeOK, Entry, Fold
<1>3. Sorted(log[asked[r]]) /\ \A i \in DOMAIN log[asked[r]] : log[asked[r]][i].seq <= seq
  BY <1>1, <1>2 DEF IndInv, LogInv
<1> QED BY <1>1, <1>2, <1>3, LastSeqNat

\* What a step leaves in the cache was there, or is the fold of a read of that
\* session.
LEMMA CacheStep ==
    ASSUME IndInv, [Next]_vars
    PROVE  /\ cache' \in [Sessions -> Entry] /\ CacheInv'
<1>0. LogStep /\ seq' \in Nat /\ TypeOK
  BY StoreStep DEF LogStep, IndInv
<1>1. NoEntry \in Entry /\ cache \in [Sessions -> Entry]
  BY <1>0, NoFoldSound DEF TypeOK
<1>2. ASSUME ver' = ver, cache' \in [Sessions -> Entry],
             \A s \in Sessions : \/ cache'[s] = cache[s]
                                 \/ cache'[s] = NoEntry
                                 \/ \E r \in Readers : Working(r) /\ asked[r] = s
                                                        /\ cache'[s] = work[r]
      PROVE  cache' \in [Sessions -> Entry] /\ CacheInv'
  <2> SUFFICES ASSUME NEW s \in Sessions
               PROVE  /\ Sound(cache'[s].fold, log'[s], seq')
                      /\ cache'[s].fold.rows # <<>> => cache'[s].fold.by = ver'
    BY <1>2 DEF CacheInv
  <2>1. CASE cache'[s] = cache[s]
    <3>1. cache[s].fold \in Fold
      BY <1>1 DEF Entry
    <3> QED BY <1>0, <1>2, <2>1, <3>1, SoundKept DEF IndInv, CacheInv
  <2>2. CASE cache'[s] = NoEntry
    BY <1>0, <2>2, NoFoldSound
  <2>3. CASE \E r \in Readers : Working(r) /\ asked[r] = s /\ cache'[s] = work[r]
    <3>1. PICK r \in Readers : Working(r) /\ asked[r] = s /\ cache'[s] = work[r]
      BY <2>3
    <3>2. work[r].fold \in Fold /\ Sound(work[r].fold, log[s], seq) /\ work[r].fold.by = ver
      BY <3>1, ReaderTyped DEF Working, IndInv, ReadInv, Answered
    <3> QED BY <1>0, <1>2, <3>1, <3>2, SoundKept
  <2> QED BY <1>2, <2>1, <2>2, <2>3
<1>3. ASSUME UNCHANGED <<cache, ver>>
      PROVE  cache' \in [Sessions -> Entry] /\ CacheInv'
  BY <1>1, <1>2, <1>3
<1>4. ASSUME NEW r \in Readers, Forget(r)
      PROVE  cache' \in [Sessions -> Entry] /\ CacheInv'
  BY <1>1, <1>2, <1>4 DEF Forget
<1>5. ASSUME NEW r \in Readers, Put(r)
      PROVE  cache' \in [Sessions -> Entry] /\ CacheInv'
  <2>1. Working(r) /\ work[r] \in Entry /\ ver' = ver
    BY <1>5, ReaderTyped DEF Put, Working
  <2>2. CASE UNCHANGED cache
    BY <1>3, <2>1, <2>2
  <2>3. CASE \E out : cache' = [t \in Sessions |->
               IF t = asked[r] THEN work[r] ELSE IF t \in out THEN NoEntry ELSE cache[t]]
    BY <1>1, <1>2, <2>1, <2>3
  <2> QED BY <1>5, <2>2, <2>3 DEF Put
<1>6. ASSUME NEW s \in Sessions, RemoveAll(s)
      PROVE  cache' \in [Sessions -> Entry] /\ CacheInv'
  BY <1>1, <1>2, <1>6 DEF RemoveAll
<1>7. ASSUME NEW v \in Versions, Restart(v)
      PROVE  cache' \in [Sessions -> Entry] /\ CacheInv'
  <2>1. cache' = [s \in Sessions |-> NoEntry]
    BY <1>7 DEF Restart
  <2> QED BY <1>0, <1>1, <2>1, NoFoldSound DEF CacheInv
<1>8. ASSUME NEW r \in Readers, NEW s \in Sessions, Hit(r, s) \/ Miss(r, s)
      PROVE  UNCHANGED <<cache, ver>>
  BY <1>8 DEF Hit, Miss
<1>9. ASSUME NEW r \in Readers, Read(r), ~Forget(r), ~Put(r)
      PROVE  UNCHANGED <<cache, ver>>
  BY <1>9 DEF Read, Load, FoldTail, Unanchored, FoldFull, Persist, Return, ReadFails
<1>10. ASSUME \/ \E r \in Readers : DeleteAt(r)
              \/ \E s \in Sessions, e \in Payloads : AppendEvent(s, e)
              \/ \E s \in Sessions : TxBegin(s) \/ Delete(s)
              \/ \E e \in Payloads : TxAppend(e)
              \/ TxFold \/ TxCommit \/ TxRollback
              \/ UNCHANGED vars
       PROVE  UNCHANGED <<cache, ver>>
  BY <1>10 DEF DeleteAt, Delete, Erase, AppendEvent, TxBegin, TxAppend, TxFold, TxCommit,
               TxRollback, vars
<1> QED
  BY <1>3, <1>4, <1>5, <1>6, <1>7, <1>8, <1>9, <1>10 DEF Next

\* What a step leaves as a snapshot was one, or is the fold of a read of that
\* session, anchored in its log.
LEMMA SnapStep ==
    ASSUME IndInv, [Next]_vars
    PROVE  /\ snap' \in [Sessions -> Fold] /\ SnapInv'
           /\ SnapshotAnchored => SnapshotAnchored'
<1>0. LogStep /\ seq' \in Nat /\ TypeOK /\ snap \in [Sessions -> Fold]
  BY StoreStep DEF LogStep, IndInv, TypeOK
<1>1. ASSUME UNCHANGED snap, \A s \in Sessions : log'[s] = log[s]
                                 \/ \E more \in Seq(Row) : log'[s] = log[s] \o more
      PROVE  /\ snap' \in [Sessions -> Fold] /\ SnapInv'
             /\ SnapshotAnchored => SnapshotAnchored'
  <2>1. SnapInv'
    BY <1>0, <1>1, SoundKept DEF SnapInv, IndInv
  <2>2. ASSUME NEW s \in Sessions, NEW n, AnchorAt(log[s], n) # {}
        PROVE  AnchorAt(log'[s], n) # {}
    <3>1. CASE log'[s] = log[s]
      BY <2>2, <3>1
    <3>2. CASE \E more \in Seq(Row) : log'[s] = log[s] \o more
      <4>1. PICK more \in Seq(Row) : log'[s] = log[s] \o more
        BY <3>2
      <4>2. log[s] \in Seq(Row)
        BY <1>0 DEF TypeOK
      <4>3. PICK i \in DOMAIN log[s] : log[s][i].seq = n
        BY <2>2 DEF AnchorAt
      <4>4. /\ Len(log[s]) \in Nat /\ Len(more) \in Nat /\ i \in 1..Len(log[s])
            /\ DOMAIN (log[s] \o more) = 1..(Len(log[s]) + Len(more))
        BY <4>2, <4>3, LenProperties, ConcatProperties
      <4>5. i \in DOMAIN (log[s] \o more) /\ (log[s] \o more)[i] = log[s][i]
        BY <4>2, <4>4, ConcatProperties
      <4> QED BY <4>1, <4>3, <4>5 DEF AnchorAt
    <3> QED BY <1>1, <3>1, <3>2
  <2> QED BY <1>0, <1>1, <2>1, <2>2 DEF SnapshotAnchored
<1>2. ASSUME NEW r \in Readers, Persist(r)
      PROVE  /\ snap' \in [Sessions -> Fold] /\ SnapInv'
             /\ SnapshotAnchored => SnapshotAnchored'
  <2>1. pc[r] = "folded" /\ UNCHANGED <<log, seq>>
    BY <1>2 DEF Persist, Step
  <2>2. asked[r] \in Sessions /\ work[r].fold \in Fold /\ Sound(work[r].fold, log[asked[r]], seq)
    BY <2>1, ReaderTyped
  <2>3. CASE UNCHANGED snap
    BY <1>1, <2>1, <2>3
  <2>4. CASE /\ snap' = [snap EXCEPT ![asked[r]] = work[r].fold]
             /\ AnchorAt(log[asked[r]], LastSeq(work[r].fold.rows)) # {}
    BY <1>0, <2>1, <2>2, <2>4 DEF SnapInv, SnapshotAnchored, IndInv
  <2> QED BY <1>2, <2>3, <2>4 DEF Persist, Upsert
<1>3. ASSUME NEW s \in Sessions, Erase(s)
      PROVE  /\ snap' \in [Sessions -> Fold] /\ SnapInv'
             /\ SnapshotAnchored => SnapshotAnchored'
  <2>1. /\ log' = [t \in Sessions |-> IF t \in Tree(s) THEN <<>> ELSE log[t]]
        /\ snap' = [t \in Sessions |-> IF t \in Tree(s) THEN NoFold ELSE snap[t]]
    BY <1>3 DEF Erase
  <2>2. snap' \in [Sessions -> Fold]
    BY <1>0, <2>1, NoFoldSound
  <2>3. SnapInv'
    <3> SUFFICES ASSUME NEW t \in Sessions PROVE Sound(snap'[t], log'[t], seq')
      BY DEF SnapInv
    <3>1. CASE t \in Tree(s)
      BY <1>0, <2>1, <3>1, NoFoldSound
    <3>2. CASE t \notin Tree(s)
      BY <1>0, <2>1, <3>2, SoundKept DEF SnapInv, IndInv
    <3> QED BY <3>1, <3>2
  <2> QED BY <2>1, <2>2, <2>3 DEF SnapshotAnchored
<1>4. ASSUME NEW s \in Sessions, NEW e \in Payloads, AppendEvent(s, e)
      PROVE  /\ snap' \in [Sessions -> Fold] /\ SnapInv'
             /\ SnapshotAnchored => SnapshotAnchored'
  <2>1. /\ UNCHANGED snap /\ log' = [log EXCEPT ![s] = Append(log[s], NextRow(e))]
        /\ NextRow(e) \in Row /\ log[s] \in Seq(Row)
    BY <1>0, <1>4, NextRowTyped DEF AppendEvent, TypeOK
  <2>2. <<NextRow(e)>> \in Seq(Row)
    BY <2>1
  <2>3. Append(log[s], NextRow(e)) = log[s] \o <<NextRow(e)>>
    BY <2>1, AppendIsConcat
  <2> QED BY <1>0, <1>1, <2>1, <2>2, <2>3 DEF TypeOK
<1>5. CASE TxCommit
  <2>1. /\ UNCHANGED snap /\ tx.rows \in Seq(Row)
        /\ log' = [log EXCEPT ![tx.session] = log[tx.session] \o tx.rows]
    BY <1>0, <1>5 DEF TxCommit, InTx, TypeOK
  <2> QED BY <1>0, <1>1, <2>1 DEF TypeOK
<1>6. ASSUME NEW r \in Readers, NEW s \in Sessions, Hit(r, s) \/ Miss(r, s)
      PROVE  UNCHANGED <<log, snap>>
  BY <1>6 DEF Hit, Miss, store
<1>7. ASSUME NEW r \in Readers, Read(r), ~Persist(r)
      PROVE  UNCHANGED <<log, snap>>
  BY <1>7 DEF Read, Load, FoldTail, Unanchored, FoldFull, Forget, Put, Return, ReadFails, store
<1>8. ASSUME \/ \E s \in Sessions : TxBegin(s) \/ RemoveAll(s)
             \/ \E e \in Payloads : TxAppend(e)
             \/ \E v \in Versions : Restart(v)
             \/ TxFold \/ TxRollback
             \/ UNCHANGED vars
       PROVE  UNCHANGED <<log, snap>>
  BY <1>8 DEF TxBegin, RemoveAll, TxAppend, Restart, TxFold, TxRollback, vars, store
<1>9. ASSUME NEW r \in Readers, DeleteAt(r)
       PROVE  Erase(asked[r]) /\ asked[r] \in Sessions
  BY <1>9 DEF DeleteAt, IndInv, ReadInv, TypeOK
<1> QED
  BY <1>1, <1>2, <1>3, <1>4, <1>5, <1>6, <1>7, <1>8, <1>9 DEF Next, Delete

ReadTypeOK ==
    /\ ver \in Versions
    /\ purge \subseteq Sessions
    /\ pc \in [Readers -> {"idle", "load", "tail", "full", "folded", "put", "done"}]
    /\ asked \in [Readers -> Sessions \cup {NoSession}]
    /\ work \in [Readers -> Entry]

ReaderInv(r) ==
    /\ pc[r] = "idle" <=> asked[r] = NoSession
    /\ pc[r] = "idle" => work[r] = NoEntry
    /\ pc[r] # "idle" => Sound(work[r].fold, log[asked[r]], seq)
    /\ Answered(r) \/ work[r].fold.rows # <<>> => work[r].fold.by = ver

\* A reader that does not move keeps its base.
LEMMA ReaderKept ==
    ASSUME IndInv, LogStep, NEW q \in Readers, ver' = ver,
           pc'[q] = pc[q], asked'[q] = asked[q], work'[q] = work[q]
    PROVE  ReaderInv(q)'
<1>1. CASE pc[q] = "idle"
  BY <1>1 DEF ReaderInv, IndInv, ReadInv, Answered
<1>2. CASE pc[q] # "idle"
  <2>1. Sound(work[q].fold, log'[asked[q]], seq')
    BY <1>2, ReaderTyped, SoundKept DEF IndInv
  <2> QED BY <1>2, <2>1 DEF ReaderInv, IndInv, ReadInv, Answered
<1> QED BY <1>1, <1>2

\* A step of one reader, or of none, keeps every reader's base.
LEMMA OneReader ==
    ASSUME IndInv, LogStep, NEW r \in Readers, UNCHANGED <<ver, purge>>,
           NEW p \in {"idle", "load", "tail", "full", "folded", "put", "done"},
           NEW a \in Sessions \cup {NoSession}, NEW w \in Entry,
           pc' = [pc EXCEPT ![r] = p], asked' = [asked EXCEPT ![r] = a],
           work' = [work EXCEPT ![r] = w],
           p = "idle" <=> a = NoSession, p = "idle" => w = NoEntry,
           p # "idle" => Sound(w.fold, log'[a], seq'),
           p \in {"folded", "put", "done"} \/ w.fold.rows # <<>> => w.fold.by = ver
    PROVE  ReadTypeOK' /\ ReadInv'
<1>1. TypeOK
  BY DEF IndInv
<1>2. ReadTypeOK'
  BY <1>1 DEF TypeOK, ReadTypeOK
<1>3. pc'[r] = p /\ asked'[r] = a /\ work'[r] = w
  BY <1>1 DEF TypeOK
<1>4. ReaderInv(r)'
  BY <1>3 DEF ReaderInv, Answered
<1>5. \A q \in Readers : q # r => ReaderInv(q)'
  BY <1>1, ReaderKept DEF TypeOK
<1> QED BY <1>2, <1>4, <1>5 DEF ReadInv, ReaderInv

\* The fold a read makes is the replay of the log it read.
LEMMA ReadIsReplay ==
    ASSUME IndInv, NEW r \in Readers, pc[r] = "tail", Anchored(work[r].fold, log[asked[r]])
    PROVE  /\ FoldOnto(work[r].fold, log[asked[r]]) = FoldNow(log[asked[r]])
           /\ Len(TailFrom(work[r].fold, log[asked[r]])) \in Nat
<1>1. /\ log[asked[r]] \in Seq(Row) /\ Sorted(log[asked[r]]) /\ work[r].fold \in Fold
      /\ Prefix(work[r].fold, log[asked[r]])
  BY ReaderTyped DEF Sound
<1>2. work[r].fold.rows # <<>> => work[r].fold.by = ver
  BY DEF IndInv, ReadInv
<1> QED BY <1>1, <1>2, FoldOntoIsReplay, TailTyped

\* The whole log, folded by this build, is a base for it.
LEMMA ReplaySound ==
    ASSUME IndInv, NEW s \in Sessions
    PROVE  /\ FoldNow(log[s]) \in Fold /\ FoldNow(log[s]).by = ver
           /\ Sound(FoldNow(log[s]), log[s], seq) /\ Len(log[s]) \in Nat
<1>1. log[s] \in Seq(Row) /\ seq \in Nat /\ ver \in Versions
  BY DEF IndInv, TypeOK
<1>2. Sorted(log[s]) /\ \A i \in DOMAIN log[s] : log[s][i].seq <= seq
  BY <1>1 DEF IndInv, LogInv
<1>3. Sound(FoldNow(log[s]), log[s], seq)
  BY <1>1, <1>2, WholeLogSound DEF FoldNow
<1> QED BY <1>1, <1>3, RowsTyped DEF FoldNow, Fold

\* Every step keeps the bases of the reads sound.
LEMMA ReadStep ==
    ASSUME IndInv, [Next]_vars
    PROVE  ReadTypeOK' /\ ReadInv'
<1>0. LogStep /\ TypeOK /\ ReadTypeOK /\ seq \in Nat
  BY StoreStep DEF IndInv, TypeOK, ReadTypeOK
<1>1. ASSUME UNCHANGED <<ver, pc, asked, work>>, purge' \subseteq Sessions
      PROVE  ReadTypeOK' /\ ReadInv'
  <2>1. \A q \in Readers : ReaderInv(q)'
    BY <1>0, <1>1, ReaderKept
  <2> QED BY <1>0, <1>1, <2>1 DEF ReadTypeOK, ReadInv, ReaderInv
<1>2. ASSUME NEW r \in Readers, NEW s \in Sessions, Hit(r, s)
      PROVE  ReadTypeOK' /\ ReadInv'
  <2>1. /\ cache[s] \in Entry /\ Sound(cache[s].fold, log[s], seq)
        /\ cache[s].fold.rows # <<>> => cache[s].fold.by = ver
    BY <1>0 DEF IndInv, CacheInv, TypeOK
  <2>2. /\ UNCHANGED <<log, seq, ver, purge>> /\ pc' = [pc EXCEPT ![r] = "tail"]
        /\ asked' = [asked EXCEPT ![r] = s] /\ work' = [work EXCEPT ![r] = cache[s]]
    BY <1>2 DEF Hit, Step, store
  <2>3. s # NoSession
    BY CacheAssumption
  <2> QED BY <1>0, <2>1, <2>2, <2>3, OneReader
<1>3. ASSUME NEW r \in Readers, NEW s \in Sessions, Miss(r, s)
      PROVE  ReadTypeOK' /\ ReadInv'
  <2>1. /\ UNCHANGED <<log, seq, ver, purge, work>> /\ pc[r] = "idle"
        /\ pc' = [pc EXCEPT ![r] = "load"] /\ asked' = [asked EXCEPT ![r] = s]
    BY <1>3 DEF Miss, Step, store
  <2>2. work[r] = NoEntry
    BY <2>1 DEF IndInv, ReadInv
  <2>3. work' = [work EXCEPT ![r] = NoEntry]
    BY <1>0, <2>1, <2>2 DEF TypeOK
  <2>4. NoEntry \in Entry /\ Sound(NoEntry.fold, log[s], seq) /\ NoEntry.fold.rows = <<>>
    BY <1>0, NoFoldSound
  <2>5. s # NoSession
    BY CacheAssumption
  <2> QED BY <1>0, <2>1, <2>3, <2>4, <2>5, OneReader
<1>4. ASSUME NEW r \in Readers, Load(r)
      PROVE  ReadTypeOK' /\ ReadInv'
  <2> DEFINE f == LoadSnapshot(asked[r])
             w == SnapshotBase(f)
  <2>1. /\ UNCHANGED <<log, seq, ver, purge, asked>> /\ pc[r] = "load"
        /\ pc' = [pc EXCEPT ![r] = "tail"] /\ work' = [work EXCEPT ![r] = w]
    BY <1>4 DEF Load, Step, store
  <2>2. asked[r] \in Sessions
    BY <2>1, ReaderTyped
  <2>3. f \in Fold /\ Sound(f, log[asked[r]], seq) /\ (f.rows # <<>> => f.by = ver)
    <3>1. CASE snap[asked[r]].by = ver
      BY <1>0, <2>2, <3>1 DEF LoadSnapshot, IndInv, SnapInv, TypeOK
    <3>2. CASE snap[asked[r]].by # ver
      BY <1>0, <3>2, NoFoldSound DEF LoadSnapshot
    <3> QED BY <3>1, <3>2
  <2>4. w \in Entry /\ w.fold = f
    <3>1. LastSeq(f.rows) \in Nat
      BY <2>3, LastSeqNat DEF Fold
    <3> QED BY <2>3, <3>1 DEF SnapshotBase, Entry
  <2>5. asked' = [asked EXCEPT ![r] = asked[r]] /\ asked[r] # NoSession
    BY <1>0, <2>1, <2>2, CacheAssumption DEF TypeOK
  <2> HIDE DEF f, w
  <2> QED BY <1>0, <2>1, <2>2, <2>3, <2>4, <2>5, OneReader
<1>5. ASSUME NEW r \in Readers, FoldTail(r)
      PROVE  ReadTypeOK' /\ ReadInv'
  <2> DEFINE tail == TailFrom(work[r].fold, log[asked[r]])
             w == [work[r] EXCEPT !.fold = FoldOnto(work[r].fold, log[asked[r]]),
                                  !.unpersisted = @ + Len(tail)]
  <2>1. /\ UNCHANGED <<log, seq, ver, purge, asked>> /\ pc[r] = "tail"
        /\ Anchored(work[r].fold, log[asked[r]])
        /\ pc' = [pc EXCEPT ![r] = "folded"] /\ work' = [work EXCEPT ![r] = w]
    BY <1>5 DEF FoldTail, Step, store
  <2>2. /\ asked[r] \in Sessions /\ work[r] \in Entry /\ work[r].unpersisted \in Nat
    BY <2>1, ReaderTyped
  <2>3. FoldOnto(work[r].fold, log[asked[r]]) = FoldNow(log[asked[r]]) /\ Len(tail) \in Nat
    BY <2>1, ReadIsReplay
  <2>4. w \in Entry /\ w.fold = FoldNow(log[asked[r]])
    <3> DEFINE e == work[r]
               f == FoldOnto(work[r].fold, log[asked[r]])
               k == Len(tail)
    <3>1. f \in Fold /\ e \in Entry /\ k \in Nat
      BY <2>2, <2>3, ReplaySound
    <3>2. w = [e EXCEPT !.fold = f, !.unpersisted = @ + k]
      OBVIOUS
    <3> HIDE DEF e, f, k, w
    <3>3. w \in Entry /\ w.fold = f
      BY <3>1, <3>2, EntryUpdate
    <3> QED BY <2>3, <3>3 DEF f
  <2>5. asked' = [asked EXCEPT ![r] = asked[r]] /\ asked[r] # NoSession
    BY <1>0, <2>1, <2>2, CacheAssumption DEF TypeOK
  <2> HIDE DEF w
  <2> QED BY <1>0, <2>1, <2>2, <2>4, <2>5, ReplaySound, OneReader
<1>6. ASSUME NEW r \in Readers, Unanchored(r)
      PROVE  ReadTypeOK' /\ ReadInv'
  <2>1. /\ UNCHANGED <<log, seq, ver, purge, asked>> /\ pc[r] = "tail"
        /\ pc' = [pc EXCEPT ![r] = "full"] /\ work' = [work EXCEPT ![r] = NoEntry]
    BY <1>6 DEF Unanchored, Step, store
  <2>2. asked[r] \in Sessions
    BY <2>1, ReaderTyped
  <2>3. NoEntry \in Entry /\ Sound(NoEntry.fold, log[asked[r]], seq) /\ NoEntry.fold.rows = <<>>
    BY <1>0, NoFoldSound
  <2>4. asked' = [asked EXCEPT ![r] = asked[r]] /\ asked[r] # NoSession
    BY <1>0, <2>1, <2>2, CacheAssumption DEF TypeOK
  <2> QED BY <1>0, <2>1, <2>2, <2>3, <2>4, OneReader
<1>7. ASSUME NEW r \in Readers, FoldFull(r)
      PROVE  ReadTypeOK' /\ ReadInv'
  <2> DEFINE w == [fold |-> FoldNow(log[asked[r]]), persisted |-> 0,
                   unpersisted |-> Len(log[asked[r]])]
  <2>1. /\ UNCHANGED <<log, seq, ver, purge, asked>> /\ pc[r] = "full"
        /\ pc' = [pc EXCEPT ![r] = "folded"] /\ work' = [work EXCEPT ![r] = w]
    BY <1>7 DEF FoldFull, Step, store
  <2>2. asked[r] \in Sessions
    BY <2>1, ReaderTyped
  <2>3. w \in Entry /\ w.fold = FoldNow(log[asked[r]])
    BY <2>2, ReplaySound DEF Entry
  <2>4. asked' = [asked EXCEPT ![r] = asked[r]] /\ asked[r] # NoSession
    BY <1>0, <2>1, <2>2, CacheAssumption DEF TypeOK
  <2> HIDE DEF w
  <2> QED BY <1>0, <2>1, <2>2, <2>3, <2>4, ReplaySound, OneReader
<1>8. ASSUME NEW r \in Readers, Forget(r) \/ Put(r) \/ Persist(r)
      PROVE  ReadTypeOK' /\ ReadInv'
  <2> DEFINE w == IF Persist(r) THEN SnapshotBase(work[r].fold)
                                ELSE [NoEntry EXCEPT !.fold = work[r].fold]
             p == IF Persist(r) THEN "put" ELSE "done"
  <2>1. /\ UNCHANGED <<log, seq, ver, purge, asked>> /\ Working(r)
        /\ pc' = [pc EXCEPT ![r] = p] /\ work' = [work EXCEPT ![r] = w]
    <3>1. CASE Persist(r)
      BY <3>1 DEF Persist, Step, Working
    <3>2. CASE ~Persist(r) /\ Forget(r)
      BY <3>2 DEF Forget, Step, Working, store
    <3>3. CASE ~Persist(r) /\ Put(r)
      BY <3>3 DEF Put, Working, store
    <3> QED BY <1>8, <3>1, <3>2, <3>3
  <2>2. /\ asked[r] \in Sessions /\ work[r].fold \in Fold /\ LastSeq(work[r].fold.rows) \in Nat
        /\ Sound(work[r].fold, log[asked[r]], seq) /\ work[r].fold.by = ver
    BY <2>1, ReaderTyped DEF Working, IndInv, ReadInv, Answered
  <2>3. w \in Entry /\ w.fold = work[r].fold
    BY <2>2 DEF Entry, SnapshotBase, NoEntry
  <2>4. asked' = [asked EXCEPT ![r] = asked[r]] /\ asked[r] # NoSession
    BY <1>0, <2>1, <2>2, CacheAssumption DEF TypeOK
  <2>5. p \in {"put", "done"}
    OBVIOUS
  <2> HIDE DEF w, p
  <2> QED BY <1>0, <2>1, <2>2, <2>3, <2>4, <2>5, OneReader
<1>9. ASSUME NEW r \in Readers, Return(r) \/ ReadFails(r)
      PROVE  ReadTypeOK' /\ ReadInv'
  <2>1. /\ UNCHANGED <<log, seq, ver, purge>> /\ pc' = [pc EXCEPT ![r] = "idle"]
        /\ asked' = [asked EXCEPT ![r] = NoSession] /\ work' = [work EXCEPT ![r] = NoEntry]
    BY <1>9 DEF Return, ReadFails, EndRead, store
  <2>2. NoEntry \in Entry /\ NoEntry.fold.rows = <<>>
    BY <1>0, NoFoldSound
  <2> QED BY <1>0, <2>1, <2>2, OneReader
<1>10. ASSUME NEW v \in Versions, Restart(v)
       PROVE  ReadTypeOK' /\ ReadInv'
  <2>1. /\ ver' \in Versions /\ purge' = {} /\ pc' = [r \in Readers |-> "idle"]
        /\ asked' = [r \in Readers |-> NoSession] /\ work' = [r \in Readers |-> NoEntry]
    BY <1>10 DEF Restart
  <2>2. NoEntry \in Entry /\ NoEntry.fold.rows = <<>>
    BY <1>0, NoFoldSound
  <2> QED BY <2>1, <2>2 DEF ReadTypeOK, ReadInv, Answered
<1>11. ASSUME NEW s \in Sessions, Erase(s) \/ RemoveAll(s)
       PROVE  ReadTypeOK' /\ ReadInv'
  BY <1>0, <1>1, <1>11 DEF Erase, RemoveAll, ReadTypeOK
<1>12. ASSUME NEW r \in Readers, DeleteAt(r)
       PROVE  Erase(asked[r]) /\ asked[r] \in Sessions
  BY <1>12 DEF DeleteAt, IndInv, ReadInv, TypeOK
<1>13. ASSUME \/ \E s \in Sessions, e \in Payloads : AppendEvent(s, e)
              \/ \E s \in Sessions : TxBegin(s)
              \/ \E e \in Payloads : TxAppend(e)
              \/ TxFold \/ TxCommit \/ TxRollback
              \/ UNCHANGED vars
       PROVE  UNCHANGED <<ver, pc, asked, work, purge>>
  BY <1>13 DEF AppendEvent, TxBegin, TxAppend, TxFold, TxCommit, TxRollback, vars
<1>14. ReadTypeOK => purge \subseteq Sessions
  BY DEF ReadTypeOK
<1> QED
  BY <1>0, <1>1, <1>2, <1>3, <1>4, <1>5, <1>6, <1>7, <1>8, <1>9, <1>10, <1>11, <1>12, <1>13,
     <1>14 DEF Next, Read, Delete

-----------------------------------------------------------------------------
(* Theorems. *)

LEMMA InvInitial == Init => IndInv /\ SnapshotAnchored
<1> SUFFICES ASSUME Init PROVE IndInv /\ SnapshotAnchored
  OBVIOUS
<1>1. /\ NoFold \in Fold /\ NoEntry \in Entry /\ NoEntry.fold = NoFold /\ NoFold.rows = <<>>
      /\ \A rows : Sound(NoFold, rows, 0)
  BY NoFoldSound
<1>2. <<>> \in Seq(Row) /\ DOMAIN <<>> = {}
  BY EmptySeq
<1>3. NoTx.rows = <<>> /\ NoTx.session = NoSession
      /\ NoTx \in [session : Sessions \cup {NoSession}, rows : Seq(Row), view : Fold]
  BY <1>1, <1>2 DEF NoTx
<1>4. TypeOK
  BY <1>1, <1>2, <1>3 DEF Init, TypeOK
<1>5. LogInv /\ TxInv
  BY <1>2, <1>3 DEF Init, LogInv, TxInv, Sorted
<1>6. CacheInv /\ SnapInv /\ SnapshotAnchored
  BY <1>1 DEF Init, CacheInv, SnapInv, SnapshotAnchored
<1>7. ReadInv
  BY <1>1 DEF Init, ReadInv, Answered
<1> QED BY <1>4, <1>5, <1>6, <1>7 DEF IndInv

LEMMA InvInductive == IndInv /\ [Next]_vars => IndInv'
<1> SUFFICES ASSUME IndInv, [Next]_vars PROVE IndInv'
  OBVIOUS
<1>1. LogInv' /\ TxInv' /\ StoreTypeOK'
  BY StoreStep
<1>2. CacheInv' /\ cache' \in [Sessions -> Entry]
  BY CacheStep
<1>3. SnapInv' /\ snap' \in [Sessions -> Fold]
  BY SnapStep
<1>4. ReadInv' /\ ReadTypeOK'
  BY ReadStep
<1>5. TypeOK'
  BY <1>1, <1>2, <1>3, <1>4 DEF TypeOK, StoreTypeOK, ReadTypeOK
<1> QED BY <1>1, <1>2, <1>3, <1>4, <1>5 DEF IndInv

LEMMA InvHolds == Spec => []IndInv
BY InvInitial, InvInductive, PTL DEF Spec

\* Type correctness of the store, the cache and the reads.
THEOREM TypeCorrect == Spec => []TypeOK
<1>1. IndInv => TypeOK
  BY DEF IndInv
<1> QED BY <1>1, InvHolds, PTL

\* A snapshot never outlives the rows it was folded from: persist_snapshot's
\* WHERE EXISTS and the delete's transaction see to it.
THEOREM SnapshotsAnchored == Spec => []SnapshotAnchored
<1>1. SnapshotAnchored /\ IndInv /\ [Next]_vars => SnapshotAnchored'
  BY SnapStep
<1> QED BY <1>1, InvInitial, InvHolds, PTL DEF Spec

-----------------------------------------------------------------------------
(* The refinement. *)

\* Every step of the cached store is a step of the plain log.
LEMMA StepRefines ==
    ASSUME IndInv, IndInv', [Next]_vars
    PROVE  [Log!Next]_(Log!vars)
<1> DEFINE answer == [r \in Readers |-> IF Answered(r) THEN work[r].fold ELSE NoFold]
<1>0. TypeOK /\ TypeOK'
  BY DEF IndInv
<1>1. ASSUME UNCHANGED <<pc, work>> PROVE answer' = answer
  BY <1>1 DEF Answered
<1>2. ASSUME NEW r \in Readers, NEW p, NEW w,
             pc' = [pc EXCEPT ![r] = p], work' = [work EXCEPT ![r] = w]
      PROVE  /\ p \in {"folded", "put", "done"} => answer' = [answer EXCEPT ![r] = w.fold]
             /\ p = "idle" => answer' = [answer EXCEPT ![r] = NoFold]
  BY <1>0, <1>2 DEF Answered, TypeOK
<1> HIDE DEF answer
<1>3. ASSUME NEW r \in Readers, NEW s \in Sessions, Hit(r, s) \/ Miss(r, s)
      PROVE  Log!Ask(r, s)
  <2>1. /\ UNCHANGED <<log, seq, tx, ver>> /\ pc[r] = "idle"
        /\ asked' = [asked EXCEPT ![r] = s]
    BY <1>3 DEF Hit, Miss, Step, store
  <2>2. asked[r] = NoSession
    BY <2>1 DEF IndInv, ReadInv
  <2>3. answer' = answer
    <3>1. \A q \in Readers : Answered(q)' = Answered(q) /\ (Answered(q) => work'[q] = work[q])
      BY <1>0, <1>3 DEF Hit, Miss, Step, Answered, TypeOK
    <3> QED BY <3>1 DEF answer
  <2> QED BY <2>1, <2>2, <2>3 DEF Log!Ask, answer
<1>4. ASSUME NEW r \in Readers, FoldTail(r) \/ FoldFull(r)
      PROVE  Log!Answer(r)
  <2>1. /\ UNCHANGED <<log, seq, tx, ver, asked>> /\ pc[r] \in {"tail", "full"}
        /\ pc' = [pc EXCEPT ![r] = "folded"]
    BY <1>4 DEF FoldTail, FoldFull, Step, store
  <2>2. asked[r] # NoSession /\ answer[r] = NoFold
    BY <2>1 DEF IndInv, ReadInv, Answered, answer
  <2>3. PICK w \in Entry : work' = [work EXCEPT ![r] = w] /\ w.fold = FoldNow(log[asked[r]])
    <3>1. work'[r] \in Entry /\ work' = [work EXCEPT ![r] = work'[r]]
      BY <1>0, <1>4 DEF FoldTail, FoldFull, TypeOK
    <3>2. CASE FoldFull(r)
      BY <1>0, <3>1, <3>2 DEF FoldFull, TypeOK
    <3>3. CASE FoldTail(r)
      <4> DEFINE new == FoldOnto(work[r].fold, log[asked[r]])
                 k == Len(TailFrom(work[r].fold, log[asked[r]]))
      <4>1. new = FoldNow(log[asked[r]])
        BY <3>3, ReadIsReplay DEF FoldTail, Step
      <4>2. work' = [work EXCEPT ![r] = [work[r] EXCEPT !.fold = new, !.unpersisted = @ + k]]
        BY <3>3 DEF FoldTail
      <4> HIDE DEF new, k
      <4>3. work'[r].fold = new
        BY <1>0, <4>2 DEF TypeOK, Entry
      <4> QED BY <3>1, <4>1, <4>3
    <3> QED BY <1>4, <3>2, <3>3
  <2>4. answer' = [answer EXCEPT ![r] = FoldNow(log[asked[r]])]
    <3>1. "folded" \in {"folded", "put", "done"}
      OBVIOUS
    <3>2. answer' = [answer EXCEPT ![r] = w.fold]
      BY <1>2, <2>1, <2>3, <3>1
    <3> QED BY <2>3, <3>2
  <2> QED BY <2>1, <2>2, <2>4 DEF Log!Answer, Log!FoldNow, Log!NoFold, FoldNow, NoFold, answer
<1>5. ASSUME NEW r \in Readers, Return(r) \/ ReadFails(r)
      PROVE  Log!Return(r)
  <2>1. /\ UNCHANGED <<log, seq, tx, ver>> /\ pc[r] # "idle"
        /\ pc' = [pc EXCEPT ![r] = "idle"] /\ asked' = [asked EXCEPT ![r] = NoSession]
        /\ work' = [work EXCEPT ![r] = NoEntry]
    BY <1>5 DEF Return, ReadFails, EndRead, store
  <2>2. asked[r] # NoSession
    BY <2>1 DEF IndInv, ReadInv
  <2>3. answer' = [answer EXCEPT ![r] = NoFold]
    BY <1>2, <2>1
  <2> QED BY <2>1, <2>2, <2>3 DEF Log!Return, Log!NoFold, NoFold, answer
<1>6. ASSUME NEW r \in Readers, Load(r) \/ Unanchored(r)
      PROVE  UNCHANGED Log!vars
  <2>1. /\ UNCHANGED <<log, seq, tx, ver, asked>>
        /\ \A q \in Readers : Answered(q)' = Answered(q) /\ (Answered(q) => work'[q] = work[q])
    BY <1>0, <1>6 DEF Load, Unanchored, Step, store, Answered, TypeOK
  <2>2. answer' = answer
    BY <2>1 DEF answer
  <2> QED BY <2>1, <2>2 DEF Log!vars, answer
<1>7. ASSUME NEW r \in Readers, Forget(r) \/ Persist(r) \/ Put(r)
      PROVE  UNCHANGED Log!vars
  <2>1. UNCHANGED <<log, seq, tx, ver, asked>>
    BY <1>7 DEF Forget, Persist, Put, store
  <2>2. \A q \in Readers : Answered(q)' = Answered(q)
    BY <1>0, <1>7 DEF Forget, Persist, Put, Step, Answered, TypeOK
  <2>3. \A q \in Readers : q # r => work'[q] = work[q]
    BY <1>0, <1>7 DEF Forget, Persist, Put, TypeOK
  <2>4. work'[r].fold = work[r].fold
    <3>1. CASE Persist(r)
      BY <1>0, <3>1 DEF Persist, SnapshotBase, TypeOK
    <3>2. CASE Forget(r) \/ Put(r)
      <4>1. work'[r] = [NoEntry EXCEPT !.fold = work[r].fold]
        BY <1>0, <3>2 DEF Forget, Put, TypeOK
      <4> QED BY <4>1 DEF NoEntry
    <3> QED BY <1>7, <3>1, <3>2
  <2>5. answer' = answer
    BY <2>2, <2>3, <2>4 DEF answer
  <2> QED BY <2>1, <2>5 DEF Log!vars, answer
<1>8. ASSUME NEW s \in Sessions, NEW e \in Payloads, AppendEvent(s, e)
      PROVE  Log!AppendEvent(s, e)
  BY <1>1, <1>8 DEF answer, AppendEvent, Log!AppendEvent, TxOpen, Log!TxOpen, NextRow, Log!NextRow
<1>9. ASSUME NEW s \in Sessions, TxBegin(s)
      PROVE  Log!TxBegin(s)
  BY <1>1, <1>9 DEF answer, TxBegin, Log!TxBegin, TxOpen, Log!TxOpen, NoTx, Log!NoTx, NoFold, Log!NoFold
<1>10. ASSUME NEW e \in Payloads, TxAppend(e)
       PROVE  Log!TxAppend(e)
  BY <1>1, <1>10 DEF answer, TxAppend, Log!TxAppend, TxOpen, Log!TxOpen, NextRow, Log!NextRow
<1>11. CASE TxFold
  <2>1. TxOpen /\ UNCHANGED <<log, seq, ver, pc, asked, work>>
        /\ tx' = [tx EXCEPT !.view = FoldOnto(TxBase, InTx)]
    BY <1>11 DEF TxFold
  <2>2. FoldOnto(TxBase, InTx) = FoldNow(InTx)
    BY <2>1, TxFoldIsReplay
  <2>3. FoldNow(InTx) = Log!FoldNow(Log!Visible(tx.session))
    BY DEF FoldNow, Log!FoldNow, InTx, Log!Visible
  <2>4. Log!TxFold
    BY <1>1, <2>1, <2>2, <2>3 DEF answer, Log!TxFold, TxOpen, Log!TxOpen
  <2> QED BY <2>4 DEF Log!Next
<1>12. CASE TxCommit
  <2>1. Log!TxCommit
    BY <1>1, <1>12 DEF answer, TxCommit, Log!TxCommit, TxOpen, Log!TxOpen, NoTx, Log!NoTx, NoFold,
                       Log!NoFold, InTx, Log!Visible
  <2> QED BY <2>1 DEF Log!Next
<1>13. CASE TxRollback
  <2>1. Log!TxRollback
    BY <1>1, <1>13 DEF answer, TxRollback, Log!TxRollback, TxOpen, Log!TxOpen, NoTx, Log!NoTx, NoFold,
                       Log!NoFold
  <2> QED BY <2>1 DEF Log!Next
<1>14. ASSUME NEW s, Erase(s)
       PROVE  Log!Delete(s)
  BY <1>1, <1>14 DEF answer, Erase, Log!Erase, Log!Delete, TxOpen, Log!TxOpen
<1>15. ASSUME NEW r \in Readers, DeleteAt(r)
       PROVE  Log!DeleteAt(r)
  <2>1. /\ pc[r] = "done" /\ Erase(asked[r]) /\ log[asked[r]] # <<>>
        /\ LastSeq(log[asked[r]]) = LastSeq(work[r].fold.rows)
    BY <1>15 DEF DeleteAt, StillEndsAt
  <2>2. /\ log[asked[r]] \in Seq(Row) /\ asked[r] \in Sessions /\ asked[r] # NoSession
        /\ Prefix(work[r].fold, log[asked[r]])
        /\ work[r].fold \in Fold /\ work[r].fold.by = ver /\ answer[r] = work[r].fold
    BY <2>1, ReaderTyped, CacheAssumption DEF Sound, Answered, IndInv, ReadInv, answer
  <2>3. /\ Len(log[asked[r]]) \in DOMAIN log[asked[r]]
        /\ log[asked[r]][Len(log[asked[r]])].seq = LastSeq(work[r].fold.rows)
    BY <2>1, <2>2, EmptySeq, RowsTyped DEF LastSeq
  <2>4. work[r].fold.rows # <<>>
    <3>1. log[asked[r]][Len(log[asked[r]])].seq \in 1..seq /\ seq \in Nat
      BY <1>0, <2>2, <2>3 DEF IndInv, LogInv, TypeOK
    <3> QED BY <2>3, <3>1 DEF LastSeq
  <2>5. work[r].fold.rows = log[asked[r]]
    BY <2>2, <2>3, <2>4, SubSeqFull DEF Prefix
  <2>6. work[r].fold = FoldNow(log[asked[r]])
    BY <2>2, <2>5 DEF Fold, FoldNow
  <2>7. Log!Delete(asked[r])
    BY <1>14, <2>1
  <2>8. answer[r] = Log!FoldNow(log[asked[r]]) /\ answer[r].rows # <<>>
    BY <2>2, <2>4, <2>6 DEF FoldNow, Log!FoldNow
  <2> QED BY <2>2, <2>7, <2>8 DEF Log!DeleteAt, answer
<1>16. ASSUME NEW s \in Sessions, RemoveAll(s)
       PROVE  UNCHANGED Log!vars
  BY <1>1, <1>16 DEF answer, RemoveAll, store, Log!vars
<1>17. ASSUME NEW v \in Versions, Restart(v)
       PROVE  Log!Restart(v)
  <2>1. answer' = [r \in Readers |-> NoFold]
    BY <1>17 DEF Restart, Answered, answer
  <2> QED BY <1>17, <2>1 DEF answer, Restart, Log!Restart, NoTx, Log!NoTx, NoFold, Log!NoFold
<1>18. CASE UNCHANGED vars
  BY <1>1, <1>18 DEF answer, vars, store, Log!vars
<1> QED
  BY <1>3, <1>4, <1>5, <1>6, <1>7, <1>8, <1>9, <1>10, <1>11, <1>12, <1>13, <1>14, <1>15, <1>16,
     <1>17, <1>18 DEF Next, Read, Delete, Log!Next

\* The cached store implements the plain log: no interleaving of readers, writers,
\* rollbacks, deletes and restarts under different reducer versions makes
\* cached_projection or replay_projection answer with anything but a replay.
THEOREM CacheImplementsLog == Spec => CacheTransparent
<1>1. Init => Log!Init
  BY DEF Init, Log!Init, NoTx, Log!NoTx, NoFold, Log!NoFold, Answered
<1>2. IndInv /\ IndInv' /\ [Next]_vars => [Log!Next]_(Log!vars)
  BY StepRefines
<1> QED BY <1>1, <1>2, InvHolds, PTL DEF Spec, CacheTransparent, Log!Spec
===============================================================================
