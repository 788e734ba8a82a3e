------------------------------- MODULE EventLog -------------------------------
(***************************************************************************)
(* What the event store promises (crates/hya-store/src/lib.rs): an append- *)
(* only log per session behind one writer at a time, and reads that answer *)
(* with the fold of the whole log as it is at one moment of the read.      *)
(* There is no cache and no snapshot here: ProjectionCache implements this *)
(* specification with both.                                                *)
(*                                                                         *)
(* A fold is kept as the sequence of the rows that were applied and the    *)
(* version of the reducer that applied them, so a row that is missed,      *)
(* applied twice, or rolled back is visible in it.                         *)
(***************************************************************************)
EXTENDS Naturals, Sequences

CONSTANTS
    Sessions,       \* session ids
    Readers,        \* tasks that read projections
    Versions,       \* PROJECTION_REDUCER_VERSIONs of the builds that run
    Tree(_),        \* session -> the session and its descendants
    Payloads,       \* events, as far as a fold tells them apart
    NoSession,      \* not a session
    NoVersion,      \* not a version
    MaxSeq,         \* bound: highest sequence number
    MaxTxRows       \* bound: rows one writer transaction appends

VARIABLES
    log,        \* session -> committed rows of event_log, by seq
    seq,        \* last sequence number that was committed
    tx,         \* the open writer transaction, or NoTx
    ver,        \* reducer version of the running process
    asked,      \* reader -> session it reads, NoSession when it does not
    answer      \* reader -> the fold it got, NoFold before

vars == <<log, seq, tx, ver, asked, answer>>

Row == [seq : Nat, event : Payloads]
Fold == [by : Versions \cup {NoVersion}, rows : Seq(Row)]
NoFold == [by |-> NoVersion, rows |-> <<>>]
FoldNow(rows) == [by |-> ver, rows |-> rows]

\* A writer transaction: its session, what it appended so far, and
\* the fold it computed last.
NoTx == [session |-> NoSession, rows |-> <<>>, view |-> NoFold]
TxOpen == tx.session # NoSession
Visible(s) == IF tx.session = s THEN log[s] \o tx.rows ELSE log[s]
NextRow(e) == [seq |-> seq + Len(tx.rows) + 1, event |-> e]

Init ==
    /\ log = [s \in Sessions |-> <<>>]
    /\ seq = 0
    /\ tx = NoTx
    /\ ver \in Versions
    /\ asked = [r \in Readers |-> NoSession]
    /\ answer = [r \in Readers |-> NoFold]

-----------------------------------------------------------------------------
(* Writers. *)

AppendEvent(s, e) ==
    /\ ~TxOpen
    /\ seq < MaxSeq
    /\ log' = [log EXCEPT ![s] = Append(@, NextRow(e))]
    /\ seq' = seq + 1
    /\ UNCHANGED <<tx, asked, answer, ver>>

TxBegin(s) ==
    /\ ~TxOpen
    /\ tx' = [NoTx EXCEPT !.session = s]
    /\ UNCHANGED <<log, seq, asked, answer, ver>>

TxAppend(e) ==
    /\ TxOpen
    /\ Len(tx.rows) < MaxTxRows
    /\ seq + Len(tx.rows) < MaxSeq
    /\ tx' = [tx EXCEPT !.rows = Append(@, NextRow(e))]
    /\ UNCHANGED <<log, seq, asked, answer, ver>>

\* A fold inside the transaction sees the log and the transaction's own rows.
TxFold ==
    /\ TxOpen
    /\ tx' = [tx EXCEPT !.view = FoldNow(Visible(tx.session))]
    /\ UNCHANGED <<log, seq, asked, answer, ver>>

TxCommit ==
    /\ TxOpen
    /\ log' = [log EXCEPT ![tx.session] = Visible(tx.session)]
    /\ seq' = seq + Len(tx.rows)
    /\ tx' = NoTx
    /\ UNCHANGED <<asked, answer, ver>>

\* The sequence numbers of a transaction that is rolled back are given out again.
TxRollback ==
    /\ TxOpen
    /\ tx' = NoTx
    /\ UNCHANGED <<log, seq, asked, answer, ver>>

Erase(s) ==
    /\ ~TxOpen
    /\ log' = [t \in Sessions |-> IF t \in Tree(s) THEN <<>> ELSE log[t]]

Delete(s) == Erase(s) /\ UNCHANGED <<seq, tx, asked, answer, ver>>

\* A conditional delete removes a log of which its caller has seen every row.
DeleteAt(r) ==
    /\ asked[r] # NoSession
    /\ answer[r] = FoldNow(log[asked[r]])
    /\ answer[r].rows # <<>>
    /\ Delete(asked[r])

-----------------------------------------------------------------------------
(* Readers. *)

Ask(r, s) ==
    /\ asked[r] = NoSession
    /\ asked' = [asked EXCEPT ![r] = s]
    /\ UNCHANGED <<log, seq, tx, answer, ver>>

Answer(r) ==
    /\ asked[r] # NoSession
    /\ answer[r] = NoFold
    /\ answer' = [answer EXCEPT ![r] = FoldNow(log[asked[r]])]
    /\ UNCHANGED <<log, seq, tx, asked, ver>>

\* The read returns, or fails with a store error.
Return(r) ==
    /\ asked[r] # NoSession
    /\ asked' = [asked EXCEPT ![r] = NoSession]
    /\ answer' = [answer EXCEPT ![r] = NoFold]
    /\ UNCHANGED <<log, seq, tx, ver>>

\* The process goes down, its reads and its transaction with it, and another
\* build may take its place.
Restart(v) ==
    /\ ver' = v
    /\ asked' = [r \in Readers |-> NoSession]
    /\ answer' = [r \in Readers |-> NoFold]
    /\ tx' = NoTx
    /\ UNCHANGED <<log, seq>>

Next ==
    \/ \E s \in Sessions, e \in Payloads : AppendEvent(s, e)
    \/ \E s \in Sessions : TxBegin(s) \/ Delete(s)
    \/ \E e \in Payloads : TxAppend(e)
    \/ TxFold \/ TxCommit \/ TxRollback
    \/ \E r \in Readers : DeleteAt(r) \/ Answer(r) \/ Return(r)
    \/ \E r \in Readers, s \in Sessions : Ask(r, s)
    \/ \E v \in Versions : Restart(v)

Spec == Init /\ [][Next]_vars
===============================================================================
