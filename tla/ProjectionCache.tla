---------------------------- MODULE ProjectionCache ----------------------------
(***************************************************************************)
(* The event log of crates/hya-store/src/lib.rs with the projection cache  *)
(* of projection_cache.rs in front of it: an in-process map per process,   *)
(* durable snapshots shared through the database, and folds that apply     *)
(* only the rows after a cached base.                                      *)
(*                                                                         *)
(* An action is one SQL statement or transaction, or one critical section  *)
(* of the cache's mutex: the await points of a read are where writers,     *)
(* deletes and other readers come in between.  A projection is kept as the *)
(* rows that were applied to it and the version of the reducer, so a row   *)
(* that is missed, applied twice or rolled back shows.                     *)
(***************************************************************************)
EXTENDS Naturals, Sequences, FiniteSets

CONSTANTS
    Sessions,       \* session ids
    Readers,        \* tasks that read projections
    Versions,       \* PROJECTION_REDUCER_VERSIONs of the builds that run
    Tree(_),        \* session -> the session and its descendants
    Payloads,       \* events, as far as a fold tells them apart
    NoSession,      \* not a session
    NoVersion,      \* not a version
    Interval,       \* snapshot_interval: folded rows after which a read persists
    Capacity,       \* MAX_CACHED_PROJECTIONS
    MaxSeq,         \* bound: highest sequence number
    MaxTxRows       \* bound: rows one writer transaction appends

ASSUME CacheAssumption ==
    /\ NoSession \notin Sessions
    /\ NoVersion \notin Versions
    /\ \A s \in Sessions : s \in Tree(s) /\ Tree(s) \subseteq Sessions
    /\ Interval \in Nat \ {0}
    /\ Capacity \in Nat \ {0}
    /\ MaxSeq \in Nat
    /\ MaxTxRows \in Nat

VARIABLES
    log,        \* session -> committed rows of event_log, in seq order
    seq,        \* sqlite_sequence of event_log, as committed
    tx,         \* the open BEGIN IMMEDIATE transaction, or NoTx
    snap,       \* session -> its row of projection_snapshot, NoFold when absent
    ver,        \* reducer version of the running process
    cache,      \* session -> Entry, NoEntry when absent
    purge,      \* deleted sessions whose tree is still to be removed from the cache
    pc,         \* reader -> where cached_projection stands
    asked,      \* reader -> session it reads
    work        \* reader -> the base it starts from, then the fold it made

store == <<log, seq, tx, snap>>
vars == <<store, ver, cache, purge, pc, asked, work>>

-----------------------------------------------------------------------------
(* Data. *)

Row == [seq : Nat, event : Payloads]

\* A Projection: who folded it, and what was applied.
Fold == [by : Versions \cup {NoVersion}, rows : Seq(Row)]
NoFold == [by |-> NoVersion, rows |-> <<>>]
FoldNow(rows) == [by |-> ver, rows |-> rows]

\* Projection.last_seq: zero for the fold of an empty log.
LastSeq(rows) == IF rows = <<>> THEN 0 ELSE rows[Len(rows)].seq

\* Entry: the fold, the seq of the snapshot known to be durable, and how many
\* rows were folded since.
Entry == [fold : Fold, persisted : Nat, unpersisted : Nat]
NoEntry == [fold |-> NoFold, persisted |-> 0, unpersisted |-> 0]

NoTx == [session |-> NoSession, rows |-> <<>>, view |-> NoFold]
TxOpen == tx.session # NoSession

\* What a SELECT of the transaction sees of its session.
InTx == log[tx.session] \o tx.rows

\* INSERT ... RETURNING seq: AUTOINCREMENT counts on from what was committed
\* and from the transaction's own rows.
NextRow(e) == [seq |-> seq + Len(tx.rows) + 1, event |-> e]

\* The rows fold() reads when it starts from `from`: anchored when the first
\* of them is the base's own last row.
AnchorAt(rows, from) == {i \in DOMAIN rows : rows[i].seq = from}

Anchored(fold, rows) == fold.rows # <<>> /\ AnchorAt(rows, LastSeq(fold.rows)) # {}

\* The rows after the base: those with a greater seq, in order.
TailFrom(fold, rows) ==
    LET cut == CHOOSE i \in 0..Len(rows) :
                 \A j \in DOMAIN rows : rows[j].seq <= LastSeq(fold.rows) <=> j <= i
    IN  SubSeq(rows, cut + 1, Len(rows))

\* fold(): the base with the tail applied, or the whole log.
FoldOnto(fold, rows) ==
    IF Anchored(fold, rows)
    THEN [fold EXCEPT !.rows = @ \o TailFrom(fold, rows)]
    ELSE FoldNow(rows)

\* load_snapshot: only a row written by this reducer version is used.
LoadSnapshot(s) == IF snap[s].by = ver THEN snap[s] ELSE NoFold

\* A base that came from a snapshot counts as persisted up to its last row.
SnapshotBase(fold) ==
    [fold |-> fold, persisted |-> LastSeq(fold.rows), unpersisted |-> 0]

Init ==
    /\ log = [s \in Sessions |-> <<>>]
    /\ seq = 0
    /\ tx = NoTx
    /\ snap = [s \in Sessions |-> NoFold]
    /\ ver \in Versions
    /\ cache = [s \in Sessions |-> NoEntry]
    /\ purge = {}
    /\ pc = [r \in Readers |-> "idle"]
    /\ asked = [r \in Readers |-> NoSession]
    /\ work = [r \in Readers |-> NoEntry]

-----------------------------------------------------------------------------
(* Readers: cached_projection. *)

Step(r, from, to) == pc[r] = from /\ pc' = [pc EXCEPT ![r] = to]

\* read_projection, with_projection, warm_projection: ProjectionCache::get finds
\* an entry.
Hit(r, s) ==
    /\ cache[s] # NoEntry
    /\ Step(r, "idle", "tail")
    /\ asked' = [asked EXCEPT ![r] = s]
    /\ work' = [work EXCEPT ![r] = cache[s]]
    /\ UNCHANGED <<store, ver, cache, purge>>

Miss(r, s) ==
    /\ cache[s] = NoEntry
    /\ Step(r, "idle", "load")
    /\ asked' = [asked EXCEPT ![r] = s]
    /\ UNCHANGED <<store, ver, cache, purge, work>>

Load(r) ==
    /\ Step(r, "load", "tail")
    /\ work' = [work EXCEPT ![r] = SnapshotBase(LoadSnapshot(asked[r]))]
    /\ UNCHANGED <<store, ver, cache, purge, asked>>

\* The first SELECT of fold finds the base's last row: the rows after it are
\* applied.
FoldTail(r) ==
    LET b == work[r]
        rows == log[asked[r]]
    IN  /\ Step(r, "tail", "folded")
        /\ Anchored(b.fold, rows)
        /\ work' = [work EXCEPT ![r] =
               [b EXCEPT !.fold = FoldOnto(b.fold, rows),
                         !.unpersisted = @ + Len(TailFrom(b.fold, rows))]]
        /\ UNCHANGED <<store, ver, cache, purge, asked>>

\* There is no base, or its last row is gone: a second SELECT will read it all.
Unanchored(r) ==
    /\ Step(r, "tail", "full")
    /\ ~Anchored(work[r].fold, log[asked[r]])
    /\ work' = [work EXCEPT ![r] = NoEntry]
    /\ UNCHANGED <<store, ver, cache, purge, asked>>

FoldFull(r) ==
    LET rows == log[asked[r]]
    IN  /\ Step(r, "full", "folded")
        /\ work' = [work EXCEPT ![r] = [fold |-> FoldNow(rows),
                                        persisted |-> 0,
                                        unpersisted |-> Len(rows)]]
        /\ UNCHANGED <<store, ver, cache, purge, asked>>

\* An empty log is not cached; an entry it may still have goes.
Forget(r) ==
    /\ Step(r, "folded", "done")
    /\ work[r].fold.rows = <<>>
    /\ cache' = [cache EXCEPT ![asked[r]] = NoEntry]
    /\ work' = [work EXCEPT ![r] = [NoEntry EXCEPT !.fold = work[r].fold]]
    /\ UNCHANGED <<store, ver, purge, asked>>

Due(r) ==
    /\ LastSeq(work[r].fold.rows) > work[r].persisted
    /\ work[r].unpersisted >= Interval

\* MUTANT: the snapshot is written without looking for its anchor.
Upsert_unchecked(s, fold) == snap' = [snap EXCEPT ![s] = fold]

\* The upsert of persist_snapshot, WHERE EXISTS the fold's last row.
Upsert(s, fold) ==
    snap' = IF AnchorAt(log[s], LastSeq(fold.rows)) # {}
            THEN [snap EXCEPT ![s] = fold] ELSE snap

Persist(r) ==
    /\ Step(r, "folded", "put")
    /\ ~TxOpen
    /\ work[r].fold.rows # <<>>
    /\ Due(r)
    /\ Upsert(asked[r], work[r].fold)
    /\ work' = [work EXCEPT ![r] = SnapshotBase(work[r].fold)]
    /\ UNCHANGED <<log, seq, tx, ver, cache, purge, asked>>

\* ProjectionCache::put: an older fold never replaces a newer one; a full
\* cache loses another session's entry (the least recently used one).  A read
\* gets here at once when a snapshot is not due, or could not be written.
Put(r) ==
    LET s == asked[r]
        held == {t \in Sessions : cache[t] # NoEntry}
    IN  /\ pc[r] \in {"folded", "put"}
        /\ pc' = [pc EXCEPT ![r] = "done"]
        /\ work[r].fold.rows # <<>>
        /\ IF LastSeq(cache[s].fold.rows) > LastSeq(work[r].fold.rows)
           THEN UNCHANGED cache
           ELSE \E out \in IF s \notin held /\ Cardinality(held) >= Capacity
                           THEN {{t} : t \in held} ELSE {{}} :
                  cache' = [t \in Sessions |->
                      IF t = s THEN work[r] ELSE IF t \in out THEN NoEntry ELSE cache[t]]
        /\ work' = [work EXCEPT ![r] = [NoEntry EXCEPT !.fold = work[r].fold]]
        /\ UNCHANGED <<store, ver, purge, asked>>

EndRead(r) ==
    /\ pc' = [pc EXCEPT ![r] = "idle"]
    /\ asked' = [asked EXCEPT ![r] = NoSession]
    /\ work' = [work EXCEPT ![r] = NoEntry]

Return(r) ==
    /\ pc[r] = "done"
    /\ EndRead(r)
    /\ UNCHANGED <<store, ver, cache, purge>>

\* A SELECT of the read fails: the error is returned and nothing is cached.
ReadFails(r) ==
    /\ pc[r] \in {"load", "tail", "full"}
    /\ EndRead(r)
    /\ UNCHANGED <<store, ver, cache, purge>>

-----------------------------------------------------------------------------
(* Writers.  SQLite admits one at a time. *)

\* append_event.
AppendEvent(s, e) ==
    /\ ~TxOpen
    /\ seq < MaxSeq
    /\ log' = [log EXCEPT ![s] = Append(@, NextRow(e))]
    /\ seq' = seq + 1
    /\ UNCHANGED <<tx, snap, ver, cache, purge, pc, asked, work>>

TxBegin(s) ==
    /\ ~TxOpen
    /\ tx' = [NoTx EXCEPT !.session = s]
    /\ UNCHANGED <<log, seq, snap, ver, cache, purge, pc, asked, work>>

\* append_event_in_transaction.
TxAppend(e) ==
    /\ TxOpen
    /\ Len(tx.rows) < MaxTxRows
    /\ seq + Len(tx.rows) < MaxSeq
    /\ tx' = [tx EXCEPT !.rows = Append(@, NextRow(e))]
    /\ UNCHANGED <<log, seq, snap, ver, cache, purge, pc, asked, work>>

\* transaction_base: the process's entry, else the durable snapshot.
TxBase == IF cache[tx.session] # NoEntry
          THEN cache[tx.session].fold
          ELSE LoadSnapshot(tx.session)

\* MUTANT: the fold of a transaction is put back into the cache.
TxFold_caches ==
    LET view == FoldOnto(TxBase, InTx)
    IN  /\ TxOpen
        /\ tx' = [tx EXCEPT !.view = view]
        /\ cache' = [cache EXCEPT ![tx.session] = SnapshotBase(view)]
        /\ UNCHANGED <<log, seq, snap, ver, purge, pc, asked, work>>

\* replay_projection: reads the cache, never writes it back.
TxFold ==
    /\ TxOpen
    /\ tx' = [tx EXCEPT !.view = FoldOnto(TxBase, InTx)]
    /\ UNCHANGED <<log, seq, snap, ver, cache, purge, pc, asked, work>>

TxCommit ==
    /\ TxOpen
    /\ log' = [log EXCEPT ![tx.session] = InTx]
    /\ seq' = seq + Len(tx.rows)
    /\ tx' = NoTx
    /\ UNCHANGED <<snap, ver, cache, purge, pc, asked, work>>

\* The rows are undone, sqlite_sequence with them.
TxRollback ==
    /\ TxOpen
    /\ tx' = NoTx
    /\ UNCHANGED <<log, seq, snap, ver, cache, purge, pc, asked, work>>

\* The transaction of delete_session_where, for the whole tree; remove_all
\* follows after the commit.
Erase(s) ==
    /\ ~TxOpen
    /\ log' = [t \in Sessions |-> IF t \in Tree(s) THEN <<>> ELSE log[t]]
    /\ snap' = [t \in Sessions |-> IF t \in Tree(s) THEN NoFold ELSE snap[t]]
    /\ purge' = purge \cup {s}
    /\ UNCHANGED <<seq, tx, ver, cache, pc, asked, work>>

Delete(s) == Erase(s)

\* The condition of delete_session_at's DELETE.
StillEndsAt(s, last) == LastSeq(log[s]) = last /\ log[s] # <<>>

\* delete_session_at, with the last_seq of a projection its caller has read.
DeleteAt(r) ==
    /\ pc[r] = "done"
    /\ StillEndsAt(asked[r], LastSeq(work[r].fold.rows))
    /\ Erase(asked[r])

RemoveAll(s) ==
    /\ s \in purge
    /\ purge' = purge \ {s}
    /\ cache' = [t \in Sessions |-> IF t \in Tree(s) THEN NoEntry ELSE cache[t]]
    /\ UNCHANGED <<store, ver, pc, asked, work>>

\* The process ends, and the same or another build starts: the database is all
\* that is left.
Restart(v) ==
    /\ ver' = v
    /\ cache' = [s \in Sessions |-> NoEntry]
    /\ purge' = {}
    /\ pc' = [r \in Readers |-> "idle"]
    /\ asked' = [r \in Readers |-> NoSession]
    /\ work' = [r \in Readers |-> NoEntry]
    /\ tx' = NoTx
    /\ UNCHANGED <<log, seq, snap>>

Read(r) ==
    \/ Load(r) \/ FoldTail(r) \/ Unanchored(r) \/ FoldFull(r)
    \/ Forget(r) \/ Persist(r) \/ Put(r) \/ Return(r) \/ ReadFails(r)

Next ==
    \/ \E r \in Readers, s \in Sessions : Hit(r, s) \/ Miss(r, s)
    \/ \E r \in Readers : Read(r) \/ DeleteAt(r)
    \/ \E s \in Sessions, e \in Payloads : AppendEvent(s, e)
    \/ \E s \in Sessions : TxBegin(s) \/ Delete(s) \/ RemoveAll(s)
    \/ \E e \in Payloads : TxAppend(e)
    \/ TxFold \/ TxCommit \/ TxRollback
    \/ \E v \in Versions : Restart(v)

Spec == Init /\ [][Next]_vars

-----------------------------------------------------------------------------
(* Properties. *)

TypeOK ==
    /\ log \in [Sessions -> Seq(Row)]
    /\ seq \in Nat
    /\ ver \in Versions
    /\ tx \in [session : Sessions \cup {NoSession}, rows : Seq(Row), view : Fold]
    /\ snap \in [Sessions -> Fold]
    /\ cache \in [Sessions -> Entry]
    /\ purge \subseteq Sessions
    /\ pc \in [Readers -> {"idle", "load", "tail", "full", "folded", "put", "done"}]
    /\ asked \in [Readers -> Sessions \cup {NoSession}]
    /\ work \in [Readers -> Entry]

Answered(r) == pc[r] \in {"folded", "put", "done"}
Log == INSTANCE EventLog
         WITH answer <- [r \in Readers |-> IF Answered(r) THEN work[r].fold ELSE NoFold]

\* The cache is invisible: every read answers with the fold of the whole log at
\* one moment of the read, every fold of a transaction with the log and its own
\* rows, and a conditional delete removes only what its caller has seen.
CacheTransparent == Log!Spec

\* A durable snapshot belongs to a log that has its last row: a snapshot that
\* races a delete leaves nothing behind (persist_snapshot, delete_session_where).
SnapshotAnchored ==
    \A s \in Sessions : snap[s] # NoFold => AnchorAt(log[s], LastSeq(snap[s].rows)) # {}
===============================================================================
