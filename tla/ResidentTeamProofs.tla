------------------------- MODULE ResidentTeamProofs -------------------------
(***************************************************************************)
(* Proofs about ResidentTeam: its types, and that a user's stop holds,     *)
(* that no cursor passes unread mail, and that the busy count is exact,    *)
(* for any team, any bounds and any number of waiting callbacks.           *)
(***************************************************************************)
EXTENDS ResidentTeam, FiniteSetTheorems, TLAPS

-----------------------------------------------------------------------------
(***************************************************************************)
(* The type invariant in parts: one for each variable or group that the    *)
(* actions change together.                                                *)
(***************************************************************************)

SlotRec == [here : BOOLEAN, busy : BOOLEAN, pending : BOOLEAN, synth : BOOLEAN,
            report : BOOLEAN, archiving : BOOLEAN, stopped : BOOLEAN,
            finalized : BOOLEAN, cursor : Nat]
InboxT == inbox \in [Handles -> Nat]
RowT == row \in [Handles -> [on : {"none", "live", "archived", "failed"},
                                cursor : Nat, work : Nat]]
ShownT == shown \in [Handles -> SUBSET Nat]
SlotT == slot \in [Handles -> SlotRec]
TeamT == /\ busy \in Nat /\ newWork \in BOOLEAN
         /\ leadFailed \in BOOLEAN /\ killed \in BOOLEAN /\ doomed \subseteq Handles
PermitT == permit \in [Handles -> BOOLEAN]
LeaseT == lease \in [Handles -> {"free", "harness", "prompt"}]
TokenT == token \in [Handles -> Tokens]
GateT == holding \in BOOLEAN /\ released \in [Handles -> Nat]
TaskRec == [pc : Pcs, synth : BOOLEAN, failed : BOOLEAN]
TaskT == task \in [Handles -> TaskRec]
TurnT == turn \in [Handles -> {"no", "runs", "failed", "over"}]
ReaderT == reader \in [pc : {"no", "marked", "consumed"}, later : BOOLEAN]
BusT == bus \in Seq(Handles)
HeardT == heard \in [pc : {"no", "mail", "lag"}, to : Handles, lens : [Handles -> Nat]]
ArchiverT == archiver \in [Members -> {"no", "stopped", "done"}]
UserT == /\ asked \in {"no", "queued", "claimed", "runs"}
         /\ stopping \subseteq Handles /\ steering \subseteq Members
BoundT == /\ bound \in Scenarios /\ acts \in Nat
          /\ faults \subseteq {"kill", "turn", "lag", "hold"}
Parts ==
  /\ InboxT /\ RowT /\ ShownT /\ SlotT /\ TeamT /\ PermitT
  /\ LeaseT /\ TokenT /\ GateT /\ TaskT /\ TurnT /\ ReaderT
  /\ BusT /\ HeardT /\ ArchiverT /\ UserT /\ BoundT

\* What most actions leave alone in a slot: its presence, its busy flag and its cursor.
\* They may lift a stop, and set none.
SameSlot(s, t) == /\ t.here = s.here /\ t.busy = s.busy /\ t.cursor = s.cursor
                  /\ t.stopped => s.stopped
SlotKept == SlotT' /\ \A k \in Handles : SameSlot(slot[k], slot'[k])

\* A step that leaves the slots alone.
LEMMA StutterKept ==
  ASSUME SlotT, slot' = slot PROVE SlotKept
BY DEF SlotT, SlotKept, SameSlot

\* One slot replaced by one that differs in its flags only.
LEMMA PutKept ==
  ASSUME SlotT, NEW h \in Handles, NEW r \in SlotRec, SameSlot(slot[h], r),
         slot' = [slot EXCEPT ![h] = r]
  PROVE  SlotKept
BY DEF SlotT, SlotKept, SameSlot

\* A wake only marks slots pending.
LEMMA WakeKept ==
  ASSUME SlotT, NEW hs, Wake(hs) PROVE SlotKept
<1>1. \A k \in Handles : /\ [slot[k] EXCEPT !.pending = TRUE] \in SlotRec
                         /\ SameSlot(slot[k], [slot[k] EXCEPT !.pending = TRUE])
                         /\ SameSlot(slot[k], slot[k])
  BY DEF SlotT, SlotRec, SameSlot
<1>2. \A k \in Handles : slot'[k] \in {slot[k], [slot[k] EXCEPT !.pending = TRUE]}
  BY DEF Wake
<1>3. SlotT'
  BY <1>1, <1>2 DEF Wake, SlotT
<1> QED BY <1>1, <1>2, <1>3 DEF SlotKept

\* resume_after_user_stop only lifts stops.
LEMMA ResumeKept ==
  ASSUME SlotT, NEW h, Resume(h) PROVE SlotKept
<1>1. \A k \in Handles : /\ [slot[k] EXCEPT !.stopped = FALSE] \in SlotRec
                         /\ SameSlot(slot[k], [slot[k] EXCEPT !.stopped = FALSE])
                         /\ SameSlot(slot[k], slot[k])
  BY DEF SlotT, SlotRec, SameSlot
<1>2. \A k \in Handles : slot'[k] \in {slot[k], [slot[k] EXCEPT !.stopped = FALSE]}
  BY DEF Resume
<1>3. SlotT'
  BY <1>1, <1>2 DEF Resume, SlotT
<1> QED BY <1>1, <1>2, <1>3 DEF SlotKept

\* maybe_fire_quiescence only makes the lead owe a synthesis.
LEMMA SettleMoves ==
  ASSUME NEW sl \in [Handles -> SlotRec], NEW b, NEW p, Settle(sl, b, p)
  PROVE  /\ SlotT'
         /\ \A k \in Handles : SameSlot(sl[k], slot'[k])
<1> DEFINE r == [sl[Main] EXCEPT !.synth = TRUE, !.pending = TRUE]
<1>1. r \in SlotRec /\ SameSlot(sl[Main], r) /\ \A k \in Handles : SameSlot(sl[k], sl[k])
  BY DEF SlotRec, SameSlot, Handles
<1>2. slot' = sl \/ slot' = [sl EXCEPT ![Main] = r]
  BY DEF Settle
<1> HIDE DEF r
<1> QED BY <1>1, <1>2 DEF SlotT, Handles

\* The envelopes of a broadcast are addressed to the members told.
LEMMA SeqOfSet ==
  ASSUME NEW S, IsFiniteSet(S) PROVE SetToSeq(S) \in Seq(S)
<1>1. PICK f \in Bijection(1..Cardinality(S), S) : TRUE
  BY FS_CardinalityType DEF ExistsBijection
<1>2. f \in [1..Cardinality(S) -> S] /\ IsInjective(f)
  BY <1>1 DEF Bijection, Injection, IsInjective
<1>3. SetToSeq(S) \in [1..Cardinality(S) -> S]
  BY <1>2 DEF SetToSeq
<1> QED BY <1>3, FS_CardinalityType

-----------------------------------------------------------------------------
(***************************************************************************)
(* Every action keeps the types.                                           *)
(***************************************************************************)

LEMMA NextRunTyped ==
  ASSUME Parts, NEW h \in Handles, NextRun(h) PROVE Parts'
<1>1. SlotT'
  BY DEF Parts, Handles, SlotT, SlotRec, NextRun
<1>2. TeamT'
  <2>1. busy' \in Nat /\ newWork' \in BOOLEAN /\ leadFailed' \in BOOLEAN
    BY DEF NextRun, Parts, TeamT
  <2>2. (killed' = killed /\ doomed' = doomed)
          \/ (killed' = TRUE /\ doomed' = {k \in Handles : slot[k].here})
    BY DEF NextRun, KillLocked
  <2>3. killed' \in BOOLEAN
    BY <2>2 DEF Parts, TeamT
  <2>4. doomed' \subseteq Handles
    BY <2>2 DEF Parts, TeamT
  <2> QED BY <2>1, <2>3, <2>4 DEF TeamT
<1>3. PermitT'
  BY DEF Parts, PermitT, NextRun, KillLocked, Taken
<1>4. LeaseT'
  BY DEF Parts, LeaseT, NextRun
<1>5. TokenT'
  BY DEF Parts, TokenT, Tokens, NextRun, KillLocked
<1>6. GateT'
  BY DEF Parts, GateT, NextRun
<1>7. TaskT'
  <2> DEFINE r == [task[h] EXCEPT !.pc = "plan", !.synth = slot[h].synth]
             q == [task[h] EXCEPT !.pc = "parked"]
  <2>1. r \in TaskRec /\ q \in TaskRec
    BY DEF Parts, TaskT, TaskRec, Pcs, SlotT, SlotRec
  <2>2. task' = [task EXCEPT ![h] = r] \/ task' = [task EXCEPT ![h] = q]
    BY DEF NextRun, Goto
  <2> HIDE DEF r, q
  <2> QED BY <2>1, <2>2 DEF Parts, TaskT
<1>8. BoundT'
  BY DEF Parts, BoundT, NextRun, Fault
<1>9. InboxT' /\ RowT' /\ ShownT' /\ TurnT' /\ ReaderT' /\ BusT' /\ HeardT' /\ ArchiverT'
     /\ UserT'
  BY DEF Parts, InboxT, RowT, ShownT, TurnT, ReaderT, BusT, HeardT, ArchiverT, UserT, NextRun,
       logVars, turnVars, busVars
<1> QED BY <1>1, <1>2, <1>3, <1>4, <1>5, <1>6, <1>7, <1>8, <1>9 DEF Parts

LEMMA NextIdleTyped ==
  ASSUME Parts, NEW h \in Handles, NextIdle(h) PROVE Parts'
<1>1. PermitT'
  BY DEF Parts, PermitT, NextIdle, Taken
<1>2. TaskT'
  BY DEF Parts, TaskT, TaskRec, Pcs, NextIdle, Goto
<1>3. InboxT' /\ RowT' /\ ShownT' /\ SlotT' /\ TeamT' /\ LeaseT' /\ TokenT' /\ GateT'
     /\ TurnT' /\ ReaderT' /\ BusT' /\ HeardT' /\ ArchiverT' /\ UserT' /\ BoundT'
  BY DEF Parts, InboxT, RowT, ShownT, SlotT, TeamT, LeaseT, TokenT, GateT, TurnT, ReaderT,
       BusT, HeardT, ArchiverT, UserT, BoundT, NextIdle, logVars, gateVars, turnVars, busVars,
       userVars
<1> QED BY <1>1, <1>2, <1>3 DEF Parts

LEMMA NextStopTyped ==
  ASSUME Parts, NEW h \in Handles, NextStop(h) PROVE Parts'
<1>1. SlotT'
  BY DEF Parts, Handles, SlotT, SlotRec, NextStop, Removed, NoSlot
<1>2. TeamT'
  BY DEF Parts, TeamT, NextStop, Removed
<1>3. PermitT'
  BY DEF Parts, PermitT, NextStop, Taken
<1>4. TaskT'
  BY DEF Parts, TaskT, TaskRec, Pcs, NextStop, Goto
<1>5. InboxT' /\ RowT' /\ ShownT' /\ LeaseT' /\ TokenT' /\ GateT' /\ TurnT' /\ ReaderT'
     /\ BusT' /\ HeardT' /\ ArchiverT' /\ UserT' /\ BoundT'
  BY DEF Parts, InboxT, RowT, ShownT, LeaseT, TokenT, GateT, TurnT, ReaderT, BusT, HeardT,
       ArchiverT, UserT, BoundT, NextStop, logVars, gateVars, turnVars, busVars, userVars
<1> QED BY <1>1, <1>2, <1>3, <1>4, <1>5 DEF Parts

LEMMA StartTurnTyped ==
  ASSUME Parts, NEW h \in Handles, StartTurn(h) PROVE Parts'
<1>1. RowT'
  BY DEF Parts, RowT, InboxT, StartTurn, Larger
<1>2. ShownT'
  <2> DEFINE from == Larger(slot[h].cursor, row[h].cursor)
  <2>1. from \in Nat /\ inbox[h] \in Nat
    BY DEF Parts, SlotT, SlotRec, RowT, InboxT, Larger
  <2>2. shown' = shown \/ shown' = [shown EXCEPT ![h] = @ \cup (from + 1)..inbox[h]]
    BY DEF StartTurn
  <2> HIDE DEF from
  <2>3. (from + 1)..inbox[h] \subseteq Nat
    BY <2>1
  <2> QED BY <2>2, <2>3 DEF Parts, ShownT
<1>3. SlotT'
  <2>1. PICK n \in Nat : slot' = slot \/ slot' = [slot EXCEPT ![h].cursor = Larger(@, n)]
    BY DEF StartTurn, Parts, SlotT, SlotRec, InboxT, RowT, Larger
  <2>2. [slot[h] EXCEPT !.cursor = Larger(@, n)] \in SlotRec
    BY DEF Parts, SlotT, SlotRec, Larger
  <2> QED BY <2>1, <2>2 DEF Parts, SlotT
<1>4. TeamT'
  BY DEF Parts, TeamT, StartTurn
<1>5. LeaseT'
  BY DEF Parts, LeaseT, StartTurn, DropLease
<1>6. TokenT'
  BY DEF Parts, TokenT, Tokens, StartTurn, DropLease, Bind
<1>7. GateT'
  BY DEF Parts, GateT, StartTurn, DropLease
<1>8. TaskT'
  <2>1. PICK r \in TaskRec : task' = [task EXCEPT ![h] = r]
    <3>1. \A b \in BOOLEAN : [Fresh EXCEPT !.pc = "finish", !.failed = b] \in TaskRec
      BY DEF Fresh, TaskRec, Pcs
    <3>2. [Fresh EXCEPT !.pc = "turn"] \in TaskRec
      BY DEF Fresh, TaskRec, Pcs
    <3> QED BY <3>1, <3>2 DEF StartTurn
  <2> QED BY <2>1 DEF Parts, TaskT
<1>9. TurnT'
  BY DEF Parts, Handles, TurnT, StartTurn
<1>10. InboxT' /\ PermitT' /\ ReaderT' /\ BusT' /\ HeardT' /\ ArchiverT' /\ UserT' /\ BoundT'
  BY DEF Parts, InboxT, PermitT, ReaderT, BusT, HeardT, ArchiverT, UserT, BoundT, StartTurn,
       busVars, userVars
<1> QED BY <1>1, <1>2, <1>3, <1>4, <1>5, <1>6, <1>7, <1>8, <1>9, <1>10 DEF Parts

LEMMA FinishRunTyped ==
  ASSUME Parts, NEW h \in Handles, FinishRun(h) PROVE Parts'
<1>1. RowT'
  BY DEF Parts, RowT, InboxT, FinishRun, RecordActivity, ReadThrough, Larger
<1>2. SlotT'
  <2> DEFINE sl == [slot EXCEPT ![h].busy = FALSE]
             b == IF busy > 0 THEN busy - 1 ELSE 0
  <2>1. sl \in [Handles -> SlotRec]
    BY DEF Parts, SlotT, SlotRec
  <2>2. slot' = slot \/ slot' = sl \/ Settle(sl, b, permit)
    BY DEF FinishRun
  <2> HIDE DEF sl, b
  <2> QED BY <2>1, <2>2, SettleMoves DEF Parts, SlotT
<1>3. TeamT'
  <2>1. busy' \in {busy, IF busy > 0 THEN busy - 1 ELSE 0} /\ newWork' \in {newWork, FALSE}
    BY DEF FinishRun, Settle
  <2>2. busy' \in Nat
    BY <2>1 DEF Parts, TeamT
  <2>3. newWork' \in BOOLEAN
    BY <2>1 DEF Parts, TeamT
  <2> QED BY <2>2, <2>3 DEF Parts, TeamT, FinishRun
<1>4. PermitT'
  BY DEF Parts, PermitT, FinishRun, Settle
<1>5. TaskT'
  BY DEF Parts, TaskT, TaskRec, Pcs, FinishRun, Fresh
<1>6. InboxT' /\ ShownT' /\ LeaseT' /\ TokenT' /\ GateT' /\ TurnT' /\ ReaderT' /\ BusT'
     /\ HeardT' /\ ArchiverT' /\ UserT' /\ BoundT'
  BY DEF Parts, InboxT, ShownT, LeaseT, TokenT, GateT, TurnT, ReaderT, BusT, HeardT,
       ArchiverT, UserT, BoundT, FinishRun, gateVars, turnVars, busVars, userVars
<1> QED BY <1>1, <1>2, <1>3, <1>4, <1>5, <1>6 DEF Parts

LEMMA TakeReportTyped ==
  ASSUME Parts, NEW h \in Handles, TakeReport(h) PROVE Parts' /\ SlotKept
<1>1. SlotKept
  <2> DEFINE r == [slot[h] EXCEPT !.report = FALSE, !.archiving = TRUE]
             t == [slot[h] EXCEPT !.archiving = @ /\ ~slot[h].report]
  <2>1. r \in SlotRec /\ t \in SlotRec /\ SameSlot(slot[h], r) /\ SameSlot(slot[h], t)
    BY DEF Parts, SlotT, SlotRec, SameSlot
  <2>2. slot' = [slot EXCEPT ![h] = r] \/ slot' = [slot EXCEPT ![h] = t]
    BY DEF TakeReport
  <2> HIDE DEF r, t
  <2> QED BY <2>1, <2>2, PutKept DEF Parts
<1>2. TaskT'
  BY DEF Parts, TaskT, TaskRec, Pcs, TakeReport, Goto
<1>3. InboxT' /\ RowT' /\ ShownT' /\ TeamT' /\ PermitT' /\ LeaseT' /\ TokenT' /\ GateT'
     /\ TurnT' /\ ReaderT' /\ BusT' /\ HeardT' /\ ArchiverT' /\ UserT' /\ BoundT'
  BY DEF Parts, InboxT, RowT, ShownT, TeamT, PermitT, LeaseT, TokenT, GateT, TurnT, ReaderT,
       BusT, HeardT, ArchiverT, UserT, BoundT, TakeReport, logVars, gateVars, turnVars,
       busVars, userVars
<1> QED BY <1>1, <1>2, <1>3 DEF Parts, SlotKept

LEMMA MailReportTyped ==
  ASSUME Parts, NEW h \in Handles, MailReport(h) PROVE Parts' /\ SlotKept
<1>1. InboxT'
  BY DEF Parts, InboxT, MailReport, Mail
<1>2. SlotKept
  <2> DEFINE r == [slot[h] EXCEPT !.report = TRUE, !.archiving = FALSE]
  <2>1. r \in SlotRec /\ SameSlot(slot[h], r)
    BY DEF Parts, SlotT, SlotRec, SameSlot
  <2>2. slot' = slot \/ slot' = [slot EXCEPT ![h] = r]
    BY DEF MailReport
  <2> HIDE DEF r
  <2> QED BY <2>1, <2>2, PutKept, StutterKept DEF Parts
<1>3. TaskT'
  BY DEF Parts, TaskT, TaskRec, Pcs, MailReport, Goto
<1>4. BusT'
  <2>1. bus' = bus \/ bus' = Append(bus, Main)
    BY DEF MailReport, Mail
  <2> QED BY <2>1 DEF Parts, BusT, Handles
<1>5. RowT' /\ ShownT' /\ TeamT' /\ PermitT' /\ LeaseT' /\ TokenT' /\ GateT' /\ TurnT'
     /\ ReaderT' /\ HeardT' /\ ArchiverT' /\ UserT' /\ BoundT'
  BY DEF Parts, RowT, ShownT, TeamT, PermitT, LeaseT, TokenT, GateT, TurnT, ReaderT, HeardT,
       ArchiverT, UserT, BoundT, MailReport, gateVars, turnVars, userVars
<1> QED BY <1>1, <1>2, <1>3, <1>4, <1>5 DEF Parts, SlotKept

LEMMA ArchiveReportedTyped ==
  ASSUME Parts, NEW h \in Handles, ArchiveReported(h) PROVE Parts'
<1>1. RowT'
  BY DEF Parts, RowT, InboxT, ArchiveReported, Archived
<1>2. SlotT'
  BY DEF Parts, Handles, SlotT, SlotRec, ArchiveReported, Removed, NoSlot
<1>3. TeamT'
  BY DEF Parts, TeamT, ArchiveReported, Removed
<1>4. TaskT'
  BY DEF Parts, TaskT, TaskRec, Pcs, ArchiveReported, Fresh
<1>5. InboxT' /\ ShownT' /\ PermitT' /\ LeaseT' /\ TokenT' /\ GateT' /\ TurnT' /\ ReaderT'
     /\ BusT' /\ HeardT' /\ ArchiverT' /\ UserT' /\ BoundT'
  BY DEF Parts, InboxT, ShownT, PermitT, LeaseT, TokenT, GateT, TurnT, ReaderT, BusT, HeardT,
       ArchiverT, UserT, BoundT, ArchiveReported, gateVars, turnVars, busVars, userVars
<1> QED BY <1>1, <1>2, <1>3, <1>4, <1>5 DEF Parts

LEMMA StopSlotTyped ==
  ASSUME Parts, NEW m \in Members, StopSlot(m) PROVE Parts' /\ SlotKept
<1>1. SlotKept
  <2> DEFINE r == [slot[m] EXCEPT !.archiving = TRUE, !.pending = FALSE,
                              !.synth = FALSE, !.report = FALSE]
  <2>1. m \in Handles /\ r \in SlotRec /\ SameSlot(slot[m], r)
    BY DEF Parts, Handles, SlotT, SlotRec, SameSlot
  <2>2. slot' = [slot EXCEPT ![m] = r]
    BY DEF StopSlot
  <2> HIDE DEF r
  <2> QED BY <2>1, <2>2, PutKept DEF Parts
<1>2. TokenT'
  BY DEF Parts, Handles, TokenT, Tokens, StopSlot, Aim
<1>3. ArchiverT'
  BY DEF Parts, Handles, ArchiverT, StopSlot
<1>4. BoundT'
  BY DEF Parts, Handles, BoundT, StopSlot, Act
<1>5. InboxT' /\ RowT' /\ ShownT' /\ TeamT' /\ PermitT' /\ LeaseT' /\ GateT' /\ TaskT'
     /\ TurnT' /\ ReaderT' /\ BusT' /\ HeardT' /\ UserT'
  BY DEF Parts, InboxT, RowT, ShownT, TeamT, PermitT, LeaseT, GateT, TaskT, TurnT, ReaderT,
       BusT, HeardT, UserT, StopSlot, logVars, turnVars, busVars
<1> QED BY <1>1, <1>2, <1>3, <1>4, <1>5 DEF Parts, SlotKept

LEMMA ArchiveStoppedTyped ==
  ASSUME Parts, NEW m \in Members, ArchiveStopped(m) PROVE Parts'
<1>1. RowT'
  BY DEF Parts, Handles, RowT, InboxT, ArchiveStopped, Archived
<1>2. SlotT'
  <2> DEFINE r == [slot[m] EXCEPT !.archiving = FALSE]
  <2>1. m \in Handles /\ r \in SlotRec /\ NoSlot \in SlotRec
    BY DEF Parts, SlotT, SlotRec, Handles, NoSlot
  <2>2. slot' = [slot EXCEPT ![m] = r] \/ slot' = [slot EXCEPT ![m] = NoSlot]
    BY DEF ArchiveStopped, Removed
  <2> HIDE DEF r
  <2> QED BY <2>1, <2>2 DEF Parts, SlotT
<1>3. TeamT'
  BY DEF Parts, Handles, TeamT, ArchiveStopped, Removed
<1>4. PermitT'
  BY DEF Parts, Handles, PermitT, ArchiveStopped
<1>5. ArchiverT'
  BY DEF Parts, Handles, ArchiverT, ArchiveStopped
<1>6. InboxT' /\ ShownT' /\ LeaseT' /\ TokenT' /\ GateT' /\ TaskT' /\ TurnT' /\ ReaderT'
     /\ BusT' /\ HeardT' /\ UserT' /\ BoundT'
  BY DEF Parts, InboxT, ShownT, LeaseT, TokenT, GateT, TaskT, TurnT, ReaderT, BusT, HeardT,
       UserT, BoundT, ArchiveStopped, gateVars, turnVars, busVars, userVars
<1> QED BY <1>1, <1>2, <1>3, <1>4, <1>5, <1>6 DEF Parts

LEMMA EmitKillTyped ==
  ASSUME Parts, NEW h \in Handles, EmitKill(h) PROVE Parts' /\ SlotKept
<1>1. RowT'
  BY DEF Parts, RowT, EmitKill
<1>2. SlotKept
  <2> DEFINE r == [slot[h] EXCEPT !.finalized = TRUE]
  <2>1. h \in Handles /\ r \in SlotRec /\ SameSlot(slot[h], r)
    BY DEF Parts, Handles, SlotT, SlotRec, SameSlot
  <2>2. slot' = slot \/ slot' = [slot EXCEPT ![h] = r]
    BY DEF EmitKill
  <2> HIDE DEF r
  <2> QED BY <2>1, <2>2, PutKept, StutterKept DEF Parts
<1>3. TeamT'
  BY DEF Parts, TeamT, EmitKill
<1>4. PermitT'
  BY DEF Parts, PermitT, EmitKill
<1>5. InboxT' /\ ShownT' /\ LeaseT' /\ TokenT' /\ GateT' /\ TaskT' /\ TurnT' /\ ReaderT'
     /\ BusT' /\ HeardT' /\ ArchiverT' /\ UserT' /\ BoundT'
  BY DEF Parts, InboxT, ShownT, LeaseT, TokenT, GateT, TaskT, TurnT, ReaderT, BusT, HeardT,
       ArchiverT, UserT, BoundT, EmitKill, gateVars, turnVars, busVars, userVars
<1> QED BY <1>1, <1>2, <1>3, <1>4, <1>5 DEF Parts, SlotKept

LEMMA RegisterLogTyped ==
  ASSUME Parts, NEW m \in Members, RegisterLog(m) PROVE Parts'
<1>1. RowT'
  BY DEF Parts, Handles, RowT, RegisterLog
<1>2. InboxT' /\ ShownT' /\ SlotT' /\ TeamT' /\ PermitT' /\ LeaseT' /\ TokenT' /\ GateT'
     /\ TaskT' /\ TurnT' /\ ReaderT' /\ BusT' /\ HeardT' /\ ArchiverT' /\ UserT' /\ BoundT'
  BY DEF Parts, InboxT, ShownT, SlotT, TeamT, PermitT, LeaseT, TokenT, GateT, TaskT, TurnT,
       ReaderT, BusT, HeardT, ArchiverT, UserT, BoundT, RegisterLog, teamVars, gateVars,
       turnVars, busVars, userVars
<1> QED BY <1>1, <1>2 DEF Parts

LEMMA InsertSlotTyped ==
  ASSUME Parts, NEW m \in Members, InsertSlot(m) PROVE Parts'
<1>1. SlotT'
  BY DEF Parts, Handles, SlotT, SlotRec, InsertSlot, NoSlot
<1>2. TeamT'
  BY DEF Parts, Handles, TeamT, InsertSlot, Count
<1>3. PermitT'
  BY DEF Parts, Handles, PermitT, InsertSlot
<1>4. TaskT'
  BY DEF Parts, Handles, TaskT, TaskRec, Pcs, InsertSlot, Goto
<1>5. ReaderT'
  BY DEF Parts, Handles, ReaderT, InsertSlot, Count
<1>6. InboxT' /\ RowT' /\ ShownT' /\ LeaseT' /\ TokenT' /\ GateT' /\ TurnT' /\ BusT'
     /\ HeardT' /\ ArchiverT' /\ UserT' /\ BoundT'
  BY DEF Parts, InboxT, RowT, ShownT, LeaseT, TokenT, GateT, TurnT, BusT, HeardT, ArchiverT,
       UserT, BoundT, InsertSlot, logVars, gateVars, busVars, userVars
<1> QED BY <1>1, <1>2, <1>3, <1>4, <1>5, <1>6 DEF Parts

LEMMA SendTyped ==
  ASSUME Parts, NEW to \in Handles, Send(to) PROVE Parts'
<1>1. InboxT'
  BY DEF Parts, InboxT, Send, Mail
<1>2. BusT'
  BY DEF Parts, BusT, Send, Mail
<1>3. RowT' /\ ShownT' /\ SlotT' /\ TeamT' /\ PermitT' /\ LeaseT' /\ TokenT' /\ GateT'
     /\ TaskT' /\ TurnT' /\ ReaderT' /\ HeardT' /\ ArchiverT' /\ UserT' /\ BoundT'
  BY DEF Parts, RowT, ShownT, SlotT, TeamT, PermitT, LeaseT, TokenT, GateT, TaskT, TurnT,
       ReaderT, HeardT, ArchiverT, UserT, BoundT, Send, teamVars, gateVars, turnVars, userVars
<1> QED BY <1>1, <1>2, <1>3 DEF Parts

LEMMA BeginReadTyped ==
  ASSUME Parts, BeginRead PROVE Parts'
<1>1. ReaderT'
  BY DEF Parts, ReaderT, BeginRead
<1>2. InboxT' /\ RowT' /\ ShownT' /\ SlotT' /\ TeamT' /\ PermitT' /\ LeaseT' /\ TokenT'
     /\ GateT' /\ TaskT' /\ TurnT' /\ BusT' /\ HeardT' /\ ArchiverT' /\ UserT' /\ BoundT'
  BY DEF Parts, InboxT, RowT, ShownT, SlotT, TeamT, PermitT, LeaseT, TokenT, GateT, TaskT,
       TurnT, BusT, HeardT, ArchiverT, UserT, BoundT, BeginRead, logVars, teamVars, gateVars,
       busVars, userVars
<1> QED BY <1>1, <1>2 DEF Parts

LEMMA ConsumeTyped ==
  ASSUME Parts, NEW h \in Handles, Consume(h) PROVE Parts'
<1>1. RowT'
  BY DEF Parts, RowT, InboxT, Consume, ReadThrough, Larger
<1>2. ShownT'
  BY DEF Parts, ShownT, InboxT, RowT, Consume, ReadThrough, Larger
<1>3. ReaderT'
  BY DEF Parts, ReaderT, Consume
<1>4. InboxT' /\ SlotT' /\ TeamT' /\ PermitT' /\ LeaseT' /\ TokenT' /\ GateT' /\ TaskT'
     /\ TurnT' /\ BusT' /\ HeardT' /\ ArchiverT' /\ UserT' /\ BoundT'
  BY DEF Parts, InboxT, SlotT, TeamT, PermitT, LeaseT, TokenT, GateT, TaskT, TurnT, BusT,
       HeardT, ArchiverT, UserT, BoundT, Consume, teamVars, gateVars, busVars, userVars
<1> QED BY <1>1, <1>2, <1>3, <1>4 DEF Parts

LEMMA AcknowledgeTyped ==
  ASSUME Parts, Acknowledge PROVE Parts' /\ SlotKept
<1>1. SlotKept
  <2> DEFINE r == [slot[Main] EXCEPT !.pending = FALSE]
  <2>1. Main \in Handles /\ r \in SlotRec /\ SameSlot(slot[Main], r)
    BY DEF Parts, Handles, SlotT, SlotRec, SameSlot
  <2>2. slot' = slot \/ slot' = [slot EXCEPT ![Main] = r]
    BY DEF Acknowledge
  <2> HIDE DEF r
  <2> QED BY <2>1, <2>2, PutKept, StutterKept DEF Parts
<1>2. TeamT'
  BY DEF Parts, TeamT, Acknowledge
<1>3. ReaderT'
  BY DEF Parts, ReaderT, Acknowledge, NoRead
<1>4. InboxT' /\ RowT' /\ ShownT' /\ PermitT' /\ LeaseT' /\ TokenT' /\ GateT' /\ TaskT'
     /\ TurnT' /\ BusT' /\ HeardT' /\ ArchiverT' /\ UserT' /\ BoundT'
  BY DEF Parts, InboxT, RowT, ShownT, PermitT, LeaseT, TokenT, GateT, TaskT, TurnT, BusT,
       HeardT, ArchiverT, UserT, BoundT, Acknowledge, logVars, gateVars, busVars, userVars
<1> QED BY <1>1, <1>2, <1>3, <1>4 DEF Parts, SlotKept

LEMMA SubmitReportTyped ==
  ASSUME Parts, NEW m \in Members, SubmitReport(m) PROVE Parts' /\ SlotKept
<1>1. SlotKept
  <2> DEFINE r == [slot[m] EXCEPT !.report = TRUE]
  <2>1. m \in Handles /\ r \in SlotRec /\ SameSlot(slot[m], r)
    BY DEF Parts, Handles, SlotT, SlotRec, SameSlot
  <2>2. slot' = [slot EXCEPT ![m] = r]
    BY DEF SubmitReport
  <2> HIDE DEF r
  <2> QED BY <2>1, <2>2, PutKept DEF Parts
<1>2. PermitT'
  BY DEF Parts, Handles, PermitT, SubmitReport
<1>3. InboxT' /\ RowT' /\ ShownT' /\ TeamT' /\ LeaseT' /\ TokenT' /\ GateT' /\ TaskT'
     /\ TurnT' /\ ReaderT' /\ BusT' /\ HeardT' /\ ArchiverT' /\ UserT' /\ BoundT'
  BY DEF Parts, InboxT, RowT, ShownT, TeamT, LeaseT, TokenT, GateT, TaskT, TurnT, ReaderT,
       BusT, HeardT, ArchiverT, UserT, BoundT, SubmitReport, logVars, gateVars, turnVars,
       busVars, userVars
<1> QED BY <1>1, <1>2, <1>3 DEF Parts, SlotKept

LEMMA TurnFailsTyped ==
  ASSUME Parts, NEW h \in Handles, TurnFails(h) PROVE Parts' /\ SlotKept
<1>1. SlotKept
  <2> DEFINE r == [slot[h] EXCEPT !.synth = FALSE]
  <2>1. h \in Handles /\ r \in SlotRec /\ SameSlot(slot[h], r)
    BY DEF Parts, Handles, SlotT, SlotRec, SameSlot
  <2>2. slot' = slot \/ slot' = [slot EXCEPT ![h] = r]
    BY DEF TurnFails
  <2> HIDE DEF r
  <2> QED BY <2>1, <2>2, PutKept, StutterKept DEF Parts
<1>2. TeamT'
  BY DEF Parts, TeamT, TurnFails
<1>3. TurnT'
  BY DEF Parts, Handles, TurnT, TurnFails
<1>4. BoundT'
  BY DEF Parts, BoundT, TurnFails, Fault
<1>5. InboxT' /\ RowT' /\ ShownT' /\ PermitT' /\ LeaseT' /\ TokenT' /\ GateT' /\ TaskT'
     /\ ReaderT' /\ BusT' /\ HeardT' /\ ArchiverT' /\ UserT'
  BY DEF Parts, InboxT, RowT, ShownT, PermitT, LeaseT, TokenT, GateT, TaskT, ReaderT, BusT,
       HeardT, ArchiverT, UserT, TurnFails, logVars, gateVars, busVars
<1> QED BY <1>1, <1>2, <1>3, <1>4, <1>5 DEF Parts, SlotKept

LEMMA BroadcastTyped ==
  ASSUME Parts, Broadcast PROVE Parts'
<1>1. InboxT'
  BY DEF Parts, InboxT, Broadcast
<1>2. TurnT'
  BY DEF Parts, Handles, TurnT, Broadcast
<1>3. BusT'
  <2>1. PICK told \in SUBSET Members : bus' = bus \o SetToSeq(told)
    BY DEF Broadcast
  <2>2. SetToSeq(told) \in Seq(told)
    BY <2>1, SeqOfSet, FS_Subset, TeamAssumption
  <2> QED BY <2>1, <2>2 DEF Parts, BusT, Handles
<1>4. RowT' /\ ShownT' /\ SlotT' /\ TeamT' /\ PermitT' /\ LeaseT' /\ TokenT' /\ GateT'
     /\ TaskT' /\ ReaderT' /\ HeardT' /\ ArchiverT' /\ UserT' /\ BoundT'
  BY DEF Parts, RowT, ShownT, SlotT, TeamT, PermitT, LeaseT, TokenT, GateT, TaskT, ReaderT,
       HeardT, ArchiverT, UserT, BoundT, Broadcast, teamVars, gateVars, userVars
<1> QED BY <1>1, <1>2, <1>3, <1>4 DEF Parts

LEMMA EndTurnTyped ==
  ASSUME Parts, NEW h \in Handles, EndTurn(h) PROVE Parts'
<1>1. LeaseT'
  BY DEF Parts, LeaseT, EndTurn, DropLease
<1>2. TokenT'
  BY DEF Parts, TokenT, Tokens, EndTurn, DropLease
<1>3. GateT'
  BY DEF Parts, GateT, EndTurn, DropLease
<1>4. TaskT'
  BY DEF Parts, TaskT, TaskRec, Pcs, EndTurn
<1>5. TurnT'
  BY DEF Parts, Handles, TurnT, EndTurn
<1>6. ReaderT'
  BY DEF Parts, ReaderT, EndTurn, NoRead
<1>7. UserT'
  BY DEF Parts, UserT, EndTurn
<1>8. InboxT' /\ RowT' /\ ShownT' /\ SlotT' /\ TeamT' /\ PermitT' /\ BusT' /\ HeardT'
     /\ ArchiverT' /\ BoundT'
  BY DEF Parts, InboxT, RowT, ShownT, SlotT, TeamT, PermitT, BusT, HeardT, ArchiverT, BoundT,
       EndTurn, logVars, teamVars, busVars
<1> QED BY <1>1, <1>2, <1>3, <1>4, <1>5, <1>6, <1>7, <1>8 DEF Parts

LEMMA TurnReleasedTyped ==
  ASSUME Parts, NEW h \in Handles, TurnReleased(h) PROVE Parts' /\ SlotKept
<1>1. SlotKept
  <2>1. CASE slot' = slot
    BY <2>1, StutterKept DEF Parts
  <2>2. CASE Settle(slot, busy, [permit EXCEPT ![h] = @ \/ HasWork(slot[h])])
    <3>1. slot \in [Handles -> SlotRec]
      BY DEF Parts, SlotT
    <3>2. /\ SlotT'
          /\ \A k \in Handles : SameSlot(slot[k], slot'[k])
      BY <2>2, <3>1, SettleMoves
    <3> QED BY <3>2 DEF SlotKept
  <2> QED BY <2>1, <2>2 DEF TurnReleased
<1>2. TeamT'
  BY DEF Parts, TeamT, TurnReleased, Settle
<1>3. PermitT'
  BY DEF Parts, PermitT, TurnReleased, Settle
<1>4. GateT'
  BY DEF Parts, GateT, TurnReleased
<1>5. InboxT' /\ RowT' /\ ShownT' /\ LeaseT' /\ TokenT' /\ TaskT' /\ TurnT' /\ ReaderT'
     /\ BusT' /\ HeardT' /\ ArchiverT' /\ UserT' /\ BoundT'
  BY DEF Parts, InboxT, RowT, ShownT, LeaseT, TokenT, TaskT, TurnT, ReaderT, BusT, HeardT,
       ArchiverT, UserT, BoundT, TurnReleased, logVars, turnVars, busVars, userVars
<1> QED BY <1>1, <1>2, <1>3, <1>4, <1>5 DEF Parts, SlotKept

LEMMA HearTyped ==
  ASSUME Parts, Hear PROVE Parts'
<1>1. TeamT'
  BY DEF Parts, TeamT, Hear, Count, KillLocked
<1>2. PermitT'
  BY DEF Parts, PermitT, Hear, KillLocked
<1>3. TokenT'
  BY DEF Parts, TokenT, Tokens, Hear, KillLocked
<1>4. ReaderT'
  BY DEF Parts, ReaderT, Hear, Count
<1>5. BusT'
  BY DEF Parts, BusT, Hear
<1>6. HeardT'
  <2>1. heard' = heard \/ heard' = [Deaf EXCEPT !.pc = "mail", !.to = Head(bus)]
    BY DEF Hear
  <2>2. Head(bus) \in Handles
    BY DEF Hear, Parts, BusT
  <2>3. Deaf.lens \in [Handles -> Nat]
    BY DEF Deaf
  <2> QED BY <2>1, <2>2, <2>3 DEF Parts, HeardT, Deaf
<1>7. BoundT'
  BY DEF Parts, BoundT, Hear, Fault
<1>8. InboxT' /\ RowT' /\ ShownT' /\ SlotT' /\ LeaseT' /\ GateT' /\ TaskT' /\ TurnT'
     /\ ArchiverT' /\ UserT'
  BY DEF Parts, InboxT, RowT, ShownT, SlotT, LeaseT, GateT, TaskT, TurnT, ArchiverT, UserT,
       Hear, logVars
<1> QED BY <1>1, <1>2, <1>3, <1>4, <1>5, <1>6, <1>7, <1>8 DEF Parts

LEMMA WakeRecipientTyped ==
  ASSUME Parts, WakeRecipient PROVE Parts' /\ SlotKept
<1>1. SlotKept
  BY WakeKept DEF WakeRecipient, Parts
<1>2. PermitT'
  BY DEF Parts, PermitT, WakeRecipient, Wake
<1>3. HeardT'
  BY DEF Parts, Handles, HeardT, WakeRecipient, Deaf
<1>4. InboxT' /\ RowT' /\ ShownT' /\ TeamT' /\ LeaseT' /\ TokenT' /\ GateT' /\ TaskT'
     /\ TurnT' /\ ReaderT' /\ BusT' /\ ArchiverT' /\ UserT' /\ BoundT'
  BY DEF Parts, InboxT, RowT, ShownT, TeamT, LeaseT, TokenT, GateT, TaskT, TurnT, ReaderT,
       BusT, ArchiverT, UserT, BoundT, WakeRecipient, logVars, gateVars, turnVars, userVars
<1> QED BY <1>1, <1>2, <1>3, <1>4 DEF Parts, SlotKept

LEMMA LagTyped ==
  ASSUME Parts, Lag PROVE Parts'
<1>1. BusT'
  BY DEF Parts, BusT, Lag
<1>2. HeardT'
  BY DEF Parts, Handles, HeardT, InboxT, Lag, Deaf
<1>3. BoundT'
  BY DEF Parts, BoundT, Lag, Fault
<1>4. InboxT' /\ RowT' /\ ShownT' /\ SlotT' /\ TeamT' /\ PermitT' /\ LeaseT' /\ TokenT'
     /\ GateT' /\ TaskT' /\ TurnT' /\ ReaderT' /\ ArchiverT' /\ UserT'
  BY DEF Parts, InboxT, RowT, ShownT, SlotT, TeamT, PermitT, LeaseT, TokenT, GateT, TaskT,
       TurnT, ReaderT, ArchiverT, UserT, Lag, logVars, teamVars, gateVars, turnVars
<1> QED BY <1>1, <1>2, <1>3, <1>4 DEF Parts

LEMMA RecoverTyped ==
  ASSUME Parts, Recover PROVE Parts' /\ SlotKept
<1>1. SlotKept
  BY WakeKept DEF Recover, Parts
<1>2. PermitT'
  BY DEF Parts, PermitT, Recover, Wake
<1>3. HeardT'
  BY DEF Parts, Handles, HeardT, Recover, Deaf
<1>4. InboxT' /\ RowT' /\ ShownT' /\ TeamT' /\ LeaseT' /\ TokenT' /\ GateT' /\ TaskT'
     /\ TurnT' /\ ReaderT' /\ BusT' /\ ArchiverT' /\ UserT' /\ BoundT'
  BY DEF Parts, InboxT, RowT, ShownT, TeamT, LeaseT, TokenT, GateT, TaskT, TurnT, ReaderT,
       BusT, ArchiverT, UserT, BoundT, Recover, logVars, gateVars, turnVars, userVars
<1> QED BY <1>1, <1>2, <1>3, <1>4 DEF Parts, SlotKept

LEMMA AskPromptTyped ==
  ASSUME Parts, AskPrompt PROVE Parts' /\ SlotKept
<1>1. SlotKept
  BY ResumeKept DEF Parts, AskPrompt
<1>2. PermitT'
  BY DEF Parts, PermitT, AskPrompt, Resume
<1>3. UserT'
  BY DEF Parts, UserT, AskPrompt, Subtree
<1>4. BoundT'
  BY DEF Parts, BoundT, AskPrompt, Act
<1>5. InboxT' /\ RowT' /\ ShownT' /\ TeamT' /\ LeaseT' /\ TokenT' /\ GateT' /\ TaskT'
     /\ TurnT' /\ ReaderT' /\ BusT' /\ HeardT' /\ ArchiverT'
  BY DEF Parts, InboxT, RowT, ShownT, TeamT, LeaseT, TokenT, GateT, TaskT, TurnT, ReaderT,
       BusT, HeardT, ArchiverT, AskPrompt, logVars, gateVars, turnVars, busVars
<1> QED BY <1>1, <1>2, <1>3, <1>4, <1>5 DEF Parts, SlotKept

LEMMA ClaimPromptTyped ==
  ASSUME Parts, ClaimPrompt PROVE Parts'
<1>1. LeaseT'
  BY DEF Parts, LeaseT, ClaimPrompt
<1>2. UserT'
  BY DEF Parts, UserT, ClaimPrompt
<1>3. InboxT' /\ RowT' /\ ShownT' /\ SlotT' /\ TeamT' /\ PermitT' /\ TokenT' /\ GateT'
     /\ TaskT' /\ TurnT' /\ ReaderT' /\ BusT' /\ HeardT' /\ ArchiverT' /\ BoundT'
  BY DEF Parts, InboxT, RowT, ShownT, SlotT, TeamT, PermitT, TokenT, GateT, TaskT, TurnT,
       ReaderT, BusT, HeardT, ArchiverT, BoundT, ClaimPrompt, logVars, teamVars, turnVars,
       busVars
<1> QED BY <1>1, <1>2, <1>3 DEF Parts

LEMMA StartPromptTyped ==
  ASSUME Parts, StartPrompt PROVE Parts'
<1>1. TeamT'
  BY DEF Parts, TeamT, StartPrompt
<1>2. TokenT'
  BY DEF Parts, Handles, TokenT, Tokens, StartPrompt, Bind
<1>3. TurnT'
  BY DEF Parts, Handles, TurnT, StartPrompt
<1>4. UserT'
  BY DEF Parts, UserT, StartPrompt
<1>5. InboxT' /\ RowT' /\ ShownT' /\ SlotT' /\ PermitT' /\ LeaseT' /\ GateT' /\ TaskT'
     /\ ReaderT' /\ BusT' /\ HeardT' /\ ArchiverT' /\ BoundT'
  BY DEF Parts, InboxT, RowT, ShownT, SlotT, PermitT, LeaseT, GateT, TaskT, ReaderT, BusT,
       HeardT, ArchiverT, BoundT, StartPrompt, logVars, busVars
<1> QED BY <1>1, <1>2, <1>3, <1>4, <1>5 DEF Parts

LEMMA FireCancelTyped ==
  ASSUME Parts, NEW h \in Handles, FireCancel(h) PROVE Parts'
<1>1. TokenT'
  BY DEF Parts, TokenT, Tokens, FireCancel
<1>2. InboxT' /\ RowT' /\ ShownT' /\ SlotT' /\ TeamT' /\ PermitT' /\ LeaseT' /\ GateT'
     /\ TaskT' /\ TurnT' /\ ReaderT' /\ BusT' /\ HeardT' /\ ArchiverT' /\ UserT' /\ BoundT'
  BY DEF Parts, InboxT, RowT, ShownT, SlotT, TeamT, PermitT, LeaseT, GateT, TaskT, TurnT,
       ReaderT, BusT, HeardT, ArchiverT, UserT, BoundT, FireCancel, logVars, teamVars,
       turnVars, busVars, userVars
<1> QED BY <1>1, <1>2 DEF Parts

LEMMA RefusePromptTyped ==
  ASSUME Parts, RefusePrompt PROVE Parts'
<1>1. UserT'
  BY DEF Parts, UserT, RefusePrompt
<1>2. InboxT' /\ RowT' /\ ShownT' /\ SlotT' /\ TeamT' /\ PermitT' /\ LeaseT' /\ TokenT'
     /\ GateT' /\ TaskT' /\ TurnT' /\ ReaderT' /\ BusT' /\ HeardT' /\ ArchiverT' /\ BoundT'
  BY DEF Parts, InboxT, RowT, ShownT, SlotT, TeamT, PermitT, LeaseT, TokenT, GateT, TaskT,
       TurnT, ReaderT, BusT, HeardT, ArchiverT, BoundT, RefusePrompt, logVars, teamVars,
       gateVars, turnVars, busVars
<1> QED BY <1>1, <1>2 DEF Parts

LEMMA CancelUserTyped ==
  ASSUME Parts, NEW h \in Handles, CancelUser(h) PROVE Parts'
<1>1. SlotT'
  <2>1. PICK hs \in SUBSET Handles :
           slot' = [k \in Handles |-> IF k \in hs
                      THEN [slot[k] EXCEPT !.stopped = TRUE, !.synth = FALSE] ELSE slot[k]]
    BY DEF CancelUser, Subtree
  <2>2. \A k \in Handles : [slot[k] EXCEPT !.stopped = TRUE, !.synth = FALSE] \in SlotRec
    BY DEF Parts, SlotT, SlotRec
  <2> QED BY <2>1, <2>2 DEF Parts, SlotT
<1>2. UserT'
  BY DEF Parts, UserT, CancelUser, Subtree
<1>3. BoundT'
  <2>1. bound' = bound /\ acts' = acts + 1 /\ faults' = faults
    BY DEF CancelUser, Act
  <2> QED BY <2>1 DEF Parts, BoundT
<1>4. InboxT' /\ RowT' /\ ShownT' /\ TeamT' /\ PermitT' /\ LeaseT' /\ TokenT' /\ GateT'
     /\ TaskT' /\ TurnT' /\ ReaderT' /\ BusT' /\ HeardT' /\ ArchiverT'
  BY DEF Parts, InboxT, RowT, ShownT, TeamT, PermitT, LeaseT, TokenT, GateT, TaskT, TurnT,
       ReaderT, BusT, HeardT, ArchiverT, CancelUser, logVars, gateVars, turnVars, busVars
<1> QED BY <1>1, <1>2, <1>3, <1>4 DEF Parts

LEMMA CancelNextTyped ==
  ASSUME Parts, NEW h \in Handles, CancelNext(h) PROVE Parts'
<1>1. TokenT'
  BY DEF Parts, TokenT, Tokens, CancelNext, Aim
<1>2. UserT'
  BY DEF Parts, UserT, CancelNext
<1>3. InboxT' /\ RowT' /\ ShownT' /\ SlotT' /\ TeamT' /\ PermitT' /\ LeaseT' /\ GateT'
     /\ TaskT' /\ TurnT' /\ ReaderT' /\ BusT' /\ HeardT' /\ ArchiverT' /\ BoundT'
  BY DEF Parts, InboxT, RowT, ShownT, SlotT, TeamT, PermitT, LeaseT, GateT, TaskT, TurnT,
       ReaderT, BusT, HeardT, ArchiverT, BoundT, CancelNext, logVars, teamVars, turnVars,
       busVars
<1> QED BY <1>1, <1>2, <1>3 DEF Parts

LEMMA SteerSubagentTyped ==
  ASSUME Parts, NEW m \in Members, SteerSubagent(m) PROVE Parts'
<1>1. InboxT'
  BY DEF Parts, Handles, InboxT, SteerSubagent, Mail
<1>2. BusT'
  BY DEF Parts, Handles, BusT, SteerSubagent, Mail
<1>3. UserT'
  BY DEF Parts, Handles, UserT, SteerSubagent
<1>4. BoundT'
  BY DEF Parts, Handles, BoundT, SteerSubagent, Act
<1>5. RowT' /\ ShownT' /\ SlotT' /\ TeamT' /\ PermitT' /\ LeaseT' /\ TokenT' /\ GateT'
     /\ TaskT' /\ TurnT' /\ ReaderT' /\ HeardT' /\ ArchiverT'
  BY DEF Parts, RowT, ShownT, SlotT, TeamT, PermitT, LeaseT, TokenT, GateT, TaskT, TurnT,
       ReaderT, HeardT, ArchiverT, SteerSubagent, teamVars, gateVars, turnVars
<1> QED BY <1>1, <1>2, <1>3, <1>4, <1>5 DEF Parts

LEMMA SteerResumesTyped ==
  ASSUME Parts, NEW m \in Members, SteerResumes(m) PROVE Parts' /\ SlotKept
<1>1. SlotKept
  BY ResumeKept DEF Parts, SteerResumes
<1>2. PermitT'
  BY DEF Parts, Handles, PermitT, SteerResumes, Resume
<1>3. UserT'
  BY DEF Parts, Handles, UserT, SteerResumes, Subtree
<1>4. InboxT' /\ RowT' /\ ShownT' /\ TeamT' /\ LeaseT' /\ TokenT' /\ GateT' /\ TaskT'
     /\ TurnT' /\ ReaderT' /\ BusT' /\ HeardT' /\ ArchiverT' /\ BoundT'
  BY DEF Parts, InboxT, RowT, ShownT, TeamT, LeaseT, TokenT, GateT, TaskT, TurnT, ReaderT,
       BusT, HeardT, ArchiverT, BoundT, SteerResumes, logVars, gateVars, turnVars, busVars
<1> QED BY <1>1, <1>2, <1>3, <1>4 DEF Parts, SlotKept

LEMMA HoldTyped ==
  ASSUME Parts, Hold PROVE Parts'
<1>1. GateT'
  BY DEF Parts, GateT, Hold
<1>2. BoundT'
  BY DEF Parts, BoundT, Hold, Fault
<1>3. InboxT' /\ RowT' /\ ShownT' /\ SlotT' /\ TeamT' /\ PermitT' /\ LeaseT' /\ TokenT'
     /\ TaskT' /\ TurnT' /\ ReaderT' /\ BusT' /\ HeardT' /\ ArchiverT' /\ UserT'
  BY DEF Parts, InboxT, RowT, ShownT, SlotT, TeamT, PermitT, LeaseT, TokenT, TaskT, TurnT,
       ReaderT, BusT, HeardT, ArchiverT, UserT, Hold, logVars, teamVars, turnVars, busVars
<1> QED BY <1>1, <1>2, <1>3 DEF Parts

LEMMA LiftTyped ==
  ASSUME Parts, Lift PROVE Parts'
<1>1. GateT'
  BY DEF Parts, GateT, Lift
<1>2. InboxT' /\ RowT' /\ ShownT' /\ SlotT' /\ TeamT' /\ PermitT' /\ LeaseT' /\ TokenT'
     /\ TaskT' /\ TurnT' /\ ReaderT' /\ BusT' /\ HeardT' /\ ArchiverT' /\ UserT' /\ BoundT'
  BY DEF Parts, InboxT, RowT, ShownT, SlotT, TeamT, PermitT, LeaseT, TokenT, TaskT, TurnT,
       ReaderT, BusT, HeardT, ArchiverT, UserT, BoundT, Lift, logVars, teamVars, turnVars,
       busVars, userVars
<1> QED BY <1>1, <1>2 DEF Parts

-----------------------------------------------------------------------------
(***************************************************************************)
(* A stop of the user.                                                     *)
(***************************************************************************)

\* finish_run clears the busy flag of its own slot and, besides, at most makes the lead owe
\* a synthesis.
LEMMA FinishMoves ==
  ASSUME Parts, NEW h \in Handles, FinishRun(h)
  PROVE  \/ slot' = slot /\ busy' = busy /\ ~slot[h].here
         \/ /\ busy' = (IF busy > 0 THEN busy - 1 ELSE 0) /\ slot[h].here
            /\ \A k \in Handles : SameSlot([slot EXCEPT ![h].busy = FALSE][k], slot'[k])
<1> DEFINE sl == [slot EXCEPT ![h].busy = FALSE]
           b == IF busy > 0 THEN busy - 1 ELSE 0
<1>1. sl \in [Handles -> SlotRec]
  BY DEF Parts, SlotT, SlotRec
<1>2. \A s : SameSlot(s, s)
  BY DEF SameSlot
<1>3. CASE Settle(sl, b, permit) /\ slot[h].here
  BY <1>1, <1>3, SettleMoves DEF Settle
<1>4. CASE slot' = sl /\ busy' = b /\ slot[h].here
  BY <1>2, <1>4
<1> QED BY <1>3, <1>4 DEF FinishRun

\* A turn started after the stop needs the stop lifted first, and one started before it is
\* still in the list that cancel_user_turn goes over.
LEMMA StopStep ==
  ASSUME Parts, Parts', StoppedIsQuiet, [Next]_vars PROVE StoppedIsQuiet'
<1>1. ASSUME NEW h \in Handles, NextRun(h) PROVE StoppedIsQuiet'
  <2>1. \A k \in Handles : slot'[k].stopped = slot[k].stopped
    BY <1>1 DEF NextRun, Parts, SlotT, SlotRec
  <2>2. ~slot[h].stopped
    BY <1>1 DEF NextRun, Owes
  <2> QED BY <1>1, <2>1, <2>2 DEF NextRun, KillLocked, StoppedIsQuiet, Parts, LeaseT, TokenT
<1>2. ASSUME NEW h \in Handles, NextIdle(h) PROVE StoppedIsQuiet'
  <2>1. SlotKept
    BY <1>2, StutterKept DEF Parts, NextIdle
  <2> QED BY <1>2, <2>1 DEF Parts, LeaseT, TokenT, StoppedIsQuiet, SlotKept, SameSlot,
       NextIdle, gateVars, userVars
<1>3. ASSUME NEW h \in Handles, NextStop(h) PROVE StoppedIsQuiet'
  <2>1. \A k \in Handles : slot'[k].stopped => slot[k].stopped
    BY <1>3 DEF NextStop, Removed, NoSlot, Parts, SlotT, SlotRec, Handles
  <2> QED BY <1>3, <2>1 DEF NextStop, StoppedIsQuiet, gateVars, userVars
<1>4. ASSUME NEW h \in Handles, StartTurn(h) PROVE StoppedIsQuiet'
  BY <1>4 DEF Parts, LeaseT, TokenT, StoppedIsQuiet, SlotT, SlotRec, StartTurn, DropLease, Bind,
       userVars
<1>5. ASSUME NEW h \in Handles, FinishRun(h) PROVE StoppedIsQuiet'
  <2>1. \A k \in Handles : slot'[k].stopped => slot[k].stopped
    BY <1>5, FinishMoves DEF SameSlot, Parts, SlotT, SlotRec
  <2> QED BY <1>5, <2>1 DEF FinishRun, StoppedIsQuiet, gateVars, userVars
<1>6. ASSUME NEW h \in Handles, TakeReport(h) PROVE StoppedIsQuiet'
  <2>1. SlotKept
    BY <1>6, TakeReportTyped
  <2> QED BY <1>6, <2>1 DEF Parts, LeaseT, TokenT, StoppedIsQuiet, SlotKept, SameSlot,
       TakeReport, gateVars, userVars
<1>7. ASSUME NEW h \in Handles, MailReport(h) PROVE StoppedIsQuiet'
  <2>1. SlotKept
    BY <1>7, MailReportTyped
  <2> QED BY <1>7, <2>1 DEF Parts, LeaseT, TokenT, StoppedIsQuiet, SlotKept, SameSlot,
       MailReport, gateVars, userVars
<1>8. ASSUME NEW h \in Handles, ArchiveReported(h) PROVE StoppedIsQuiet'
  <2>1. \A k \in Handles : slot'[k].stopped => slot[k].stopped
    BY <1>8 DEF ArchiveReported, Removed, NoSlot, Parts, SlotT, SlotRec, Handles
  <2> QED BY <1>8, <2>1 DEF ArchiveReported, StoppedIsQuiet, gateVars, userVars
<1>9. ASSUME NEW m \in Members, StopSlot(m) PROVE StoppedIsQuiet'
  <2>1. SlotKept
    BY <1>9, StopSlotTyped
  <2> QED BY <1>9, <2>1 DEF Parts, LeaseT, TokenT, StoppedIsQuiet, SlotKept, SameSlot,
       StopSlot, Aim, Handles
<1>10. ASSUME NEW m \in Members, ArchiveStopped(m) PROVE StoppedIsQuiet'
  <2>1. \A k \in Handles : slot'[k].stopped => slot[k].stopped
    BY <1>10 DEF ArchiveStopped, Removed, NoSlot, Parts, SlotT, SlotRec, Handles
  <2> QED BY <1>10, <2>1 DEF ArchiveStopped, StoppedIsQuiet, gateVars, userVars
<1>11. ASSUME NEW h \in Handles, EmitKill(h) PROVE StoppedIsQuiet'
  <2>1. SlotKept
    BY <1>11, EmitKillTyped
  <2> QED BY <1>11, <2>1 DEF Parts, LeaseT, TokenT, StoppedIsQuiet, SlotKept, SameSlot,
       EmitKill, gateVars, userVars
<1>12. ASSUME NEW m \in Members, RegisterLog(m) PROVE StoppedIsQuiet'
  <2>1. SlotKept
    BY <1>12, StutterKept DEF Parts, RegisterLog, teamVars
  <2> QED BY <1>12, <2>1 DEF Parts, LeaseT, TokenT, StoppedIsQuiet, SlotKept, SameSlot,
       RegisterLog, teamVars, gateVars, userVars, Handles
<1>13. ASSUME NEW m \in Members, InsertSlot(m) PROVE StoppedIsQuiet'
  <2>1. \A k \in Handles : slot'[k].stopped => slot[k].stopped
    BY <1>13 DEF InsertSlot, Removed, NoSlot, Parts, SlotT, SlotRec, Handles
  <2> QED BY <1>13, <2>1 DEF InsertSlot, StoppedIsQuiet, gateVars, userVars
<1>14. ASSUME NEW to \in Handles, Send(to) PROVE StoppedIsQuiet'
  <2>1. SlotKept
    BY <1>14, StutterKept DEF Parts, Send, teamVars
  <2> QED BY <1>14, <2>1 DEF Parts, LeaseT, TokenT, StoppedIsQuiet, SlotKept, SameSlot, Send,
       teamVars, gateVars, userVars
<1>15. ASSUME BeginRead PROVE StoppedIsQuiet'
  <2>1. SlotKept
    BY <1>15, StutterKept DEF Parts, BeginRead, teamVars
  <2> QED BY <1>15, <2>1 DEF Parts, LeaseT, TokenT, StoppedIsQuiet, SlotKept, SameSlot,
       BeginRead, teamVars, gateVars, userVars
<1>16. ASSUME NEW h \in Handles, Consume(h) PROVE StoppedIsQuiet'
  <2>1. SlotKept
    BY <1>16, StutterKept DEF Parts, Consume, teamVars
  <2> QED BY <1>16, <2>1 DEF Parts, LeaseT, TokenT, StoppedIsQuiet, SlotKept, SameSlot,
       Consume, teamVars, gateVars, userVars
<1>17. ASSUME Acknowledge PROVE StoppedIsQuiet'
  <2>1. SlotKept
    BY <1>17, AcknowledgeTyped
  <2> QED BY <1>17, <2>1 DEF Parts, LeaseT, TokenT, StoppedIsQuiet, SlotKept, SameSlot,
       Acknowledge, gateVars, userVars
<1>18. ASSUME NEW m \in Members, SubmitReport(m) PROVE StoppedIsQuiet'
  <2>1. SlotKept
    BY <1>18, SubmitReportTyped
  <2> QED BY <1>18, <2>1 DEF Parts, LeaseT, TokenT, StoppedIsQuiet, SlotKept, SameSlot,
       SubmitReport, gateVars, userVars, Handles
<1>19. ASSUME NEW h \in Handles, TurnFails(h) PROVE StoppedIsQuiet'
  <2>1. SlotKept
    BY <1>19, TurnFailsTyped
  <2> QED BY <1>19, <2>1 DEF Parts, LeaseT, TokenT, StoppedIsQuiet, SlotKept, SameSlot,
       TurnFails, gateVars
<1>20. ASSUME Broadcast PROVE StoppedIsQuiet'
  <2>1. SlotKept
    BY <1>20, StutterKept DEF Parts, Broadcast, teamVars
  <2> QED BY <1>20, <2>1 DEF Parts, LeaseT, TokenT, StoppedIsQuiet, SlotKept, SameSlot,
       Broadcast, teamVars, gateVars, userVars
<1>21. ASSUME NEW h \in Handles, EndTurn(h) PROVE StoppedIsQuiet'
  <2>1. SlotKept
    BY <1>21, StutterKept DEF Parts, EndTurn, teamVars
  <2> QED BY <1>21, <2>1 DEF Parts, LeaseT, TokenT, StoppedIsQuiet, SlotKept, SameSlot,
       EndTurn, DropLease, teamVars
<1>22. ASSUME NEW h \in Handles, TurnReleased(h) PROVE StoppedIsQuiet'
  <2>1. SlotKept
    BY <1>22, TurnReleasedTyped
  <2> QED BY <1>22, <2>1 DEF Parts, LeaseT, TokenT, StoppedIsQuiet, SlotKept, SameSlot,
       TurnReleased, userVars
<1>23. ASSUME Hear PROVE StoppedIsQuiet'
  <2>1. SlotKept
    BY <1>23, StutterKept DEF Parts, Hear
  <2> QED BY <1>23, <2>1 DEF Parts, LeaseT, TokenT, StoppedIsQuiet, SlotKept, SameSlot, Hear,
       KillLocked
<1>24. ASSUME WakeRecipient PROVE StoppedIsQuiet'
  <2>1. SlotKept
    BY <1>24, WakeRecipientTyped
  <2> QED BY <1>24, <2>1 DEF Parts, LeaseT, TokenT, StoppedIsQuiet, SlotKept, SameSlot,
       WakeRecipient, gateVars, userVars
<1>25. ASSUME Lag PROVE StoppedIsQuiet'
  <2>1. SlotKept
    BY <1>25, StutterKept DEF Parts, Lag, teamVars
  <2> QED BY <1>25, <2>1 DEF Parts, LeaseT, TokenT, StoppedIsQuiet, SlotKept, SameSlot, Lag,
       teamVars, gateVars
<1>26. ASSUME Recover PROVE StoppedIsQuiet'
  <2>1. SlotKept
    BY <1>26, RecoverTyped
  <2> QED BY <1>26, <2>1 DEF Parts, LeaseT, TokenT, StoppedIsQuiet, SlotKept, SameSlot,
       Recover, gateVars, userVars
<1>27. ASSUME AskPrompt PROVE StoppedIsQuiet'
  <2>1. SlotKept
    BY <1>27, AskPromptTyped
  <2> QED BY <1>27, <2>1 DEF Parts, LeaseT, TokenT, StoppedIsQuiet, SlotKept, SameSlot,
       AskPrompt, gateVars
<1>28. ASSUME ClaimPrompt PROVE StoppedIsQuiet'
  <2>1. SlotKept
    BY <1>28, StutterKept DEF Parts, ClaimPrompt, teamVars
  <2> QED BY <1>28, <2>1 DEF Parts, LeaseT, TokenT, StoppedIsQuiet, SlotKept, SameSlot,
       ClaimPrompt, teamVars
<1>29. ASSUME RefusePrompt PROVE StoppedIsQuiet'
  <2>1. SlotKept
    BY <1>29, StutterKept DEF Parts, RefusePrompt, teamVars
  <2> QED BY <1>29, <2>1 DEF Parts, LeaseT, TokenT, StoppedIsQuiet, SlotKept, SameSlot,
       RefusePrompt, teamVars, gateVars
<1>30. ASSUME NEW h \in Handles, CancelUser(h) PROVE StoppedIsQuiet'
  BY <1>30 DEF Parts, LeaseT, TokenT, StoppedIsQuiet, SlotT, SlotRec, CancelUser, gateVars
<1>31. ASSUME NEW h \in Handles, CancelNext(h) PROVE StoppedIsQuiet'
  <2>1. SlotKept
    BY <1>31, StutterKept DEF Parts, CancelNext, teamVars
  <2> QED BY <1>31, <2>1 DEF Parts, LeaseT, TokenT, StoppedIsQuiet, SlotKept, SameSlot,
       CancelNext, Aim, teamVars
<1>32. ASSUME NEW m \in Members, SteerSubagent(m) PROVE StoppedIsQuiet'
  <2>1. SlotKept
    BY <1>32, StutterKept DEF Parts, SteerSubagent, teamVars
  <2> QED BY <1>32, <2>1 DEF Parts, LeaseT, TokenT, StoppedIsQuiet, SlotKept, SameSlot,
       SteerSubagent, teamVars, gateVars, Handles
<1>33. ASSUME NEW m \in Members, SteerResumes(m) PROVE StoppedIsQuiet'
  <2>1. SlotKept
    BY <1>33, SteerResumesTyped
  <2> QED BY <1>33, <2>1 DEF Parts, LeaseT, TokenT, StoppedIsQuiet, SlotKept, SameSlot,
       SteerResumes, gateVars, Handles
<1>34. ASSUME Hold PROVE StoppedIsQuiet'
  <2>1. SlotKept
    BY <1>34, StutterKept DEF Parts, Hold, teamVars
  <2> QED BY <1>34, <2>1 DEF Parts, LeaseT, TokenT, StoppedIsQuiet, SlotKept, SameSlot, Hold,
       teamVars
<1>35. ASSUME Lift PROVE StoppedIsQuiet'
  <2>1. SlotKept
    BY <1>35, StutterKept DEF Parts, Lift, teamVars
  <2> QED BY <1>35, <2>1 DEF Parts, LeaseT, TokenT, StoppedIsQuiet, SlotKept, SameSlot, Lift,
       teamVars, userVars
<1>36. CASE UNCHANGED vars
  BY <1>36 DEF vars, Parts, LeaseT, TokenT, StoppedIsQuiet, SlotT, SlotRec
<1>37. ASSUME StartPrompt PROVE StoppedIsQuiet'
  <2>1. SlotKept
    BY <1>37, StutterKept DEF Parts, StartPrompt
  <2> QED BY <1>37, <2>1 DEF Parts, LeaseT, TokenT, StoppedIsQuiet, SlotKept, SameSlot,
       StartPrompt, Bind
<1>38. ASSUME NEW h \in Handles, FireCancel(h) PROVE StoppedIsQuiet'
  <2>1. SlotKept
    BY <1>38, StutterKept DEF Parts, FireCancel, teamVars
  <2> QED BY <1>38, <2>1 DEF Parts, LeaseT, TokenT, StoppedIsQuiet, SlotKept, SameSlot,
       FireCancel, teamVars, userVars
<1> QED BY <1>1, <1>2, <1>3, <1>4, <1>5, <1>6, <1>7, <1>8, <1>9, <1>10, <1>11, <1>12, <1>13,
     <1>14, <1>15, <1>16, <1>17, <1>18, <1>19, <1>20, <1>21, <1>22, <1>23, <1>24, <1>25, <1>26,
     <1>27, <1>28, <1>29, <1>30, <1>31, <1>32, <1>33, <1>34, <1>35, <1>36, <1>37, <1>38
     DEF Next, Progress, TaskStep, Listen, Handles

-----------------------------------------------------------------------------
(***************************************************************************)
(* Cursors and mail.                                                       *)
(***************************************************************************)

\* What the proof of NothingSkipped needs besides: the claim of a running wake holds only
\* what its turn was given, and a handle that is not registered yet has read nothing.
ReadInv ==
  \A h \in Handles :
    /\ row[h].on = "live" => /\ 1..row[h].cursor \subseteq shown[h]
                             /\ 1..row[h].work \subseteq shown[h]
                             /\ 1..slot[h].cursor \subseteq shown[h]
    /\ row[h].on = "none" => /\ inbox[h] = 0 /\ row[h].cursor = 0 /\ row[h].work = 0
                             /\ slot[h].cursor = 0
                             /\ ~(h = Main /\ bound.lead)

\* Steps that move no cursor, no inbox and no row.
LEMMA ReadFrame ==
  ASSUME ReadInv, inbox' = inbox, row' = row, shown' = shown, bound' = bound,
         \A k \in Handles : slot'[k].cursor = slot[k].cursor
  PROVE  ReadInv'
BY DEF ReadInv

\* Steps that take the slot or the row of h away.
LEMMA ReadGone ==
  ASSUME ReadInv, inbox' = inbox, shown' = shown, bound' = bound, NEW h \in Handles,
         row' = row \/ (row'[h].on \notin {"live", "none"}
                         /\ \A k \in Handles \ {h} : row'[k] = row[k]),
         \A k \in Handles : slot'[k].cursor \in {slot[k].cursor, 0}
  PROVE  ReadInv'
<1>1. \A k \in Handles : row[k].on = "live" => 1..slot'[k].cursor \subseteq shown[k]
  BY DEF ReadInv
<1> QED BY <1>1 DEF ReadInv

\* A cursor only moves over mail that was shown in the same step, or that a wake claimed
\* when it was shown.
LEMMA ReadStep ==
  ASSUME Parts, Parts', ReadInv, [Next]_vars PROVE ReadInv'
<1>1. ASSUME NEW h \in Handles, NextRun(h) PROVE ReadInv'
  <2>1. \A k \in Handles : slot'[k].cursor = slot[k].cursor
    BY <1>1 DEF NextRun, Parts, SlotT, SlotRec
  <2> QED BY <1>1, <2>1, ReadFrame DEF NextRun, logVars
<1>2. ASSUME NEW h \in Handles, NextIdle(h) PROVE ReadInv'
  BY <1>2, ReadFrame DEF NextIdle, logVars, userVars
<1>3. ASSUME NEW h \in Handles, NextStop(h) PROVE ReadInv'
  <2>1. \A k \in Handles : slot'[k].cursor \in {slot[k].cursor, 0}
    BY <1>3 DEF NextStop, Removed, NoSlot, Parts, SlotT, SlotRec, Handles
  <2> QED BY <1>3, <2>1, ReadGone DEF NextStop, logVars, userVars, Handles
<1>4. ASSUME NEW h \in Handles, StartTurn(h) PROVE ReadInv'
  <2> DEFINE from == Larger(slot[h].cursor, row[h].cursor)
  <2>1. /\ inbox' = inbox /\ bound' = bound
        /\ \A k \in Handles \ {h} :
             slot'[k] = slot[k] /\ row'[k] = row[k] /\ shown'[k] = shown[k]
    BY <1>4 DEF StartTurn, userVars, Parts, RowT, SlotT, ShownT
  <2>2. from \in Nat /\ inbox[h] \in Nat /\ slot[h].cursor \in Nat /\ row[h].cursor \in Nat
    BY DEF Larger, Parts, RowT, SlotT, SlotRec, InboxT
  <2>3. row[h].on = "live" => 1..from \subseteq shown[h]
    BY DEF ReadInv, Larger
  <2>4. row[h].on = "none" => from = 0
    BY DEF ReadInv, Larger
  <2>5. CASE /\ row' = row /\ shown' = shown
             /\ slot'[h].cursor \in {slot[h].cursor, Larger(slot[h].cursor, from)}
    <3>1. row[h].on = "live" => 1..slot'[h].cursor \subseteq shown[h]
      BY <2>3, <2>5 DEF ReadInv, Larger
    <3>2. row[h].on = "none" => slot'[h].cursor = 0
      BY <2>4, <2>5 DEF ReadInv, Larger
    <3> QED BY <2>1, <2>5, <3>1, <3>2 DEF ReadInv
  <2>6. CASE /\ row[h].on = "live" /\ row'[h].on = "live" /\ row'[h].cursor = row[h].cursor
             /\ row'[h].work \in {row[h].work, inbox[h]}
             /\ shown'[h] = shown[h] \cup (from + 1)..inbox[h]
             /\ slot'[h].cursor \in {slot[h].cursor, Larger(slot[h].cursor, inbox[h])}
    <3>1. 1..inbox[h] \subseteq shown'[h] /\ shown[h] \subseteq shown'[h]
      BY <2>2, <2>3, <2>6
    <3>2. 1..slot'[h].cursor \subseteq shown'[h]
      BY <2>6, <3>1 DEF ReadInv, Larger
    <3> HIDE DEF from
    <3> QED BY <2>1, <2>6, <3>1, <3>2 DEF ReadInv
  <2>7. \/ row' = row /\ shown' = shown
           /\ slot'[h].cursor \in {slot[h].cursor, Larger(slot[h].cursor, from)}
        \/ /\ row[h].on = "live" /\ row'[h].on = "live" /\ row'[h].cursor = row[h].cursor
           /\ row'[h].work \in {row[h].work, inbox[h]}
           /\ shown'[h] = shown[h] \cup (from + 1)..inbox[h]
           /\ slot'[h].cursor \in {slot[h].cursor, Larger(slot[h].cursor, inbox[h])}
    BY <1>4 DEF StartTurn, Parts, SlotT, SlotRec, RowT, ShownT
  <2> QED BY <2>5, <2>6, <2>7
<1>5. ASSUME NEW h \in Handles, FinishRun(h) PROVE ReadInv'
  <2>1. \A k \in Handles : slot'[k].cursor = slot[k].cursor
    <3>1. \A k \in Handles : [slot EXCEPT ![h].busy = FALSE][k].cursor = slot[k].cursor
      BY DEF Parts, SlotT, SlotRec
    <3> QED BY <1>5, <3>1, FinishMoves DEF SameSlot
  <2>2. \A k \in Handles : row'[k].on = row[k].on
    BY <1>5 DEF FinishRun, RecordActivity, Parts, RowT
  <2>3. \A k \in Handles : row[k].on = "live" =>
          1..row'[k].cursor \subseteq shown[k] /\ 1..row'[k].work \subseteq shown[k]
    BY <1>5 DEF FinishRun, RecordActivity, ReadThrough, Larger, ReadInv, Parts, RowT
  <2>4. \A k \in Handles : row[k].on # "live" => row'[k] = row[k]
    BY <1>5 DEF FinishRun, RecordActivity, Parts, RowT
  <2> QED BY <1>5, <2>1, <2>2, <2>3, <2>4 DEF FinishRun, ReadInv, userVars
<1>6. ASSUME NEW h \in Handles, TakeReport(h) PROVE ReadInv'
  <2>1. \A k \in Handles : slot'[k].cursor = slot[k].cursor
    BY <1>6, TakeReportTyped DEF SlotKept, SameSlot
  <2> QED BY <1>6, <2>1, ReadFrame DEF TakeReport, logVars, userVars
<1>7. ASSUME NEW h \in Handles, MailReport(h) PROVE ReadInv'
  <2>1. \A k \in Handles : slot'[k].cursor = slot[k].cursor
    BY <1>7, MailReportTyped DEF SlotKept, SameSlot
  <2>2. \A k \in Handles : inbox'[k] = inbox[k] \/ (k = Main /\ bound.lead)
    BY <1>7 DEF MailReport, Mail, Parts, InboxT
  <2> QED BY <1>7, <2>1, <2>2 DEF MailReport, ReadInv, userVars
<1>8. ASSUME NEW h \in Handles, ArchiveReported(h) PROVE ReadInv'
  <2>1. \A k \in Handles : slot'[k].cursor \in {slot[k].cursor, 0}
    BY <1>8 DEF ArchiveReported, Removed, NoSlot, Parts, SlotT, SlotRec, Handles
  <2>2. row' = row \/ (row'[h].on \notin {"live", "none"}
                       /\ \A k \in Handles \ {h} : row'[k] = row[k])
    BY <1>8 DEF ArchiveReported, Archived, Parts, RowT, Handles
  <2> QED BY <1>8, <2>1, <2>2, ReadGone DEF ArchiveReported, userVars, Handles
<1>9. ASSUME NEW m \in Members, StopSlot(m) PROVE ReadInv'
  <2>1. \A k \in Handles : slot'[k].cursor = slot[k].cursor
    BY <1>9, StopSlotTyped DEF SlotKept, SameSlot
  <2> QED BY <1>9, <2>1, ReadFrame DEF StopSlot, logVars
<1>10. ASSUME NEW m \in Members, ArchiveStopped(m) PROVE ReadInv'
  <2>1. \A k \in Handles : slot'[k].cursor \in {slot[k].cursor, 0}
    BY <1>10 DEF ArchiveStopped, Removed, NoSlot, Parts, SlotT, SlotRec, Handles
  <2>2. row' = row \/ (row'[m].on \notin {"live", "none"}
                       /\ \A k \in Handles \ {m} : row'[k] = row[k])
    BY <1>10 DEF ArchiveStopped, Archived, Parts, RowT, Handles
  <2> QED BY <1>10, <2>1, <2>2, ReadGone DEF ArchiveStopped, userVars, Handles
<1>11. ASSUME NEW h \in Handles, EmitKill(h) PROVE ReadInv'
  <2>1. \A k \in Handles : slot'[k].cursor \in {slot[k].cursor, 0}
    BY <1>11, EmitKillTyped DEF SlotKept, SameSlot
  <2>2. row' = row \/ (row'[h].on \notin {"live", "none"}
                       /\ \A k \in Handles \ {h} : row'[k] = row[k])
    BY <1>11 DEF EmitKill, Archived, Parts, RowT, Handles
  <2> QED BY <1>11, <2>1, <2>2, ReadGone DEF EmitKill, userVars, Handles
<1>12. ASSUME NEW m \in Members, RegisterLog(m) PROVE ReadInv'
  <2>1. m \in Handles /\ row[m].on = "none" /\ row'[m].cursor = 0 /\ row'[m].work = 0
    BY <1>12 DEF RegisterLog, ReadInv, Parts, RowT, Handles
  <2>2. row'[m].on = "live" /\ \A k \in Handles \ {m} : row'[k] = row[k]
    BY <1>12 DEF RegisterLog, Parts, RowT, Handles
  <2>3. slot[m].cursor = 0 /\ 1..0 = {}
    BY <2>1 DEF ReadInv
  <2> QED BY <1>12, <2>1, <2>2, <2>3 DEF RegisterLog, ReadInv, teamVars, userVars
<1>13. ASSUME NEW m \in Members, InsertSlot(m) PROVE ReadInv'
  <2>1. \A k \in Handles : slot'[k].cursor \in {slot[k].cursor, 0}
    BY <1>13 DEF InsertSlot, Removed, NoSlot, Parts, SlotT, SlotRec, Handles
  <2> QED BY <1>13, <2>1, ReadGone DEF InsertSlot, logVars, userVars, Handles
<1>14. ASSUME NEW to \in Handles, Send(to) PROVE ReadInv'
  <2>1. row[to].on = "live" /\ \A k \in Handles \ {to} : inbox'[k] = inbox[k]
    BY <1>14 DEF Send, Mail, Parts, InboxT
  <2> QED BY <1>14, <2>1 DEF Send, ReadInv, teamVars, userVars
<1>15. ASSUME BeginRead PROVE ReadInv'
  BY <1>15, ReadFrame DEF BeginRead, logVars, teamVars, userVars
<1>16. ASSUME NEW h \in Handles, Consume(h) PROVE ReadInv'
  <2>1. row[h].on # "none" /\ \A k \in Handles \ {h} : row'[k] = row[k] /\ shown'[k] = shown[k]
    BY <1>16 DEF Consume, ReadInv, ReadThrough, Larger, Parts, RowT, ShownT
  <2>2. row'[h].on = row[h].on /\ row'[h].cursor = inbox[h] /\ row'[h].work = row[h].work
    BY <1>16 DEF Consume, Parts, RowT
  <2>3. shown[h] \subseteq shown'[h] /\ (ReadThrough(h) + 1)..inbox[h] \subseteq shown'[h]
    BY <1>16 DEF Consume, Parts, ShownT
  <2>4. row[h].on = "live" => 1..ReadThrough(h) \subseteq shown[h]
    BY DEF ReadInv, ReadThrough, Larger
  <2>5. ReadThrough(h) \in Nat /\ inbox[h] \in Nat
    BY DEF ReadThrough, Larger, Parts, RowT, InboxT
  <2>6. row[h].on = "live" => 1..inbox[h] \subseteq shown'[h]
    BY <2>3, <2>4, <2>5
  <2> QED BY <1>16, <2>1, <2>2, <2>3, <2>6 DEF Consume, ReadInv, teamVars, userVars
<1>17. ASSUME Acknowledge PROVE ReadInv'
  <2>1. \A k \in Handles : slot'[k].cursor = slot[k].cursor
    BY <1>17, AcknowledgeTyped DEF SlotKept, SameSlot
  <2> QED BY <1>17, <2>1, ReadFrame DEF Acknowledge, logVars, userVars
<1>18. ASSUME NEW m \in Members, SubmitReport(m) PROVE ReadInv'
  <2>1. \A k \in Handles : slot'[k].cursor = slot[k].cursor
    BY <1>18, SubmitReportTyped DEF SlotKept, SameSlot
  <2> QED BY <1>18, <2>1, ReadFrame DEF SubmitReport, logVars, userVars
<1>19. ASSUME NEW h \in Handles, TurnFails(h) PROVE ReadInv'
  <2>1. \A k \in Handles : slot'[k].cursor = slot[k].cursor
    BY <1>19, TurnFailsTyped DEF SlotKept, SameSlot
  <2> QED BY <1>19, <2>1, ReadFrame DEF TurnFails, logVars
<1>20. ASSUME Broadcast PROVE ReadInv'
  <2>1. \A k \in Handles : row[k].on = "none" => inbox'[k] = inbox[k]
    BY <1>20 DEF Broadcast
  <2> QED BY <1>20, <2>1 DEF Broadcast, ReadInv, teamVars, userVars
<1>21. ASSUME NEW h \in Handles, EndTurn(h) PROVE ReadInv'
  BY <1>21, ReadFrame DEF EndTurn, logVars, teamVars
<1>22. ASSUME NEW h \in Handles, TurnReleased(h) PROVE ReadInv'
  <2>1. \A k \in Handles : slot'[k].cursor = slot[k].cursor
    BY <1>22, TurnReleasedTyped DEF SlotKept, SameSlot
  <2> QED BY <1>22, <2>1, ReadFrame DEF TurnReleased, logVars, userVars
<1>23. ASSUME Hear PROVE ReadInv'
  BY <1>23, ReadFrame DEF Hear, logVars
<1>24. ASSUME WakeRecipient PROVE ReadInv'
  <2>1. \A k \in Handles : slot'[k].cursor = slot[k].cursor
    BY <1>24, WakeRecipientTyped DEF SlotKept, SameSlot
  <2> QED BY <1>24, <2>1, ReadFrame DEF WakeRecipient, logVars, userVars
<1>25. ASSUME Lag PROVE ReadInv'
  BY <1>25, ReadFrame DEF Lag, logVars, teamVars
<1>26. ASSUME Recover PROVE ReadInv'
  <2>1. \A k \in Handles : slot'[k].cursor = slot[k].cursor
    BY <1>26, RecoverTyped DEF SlotKept, SameSlot
  <2> QED BY <1>26, <2>1, ReadFrame DEF Recover, logVars, userVars
<1>27. ASSUME AskPrompt PROVE ReadInv'
  <2>1. \A k \in Handles : slot'[k].cursor = slot[k].cursor
    BY <1>27, AskPromptTyped DEF SlotKept, SameSlot
  <2> QED BY <1>27, <2>1, ReadFrame DEF AskPrompt, logVars
<1>28. ASSUME ClaimPrompt PROVE ReadInv'
  BY <1>28, ReadFrame DEF ClaimPrompt, logVars, teamVars
<1>29. ASSUME RefusePrompt PROVE ReadInv'
  BY <1>29, ReadFrame DEF RefusePrompt, logVars, teamVars
<1>30. ASSUME NEW h \in Handles, CancelUser(h) PROVE ReadInv'
  <2>1. \A k \in Handles : slot'[k].cursor = slot[k].cursor
    BY <1>30 DEF CancelUser, Parts, SlotT, SlotRec
  <2> QED BY <1>30, <2>1, ReadFrame DEF CancelUser, logVars
<1>31. ASSUME NEW h \in Handles, CancelNext(h) PROVE ReadInv'
  BY <1>31, ReadFrame DEF CancelNext, logVars, teamVars
<1>32. ASSUME NEW m \in Members, SteerSubagent(m) PROVE ReadInv'
  <2>1. row[m].on = "live" /\ \A k \in Handles \ {m} : inbox'[k] = inbox[k]
    BY <1>32 DEF SteerSubagent, Mail, Parts, InboxT
  <2> QED BY <1>32, <2>1 DEF SteerSubagent, ReadInv, teamVars, userVars
<1>33. ASSUME NEW m \in Members, SteerResumes(m) PROVE ReadInv'
  <2>1. \A k \in Handles : slot'[k].cursor = slot[k].cursor
    BY <1>33, SteerResumesTyped DEF SlotKept, SameSlot
  <2> QED BY <1>33, <2>1, ReadFrame DEF SteerResumes, logVars
<1>34. ASSUME Hold PROVE ReadInv'
  BY <1>34, ReadFrame DEF Hold, logVars, teamVars
<1>35. ASSUME Lift PROVE ReadInv'
  BY <1>35, ReadFrame DEF Lift, logVars, teamVars, userVars
<1>36. CASE UNCHANGED vars
  BY <1>36 DEF vars, ReadInv
<1>37. ASSUME StartPrompt PROVE ReadInv'
  BY <1>37, ReadFrame DEF StartPrompt, logVars
<1>38. ASSUME NEW h \in Handles, FireCancel(h) PROVE ReadInv'
  BY <1>38, ReadFrame DEF FireCancel, logVars, teamVars, userVars
<1> QED BY <1>1, <1>2, <1>3, <1>4, <1>5, <1>6, <1>7, <1>8, <1>9, <1>10, <1>11, <1>12, <1>13,
     <1>14, <1>15, <1>16, <1>17, <1>18, <1>19, <1>20, <1>21, <1>22, <1>23, <1>24, <1>25, <1>26,
     <1>27, <1>28, <1>29, <1>30, <1>31, <1>32, <1>33, <1>34, <1>35, <1>36, <1>37, <1>38
     DEF Next, Progress, TaskStep, Listen, Handles

-----------------------------------------------------------------------------
(***************************************************************************)
(* The busy count.                                                         *)
(***************************************************************************)

\* What the proof of BusyExact needs besides: only a slot that is there is busy, the slot of
\* a running wake stays busy when the team is killed, a task has no slot before it starts,
\* and the lease of a wake is held in its planning and its turn only.
Runs == {"plan", "turn", "finish"}
BusySlots == {h \in Handles : slot[h].busy}
\* The part of BusyInv about one handle.
BusyAt(h) ==
  /\ slot[h].busy => slot[h].here
  /\ slot[h].here /\ task[h].pc \in Runs => slot[h].busy
  /\ slot[h].busy /\ ~killed => task[h].pc \in Runs
  /\ task[h].pc = "none" => ~slot[h].here
  /\ lease[h] = "harness" => task[h].pc \in {"plan", "turn"}
BusyInv == busy = Cardinality(BusySlots) /\ \A h \in Handles : BusyAt(h)

\* Steps that move no busy flag and no task into or out of a wake.
LEMMA BusyFrame ==
  ASSUME BusyInv, busy' = busy, killed => killed',
         \A k \in Handles : /\ slot'[k].here = slot[k].here /\ slot'[k].busy = slot[k].busy
                            /\ task'[k].pc \in Runs <=> task[k].pc \in Runs
                            /\ task'[k].pc = "none" => task[k].pc = "none"
                            /\ lease'[k] = "harness" => task'[k].pc \in {"plan", "turn"}
  PROVE  BusyInv'
<1>1. BusySlots' = BusySlots
  BY DEF BusySlots
<1>2. Cardinality(BusySlots)' = Cardinality(BusySlots)
  BY <1>1
<1> QED BY <1>2 DEF BusyInv, BusyAt

\* A team is finite, so its busy slots can be counted.
LEMMA BusyFinite == IsFiniteSet(BusySlots)
<1>1. IsFiniteSet(Handles)
  BY TeamAssumption, FS_AddElement DEF Handles
<1> QED BY <1>1, FS_Subset DEF BusySlots

\* h leaves the set of busy slots, or was not in it.
LEMMA BusyDown ==
  ASSUME Parts, busy = Cardinality(BusySlots), NEW h \in Handles,
         \A k \in Handles \ {h} : slot'[k].busy = slot[k].busy, ~slot'[h].busy,
         busy' = IF slot[h].busy /\ busy > 0 THEN busy - 1 ELSE busy
  PROVE  busy' = Cardinality(BusySlots')
<1>1. BusySlots' = BusySlots \ {h}
  BY DEF BusySlots
<1>2. IsFiniteSet(BusySlots) /\ Cardinality(BusySlots) \in Nat
  BY BusyFinite, FS_CardinalityType
<1>3. CASE slot[h].busy
  <2>1. h \in BusySlots
    BY <1>3 DEF BusySlots
  <2>2. Cardinality(BusySlots \ {h}) = Cardinality(BusySlots) - 1 /\ Cardinality(BusySlots) # 0
    BY <1>2, <2>1, FS_RemoveElement, FS_EmptySet
  <2> QED BY <1>1, <1>2, <1>3, <2>2
<1>4. CASE ~slot[h].busy
  <2>1. BusySlots \ {h} = BusySlots
    BY <1>4 DEF BusySlots
  <2> QED BY <1>1, <1>4, <2>1
<1> QED BY <1>3, <1>4

\* h joins the set of busy slots.
LEMMA BusyUp ==
  ASSUME busy = Cardinality(BusySlots), NEW h \in Handles,
         \A k \in Handles \ {h} : slot'[k].busy = slot[k].busy, slot'[h].busy, ~slot[h].busy,
         busy' = busy + 1
  PROVE  busy' = Cardinality(BusySlots')
<1>1. BusySlots' = BusySlots \cup {h} /\ h \notin BusySlots
  BY DEF BusySlots
<1> QED BY <1>1, BusyFinite, FS_AddElement

\* remove_slot counts a busy slot down once, whichever task takes the slot.
LEMMA BusyRemoved ==
  ASSUME Parts, BusyInv, NEW h \in Handles, Removed(h), killed' = killed,
         \A k \in Handles : lease'[k] = lease[k],
         \A k \in Handles : \/ task'[k].pc = task[k].pc
                            \/ k = h /\ task[k].pc \notin Runs /\ task'[k].pc = "gone"
  PROVE  BusyInv'
<1>1. /\ \A k \in Handles \ {h} : slot'[k] = slot[k]
      /\ ~slot'[h].busy /\ ~slot'[h].here
      /\ busy' = IF slot[h].busy /\ busy > 0 THEN busy - 1 ELSE busy
  BY DEF Removed, NoSlot, Parts, SlotT
<1>2. busy' = Cardinality(BusySlots')
  BY <1>1, BusyDown DEF BusyInv, BusyAt
<1>3. \A k \in Handles : BusyAt(k)'
  BY <1>1 DEF BusyInv, BusyAt, Runs
<1> QED BY <1>2, <1>3 DEF BusyInv, BusyAt

\* Every way into and out of a wake moves the flag and the count together.
LEMMA BusyStep ==
  ASSUME Parts, Parts', BusyInv, [Next]_vars PROVE BusyInv'
<1>1. ASSUME NEW h \in Handles, NextRun(h) PROVE BusyInv'
  <2>1. task[h].pc \notin Runs \cup {"none"} /\ slot[h].here /\ ~slot[h].busy /\ ~killed
    BY <1>1 DEF NextRun, Ready, BusyInv, BusyAt, Runs
  <2>2. /\ \A k \in Handles \ {h} :
             slot'[k] = slot[k] /\ task'[k] = task[k] /\ lease'[k] = lease[k]
        /\ slot'[h].here /\ slot'[h].busy /\ busy' = busy + 1
    BY <1>1 DEF NextRun, Goto, Parts, SlotT, SlotRec, TaskT, LeaseT
  <2>3. \/ task'[h].pc = "plan"
        \/ task'[h].pc = "parked" /\ killed' /\ lease'[h] # "harness"
    <3>1. \/ task' = [task EXCEPT ![h] = [@ EXCEPT !.pc = "plan", !.synth = slot[h].synth]]
          \/ task' = [task EXCEPT ![h].pc = "parked"] /\ killed' /\ lease'[h] = "free"
      BY <1>1 DEF NextRun, Goto, KillLocked
    <3> QED BY <3>1 DEF Parts, TaskT, TaskRec
  <2>4. busy' = Cardinality(BusySlots')
    BY <2>1, <2>2, BusyUp DEF BusyInv, BusyAt
  <2>5. \A k \in Handles : BusyAt(k)'
    BY <2>1, <2>2, <2>3 DEF BusyInv, BusyAt, Runs
  <2> QED BY <2>4, <2>5 DEF BusyInv, BusyAt
<1>2. ASSUME NEW h \in Handles, NextIdle(h) PROVE BusyInv'
  <2>1. \A k \in Handles : slot'[k].here = slot[k].here /\ slot'[k].busy = slot[k].busy
    BY <1>2 DEF NextIdle
  <2>2. \A k \in Handles : /\ task'[k].pc \in Runs <=> task[k].pc \in Runs
                           /\ task'[k].pc = "none" => task[k].pc = "none"
                           /\ lease'[k] = "harness" => task'[k].pc \in {"plan", "turn"}
    BY <1>2 DEF NextIdle, Ready, Goto, BusyInv, BusyAt, Runs, Parts, TaskT, TaskRec, LeaseT,
         gateVars
  <2> QED BY <1>2, <2>1, <2>2, BusyFrame DEF NextIdle, gateVars
<1>3. ASSUME NEW h \in Handles, NextStop(h) PROVE BusyInv'
  <2>1. task[h].pc \notin Runs /\ task' = [task EXCEPT ![h].pc = "gone"]
    BY <1>3 DEF NextStop, Ready, Goto, Runs
  <2>2. task'[h].pc = "gone" /\ \A k \in Handles \ {h} : task'[k] = task[k]
    BY <2>1 DEF Parts, TaskT, TaskRec
  <2> QED BY <1>3, <2>1, <2>2, BusyRemoved DEF NextStop, gateVars
<1>4. ASSUME NEW h \in Handles, StartTurn(h) PROVE BusyInv'
  <2>1. \A k \in Handles : slot'[k].here = slot[k].here /\ slot'[k].busy = slot[k].busy
    BY <1>4 DEF StartTurn, Parts, SlotT, SlotRec
  <2>2. /\ task'[h].pc \in Runs
        /\ lease'[h] = "harness" => task'[h].pc = "turn"
        /\ \A k \in Handles \ {h} : task'[k] = task[k] /\ lease'[k] = lease[k]
    <3>1. \/ /\ lease' = [lease EXCEPT ![h] = "free"]
             /\ \E b \in BOOLEAN :
                  task' = [task EXCEPT ![h] = [Fresh EXCEPT !.pc = "finish", !.failed = b]]
          \/ lease' = lease /\ task' = [task EXCEPT ![h] = [Fresh EXCEPT !.pc = "turn"]]
      BY <1>4 DEF StartTurn, DropLease
    <3> QED BY <3>1 DEF Fresh, Runs, Parts, TaskT, LeaseT
  <2>3. task[h].pc \in Runs /\ task'[h].pc # "none"
    BY <1>4, <2>2 DEF StartTurn, Runs
  <2> QED BY <1>4, <2>1, <2>2, <2>3, BusyFrame DEF StartTurn, BusyInv, BusyAt
<1>5. ASSUME NEW h \in Handles, FinishRun(h) PROVE BusyInv'
  <2>1. /\ \A k \in Handles \ {h} : task'[k] = task[k]
        /\ task[h].pc = "finish" /\ task'[h].pc \notin Runs \cup {"none"}
        /\ lease' = lease /\ killed' = killed
    BY <1>5 DEF FinishRun, Fresh, Runs, Parts, TaskT, TaskRec, gateVars
  <2>2. lease[h] # "harness"
    BY <2>1 DEF BusyInv, BusyAt
  <2>3. CASE slot' = slot /\ busy' = busy /\ ~slot[h].here
    <3>1. BusySlots' = BusySlots
      BY <2>3 DEF BusySlots
    <3>2. \A k \in Handles : BusyAt(k)'
      BY <2>1, <2>2, <2>3 DEF BusyInv, BusyAt, Runs
    <3> QED BY <2>3, <3>1, <3>2 DEF BusyInv, BusyAt
  <2>4. CASE /\ busy' = (IF busy > 0 THEN busy - 1 ELSE 0) /\ slot[h].here
             /\ \A k \in Handles : SameSlot([slot EXCEPT ![h].busy = FALSE][k], slot'[k])
    <3>1. /\ \A k \in Handles \ {h} :
               slot'[k].here = slot[k].here /\ slot'[k].busy = slot[k].busy
          /\ slot'[h].here /\ ~slot'[h].busy
      <4>1. /\ \A k \in Handles \ {h} : [slot EXCEPT ![h].busy = FALSE][k] = slot[k]
            /\ [slot EXCEPT ![h].busy = FALSE][h].here
            /\ ~[slot EXCEPT ![h].busy = FALSE][h].busy
        BY <2>4 DEF Parts, SlotT, SlotRec
      <4> QED BY <2>4, <4>1 DEF SameSlot
    <3>2. slot[h].busy
      BY <2>1, <2>4 DEF BusyInv, BusyAt, Runs
    <3>3. busy' = IF slot[h].busy /\ busy > 0 THEN busy - 1 ELSE busy
      BY <2>4, <3>2 DEF Parts, TeamT
    <3>4. busy' = Cardinality(BusySlots')
      BY <3>1, <3>3, BusyDown DEF BusyInv, BusyAt
    <3>5. \A k \in Handles : BusyAt(k)'
      BY <2>1, <2>2, <3>1 DEF BusyInv, BusyAt, Runs
    <3> QED BY <3>4, <3>5 DEF BusyInv, BusyAt
  <2> QED BY <1>5, <2>3, <2>4, FinishMoves
<1>6. ASSUME NEW h \in Handles, TakeReport(h) PROVE BusyInv'
  <2>1. \A k \in Handles : slot'[k].here = slot[k].here /\ slot'[k].busy = slot[k].busy
    BY <1>6, TakeReportTyped DEF SlotKept, SameSlot
  <2>2. \A k \in Handles : /\ task'[k].pc \in Runs <=> task[k].pc \in Runs
                           /\ task'[k].pc = "none" => task[k].pc = "none"
                           /\ lease'[k] = "harness" => task'[k].pc \in {"plan", "turn"}
    BY <1>6 DEF TakeReport, Goto, BusyInv, BusyAt, Runs, Parts, TaskT, TaskRec, LeaseT, gateVars
  <2> QED BY <1>6, <2>1, <2>2, BusyFrame DEF TakeReport, gateVars
<1>7. ASSUME NEW h \in Handles, MailReport(h) PROVE BusyInv'
  <2>1. \A k \in Handles : slot'[k].here = slot[k].here /\ slot'[k].busy = slot[k].busy
    BY <1>7, MailReportTyped DEF SlotKept, SameSlot
  <2>2. \A k \in Handles : /\ task'[k].pc \in Runs <=> task[k].pc \in Runs
                           /\ task'[k].pc = "none" => task[k].pc = "none"
                           /\ lease'[k] = "harness" => task'[k].pc \in {"plan", "turn"}
    BY <1>7 DEF MailReport, Goto, BusyInv, BusyAt, Runs, Parts, TaskT, TaskRec, LeaseT, gateVars
  <2> QED BY <1>7, <2>1, <2>2, BusyFrame DEF MailReport, gateVars
<1>8. ASSUME NEW h \in Handles, ArchiveReported(h) PROVE BusyInv'
  <2>1. task[h].pc \notin Runs /\ task' = [task EXCEPT ![h] = [Fresh EXCEPT !.pc = "gone"]]
    BY <1>8 DEF ArchiveReported, Runs
  <2>2. task'[h].pc = "gone" /\ \A k \in Handles \ {h} : task'[k] = task[k]
    BY <2>1 DEF Parts, TaskT, Fresh
  <2> QED BY <1>8, <2>1, <2>2, BusyRemoved DEF ArchiveReported, gateVars
<1>9. ASSUME NEW m \in Members, StopSlot(m) PROVE BusyInv'
  <2>1. \A k \in Handles : slot'[k].here = slot[k].here /\ slot'[k].busy = slot[k].busy
    BY <1>9, StopSlotTyped DEF SlotKept, SameSlot
  <2> QED BY <1>9, <2>1, BusyFrame DEF BusyInv, BusyAt, StopSlot
<1>10. ASSUME NEW m \in Members, ArchiveStopped(m) PROVE BusyInv'
  <2>1. CASE Removed(m)
    BY <1>10, <2>1, BusyRemoved DEF ArchiveStopped, gateVars, Handles
  <2>2. CASE slot' = [slot EXCEPT ![m].archiving = FALSE] /\ busy' = busy
    <3>1. \A k \in Handles : slot'[k].here = slot[k].here /\ slot'[k].busy = slot[k].busy
      BY <2>2 DEF Parts, SlotT, SlotRec, Handles
    <3> QED BY <1>10, <2>2, <3>1, BusyFrame DEF BusyInv, BusyAt, ArchiveStopped, gateVars
  <2> QED BY <1>10, <2>1, <2>2 DEF ArchiveStopped
<1>11. ASSUME NEW h \in Handles, EmitKill(h) PROVE BusyInv'
  <2>1. \A k \in Handles : slot'[k].here = slot[k].here /\ slot'[k].busy = slot[k].busy
    BY <1>11, EmitKillTyped DEF SlotKept, SameSlot
  <2> QED BY <1>11, <2>1, BusyFrame DEF BusyInv, BusyAt, EmitKill, gateVars
<1>12. ASSUME NEW m \in Members, RegisterLog(m) PROVE BusyInv'
  BY <1>12, BusyFrame DEF BusyInv, BusyAt, RegisterLog, teamVars, gateVars
<1>13. ASSUME NEW m \in Members, InsertSlot(m) PROVE BusyInv'
  <2>1. m \in Handles /\ task[m].pc = "none" /\ ~slot[m].here /\ ~slot[m].busy
    BY <1>13 DEF InsertSlot, BusyInv, BusyAt, Handles
  <2>2. /\ \A k \in Handles \ {m} : slot'[k] = slot[k] /\ task'[k] = task[k]
        /\ slot'[m].here /\ ~slot'[m].busy /\ task'[m].pc = "parked"
    BY <1>13 DEF InsertSlot, Goto, NoSlot, Parts, SlotT, TaskT, TaskRec, Handles
  <2>3. busy' = Cardinality(BusySlots')
    BY <1>13, <2>1, <2>2, BusyDown DEF InsertSlot, BusyInv, BusyAt
  <2>4. \A k \in Handles : BusyAt(k)'
    BY <1>13, <2>1, <2>2 DEF InsertSlot, BusyInv, BusyAt, Runs, gateVars
  <2> QED BY <2>3, <2>4 DEF BusyInv, BusyAt
<1>14. ASSUME NEW to \in Handles, Send(to) PROVE BusyInv'
  BY <1>14, BusyFrame DEF BusyInv, BusyAt, Send, teamVars, gateVars
<1>15. ASSUME BeginRead PROVE BusyInv'
  BY <1>15, BusyFrame DEF BusyInv, BusyAt, BeginRead, teamVars, gateVars
<1>16. ASSUME NEW h \in Handles, Consume(h) PROVE BusyInv'
  BY <1>16, BusyFrame DEF BusyInv, BusyAt, Consume, teamVars, gateVars
<1>17. ASSUME Acknowledge PROVE BusyInv'
  <2>1. \A k \in Handles : slot'[k].here = slot[k].here /\ slot'[k].busy = slot[k].busy
    BY <1>17, AcknowledgeTyped DEF SlotKept, SameSlot
  <2> QED BY <1>17, <2>1, BusyFrame DEF BusyInv, BusyAt, Acknowledge, gateVars
<1>18. ASSUME NEW m \in Members, SubmitReport(m) PROVE BusyInv'
  <2>1. \A k \in Handles : slot'[k].here = slot[k].here /\ slot'[k].busy = slot[k].busy
    BY <1>18, SubmitReportTyped DEF SlotKept, SameSlot
  <2> QED BY <1>18, <2>1, BusyFrame DEF BusyInv, BusyAt, SubmitReport, gateVars
<1>19. ASSUME NEW h \in Handles, TurnFails(h) PROVE BusyInv'
  <2>1. \A k \in Handles : slot'[k].here = slot[k].here /\ slot'[k].busy = slot[k].busy
    BY <1>19, TurnFailsTyped DEF SlotKept, SameSlot
  <2> QED BY <1>19, <2>1, BusyFrame DEF BusyInv, BusyAt, TurnFails, gateVars
<1>20. ASSUME Broadcast PROVE BusyInv'
  BY <1>20, BusyFrame DEF BusyInv, BusyAt, Broadcast, teamVars, gateVars
<1>21. ASSUME NEW h \in Handles, EndTurn(h) PROVE BusyInv'
  <2>1. \A k \in Handles : slot'[k].here = slot[k].here /\ slot'[k].busy = slot[k].busy
    BY <1>21 DEF EndTurn, teamVars
  <2>2. \A k \in Handles : /\ task'[k].pc \in Runs <=> task[k].pc \in Runs
                           /\ task'[k].pc = "none" => task[k].pc = "none"
                           /\ lease'[k] = "harness" => task'[k].pc \in {"plan", "turn"}
    <3>1. lease'[h] = "free" /\ \A k \in Handles \ {h} : lease'[k] = lease[k]
      BY <1>21 DEF EndTurn, DropLease, Parts, LeaseT
    <3>2. \/ task' = task
          \/ /\ lease[h] = "harness"
             /\ task'[h].pc = "finish" /\ \A k \in Handles \ {h} : task'[k] = task[k]
      <4>1. \/ task' = task
            \/ /\ lease[h] = "harness"
               /\ task' = [task EXCEPT ![h] =
                            [task[h] EXCEPT !.pc = "finish", !.failed = (turn[h] = "over")]]
        BY <1>21 DEF EndTurn
      <4> QED BY <4>1 DEF Parts, TaskT, TaskRec
    <3> QED BY <3>1, <3>2 DEF BusyInv, BusyAt, Runs
  <2> QED BY <1>21, <2>1, <2>2, BusyFrame DEF EndTurn, teamVars
<1>22. ASSUME NEW h \in Handles, TurnReleased(h) PROVE BusyInv'
  <2>1. \A k \in Handles : slot'[k].here = slot[k].here /\ slot'[k].busy = slot[k].busy
    BY <1>22, TurnReleasedTyped DEF SlotKept, SameSlot
  <2>2. busy' = busy
    BY <1>22 DEF TurnReleased, Settle
  <2> QED BY <1>22, <2>1, <2>2, BusyFrame DEF BusyInv, BusyAt, TurnReleased
<1>23. ASSUME Hear PROVE BusyInv'
  <2>1. killed => killed'
    BY <1>23 DEF Hear
  <2> QED BY <1>23, <2>1, BusyFrame DEF BusyInv, BusyAt, Hear
<1>24. ASSUME WakeRecipient PROVE BusyInv'
  <2>1. \A k \in Handles : slot'[k].here = slot[k].here /\ slot'[k].busy = slot[k].busy
    BY <1>24, WakeRecipientTyped DEF SlotKept, SameSlot
  <2> QED BY <1>24, <2>1, BusyFrame DEF BusyInv, BusyAt, WakeRecipient, gateVars
<1>25. ASSUME Lag PROVE BusyInv'
  BY <1>25, BusyFrame DEF BusyInv, BusyAt, Lag, teamVars, gateVars
<1>26. ASSUME Recover PROVE BusyInv'
  <2>1. \A k \in Handles : slot'[k].here = slot[k].here /\ slot'[k].busy = slot[k].busy
    BY <1>26, RecoverTyped DEF SlotKept, SameSlot
  <2> QED BY <1>26, <2>1, BusyFrame DEF BusyInv, BusyAt, Recover, gateVars
<1>27. ASSUME AskPrompt PROVE BusyInv'
  <2>1. \A k \in Handles : slot'[k].here = slot[k].here /\ slot'[k].busy = slot[k].busy
    BY <1>27, AskPromptTyped DEF SlotKept, SameSlot
  <2> QED BY <1>27, <2>1, BusyFrame DEF BusyInv, BusyAt, AskPrompt, gateVars
<1>28. ASSUME ClaimPrompt PROVE BusyInv'
  <2>1. \A k \in Handles : slot'[k].here = slot[k].here /\ slot'[k].busy = slot[k].busy
    BY <1>28 DEF ClaimPrompt, teamVars
  <2>2. \A k \in Handles : /\ task'[k].pc \in Runs <=> task[k].pc \in Runs
                           /\ task'[k].pc = "none" => task[k].pc = "none"
                           /\ lease'[k] = "harness" => task'[k].pc \in {"plan", "turn"}
    BY <1>28 DEF ClaimPrompt, BusyInv, BusyAt, Runs, Parts, TaskT, TaskRec, LeaseT
  <2> QED BY <1>28, <2>1, <2>2, BusyFrame DEF ClaimPrompt, teamVars
<1>29. ASSUME RefusePrompt PROVE BusyInv'
  BY <1>29, BusyFrame DEF BusyInv, BusyAt, RefusePrompt, teamVars, gateVars
<1>30. ASSUME NEW h \in Handles, CancelUser(h) PROVE BusyInv'
  <2>1. \A k \in Handles : slot'[k].here = slot[k].here /\ slot'[k].busy = slot[k].busy
    BY <1>30 DEF CancelUser, Parts, SlotT, SlotRec
  <2> QED BY <1>30, <2>1, BusyFrame DEF BusyInv, BusyAt, CancelUser, gateVars
<1>31. ASSUME NEW h \in Handles, CancelNext(h) PROVE BusyInv'
  BY <1>31, BusyFrame DEF BusyInv, BusyAt, CancelNext, teamVars
<1>32. ASSUME NEW m \in Members, SteerSubagent(m) PROVE BusyInv'
  BY <1>32, BusyFrame DEF BusyInv, BusyAt, SteerSubagent, teamVars, gateVars
<1>33. ASSUME NEW m \in Members, SteerResumes(m) PROVE BusyInv'
  <2>1. \A k \in Handles : slot'[k].here = slot[k].here /\ slot'[k].busy = slot[k].busy
    BY <1>33, SteerResumesTyped DEF SlotKept, SameSlot
  <2> QED BY <1>33, <2>1, BusyFrame DEF BusyInv, BusyAt, SteerResumes, gateVars
<1>34. ASSUME Hold PROVE BusyInv'
  BY <1>34, BusyFrame DEF BusyInv, BusyAt, Hold, teamVars
<1>35. ASSUME Lift PROVE BusyInv'
  BY <1>35, BusyFrame DEF BusyInv, BusyAt, Lift, teamVars
<1>36. CASE UNCHANGED vars
  BY <1>36 DEF vars, BusyInv, BusyAt, BusySlots
<1>37. ASSUME StartPrompt PROVE BusyInv'
  BY <1>37, BusyFrame DEF BusyInv, BusyAt, StartPrompt
<1>38. ASSUME NEW h \in Handles, FireCancel(h) PROVE BusyInv'
  BY <1>38, BusyFrame DEF BusyInv, BusyAt, FireCancel, teamVars
<1> QED BY <1>1, <1>2, <1>3, <1>4, <1>5, <1>6, <1>7, <1>8, <1>9, <1>10, <1>11, <1>12, <1>13,
     <1>14, <1>15, <1>16, <1>17, <1>18, <1>19, <1>20, <1>21, <1>22, <1>23, <1>24, <1>25, <1>26,
     <1>27, <1>28, <1>29, <1>30, <1>31, <1>32, <1>33, <1>34, <1>35, <1>36, <1>37, <1>38
     DEF Next, Progress, TaskStep, Listen, Handles

-----------------------------------------------------------------------------
(***************************************************************************)
(* Theorems.                                                               *)
(***************************************************************************)

Inv == Parts /\ StoppedIsQuiet /\ ReadInv /\ BusyInv

\* Every initial state, with or without a lead, satisfies the invariant.
LEMMA InitInv == Init => Inv
<1> SUFFICES ASSUME Init PROVE Inv
  OBVIOUS
<1>1. Main \in Handles /\ bound \in Scenarios /\ bound.lead \in BOOLEAN
  BY TeamAssumption DEF Init, Handles
<1>2. InboxT /\ ShownT /\ PermitT /\ TokenT /\ GateT
  BY DEF Init, InboxT, ShownT, PermitT, TokenT, Tokens, GateT
<1>3. RowT
  BY DEF Init, RowT
<1>4. SlotT
  <2>1. \A b \in BOOLEAN : [NoSlot EXCEPT !.here = b] \in SlotRec
    BY DEF NoSlot, SlotRec
  <2>2. \A h \in Handles : (h = Main /\ bound.lead) \in BOOLEAN
    OBVIOUS
  <2> QED BY <2>1, <2>2 DEF Init, SlotT
<1>5. TaskT /\ LeaseT /\ TurnT
  BY DEF Init, TaskT, TaskRec, Pcs, Fresh, LeaseT, TurnT
<1>6. TeamT /\ ReaderT /\ BusT /\ ArchiverT /\ UserT /\ BoundT
  <2>1. TeamT /\ ArchiverT /\ ReaderT
    BY DEF Init, TeamT, ArchiverT, ReaderT, NoRead
  <2>2. BusT
    BY DEF Init, BusT
  <2>3. UserT /\ BoundT
    BY DEF Init, UserT, BoundT
  <2> QED BY <2>1, <2>2, <2>3
<1>7. HeardT
  BY <1>1 DEF Init, HeardT, Deaf
<1>8. StoppedIsQuiet
  BY DEF Init, StoppedIsQuiet, NoSlot
<1>9. ReadInv
  <2>1. \A h \in Handles : slot[h].cursor = 0 /\ inbox[h] = 0
    BY DEF Init, NoSlot
  <2>2. \A h \in Handles : /\ row[h].cursor = 0 /\ row[h].work = 0
                           /\ row[h].on = "none" => ~(h = Main /\ bound.lead)
    BY DEF Init
  <2>3. 1..0 = {}
    OBVIOUS
  <2> QED BY <2>1, <2>2, <2>3 DEF ReadInv
<1>10. BusyInv
  <2>1. \A h \in Handles : ~slot[h].busy
    BY DEF Init, NoSlot
  <2>2. BusySlots = {}
    BY <2>1 DEF BusySlots
  <2>3. busy = Cardinality(BusySlots)
    BY <2>2, FS_EmptySet DEF Init
  <2>4. \A h \in Handles : /\ slot[h].here <=> (h = Main /\ bound.lead)
                           /\ task[h].pc = IF h = Main /\ bound.lead THEN "parked" ELSE "none"
                           /\ lease[h] # "harness"
    BY DEF Init, NoSlot, Fresh
  <2> QED BY <2>1, <2>3, <2>4 DEF BusyInv, BusyAt, Runs
<1> QED BY <1>2, <1>3, <1>4, <1>5, <1>6, <1>7, <1>8, <1>9, <1>10 DEF Inv, Parts

\* No action leaves the types.
LEMMA PartsStep ==
  ASSUME Parts, [Next]_vars PROVE Parts'
<1>1. CASE UNCHANGED vars
  BY <1>1 DEF vars, Parts, InboxT, RowT, ShownT, SlotT, TeamT, PermitT, LeaseT, TokenT, GateT,
       TaskT, TurnT, ReaderT, BusT, HeardT, ArchiverT, UserT, BoundT
<1> QED BY <1>1, NextRunTyped, NextIdleTyped, NextStopTyped, StartTurnTyped, FinishRunTyped,
     TakeReportTyped, MailReportTyped, ArchiveReportedTyped, StopSlotTyped,
     ArchiveStoppedTyped, EmitKillTyped, RegisterLogTyped, InsertSlotTyped, SendTyped,
     BeginReadTyped, ConsumeTyped, AcknowledgeTyped, SubmitReportTyped, TurnFailsTyped,
     BroadcastTyped, EndTurnTyped, TurnReleasedTyped, HearTyped, WakeRecipientTyped, LagTyped,
     RecoverTyped, AskPromptTyped, ClaimPromptTyped, RefusePromptTyped, CancelUserTyped,
     CancelNextTyped, SteerSubagentTyped, SteerResumesTyped, HoldTyped, LiftTyped,
     StartPromptTyped, FireCancelTyped DEF Next, Progress, TaskStep, Listen, Handles

\* Every step keeps the invariant.
LEMMA NextInv == Inv /\ [Next]_vars => Inv'
<1> SUFFICES ASSUME Inv, [Next]_vars PROVE Inv'
  OBVIOUS
<1>1. Parts'
  BY PartsStep DEF Inv
<1> QED BY <1>1, StopStep, ReadStep, BusyStep DEF Inv

\* The invariant all theorems below rest on.
THEOREM Invariance == Spec => []Inv
BY InitInv, NextInv, PTL DEF Spec

\* The team state, the log rows, the gate, the bus and the actors of resident.rs keep their
\* types; in particular the busy count never goes below zero.
THEOREM TypeCorrect == Spec => []TypeOK
<1>1. Inv => TypeOK
  BY DEF Inv, Parts, InboxT, RowT, ShownT, SlotT, TeamT, PermitT, LeaseT, TokenT, GateT,
       TaskT, TurnT, ReaderT, BusT, HeardT, ArchiverT, UserT, BoundT, SlotRec, TaskRec, TypeOK
<1> QED BY <1>1, Invariance, PTL

\* Once cancel_user_turn has gone over a session it stopped, every turn that the harness
\* started there has a cancel aimed at its token, fired at it or carried over by bind_cancel;
\* the exception, marked in the token, is a binding between the clone and its firing.
THEOREM StopHolds == Spec => []StoppedIsQuiet
<1>1. Inv => StoppedIsQuiet
  BY DEF Inv
<1> QED BY <1>1, Invariance, PTL

\* No cursor of a live agent, in its slot or in the log, passes a mail that none of its turns
\* was given: run_one_turn, steer drains and record_activity in any order.
THEOREM NoMailSkipped == Spec => []NothingSkipped
<1>1. Inv => NothingSkipped
  BY DEF Inv, ReadInv, NothingSkipped, Larger
<1> QED BY <1>1, Invariance, PTL

\* The busy count that maybe_fire_quiescence trusts is the number of busy slots, and until
\* the team is killed a slot is busy exactly while its task is in a wake.
THEOREM BusyCounted == Spec => []BusyExact
<1>1. Inv => BusyExact
  BY DEF Inv, BusyInv, BusyAt, BusySlots, Runs, BusyExact
<1> QED BY <1>1, Invariance, PTL
=============================================================================
