---------------------------- MODULE ResidentTeam ----------------------------
(***************************************************************************)
(* One team of resident agents: the lead (Main) and its members, each a    *)
(* long-lived task that parks until mail wakes it, runs one turn under the *)
(* turn gate's lease, and parks again (hya-core/src/resident.rs).          *)
(*                                                                         *)
(* The parts that race: the tasks; the listener of the event bus, which    *)
(* turns each MailSent into a wake and may lag behind the bus; the turns,  *)
(* which send mail and read new mail into their tool results (steer.rs);   *)
(* the callback a released lease spawns; the user, who prompts, cancels    *)
(* and steers; an archive of a member; a restart handoff that holds the    *)
(* gate and is given up.                                                   *)
(*                                                                         *)
(* A mail is its position in the inbox of its recipient.  Channel policy,  *)
(* sidecars, workflow routes, revival and store failures are left out.     *)
(***************************************************************************)
EXTENDS Integers, Sequences, FiniteSets, SequencesExt

CONSTANTS Members,      \* the resident subagents of the team
          Main,         \* the lead
          Scenarios,    \* bounds: which slots a behaviour has, and how many mails agents put
                        \* into one inbox, acts of the user or a parent, kinds of faults
          MaxReleased   \* bound: callbacks of released leases that wait, for each session

Handles == Members \cup {Main}

ASSUME TeamAssumption ==
  /\ Main \notin Members /\ IsFiniteSet(Members)
  /\ Scenarios \subseteq [lead : BOOLEAN, members : SUBSET Members,
                         mail : Nat, acts : Nat, faults : Nat]
  /\ MaxReleased \in Nat \ {0}

VARIABLES
  inbox,      \* team log: number of mails in each inbox
  row,        \* team log: roster row of each handle
  shown,      \* history: the mails a model was given, as a prompt or in a tool result
  slot,       \* TeamState.residents
  busy,       \* TeamState.busy
  newWork,    \* TeamState: work_seq # last_synth_work_seq
  leadFailed, \* TeamState.lead_failed
  killed,     \* TeamState.killed
  doomed,     \* slots that emit_kill still has to finalize
  permit,     \* a notification stored in each slot's Notify
  lease,      \* turn gate: who runs the turn of each session
  token,      \* turn gate: the cancel token of the active turn
  holding,    \* turn gate: a restart handoff holds it closed
  released,   \* spawned turn_released callbacks that have not run yet
  task,       \* resident_task of each slot
  turn,       \* the turn that holds each lease
  reader,     \* the mail that the lead's turn is reading (steer drain, wait, channel read)
  bus,        \* MailSent envelopes the listener has not received: recipients
  heard,      \* the envelope the listener works on
  archiver,   \* stop_and_archive_live of each member
  asked,      \* a prompt of the user waits for the lead's lease or runs
  stopping,   \* sessions that cancel_user_turn still has to cancel
  steering,   \* members whose steer was delivered and whose stop is still to be lifted
  bound,      \* the scenario of this behaviour
  acts,       \* prompts, cancels, steers and archives so far
  faults      \* kinds of faults that happened: each happens at most once

logVars  == <<inbox, row, shown>>
teamVars == <<slot, busy, newWork, leadFailed, killed, doomed, permit>>
gateVars == <<lease, token, holding, released>>
turnVars == <<turn, reader>>
busVars  == <<bus, heard>>
userVars == <<asked, stopping, steering, bound, acts, faults>>
vars == <<inbox, row, shown, slot, busy, newWork, leadFailed, killed, doomed,
          permit, lease, token, holding, released, task, turn, reader, bus, heard, archiver,
          asked, stopping, steering, bound, acts, faults>>

Larger(i, j) == IF i > j THEN i ELSE j
NoSlot == [here |-> FALSE, busy |-> FALSE, pending |-> FALSE, synth |-> FALSE,
           report |-> FALSE, archiving |-> FALSE, stopped |-> FALSE,
           finalized |-> FALSE, cursor |-> 0]
Fresh  == [pc |-> "none", synth |-> FALSE, failed |-> FALSE]
NoRead == [pc |-> "no", later |-> FALSE]
Deaf   == [pc |-> "no", to |-> Main, lens |-> [h \in Handles |-> 0]]

\* SlotState::has_work
HasWork(s) == ~s.archiving /\ (s.pending \/ s.synth)

\* What the roster row says has been read: the consumed prefix, or what the running
\* wake claimed for itself.
ReadThrough(h) == Larger(row[h].cursor, row[h].work)

\* The supervisor makes the lead's slot when the lead's first turn is about to spawn a
\* member (ensure_main).  A team may also do without it.
Init ==
  /\ bound \in Scenarios
  /\ inbox = [h \in Handles |-> 0]
  /\ row = [h \in Handles |-> [on |-> IF h = Main /\ bound.lead THEN "live" ELSE "none",
                              cursor |-> 0, work |-> 0]]
  /\ shown = [h \in Handles |-> {}]
  /\ slot = [h \in Handles |-> [NoSlot EXCEPT !.here = (h = Main /\ bound.lead)]]
  /\ busy = 0 /\ newWork = TRUE
  /\ leadFailed = FALSE /\ killed = FALSE /\ doomed = {}
  /\ permit = [h \in Handles |-> FALSE]
  /\ lease = [h \in Handles |-> IF h = Main /\ bound.lead THEN "prompt" ELSE "free"]
  /\ token = [h \in Handles |-> "live"]
  /\ holding = FALSE
  /\ released = [h \in Handles |-> 0]
  /\ task = [h \in Handles |->
              [Fresh EXCEPT !.pc = IF h = Main /\ bound.lead THEN "parked" ELSE "none"]]
  /\ turn = [h \in Handles |-> IF h = Main /\ bound.lead THEN "runs" ELSE "no"]
  /\ reader = NoRead
  /\ bus = << >> /\ heard = Deaf
  /\ archiver = [h \in Members |-> "no"]
  /\ asked = IF bound.lead THEN "runs" ELSE "no"
  /\ stopping = {} /\ steering = {}
  /\ acts = 0 /\ faults = {}

\* The bounds: an act of the user or of a parent, a fault.
Act == acts < bound.acts /\ acts' = acts + 1
Fault(kind) == /\ kind \notin faults /\ Cardinality(faults) < bound.faults
               /\ faults' = faults \cup {kind}

-----------------------------------------------------------------------------
(***************************************************************************)
(* Quiescence.                                                             *)
(***************************************************************************)

\* The conditions of maybe_fire_quiescence on slots sl and busy count b.
Quiesced(sl, b) ==
  /\ ~killed /\ b = 0 /\ ~leadFailed
  /\ ~(sl[Main].here /\ sl[Main].stopped)
  /\ \A h \in Handles : sl[h].here => lease[h] = "free"
  /\ newWork

\* work_seq is counted up: later than the last synthesis, and than the mark of a read.
Count == newWork' = TRUE /\ reader' = [reader EXCEPT !.later = (reader.pc # "no")]

\* maybe_fire_quiescence, applied to slots sl, busy count b and permits p.
Settle(sl, b, p) ==
  /\ busy' = b
  /\ IF Quiesced(sl, b)
     THEN /\ newWork' = FALSE
          /\ slot' = IF sl[Main].here
                     THEN [sl EXCEPT ![Main] = [@ EXCEPT !.synth = TRUE, !.pending = TRUE]] ELSE sl
          /\ permit' = IF sl[Main].here THEN [p EXCEPT ![Main] = TRUE] ELSE p
     ELSE newWork' = newWork /\ slot' = sl /\ permit' = p

\* MUTANT: the busy count is left to finish_run, which no longer finds the slot.
Removed_keepsBusy(h) ==
  /\ slot' = [slot EXCEPT ![h] = NoSlot]
  /\ busy' = busy
\* remove_slot
Removed(h) ==
  /\ slot' = [slot EXCEPT ![h] = NoSlot]
  /\ busy' = IF slot[h].busy /\ busy > 0 THEN busy - 1 ELSE busy

-----------------------------------------------------------------------------
(***************************************************************************)
(* The cancel token of a turn.  It is "live" or "fired", or "aimed": a     *)
(* cancel cloned it under the gate's lock and has yet to fire it, outside  *)
(* the lock.  What fires after its turn is over, or after bind_cancel put  *)
(* another token in its place, reaches nothing; "missed" remembers that    *)
(* the turn got away so.                                                   *)
(***************************************************************************)

Tokens == {"live", "aimed", "fired", "missed"}

\* TurnGate::cancel, its locked section.
Aim(t) == IF t = "fired" THEN t ELSE "aimed"

\* MUTANT: a cancel that came before the binding is not carried over.
Bind_fresh(t) == "live"
\* bind_cancel: the turn gets a token of its own.  One that has fired is carried over,
\* one that is about to fire is not.
Bind(t) == IF t = "aimed" THEN "missed" ELSE t

\* TurnGate::cancel, after its unlock.
FireCancel(h) ==
  /\ token[h] = "aimed"
  /\ token' = [token EXCEPT ![h] = "fired"]
  /\ UNCHANGED <<logVars, teamVars, lease, holding, released, task, turnVars, busVars,
                 archiver, userVars>>

\* kill_locked: the team token cancels every turn the supervisor started, bound or not,
\* and every task is notified.
KillLocked ==
  /\ killed' = TRUE
  /\ doomed' = {h \in Handles : slot[h].here}
  /\ permit' = [h \in Handles |-> permit[h] \/ slot[h].here]
  /\ token' = [h \in Handles |-> IF lease[h] = "harness" THEN "fired" ELSE token[h]]

\* The mail is in the team log, and its envelope on the bus.
Mail(to) ==
  /\ inbox' = [inbox EXCEPT ![to] = @ + 1]
  /\ bus' = Append(bus, to)

-----------------------------------------------------------------------------
(***************************************************************************)
(* resident_task.                                                          *)
(***************************************************************************)

Goto(h, pc) == task' = [task EXCEPT ![h].pc = pc]

\* The task drops the lease it holds; the gate spawns the turn_released callback.
DropLease(h) ==
  /\ lease' = [lease EXCEPT ![h] = "free"]
  /\ token' = [token EXCEPT ![h] = "live"]
  /\ released[h] < MaxReleased
  /\ released' = [released EXCEPT ![h] = @ + 1]

\* The task acts: its parked wait took the stored permit, or its last wake is over.
Ready(h) == task[h].pc = "decide" \/ (task[h].pc = "parked" /\ permit[h])
Taken(h) == IF task[h].pc = "parked" THEN [permit EXCEPT ![h] = FALSE] ELSE permit

\* The harness may start the turn the slot owes.
Owes(h) == HasWork(slot[h]) /\ ~(h = Main /\ leadFailed) /\ ~slot[h].stopped

\* next_action, Action::Run: owed work is taken together with the lease.  The charge on
\* the team's turn budget may trip, which kills the team and gives the lease back.
NextRun(h) ==
  /\ Ready(h) /\ slot[h].here /\ ~killed
  /\ Owes(h) /\ lease[h] = "free" /\ ~holding
  /\ slot' = [slot EXCEPT ![h] = [@ EXCEPT !.pending = FALSE, !.synth = FALSE, !.busy = TRUE]]
  /\ busy' = busy + 1
  /\ \/ /\ lease' = [lease EXCEPT ![h] = "harness"]
        /\ task' = [task EXCEPT ![h] = [@ EXCEPT !.pc = "plan", !.synth = slot[h].synth]]
        /\ permit' = Taken(h)
        /\ UNCHANGED <<killed, doomed, token, released, faults>>
     \/ /\ Fault("kill") /\ KillLocked
        /\ released' = [released EXCEPT ![h] = @ + 1]
        /\ Goto(h, "parked")
        /\ UNCHANGED lease
  /\ UNCHANGED <<logVars, newWork, leadFailed, holding, turnVars, busVars,
                 archiver, asked, stopping, steering, bound, acts>>

\* next_action, Action::Idle or WaitForKillFinalization: the task parks, unless a report
\* is to be executed first.
NextIdle(h) ==
  /\ Ready(h) /\ slot[h].here
  /\ IF killed THEN ~slot[h].finalized
               ELSE ~(Owes(h) /\ lease[h] = "free" /\ ~holding)
  /\ permit' = Taken(h)
  /\ Goto(h, IF slot[h].report THEN "rest" ELSE "parked")
  /\ UNCHANGED <<logVars, slot, busy, newWork, leadFailed, killed, doomed, gateVars, turnVars,
                 busVars, archiver, userVars>>

\* next_action, Action::Stop: the slot is gone, or its kill is final.
NextStop(h) ==
  /\ Ready(h)
  /\ ~slot[h].here \/ (killed /\ slot[h].finalized)
  /\ Removed(h)
  /\ permit' = Taken(h)
  /\ Goto(h, "gone")
  /\ UNCHANGED <<logVars, newWork, leadFailed, killed, doomed, gateVars,
                 turnVars, busVars, archiver, userVars>>

\* run_one_turn: the new mail is read, claimed durably (ResidentWorkStarted, members only)
\* and injected as prompts, and the turn starts and binds its token.  A wake of the lead that finds no new
\* mail runs no turn; a member whose claim was released is fenced off.
StartTurn(h) ==
  /\ task[h].pc = "plan"
  /\ LET from == Larger(slot[h].cursor, row[h].cursor)
         read(n) == slot' = IF slot[h].here
                            THEN [slot EXCEPT ![h].cursor = Larger(@, n)] ELSE slot
         over(failed) == /\ task' = [task EXCEPT ![h] =
                                      [Fresh EXCEPT !.pc = "finish", !.failed = failed]]
                         /\ DropLease(h)
                         /\ UNCHANGED <<row, shown, leadFailed, turn>>
     IN  IF h = Main /\ ~task[h].synth /\ inbox[h] <= from
         THEN read(from) /\ over(FALSE)
         ELSE IF row[h].on # "live"
         THEN read(from) /\ over(TRUE)
         ELSE /\ row' = IF h = Main THEN row ELSE [row EXCEPT ![h].work = inbox[h]]
              /\ shown' = [shown EXCEPT ![h] = @ \cup (from + 1)..inbox[h]]
              /\ read(inbox[h])
              /\ leadFailed' = (leadFailed /\ h # Main)
              /\ turn' = [turn EXCEPT ![h] = "runs"]
              /\ task' = [task EXCEPT ![h] = [Fresh EXCEPT !.pc = "turn"]]
              /\ token' = [token EXCEPT ![h] = Bind(@)]
              /\ UNCHANGED <<lease, released>>
  /\ UNCHANGED <<inbox, busy, newWork, killed, doomed, permit, holding, reader, busVars,
                 archiver, userVars>>

\* MUTANT: mail that came during the turn counts as read.
RecordActivity_all(h) ==
  row' = IF row[h].on = "live"
         THEN [row EXCEPT ![h] = [@ EXCEPT !.cursor = inbox[h], !.work = 0]] ELSE row
\* record_activity: leaving Busy moves the durable cursor past what the wake claimed.
RecordActivity(h) ==
  row' = IF row[h].on = "live"
         THEN [row EXCEPT ![h] = [@ EXCEPT !.cursor = ReadThrough(h), !.work = 0]] ELSE row

\* finish_run: the slot is idle; with no work owed the team may be quiescent.  Then
\* a failed member goes on to its failure report, an accepted report to its execution.
FinishRun(h) ==
  /\ task[h].pc = "finish"
  /\ LET sl == [slot EXCEPT ![h].busy = FALSE]
         b  == IF busy > 0 THEN busy - 1 ELSE 0
     IN  IF ~slot[h].here THEN UNCHANGED <<slot, busy, newWork, permit>>
         ELSE IF HasWork(slot[h])
         THEN slot' = sl /\ busy' = b /\ UNCHANGED <<newWork, permit>>
         ELSE Settle(sl, b, permit)
  /\ RecordActivity(h)
  /\ task' = [task EXCEPT ![h] =
       [Fresh EXCEPT !.pc = IF task[h].failed /\ h # Main THEN "report"
                            ELSE IF slot[h].report THEN "rest" ELSE "decide",
                     !.failed = task[h].failed /\ h # Main]]
  /\ UNCHANGED <<inbox, shown, leadFailed, killed, doomed, gateVars, turnVars, busVars,
                 archiver, userVars>>

-----------------------------------------------------------------------------
(***************************************************************************)
(* The end of a member: its report, or an archive by its parent or user.   *)
(***************************************************************************)

\* report_gate_projection: on the roster, and every mail was read.
GateOpen(h) == row[h].on = "live" /\ ReadThrough(h) >= inbox[h]

\* MUTANT: a refused report is not put back.
TakeReport_drops(h) ==
  /\ task[h].pc = "rest"
  /\ slot' = [slot EXCEPT ![h].report = FALSE,
                          ![h].archiving = @ \/ (slot[h].report /\ GateOpen(h))]
  /\ Goto(h, IF slot[h].report /\ GateOpen(h) THEN "report" ELSE "parked")
  /\ UNCHANGED <<logVars, busy, newWork, leadFailed, killed, doomed, permit, gateVars,
                 turnVars, busVars, archiver, userVars>>
\* take_pending_archive, run_pending_archive: an accepted report is executed at rest.  The
\* gate is checked again; a report it refuses is restored and waits for the next wake.
TakeReport(h) ==
  /\ task[h].pc = "rest"
  /\ IF slot[h].report /\ GateOpen(h)
     THEN /\ slot' = [slot EXCEPT ![h] = [@ EXCEPT !.report = FALSE, !.archiving = TRUE]]
          /\ Goto(h, "report")
     ELSE /\ slot' = [slot EXCEPT ![h].archiving = @ /\ ~slot[h].report]
          /\ Goto(h, "parked")
  /\ UNCHANGED <<logVars, busy, newWork, leadFailed, killed, doomed, permit, gateVars,
                 turnVars, busVars, archiver, userVars>>

\* archive_reported_agent, up to the report mail: the handoff takes a model call, then
\* the parent is mailed.  A member that is no longer live cannot send.
MailReport(h) ==
  /\ task[h].pc = "report"
  /\ IF row[h].on = "live"
     THEN /\ IF bound.lead THEN Mail(Main) ELSE UNCHANGED <<inbox, bus>>
          /\ Goto(h, "archive")
          /\ UNCHANGED slot
     ELSE /\ Goto(h, IF task[h].failed THEN "archive" ELSE "parked")
          /\ slot' = IF slot[h].here /\ ~task[h].failed
                     THEN [slot EXCEPT ![h] = [@ EXCEPT !.report = TRUE, !.archiving = FALSE]]
                     ELSE slot
          /\ UNCHANGED <<inbox, bus>>
  /\ UNCHANGED <<row, shown, busy, newWork, leadFailed, killed, doomed, permit,
                 gateVars, turnVars, heard, archiver, userVars>>

\* The claim is released, which counts the whole inbox as consumed, and the archive
\* marker takes the member off the roster.
Archived(h) ==
  row' = IF row[h].on = "live"
         THEN [row EXCEPT ![h] = [on |-> "archived", cursor |-> inbox[h], work |-> 0]]
         ELSE row

\* archive_reported_agent, the claim release and the archive marker; then the slot is
\* removed and the task ends.
ArchiveReported(h) ==
  /\ task[h].pc = "archive"
  /\ Archived(h) /\ Removed(h)
  /\ task' = [task EXCEPT ![h] = [Fresh EXCEPT !.pc = "gone"]]
  /\ UNCHANGED <<inbox, shown, newWork, leadFailed, killed, doomed, permit, gateVars,
                 turnVars, busVars, archiver, userVars>>

\* stop_and_archive_live: owed work and an accepted report are dropped, and stop_turn
\* cancels the turn.
StopSlot(m) ==
  /\ archiver[m] = "no" /\ row[m].on = "live" /\ slot[m].here
  /\ Act
  /\ slot' = [slot EXCEPT ![m] = [@ EXCEPT !.archiving = TRUE, !.pending = FALSE,
                                           !.synth = FALSE, !.report = FALSE]]
  /\ token' = [token EXCEPT ![m] = IF lease[m] = "free" THEN @ ELSE Aim(@)]
  /\ archiver' = [archiver EXCEPT ![m] = "stopped"]
  /\ UNCHANGED <<logVars, busy, newWork, leadFailed, killed, doomed, permit,
                 lease, holding, released, task, turnVars, busVars, asked, stopping, steering,
                 bound, faults>>

\* The turn has ended, or the stop deadline passed: archive_stopped_agent; then the slot
\* is taken away and its task notified, so that it ends.  A killed member is kept.
ArchiveStopped(m) ==
  /\ archiver[m] = "stopped" /\ token[m] # "aimed"
  /\ archiver' = [archiver EXCEPT ![m] = "done"]
  /\ IF row[m].on = "failed"
     THEN /\ slot' = [slot EXCEPT ![m].archiving = FALSE]
          /\ UNCHANGED <<row, busy, permit>>
     ELSE /\ Archived(m) /\ Removed(m)
          /\ permit' = [permit EXCEPT ![m] = @ \/ slot[m].here]
  /\ UNCHANGED <<inbox, shown, newWork, leadFailed, killed, doomed, gateVars, task, turnVars,
                 busVars, userVars>>

\* emit_kill finalizes one slot durably and wakes its task.
EmitKill(h) ==
  /\ h \in doomed
  /\ doomed' = doomed \ {h}
  /\ row' = IF h # Main /\ row[h].on = "live" THEN [row EXCEPT ![h].on = "failed"] ELSE row
  /\ slot' = IF slot[h].here THEN [slot EXCEPT ![h].finalized = TRUE] ELSE slot
  /\ permit' = [permit EXCEPT ![h] = @ \/ slot[h].here]
  /\ UNCHANGED <<inbox, shown, busy, newWork, leadFailed, killed, gateVars, task,
                 turnVars, busVars, archiver, userVars>>

-----------------------------------------------------------------------------
(***************************************************************************)
(* What a turn does: it spawns and mails, reads mail, reports, ends.       *)
(***************************************************************************)

\* register_existing_resident_at, the committed registration.
RegisterLog(m) ==
  /\ m \in bound.members /\ row[m].on = "none"
  /\ bound.lead => turn[Main] = "runs"
  /\ row' = [row EXCEPT ![m].on = "live"]
  /\ UNCHANGED <<inbox, shown, teamVars, gateVars, task, turnVars, busVars, archiver, userVars>>

\* register_existing_resident_at, the slot with its initial directive, and the task.
InsertSlot(m) ==
  /\ row[m].on # "none" /\ task[m].pc = "none"
  /\ Count
  /\ slot' = [slot EXCEPT ![m] = [NoSlot EXCEPT !.here = TRUE, !.pending = TRUE]]
  /\ permit' = [permit EXCEPT ![m] = TRUE]
  /\ Goto(m, "parked")
  /\ UNCHANGED <<logVars, busy, leadFailed, killed, doomed, gateVars, turn,
                 busVars, archiver, userVars>>

\* mail_send from the turn of another agent, modelled or not.  From above it cannot restart
\* a member that the user stopped.
Send(to) ==
  /\ row[to].on = "live" /\ inbox[to] < bound.mail
  /\ ~(to # Main /\ slot[to].here /\ slot[to].stopped)
  /\ Mail(to)
  /\ UNCHANGED <<row, shown, teamVars, gateVars, task, turnVars, heard, archiver, userVars>>

\* SteerMailbox::drain takes its mark, the work_seq of the moment, before it looks at the
\* inbox.  Only the lead's mark is ever used.
BeginRead ==
  /\ turn[Main] = "runs" /\ reader.pc = "no" /\ ReadThrough(Main) < inbox[Main]
  /\ reader' = [pc |-> "marked", later |-> FALSE]
  /\ UNCHANGED <<logVars, teamVars, gateVars, task, turn, busVars, archiver, userVars>>

\* resync_from_log and MailConsumed: the durable cursor moves to the end of the inbox, the
\* mail goes into the tool result.
Consume(h) ==
  /\ turn[h] = "runs" /\ ReadThrough(h) < inbox[h]
  /\ IF h = Main THEN reader.pc = "marked" /\ reader' = [reader EXCEPT !.pc = "consumed"]
                 ELSE UNCHANGED reader
  /\ shown' = [shown EXCEPT ![h] = @ \cup (ReadThrough(h) + 1)..inbox[h]]
  /\ row' = [row EXCEPT ![h].cursor = inbox[h]]
  /\ UNCHANGED <<inbox, teamVars, gateVars, task, turn, busVars, archiver, userVars>>

\* MUTANT: work counted after the mark is acknowledged too.
Acknowledge_unmarked ==
  /\ reader.pc = "consumed"
  /\ slot' = [slot EXCEPT ![Main].pending = FALSE]
  /\ newWork' = FALSE
  /\ reader' = NoRead
  /\ UNCHANGED <<logVars, busy, leadFailed, killed, doomed, permit, gateVars, task,
                 turn, busVars, archiver, userVars>>
\* on_mail_consumed: what the lead has seen owes it no wake and no synthesis, unless more
\* work was counted after its mark.
Acknowledge ==
  /\ reader.pc = "consumed"
  /\ slot' = IF reader.later THEN slot ELSE [slot EXCEPT ![Main].pending = FALSE]
  /\ newWork' = (newWork /\ reader.later)
  /\ reader' = NoRead
  /\ UNCHANGED <<logVars, busy, leadFailed, killed, doomed, permit, gateVars, task,
                 turn, busVars, archiver, userVars>>

\* submit_report: the gate accepts it, the task executes it at rest.
SubmitReport(m) ==
  /\ turn[m] = "runs"
  /\ GateOpen(m) /\ slot[m].here /\ ~slot[m].report
  /\ slot' = [slot EXCEPT ![m].report = TRUE]
  /\ permit' = [permit EXCEPT ![m] = TRUE]
  /\ UNCHANGED <<logVars, busy, newWork, leadFailed, killed, doomed, gateVars,
                 task, turnVars, busVars, archiver, userVars>>

\* The provider or the runtime fails the turn; on_lead_turn_failed holds back every
\* turn the harness would start for the lead.
TurnFails(h) ==
  /\ turn[h] = "runs" /\ (h = Main => reader.pc = "no") /\ Fault("turn")
  /\ turn' = [turn EXCEPT ![h] = IF h = Main THEN "failed" ELSE "over"]
  /\ leadFailed' = (leadFailed \/ h = Main)
  /\ slot' = IF h = Main THEN [slot EXCEPT ![h].synth = FALSE] ELSE slot
  /\ UNCHANGED <<logVars, busy, newWork, killed, doomed, permit, gateVars, task,
                 reader, busVars, archiver, asked, stopping, steering, bound, acts>>

\* broadcast_leader_failed.  A member whose last turn was cancelled shows as failed until
\* its next wake, and is passed over.
Broadcast ==
  /\ turn[Main] = "failed"
  /\ \E told \in SUBSET {m \in Members : row[m].on = "live"} :
       /\ inbox' = [h \in Handles |-> IF h \in told THEN inbox[h] + 1 ELSE inbox[h]]
       /\ bus' = bus \o SetToSeq(told)
  /\ turn' = [turn EXCEPT ![Main] = "over"]
  /\ UNCHANGED <<row, shown, teamVars, gateVars, task, reader, heard, archiver, userVars>>

\* The turn is over and its lease dropped.  A cancel cuts a read short wherever it is.
EndTurn(h) ==
  /\ turn[h] \in {"runs", "over"}
  /\ (h = Main /\ reader.pc # "no") => token[h] = "fired"
  /\ turn' = [turn EXCEPT ![h] = "no"]
  /\ reader' = IF h = Main THEN NoRead ELSE reader
  /\ IF lease[h] = "harness"
     THEN /\ task' = [task EXCEPT ![h] = [@ EXCEPT !.pc = "finish", !.failed = (turn[h] = "over")]]
          /\ UNCHANGED asked
     ELSE asked' = "no" /\ UNCHANGED task
  /\ DropLease(h)
  /\ UNCHANGED <<logVars, teamVars, holding, busVars, archiver, stopping, steering, bound,
                 acts, faults>>

\* MUTANT: the released lease does not check quiescence.
TurnReleased_noCheck(h) ==
  /\ released[h] > 0
  /\ released' = [released EXCEPT ![h] = @ - 1]
  /\ permit' = [permit EXCEPT ![h] = @ \/ (slot[h].here /\ ~killed /\ HasWork(slot[h]))]
  /\ UNCHANGED <<logVars, slot, busy, newWork, leadFailed, killed, doomed, lease, token,
                 holding, task, turnVars, busVars, archiver, userVars>>
\* on_turn_released: deferred work is delivered and quiescence checked again.
TurnReleased(h) ==
  /\ released[h] > 0
  /\ released' = [released EXCEPT ![h] = @ - 1]
  /\ IF slot[h].here /\ ~killed
     THEN Settle(slot, busy, [permit EXCEPT ![h] = @ \/ HasWork(slot[h])])
     ELSE UNCHANGED <<slot, busy, newWork, permit>>
  /\ UNCHANGED <<logVars, leadFailed, killed, doomed, lease, token, holding,
                 task, turnVars, busVars, archiver, userVars>>

-----------------------------------------------------------------------------
(***************************************************************************)
(* The bus listener: run_bus, on_mail, recover.                            *)
(***************************************************************************)

\* on_mail, up to its first unlock: the message is charged and counted as work, or the
\* charge trips and kills the team.  The recipients are looked up next.
Hear ==
  /\ bus # << >> /\ heard.pc = "no"
  /\ bus' = Tail(bus)
  /\ \/ /\ killed
        /\ UNCHANGED <<newWork, reader, heard, killed, doomed, permit, token, faults>>
     \/ /\ ~killed
        /\ Count
        /\ heard' = [Deaf EXCEPT !.pc = "mail", !.to = Head(bus)]
        /\ UNCHANGED <<killed, doomed, permit, token, faults>>
     \/ /\ ~killed
        /\ Fault("kill") /\ KillLocked
        /\ UNCHANGED <<newWork, reader, heard>>
  /\ UNCHANGED <<logVars, slot, busy, leadFailed, lease, holding, released, task,
                 turn, archiver, asked, stopping, steering, bound, acts>>

\* The slots of hs owe a turn and are notified.
Wake(hs) ==
  /\ slot' = [h \in Handles |-> IF h \in hs THEN [slot[h] EXCEPT !.pending = TRUE]
                                            ELSE slot[h]]
  /\ permit' = [h \in Handles |-> permit[h] \/ h \in hs]

\* on_mail, its second locked section.
WakeRecipient ==
  /\ heard.pc = "mail"
  /\ Wake({h \in {heard.to} : slot[h].here})
  /\ heard' = Deaf
  /\ UNCHANGED <<logVars, busy, newWork, leadFailed, killed, doomed, gateVars,
                 task, turnVars, bus, archiver, userVars>>

\* RecvError::Lagged: the oldest envelopes are lost; recover reads the team log.
Lag ==
  /\ heard.pc = "no" /\ Fault("lag")
  /\ \E k \in 1..Len(bus) : bus' = SubSeq(bus, k + 1, Len(bus))
  /\ heard' = [Deaf EXCEPT !.pc = "lag", !.lens = inbox]
  /\ UNCHANGED <<logVars, teamVars, gateVars, task, turnVars, archiver, asked, stopping,
                 steering, bound, acts>>

\* recover: every slot whose inbox is longer than its cursor is woken.
Recover ==
  /\ heard.pc = "lag"
  /\ Wake({h \in Handles : ~killed /\ slot[h].here /\ heard.lens[h] > slot[h].cursor})
  /\ heard' = Deaf
  /\ UNCHANGED <<logVars, busy, newWork, leadFailed, killed, doomed, gateVars,
                 task, turnVars, bus, archiver, userVars>>

-----------------------------------------------------------------------------
(***************************************************************************)
(* The user, and the restart handoff that is given up.                     *)
(***************************************************************************)

\* The slot of h and every slot below it.
Subtree(h) == {m \in Handles : slot[m].here /\ h \in {m, Main}}

\* resume_for_user: the stop is lifted, slots with queued mail are notified.
Resume(h) ==
  LET lifted == {m \in Subtree(h) : slot[m].stopped} IN
  /\ slot' = [m \in Handles |-> IF m \in lifted THEN [slot[m] EXCEPT !.stopped = FALSE]
                                                ELSE slot[m]]
  /\ permit' = [m \in Handles |-> permit[m] \/ (m \in lifted /\ HasWork(slot[m]))]

\* create_turn: a prompt to the lead lifts the stop of the team, then waits for the lease.
AskPrompt ==
  /\ asked = "no" /\ Act
  /\ Resume(Main)
  /\ asked' = IF bound.lead THEN "queued" ELSE "no"
  /\ UNCHANGED <<logVars, busy, newWork, leadFailed, killed, doomed, gateVars,
                 task, turnVars, busVars, archiver, stopping, steering, bound, faults>>

\* The queued claim gets the lease.
ClaimPrompt ==
  /\ asked = "queued" /\ lease[Main] = "free" /\ ~holding
  /\ asked' = "claimed"
  /\ lease' = [lease EXCEPT ![Main] = "prompt"]
  /\ UNCHANGED <<logVars, teamVars, token, holding, released, task, turnVars, busVars,
                 archiver, stopping, steering, bound, acts, faults>>

\* The turn of the prompt binds its token and starts; on_lead_turn_started.
StartPrompt ==
  /\ asked = "claimed"
  /\ asked' = "runs"
  /\ token' = [token EXCEPT ![Main] = Bind(@)]
  /\ turn' = [turn EXCEPT ![Main] = "runs"]
  /\ leadFailed' = FALSE
  /\ UNCHANGED <<logVars, slot, busy, newWork, killed, doomed, permit, lease, holding,
                 released, task, reader, busVars, archiver, stopping, steering, bound, acts, faults>>

\* A closed gate refuses the claim: no turn runs.
RefusePrompt ==
  /\ asked = "queued" /\ holding
  /\ asked' = "no"
  /\ UNCHANGED <<logVars, teamVars, gateVars, task, turnVars, busVars, archiver, stopping,
                 steering, bound, acts, faults>>

\* stop_for_user finds something to interrupt.
Interruptible(h) ==
  \/ lease[h] # "free"
  \/ \E m \in Subtree(h) : \/ lease[m] # "free" \/ slot[m].busy
                           \/ HasWork(slot[m]) /\ ~slot[m].stopped

\* cancel_user_turn, its first part, stop_for_user: the subtree is stopped under the
\* team lock, and its turns are cancelled after it.
CancelUser(h) ==
  /\ Act
  /\ LET stopped == IF killed \/ ~Interruptible(h) THEN {} ELSE Subtree(h) IN
     /\ stopped # {} \/ lease[h] # "free" \/ (h = Main /\ asked = "queued")
     /\ slot' = [m \in Handles |-> IF m \in stopped
                                   THEN [slot[m] EXCEPT !.stopped = TRUE, !.synth = FALSE]
                                   ELSE slot[m]]
     /\ stopping' = stopping \cup stopped \cup {h}
  /\ UNCHANGED <<logVars, busy, newWork, leadFailed, killed, doomed, permit,
                 gateVars, task, turnVars, busVars, archiver, asked, steering, bound, faults>>

\* cancel_turn on one stopped session, up to the unlock of the gate, and the cancel of
\* the prompt that waits for it.
CancelNext(h) ==
  /\ h \in stopping
  /\ stopping' = stopping \ {h}
  /\ token' = [token EXCEPT ![h] = IF lease[h] = "free" THEN @ ELSE Aim(@)]
  /\ asked' = IF h = Main /\ asked = "queued" THEN "no" ELSE asked
  /\ UNCHANGED <<logVars, teamVars, lease, holding, released, task, turnVars, busVars,
                 archiver, steering, bound, acts, faults>>

\* steer_subagent, up to its mail.  It may reach a member that the user stopped.
SteerSubagent(m) ==
  /\ Act /\ row[m].on = "live" /\ m \notin steering
  /\ Mail(m)
  /\ steering' = steering \cup {m}
  /\ UNCHANGED <<row, shown, teamVars, gateVars, task, turnVars, heard, archiver, asked,
                 stopping, bound, faults>>

\* A delivered steer lifts the stop.
SteerResumes(m) ==
  /\ m \in steering
  /\ Resume(m)
  /\ steering' = steering \ {m}
  /\ UNCHANGED <<logVars, busy, newWork, leadFailed, killed, doomed, gateVars,
                 task, turnVars, busVars, archiver, asked, stopping, bound, acts, faults>>

\* begin_quiesce of a restart handoff
Hold ==
  /\ ~holding /\ Fault("hold")
  /\ holding' = TRUE
  /\ UNCHANGED <<logVars, teamVars, lease, token, released, task, turnVars, busVars,
                 archiver, asked, stopping, steering, bound, acts>>

\* lift_quiesce when the handoff is given up: queued claims are notified, residents not.
Lift ==
  /\ holding
  /\ holding' = FALSE
  /\ UNCHANGED <<logVars, teamVars, lease, token, released, task, turnVars, busVars,
                 archiver, userVars>>

-----------------------------------------------------------------------------
TaskStep(h) ==
  \/ TakeReport(h)
  \/ NextRun(h) \/ NextIdle(h) \/ NextStop(h)
  \/ StartTurn(h) \/ FinishRun(h)
  \/ MailReport(h) \/ ArchiveReported(h)

Listen == Hear \/ WakeRecipient \/ Recover

\* The steps that nothing can hold off for ever: Tokio runs every task that can run, store
\* and model calls return, a turn ends, a handoff that was given up lifts its hold.
Progress ==
  \/ \E h \in Handles : TaskStep(h) \/ EndTurn(h) \/ TurnReleased(h) \/ EmitKill(h)
                       \/ CancelNext(h) \/ FireCancel(h)
  \/ \E m \in Members : InsertSlot(m) \/ ArchiveStopped(m) \/ SteerResumes(m)
  \/ Consume(Main) \/ Acknowledge \/ Broadcast \/ Listen
  \/ ClaimPrompt \/ StartPrompt \/ RefusePrompt \/ Lift

Next ==
  \/ Progress
  \/ \E h \in Handles : Send(h) \/ TurnFails(h) \/ CancelUser(h)
  \/ \E m \in Members : RegisterLog(m) \/ SubmitReport(m) \/ StopSlot(m) \/ SteerSubagent(m)
                       \/ Consume(m)
  \/ BeginRead \/ Lag \/ AskPrompt \/ Hold

Spec == Init /\ [][Next]_vars

\* No more is asked than that the system does not stop while such a step can be taken: no
\* behaviour takes infinitely many, so none of them starves another.
FairSpec == Spec /\ WF_vars(Progress)

-----------------------------------------------------------------------------
(***************************************************************************)
(* Properties.                                                             *)
(***************************************************************************)

Pcs == {"none", "rest", "parked", "decide", "plan", "turn", "finish", "report", "archive",
        "gone"}

\* Types of the team state, the log, the gate, the bus and the actors.
TypeOK ==
  /\ inbox \in [Handles -> Nat]
  /\ row \in [Handles -> [on : {"none", "live", "archived", "failed"},
                          cursor : Nat, work : Nat]]
  /\ shown \in [Handles -> SUBSET Nat]
  /\ slot \in [Handles -> [here : BOOLEAN, busy : BOOLEAN, pending : BOOLEAN,
                           synth : BOOLEAN, report : BOOLEAN, archiving : BOOLEAN,
                           stopped : BOOLEAN, finalized : BOOLEAN, cursor : Nat]]
  /\ busy \in Nat /\ newWork \in BOOLEAN
  /\ leadFailed \in BOOLEAN /\ killed \in BOOLEAN /\ doomed \subseteq Handles
  /\ permit \in [Handles -> BOOLEAN]
  /\ lease \in [Handles -> {"free", "harness", "prompt"}]
  /\ token \in [Handles -> Tokens]
  /\ holding \in BOOLEAN
  /\ released \in [Handles -> Nat]
  /\ task \in [Handles -> [pc : Pcs, synth : BOOLEAN, failed : BOOLEAN]]
  /\ turn \in [Handles -> {"no", "runs", "failed", "over"}]
  /\ reader \in [pc : {"no", "marked", "consumed"}, later : BOOLEAN]
  /\ bus \in Seq(Handles)
  /\ heard \in [pc : {"no", "mail", "lag"}, to : Handles,
                lens : [Handles -> Nat]]
  /\ archiver \in [Members -> {"no", "stopped", "done"}]
  /\ asked \in {"no", "queued", "claimed", "runs"}
  /\ stopping \subseteq Handles /\ steering \subseteq Members
  /\ bound \in Scenarios /\ acts \in Nat /\ faults \subseteq {"kill", "turn", "lag", "hold"}

\* The busy count that quiescence is decided on is the number of busy slots, and a slot is
\* busy exactly while its task runs a wake, whichever of the task, an archive and a report
\* takes the slot away.
BusyExact ==
  /\ busy = Cardinality({h \in Handles : slot[h].busy})
  /\ \A h \in Handles : slot[h].here /\ ~killed =>
       (slot[h].busy <=> task[h].pc \in {"plan", "turn", "finish"})

\* A cursor of a live handle never passes a mail that no turn was given: wakes, steering
\* and acknowledgements move it in any order, from stale looks at the inbox.
NothingSkipped ==
  \A h \in Handles : row[h].on = "live" =>
    1..Larger(row[h].cursor, slot[h].cursor) \subseteq shown[h]

\* Once cancel_user_turn went over a stopped slot, no turn that the harness started for
\* it runs on with a token no cancel was aimed at: a wake that raced the stop, with its
\* token bound or not yet, is cancelled or about to be.  It gets away ("missed") only
\* when bind_cancel comes between the clone of its token and the firing of the clone.
StoppedIsQuiet ==
  \A h \in Handles :
    slot[h].stopped /\ h \notin stopping /\ lease[h] = "harness" => token[h] # "live"

\* h sleeps on owed work after a restart handoff was given up: lift_quiesce notifies the
\* queued claims only.
Stranded(h) == "hold" \in faults /\ task[h].pc = "parked" /\ HasWork(slot[h]) /\ ~permit[h]

Excused(h) ==
  \/ row[h].on # "live" \/ killed \/ slot[h].stopped \/ Stranded(h)
  \/ h = Main /\ (leadFailed \/ "lag" \in faults)

Unread(h) == row[h].on = "live" /\ ~(1..inbox[h] \subseteq shown[h])

\* Mail for a live handle reaches its model, unless the team is killed, the user stopped
\* it, or the lead failed: no wake is lost between the bus, the slot and the lease.
MailHeard == \A h \in Handles : Unread(h) ~> (~Unread(h) \/ Excused(h))

\* An accepted report is executed: the member leaves the roster.
ReportExecutes ==
  \A m \in Members :
    slot[m].report ~> (row[m].on # "live" \/ killed \/ slot[m].stopped \/ Stranded(m))

\* Work under way in the team is summed up: once it is idle the lead is given a synthesis,
\* or has read what there was.  An archive of a member that was stopped, and a hold that
\* was given up, check nothing again; a killed team and a lead that failed or was stopped
\* get no synthesis.
TeamSynthesizes ==
  slot[Main].here /\ newWork /\ (\E h \in Handles : lease[h] # "free")
    ~> \/ ~newWork \/ killed \/ leadFailed \/ slot[Main].stopped
       \/ "hold" \in faults \/ \E m \in Members : archiver[m] = "done"

\* What subagent-orchestration.md says of a report: a mail that is accepted before the
\* archive commits keeps the member on the roster, so none is left unread.
ReportLossless ==
  [][\A m \in Members :
       task[m].pc = "archive" /\ ~task[m].failed /\ row[m].on = "live" /\ row'[m].on # "live"
         => 1..inbox[m] \subseteq shown[m]]_vars
=============================================================================
