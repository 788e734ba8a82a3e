------------------------------- MODULE Handoff -------------------------------
(***************************************************************************)
(* How turns end and how a restart hands them over: the life of a turn up  *)
(* to its one MessageFinished (crates/hya-core/src/engine/turn.rs and      *)
(* turn_end.rs), the restart controller of `hya serve`                     *)
(* (crates/hya-backend/src/serve.rs), the durable checkpoint and its       *)
(* resume (crates/hya-core/src/engine/restart.rs,                          *)
(* crates/hya-store/src/handoff.rs) and the recovery a new process runs    *)
(* over the log of a dead one (crates/hya-store/src/recovery.rs).          *)
(*                                                                         *)
(* One action is one store transaction, one critical section of the turn   *)
(* gate, or one in-memory decision between two awaits.  The gate itself is *)
(* the subject of module TurnGate; here a session has at most one turn and *)
(* a cancel is one step.                                                   *)
(***************************************************************************)
EXTENDS SessionLog

CONSTANTS
    Roots,      \* top-level sessions
    Members,    \* child sessions run by residents
    NoSession,  \* not a session
    Limit       \* bounds: how often each kind of environment step may happen

Sessions == Roots \cup Members
Kinds == {"prompt", "main", "wake", "handoff", "stop", "crash", "timeout", "fault",
          "run", "archive"}

ASSUME SessionsAssumption == Roots \cap Members = {} /\ NoSession \notin Sessions
ASSUME LimitAssumption == Limit \in [Kinds -> Nat]

VARIABLES
    log,        \* session -> its messages
    rows,       \* session -> its pending_resume rows
    wf,         \* session -> status of its latest Workflow run
    archived,   \* sessions whose projection says archived
    turn,       \* session -> the turn that holds its lease
    cancel,     \* session -> cause its turn was cancelled with
    queued,     \* sessions with an admitted prompt that waits for the gate
    stops,      \* sessions stop_turn waits for
    holding,    \* GateState.holding
    draining,   \* GateState.draining is Some(shutdown)
    started,    \* GateState.handoff_started
    ctl,        \* the signal loop of the server and the resume driver it runs
    used        \* environment steps taken so far, by kind

store == <<log, rows, wf, archived>>
turns == <<turn, cancel, queued, stops>>
gate == <<holding, draining, started>>
vars == <<store, turns, gate, ctl, used>>

-----------------------------------------------------------------------------
(* Data. *)

NoCause == "none"
RunStates == {"none", "running", "interrupted", "ended"}

\* Where a turn's code stands.  "lease": reserved by the resume driver;
\* "mail": a resident's wake that has yet to admit its mail.
TurnPcs == {"idle", "lease", "mail", "starting", "boundary", "handing", "round",
            "tools", "closing", "emitting", "cleanup"}
\* root: TurnActivation::Root, the only kind that may hand off; served: started
\* by a server run; msg: its assistant message; end: the end it will record.
Turn == [pc : TurnPcs, root : BOOLEAN, served : BOOLEAN, msg : Nat, end : Ends]
NoTurn == [pc |-> "idle", root |-> FALSE, served |-> FALSE, msg |-> 0, end |-> "stop"]

\* The resume driver, its caller's steps, and what startup does first.
PassPcs == {"lift", "list", "next", "read", "ack", "start", "stale"}
\* ... where it has taken a session from its list.
RowPcs == {"read", "ack", "start", "stale"}
CtlPcs == {"serve", "queued", "waiting", "deadline", "idle", "spawn", "spawned",
           "draining", "sweeping", "stopping", "down", "recover"} \cup PassPcs
Ctl == [pc : CtlPcs, todo : SUBSET Sessions, session : Sessions \cup {NoSession},
        row : Nat, barred : BOOLEAN, after : {"serve", "spawn"}, boot : BOOLEAN,
        successor : BOOLEAN]
Controller(pc, successor) ==
    [pc |-> pc, todo |-> {}, session |-> NoSession, row |-> 0, barred |-> FALSE,
     after |-> "serve", boot |-> FALSE, successor |-> successor]

Active(s) == turn[s].pc # "idle"
ActiveSessions == {s \in Sessions : Active(s)}
Live(s) == LiveResumes(rows[s]) # {}
RunningRuns == {s \in Sessions : wf[s] = "running"}

\* The process holds its runtime-owner claim and has repaired the log.
Up == ctl.pc \notin {"down", "recover"}
\* It accepts client requests.
Serving == Up /\ ~ctl.boot /\ ctl.pc \notin {"spawned", "stopping"}

\* TurnGate::try_acquire succeeds.
GateOpen(s) == ~holding /\ ~draining /\ ~Active(s)

\* A server run holds the session's slot of the run registry.
ServerBusy(s) == s \in queued \/ (Active(s) /\ turn[s].served)

\* The session is not to be continued, wherever its transcript ends.
Barred(s) == s \in archived \/ wf[s] \in {"running", "interrupted"}

\* MUTANT: every Workflow run bars the session, one that has ended too.
Candidate_anyRun(s) == /\ s \in Roots
                       /\ s \notin archived
                       /\ wf[s] = "none"
                       /\ EndsAtHandoff(log[s])

\* is_handoff_resume_candidate.
Candidate(s) == s \in Roots /\ ~Barred(s) /\ EndsAtHandoff(log[s])

Spend(kind) == /\ used[kind] < Limit[kind]
               /\ used' = [used EXCEPT ![kind] = @ + 1]

Goto(s, pc) == turn' = [turn EXCEPT ![s].pc = pc]
CtlGoto(pc) == ctl' = [ctl EXCEPT !.pc = pc]
FinishMessage(s, end) == log' = [log EXCEPT ![s][turn[s].msg] = Finished(@, end)]

-----------------------------------------------------------------------------
Init ==
    /\ log = [s \in Sessions |-> <<>>]
    /\ rows = [s \in Sessions |-> <<>>]
    /\ wf = [s \in Sessions |-> "none"]
    /\ archived = {}
    /\ turn = [s \in Sessions |-> NoTurn]
    /\ cancel = [s \in Sessions |-> NoCause]
    /\ queued = {}
    /\ stops = {}
    /\ holding = FALSE
    /\ draining = FALSE
    /\ started = {}
    /\ ctl = Controller("serve", FALSE)
    /\ used = [k \in Kinds |-> 0]

-----------------------------------------------------------------------------
(* A turn. *)

\* create_turn: a prompt brings an archived session back and is appended before a
\* turn is claimed for it.
Prompt(s) ==
    /\ Serving
    /\ s \in Roots
    /\ ~ServerBusy(s)
    /\ wf[s] # "running"
    /\ Spend("prompt")
    /\ archived' = archived \ {s}
    /\ log' = [log EXCEPT ![s] = Append(@, UserMessage)]
    /\ queued' = queued \cup {s}
    /\ UNCHANGED <<rows, wf, turn, cancel, stops, gate, ctl>>

\* begin_turn gave the queued request its lease.
ClaimTurn(s) ==
    /\ s \in queued
    /\ GateOpen(s)
    /\ turn' = [turn EXCEPT ![s] = [NoTurn EXCEPT !.pc = "starting", !.root = TRUE,
                                                  !.served = TRUE]]
    /\ queued' = queued \ {s}
    /\ UNCHANGED <<store, cancel, stops, gate, ctl, used>>

\* begin_turn refuses a closed gate; spawn_turn_run drops the error.
RefuseTurn(s) ==
    /\ s \in queued
    /\ holding \/ draining
    /\ queued' = queued \ {s}
    /\ UNCHANGED <<store, turn, cancel, stops, gate, ctl, used>>

\* A resident (of a member, or a root's main actor) has work: try_begin_turn.
Wake(s) ==
    /\ Up
    /\ GateOpen(s)
    /\ Spend(IF s \in Roots THEN "main" ELSE "wake")
    /\ turn' = [turn EXCEPT ![s] = [NoTurn EXCEPT !.pc = "mail"]]
    /\ UNCHANGED <<store, cancel, queued, stops, gate, ctl>>

\* A main actor that finds no mail gives its lease back.
NoMail(s) ==
    /\ turn[s].pc = "mail"
    /\ s \in Roots
    /\ turn' = [turn EXCEPT ![s] = NoTurn]
    /\ cancel' = [cancel EXCEPT ![s] = NoCause]
    /\ UNCHANGED <<store, queued, stops, gate, ctl, used>>

\* The resident admits the mail it was woken for, under its lease.
AdmitMail(s) ==
    /\ turn[s].pc = "mail"
    /\ log' = [log EXCEPT ![s] = Append(@, UserMessage)]
    /\ Goto(s, "starting")
    /\ UNCHANGED <<rows, wf, archived, cancel, queued, stops, gate, ctl, used>>

\* run_claimed_turn: MessageStarted.
StartMessage(s) ==
    /\ turn[s].pc = "starting"
    /\ log' = [log EXCEPT ![s] = Append(@, AssistantMessage)]
    /\ turn' = [turn EXCEPT ![s].pc = "boundary", ![s].msg = Len(log[s]) + 1]
    /\ UNCHANGED <<rows, wf, archived, cancel, queued, stops, gate, ctl, used>>

\* run_claimed_turn fails before its message exists.
StartFails(s) ==
    /\ turn[s].pc \in {"mail", "starting"}
    /\ Spend("fault")
    /\ Goto(s, "cleanup")
    /\ UNCHANGED <<store, cancel, queued, stops, gate, ctl>>

\* Round boundary: a root turn under a quiesced gate checkpoints, every other
\* turn opens its next round.
Boundary(s) ==
    /\ turn[s].pc = "boundary"
    /\ cancel[s] = NoCause
    /\ Goto(s, IF turn[s].root /\ holding THEN "handing" ELSE "round")
    /\ UNCHANGED <<store, cancel, queued, stops, gate, ctl, used>>

\* MUTANT: a second resume is queued behind a live one.
CheckpointRefused_queues(s) == OpenToolParts(log[s])
\* MUTANT: the tool parts are not looked at.
CheckpointRefused_anyTool(s) == Live(s)

\* checkpoint_for_handoff refuses: a resume is pending, or a tool part is open.
CheckpointRefused(s) == Live(s) \/ OpenToolParts(log[s])

\* checkpoint_for_handoff: close the open messages and queue the resume, in one
\* transaction; the turn ends.
Checkpoint(s) ==
    /\ turn[s].pc = "handing"
    /\ ~CheckpointRefused(s)
    /\ log' = [log EXCEPT ![s] = TerminalEvents(@, "handoff")]
    /\ rows' = [rows EXCEPT ![s] = Append(@, PendingResume(OpenMessages(log[s])))]
    /\ Goto(s, "cleanup")
    /\ UNCHANGED <<wf, archived, cancel, queued, stops, gate, ctl, used>>

\* A checkpoint that was refused, or that failed, is no boundary.
CheckpointFails(s) ==
    /\ turn[s].pc = "handing"
    /\ \/ CheckpointRefused(s) /\ UNCHANGED used
       \/ Spend("fault")
    /\ Goto(s, "round")
    /\ UNCHANGED <<store, cancel, queued, stops, gate, ctl>>

\* The model asked for a tool: its part is open until the result is recorded.
CallTool(s) ==
    /\ turn[s].pc = "round"
    /\ cancel[s] = NoCause
    /\ log' = [log EXCEPT ![s][turn[s].msg].openTool = TRUE]
    /\ Goto(s, "tools")
    /\ UNCHANGED <<rows, wf, archived, cancel, queued, stops, gate, ctl, used>>

ToolReturns(s) ==
    /\ turn[s].pc = "tools"
    /\ cancel[s] = NoCause
    /\ log' = [log EXCEPT ![s][turn[s].msg].openTool = FALSE]
    /\ Goto(s, "boundary")
    /\ UNCHANGED <<rows, wf, archived, cancel, queued, stops, gate, ctl, used>>

\* The model stopped: the turn's own MessageFinished.
FinishRound(s) ==
    /\ turn[s].pc = "round"
    /\ cancel[s] = NoCause
    /\ FinishMessage(s, "stop")
    /\ Goto(s, "cleanup")
    /\ UNCHANGED <<rows, wf, archived, cancel, queued, stops, gate, ctl, used>>

\* A provider or runtime error, or a lost sidecar.
RoundFails(s) ==
    /\ turn[s].pc \in {"round", "tools"}
    /\ cancel[s] = NoCause
    /\ turn' = [turn EXCEPT ![s].pc = "closing", ![s].end = "error"]
    /\ UNCHANGED <<store, cancel, queued, stops, gate, ctl, used>>

\* MUTANT: the select around the tools does not look at the cancel.
Preempt_notTools(s) ==
    /\ turn[s].pc \in {"boundary", "handing", "round"}
    /\ cancel[s] # NoCause
    /\ turn' = [turn EXCEPT ![s].pc = "closing", ![s].end = cancel[s]]
    /\ UNCHANGED <<store, cancel, queued, stops, gate, ctl, used>>

\* run_claimed_turn: the select, which polls the cancel first, or the check at
\* the round boundary saw the cancel; the round is dropped.
Preempt(s) ==
    /\ turn[s].pc \in {"boundary", "handing", "round", "tools"}
    /\ cancel[s] # NoCause
    /\ turn' = [turn EXCEPT ![s].pc = "closing", ![s].end = cancel[s]]
    /\ UNCHANGED <<store, cancel, queued, stops, gate, ctl, used>>

\* close_turn_message reads the folded log: a finished message is left alone.
ReadOpen(s) ==
    /\ turn[s].pc = "closing"
    /\ Goto(s, IF IsOpen(log[s][turn[s].msg]) THEN "emitting" ELSE "cleanup")
    /\ UNCHANGED <<store, cancel, queued, stops, gate, ctl, used>>

\* close_turn_message appends what it decided on from that read.
EmitClose(s) ==
    /\ turn[s].pc = "emitting"
    /\ FinishMessage(s, turn[s].end)
    /\ Goto(s, "cleanup")
    /\ UNCHANGED <<rows, wf, archived, cancel, queued, stops, gate, ctl, used>>

\* Its error is dropped: the message stays open until the next startup.
CloseFails(s) ==
    /\ turn[s].pc \in {"closing", "emitting"}
    /\ Spend("fault")
    /\ Goto(s, "cleanup")
    /\ UNCHANGED <<store, cancel, queued, stops, gate, ctl>>

\* The lease is dropped.
EndTurn(s) ==
    /\ turn[s].pc = "cleanup"
    /\ turn' = [turn EXCEPT ![s] = NoTurn]
    /\ cancel' = [cancel EXCEPT ![s] = NoCause]
    /\ UNCHANGED <<store, queued, stops, gate, ctl, used>>

-----------------------------------------------------------------------------
(* Users, the team and Workflow runs. *)

\* cancel_run: cancel the session's turn and those of the subagents below it,
\* and the request that is queued behind it.
CancelRun(s) ==
    /\ Serving
    /\ \E below \in SUBSET (Members \ {s}) :
         LET cancelled == {t \in below \cup {s} : Active(t) /\ cancel[t] = NoCause}
         IN  /\ cancelled # {} \/ s \in queued
             /\ cancel' = [t \in Sessions |-> IF t \in cancelled THEN "user_cancel"
                                              ELSE cancel[t]]
    /\ queued' = queued \ {s}
    /\ UNCHANGED <<store, turn, stops, gate, ctl, used>>

\* stop_turn, called to archive a member: cancel, then wait for its release.
StopTurn(s) ==
    /\ Up
    /\ s \in Members \ stops
    /\ Active(s)
    /\ cancel' = [cancel EXCEPT ![s] = IF @ = NoCause THEN "archived" ELSE @]
    /\ stops' = stops \cup {s}
    /\ UNCHANGED <<store, turn, queued, gate, ctl, used>>

StopReleased(s) ==
    /\ s \in stops
    /\ ~Active(s)
    /\ stops' = stops \ {s}
    /\ UNCHANGED <<store, turn, cancel, queued, gate, ctl, used>>

\* stop_turn at its deadline: close_open_turns.
StopDeadline(s) ==
    /\ s \in stops
    /\ Active(s)
    /\ log' = [log EXCEPT ![s] = TerminalEvents(@, "archived")]
    /\ stops' = stops \ {s}
    /\ UNCHANGED <<rows, wf, archived, turn, cancel, queued, gate, ctl, used>>

\* admit_workflow_run, from a `workflow` tool call of a root turn or from a
\* client.  Neither asks the turn gate.
StartRun(s) ==
    /\ s \in Roots
    /\ \/ turn[s].pc = "tools"
       \/ Serving /\ ~ServerBusy(s)
    /\ wf[s] # "running"
    /\ Spend("run")
    /\ wf' = [wf EXCEPT ![s] = "running"]
    /\ UNCHANGED <<log, rows, archived, turns, gate, ctl>>

FinishRun(s) ==
    /\ Up
    /\ wf[s] = "running"
    /\ wf' = [wf EXCEPT ![s] = "ended"]
    /\ UNCHANGED <<log, rows, archived, turns, gate, ctl, used>>

\* archive_session of a root: its running turn goes on.
Archive(s) ==
    /\ Serving
    /\ s \in Roots \ archived
    /\ Spend("archive")
    /\ archived' = archived \cup {s}
    /\ UNCHANGED <<log, rows, wf, turns, gate, ctl>>

\* unarchive_session, asked for by a client or for its next request.
Unarchive(s) ==
    /\ Serving
    /\ s \in archived
    /\ archived' = archived \ {s}
    /\ UNCHANGED <<log, rows, wf, turns, gate, ctl, used>>

-----------------------------------------------------------------------------
(* The signal loop: a handoff restart. *)

\* Quiesce: refuse new turns, remember the running ones.
RequestHandoff ==
    /\ ctl.pc = "serve"
    /\ Spend("handoff")
    /\ holding' = TRUE
    /\ started' = started \cup ActiveSessions
    /\ CtlGoto("queued")
    /\ UNCHANGED <<store, turns, draining>>

\* The restart is rejected or failed: reopen the gate and re-drive.
Abort(after) == ctl' = [ctl EXCEPT !.pc = "lift", !.after = after]

\* MUTANT: the error path returns to the loop and leaves the gate closed.
QueuedFails_holds ==
    /\ ctl.pc = "queued"
    /\ Spend("fault")
    /\ CtlGoto("serve")
    /\ UNCHANGED <<store, turns, gate>>

\* The `queued` stage could not be recorded.
QueuedFails ==
    /\ ctl.pc = "queued"
    /\ Spend("fault")
    /\ Abort("serve")
    /\ UNCHANGED <<store, turns, gate>>

\* handoff_turns: a running Workflow rejects, else quiesce and wait.
CheckRuns ==
    /\ ctl.pc = "queued"
    /\ IF RunningRuns # {}
       THEN started' = {} /\ Abort("serve")
       ELSE started' = started \cup ActiveSessions /\ CtlGoto("waiting")
    /\ UNCHANGED <<store, turns, holding, draining, used>>

\* wait_idle returns true ...
WaitIdle ==
    /\ ctl.pc = "waiting"
    /\ ActiveSessions = {}
    /\ CtlGoto("idle")
    /\ UNCHANGED <<store, turns, gate, used>>

\* MUTANT: the wait has no deadline.
WaitDeadline_never ==
    /\ ctl.pc = "waiting"
    /\ ActiveSessions = {}
    /\ CtlGoto("deadline")
    /\ UNCHANGED <<store, turns, gate, used>>

\* ... or false, at the deadline.
WaitDeadline ==
    /\ ctl.pc = "waiting"
    /\ ActiveSessions # {}
    /\ CtlGoto("deadline")
    /\ UNCHANGED <<store, turns, gate, used>>

\* The gate is read again for the stragglers the report names.  The server keeps
\* serving only if there is one.
ReportStragglers ==
    /\ ctl.pc = "deadline"
    /\ Abort(IF started \cap ActiveSessions # {} THEN "serve" ELSE "spawn")
    /\ started' = {}
    /\ UNCHANGED <<store, turns, holding, draining, used>>

\* The gate went idle: look for Workflow runs again.
RecheckRuns ==
    /\ ctl.pc = "idle"
    /\ IF RunningRuns # {} THEN Abort("serve") ELSE CtlGoto("spawn")
    /\ started' = {}
    /\ UNCHANGED <<store, turns, holding, draining, used>>

\* A look at the runs that fails counts as one that found none.
RunsUnknown ==
    /\ ctl.pc \in {"queued", "idle"}
    /\ Spend("fault")
    /\ CtlGoto(IF ctl.pc = "queued" THEN "waiting" ELSE "spawn")
    /\ started' = IF ctl.pc = "queued" THEN started \cup ActiveSessions ELSE {}
    /\ UNCHANGED <<store, turns, holding, draining>>

SpawnFails ==
    /\ ctl.pc = "spawn"
    /\ Spend("fault")
    /\ Abort("serve")
    /\ UNCHANGED <<store, turns, gate>>

SpawnSuccessor ==
    /\ ctl.pc = "spawn"
    /\ CtlGoto("spawned")
    /\ UNCHANGED <<store, turns, gate, used>>

-----------------------------------------------------------------------------
(* The process goes away.  What it had in memory is gone with it. *)

Die(successor) ==
    /\ turn' = [s \in Sessions |-> NoTurn]
    /\ cancel' = [s \in Sessions |-> NoCause]
    /\ queued' = {}
    /\ stops' = {}
    /\ holding' = FALSE
    /\ draining' = FALSE
    /\ started' = {}
    /\ ctl' = Controller("down", successor)
    /\ UNCHANGED store

\* The runtime owner is released and the successor may open the store.
Release ==
    /\ ctl.pc = "spawned"
    /\ Die(TRUE)
    /\ UNCHANGED used

Crash ==
    /\ ctl.pc # "down"
    /\ Spend("crash")
    /\ Die(FALSE)

\* SIGTERM: drain_turns cancels every turn and waits.
BeginDrain ==
    /\ ctl.pc = "serve"
    /\ Spend("stop")
    /\ draining' = TRUE
    /\ cancel' = [s \in Sessions |-> IF Active(s) /\ cancel[s] = NoCause
                                     THEN "shutdown" ELSE cancel[s]]
    /\ CtlGoto("draining")
    /\ UNCHANGED <<store, turn, queued, stops, holding, started>>

\* At the deadline the turns still running are closed by the drain.
DrainWaited ==
    /\ ctl.pc = "draining"
    /\ ctl' = [ctl EXCEPT !.pc = IF ActiveSessions = {} THEN "stopping" ELSE "sweeping",
                          !.todo = ActiveSessions]
    /\ UNCHANGED <<store, turns, gate, used>>

SweepTurn(s) ==
    /\ ctl.pc = "sweeping"
    /\ s \in ctl.todo
    /\ \/ log' = [log EXCEPT ![s] = TerminalEvents(@, "shutdown")] /\ UNCHANGED used
       \/ Spend("fault") /\ UNCHANGED log
    /\ ctl' = [ctl EXCEPT !.todo = @ \ {s}]
    /\ UNCHANGED <<rows, wf, archived, turns, gate>>

Swept ==
    /\ ctl.pc = "sweeping"
    /\ ctl.todo = {}
    /\ CtlGoto("stopping")
    /\ UNCHANGED <<store, turns, gate, used>>

Exit ==
    /\ ctl.pc = "stopping"
    /\ Die(FALSE)
    /\ UNCHANGED used

-----------------------------------------------------------------------------
(* Startup. *)

\* MUTANT: only top-level sessions are listed.
Boot_rootsOnly ==
    /\ ctl.pc = "down"
    /\ ctl' = [ctl EXCEPT !.pc = "recover", !.boot = TRUE,
                          !.todo = {s \in Roots : OpenMessages(log[s]) # {}}]
    /\ UNCHANGED <<store, turns, gate, used>>

\* A process claims the runtime owner and lists the sessions of the open-message
\* index.
Boot ==
    /\ ctl.pc = "down"
    /\ ctl' = [ctl EXCEPT !.pc = "recover", !.boot = TRUE,
                          !.todo = {s \in Sessions : OpenMessages(log[s]) # {}}]
    /\ UNCHANGED <<store, turns, gate, used>>

\* recover_interrupted_turns: one transaction per session.
RecoverTurn(s) ==
    /\ ctl.pc = "recover"
    /\ s \in ctl.todo
    /\ log' = [log EXCEPT ![s] = TerminalEvents(@, "interrupted")]
    /\ ctl' = [ctl EXCEPT !.todo = @ \ {s}]
    /\ UNCHANGED <<rows, wf, archived, turns, gate, used>>

\* recover_nonterminal_workflows; then residents come up and the driver runs.
RecoverRuns ==
    /\ ctl.pc = "recover"
    /\ ctl.todo = {}
    /\ wf' = [s \in Sessions |-> IF wf[s] = "running" THEN "interrupted" ELSE wf[s]]
    /\ Abort("serve")
    /\ UNCHANGED <<log, rows, archived, turns, gate, used>>

-----------------------------------------------------------------------------
(* resume_handed_off_turns: one pass of the resume driver. *)

LiftQuiesce ==
    /\ ctl.pc = "lift"
    /\ holding' = FALSE
    /\ CtlGoto("list")
    /\ UNCHANGED <<store, turns, draining, started, used>>

\* The pass is over: startup publishes the server, an aborted handoff serves on.
PassEnds == Controller(ctl.after, ctl.successor)

\* list_pending_resumes; a failure ends the pass.
ListResumes ==
    /\ ctl.pc = "list"
    /\ \/ /\ ctl' = [ctl EXCEPT !.pc = "next", !.todo = {s \in Sessions : Live(s)}]
          /\ UNCHANGED used
       \/ /\ Spend("fault")
          /\ ctl' = PassEnds
    /\ UNCHANGED <<store, turns, gate>>

\* try_begin_turn reserves the session's turn before its tail is read.
Reserve(s) ==
    /\ ctl.pc = "next"
    /\ s \in ctl.todo
    /\ GateOpen(s)
    /\ turn' = [turn EXCEPT ![s] = [NoTurn EXCEPT !.pc = "lease"]]
    /\ ctl' = [ctl EXCEPT !.pc = "read", !.todo = @ \ {s}, !.session = s]
    /\ UNCHANGED <<store, cancel, queued, stops, gate, used>>

\* MUTANT: a listed session is skipped whether it has a turn or not.
Skip_any(s) ==
    /\ ctl.pc = "next"
    /\ s \in ctl.todo
    /\ ctl' = [ctl EXCEPT !.todo = @ \ {s}]
    /\ UNCHANGED <<store, turns, gate, used>>

\* A session with a turn is skipped.
Skip(s) ==
    /\ ctl.pc = "next"
    /\ s \in ctl.todo
    /\ ~GateOpen(s)
    /\ ctl' = [ctl EXCEPT !.todo = @ \ {s}]
    /\ UNCHANGED <<store, turns, gate, used>>

PassDone ==
    /\ ctl.pc = "next"
    /\ ctl.todo = {}
    /\ ctl' = PassEnds
    /\ UNCHANGED <<store, turns, gate, used>>

\* The driver gives the reserved turn back.
DropLease == /\ turn' = [turn EXCEPT ![ctl.session] = NoTurn]
             /\ cancel' = [cancel EXCEPT ![ctl.session] = NoCause]

\* Read the projection: a session that is barred or moved on gives its lease back.
ReadTail ==
    /\ ctl.pc = "read"
    /\ ctl' = [ctl EXCEPT !.pc = IF Candidate(ctl.session) THEN "ack" ELSE "stale",
                          !.barred = Barred(ctl.session)]
    /\ IF Candidate(ctl.session) THEN UNCHANGED <<turn, cancel>> ELSE DropLease
    /\ UNCHANGED <<store, queued, stops, gate, used>>

\* A store call of the driver failed: on to the next row, this one stays live.
DriverFault ==
    /\ ctl.pc \in {"read", "ack", "stale"}
    /\ Spend("fault")
    /\ IF ctl.pc = "stale" THEN UNCHANGED <<turn, cancel>> ELSE DropLease
    /\ CtlGoto("next")
    /\ UNCHANGED <<store, queued, stops, gate>>

\* begin_handoff_resume: mark the oldest live row taken.
TakeRow(s) == rows' = [rows EXCEPT ![s][Oldest(rows[s])].taken = TRUE]

\* MUTANT: the stale row is left in the table.
AckStale_keeps ==
    /\ ctl.pc = "stale"
    /\ CtlGoto("next")
    /\ UNCHANGED <<store, turns, gate, used>>

\* The row of such a session is consumed and drives nothing.
AckStale ==
    /\ ctl.pc = "stale"
    /\ IF Live(ctl.session) THEN TakeRow(ctl.session) ELSE UNCHANGED rows
    /\ CtlGoto("next")
    /\ UNCHANGED <<log, wf, archived, turns, gate, used>>

\* MUTANT: the continuation starts and the row stays live.
Ack_keeps ==
    /\ ctl.pc = "ack"
    /\ ctl' = [ctl EXCEPT !.pc = "start", !.row = Oldest(rows[ctl.session])]
    /\ UNCHANGED <<store, turns, gate, used>>

\* The ack is durable before the continuation starts.
Ack ==
    /\ ctl.pc = "ack"
    /\ IF Live(ctl.session)
       THEN /\ TakeRow(ctl.session)
            /\ ctl' = [ctl EXCEPT !.pc = "start", !.row = Oldest(rows[ctl.session])]
            /\ UNCHANGED <<turn, cancel>>
       ELSE DropLease /\ CtlGoto("next") /\ UNCHANGED rows
    /\ UNCHANGED <<log, wf, archived, queued, stops, gate, used>>

\* run_handoff_continuation is spawned with the lease.
StartContinuation ==
    /\ ctl.pc = "start"
    /\ rows' = [rows EXCEPT ![ctl.session][ctl.row].drives = @ + 1]
    /\ turn' = [turn EXCEPT ![ctl.session].pc = "starting", ![ctl.session].root = TRUE]
    /\ ctl' = [ctl EXCEPT !.pc = "next", !.row = 0]
    /\ UNCHANGED <<log, wf, archived, cancel, queued, stops, gate, used>>

\* run_handoff_resume gives the startup pass a bounded time: a successor then
\* refuses to serve, a plain start serves on.  The ack may have been committed when
\* the pass is dropped.
ResumeTimeout ==
    /\ ctl.boot
    /\ ctl.pc \in PassPcs
    /\ Spend("timeout")
    /\ \/ ctl.successor /\ Die(FALSE)
       \/ /\ ~ctl.successor
          /\ ctl' = PassEnds
          /\ IF ctl.pc \in {"read", "ack", "start"} THEN DropLease ELSE UNCHANGED <<turn, cancel>>
          /\ UNCHANGED <<store, queued, stops, gate>>

-----------------------------------------------------------------------------
TurnStep(s) ==
    \/ ClaimTurn(s) \/ RefuseTurn(s) \/ NoMail(s) \/ AdmitMail(s)
    \/ StartMessage(s) \/ StartFails(s)
    \/ Boundary(s) \/ Checkpoint(s) \/ CheckpointFails(s)
    \/ CallTool(s) \/ ToolReturns(s) \/ FinishRound(s) \/ RoundFails(s)
    \/ Preempt(s) \/ ReadOpen(s) \/ EmitClose(s) \/ CloseFails(s) \/ EndTurn(s)

Environment(s) ==
    \/ Prompt(s) \/ Wake(s) \/ CancelRun(s)
    \/ StopTurn(s) \/ StopReleased(s) \/ StopDeadline(s)
    \/ StartRun(s) \/ FinishRun(s) \/ Archive(s) \/ Unarchive(s)

HandoffStep ==
    \/ RequestHandoff \/ QueuedFails \/ CheckRuns \/ WaitIdle \/ WaitDeadline
    \/ ReportStragglers \/ RecheckRuns \/ RunsUnknown
    \/ SpawnFails \/ SpawnSuccessor \/ Release

DrainStep ==
    \/ BeginDrain \/ DrainWaited \/ Swept \/ Exit
    \/ \E s \in Sessions : SweepTurn(s)

StartupStep ==
    \/ Boot \/ RecoverRuns \/ ResumeTimeout
    \/ \E s \in Sessions : RecoverTurn(s)

DriverStep ==
    \/ LiftQuiesce \/ ListResumes \/ PassDone \/ ReadTail \/ DriverFault
    \/ AckStale \/ Ack \/ StartContinuation
    \/ \E s \in Sessions : Reserve(s) \/ Skip(s)

Next ==
    \/ \E s \in Sessions : TurnStep(s) \/ Environment(s)
    \/ HandoffStep \/ DrainStep \/ StartupStep \/ DriverStep
    \/ Crash

Spec == Init /\ [][Next]_vars

-----------------------------------------------------------------------------
(* Properties. *)

\* Every variable holds values of its type; the todo lists, leases and reserved
\* sessions of the controller name sessions.
TypeOK ==
    /\ log \in [Sessions -> Seq(Message)]
    /\ rows \in [Sessions -> Seq(Resume)]
    /\ wf \in [Sessions -> RunStates]
    /\ archived \subseteq Roots
    /\ turn \in [Sessions -> Turn]
    /\ cancel \in [Sessions -> Causes \cup {NoCause}]
    /\ queued \subseteq Sessions
    /\ stops \subseteq Sessions
    /\ holding \in BOOLEAN
    /\ draining \in BOOLEAN
    /\ started \subseteq Sessions
    /\ ctl \in Ctl
    /\ ctl.pc \in RowPcs => ctl.session \in Sessions
    /\ used \in [Kinds -> Nat]

\* "A successor is never queued twice": a session has at most one live resume,
\* over aborted handoffs, crashes and later checkpoints.
OneLiveResume == \A s \in Sessions : Cardinality(LiveResumes(rows[s])) <= 1

\* A checkpoint is continued at most once, whoever resumes it: an aborted handoff,
\* the successor, a successor of a successor that died in its resume, or a start
\* whose pass timed out.
DrivenOnce == \A s \in Sessions : \A i \in DOMAIN rows[s] :
                rows[s][i].drives <= (IF rows[s][i].taken THEN 1 ELSE 0)

\* "The log and the queued resume can never disagree": the messages that ended
\* with a handoff are exactly those some checkpoint row closed, and no later close
\* of the same message replaces that end.
CloseHasResume ==
    \A s \in Sessions :
        {i \in DOMAIN log[s] : log[s][i].end = "handoff"} =
            UNION {rows[s][i].closed : i \in DOMAIN rows[s]}

\* Once a process has repaired the log, an open assistant message is the message
\* of the turn that runs in its session: no client waits for a finish that nobody
\* will write.  Without store faults.
OpenHasTurn ==
    Up => \A s \in Sessions : \A i \in OpenMessages(log[s]) :
            /\ turn[s].msg = i
            /\ turn[s].pc \in {"boundary", "handing", "round", "tools", "closing", "emitting"}

\* Whenever the server is back in its signal loop the gate admits turns again,
\* however the restart was rejected.
GateReopened == ctl.pc = "serve" => ~holding /\ ~draining

\* A handoff never errors away a tool call: a message closed by a checkpoint had no
\* open tool part, left-overs of an earlier turn included.
CallsSurviveHandoff ==
    [][\A s \in Sessions : \A i \in DOMAIN log[s] :
         log[s][i].openTool /\ log'[s][i].end = "handoff" => log[s][i].end = "handoff"]_vars

\* The startup pass delivers every resume: when it comes to its end, none is live.
\* Without store faults, and unless the root's main actor holds the session's turn
\* just then (no main actor wakes in the run that checks it).
StartupDelivers ==
    [][ctl.boot /\ ctl.pc = "next" /\ ctl.todo = {} /\ ctl'.pc = "serve"
         => \A s \in Sessions : ~Live(s)]_vars

\* "Consume the stale row ... but drive nothing": the row of a session that the
\* driver found neither archived nor with a running or interrupted Workflow run is
\* thrown away only if the transcript has moved on from its handoff close, and then
\* still at the ack, although the lease is dropped before it.
StaleMovedOn ==
    [][ctl.pc = "stale" /\ rows' # rows /\ ~ctl.barred
         => ~EndsAtHandoff(log[ctl.session])]_vars

-----------------------------------------------------------------------------
(* What a comment says and the code does not do. *)

\* "The successor continues the session without a new prompt": when a resume is
\* consumed, the session has an answer, a turn, or a request that waits for one.
SessionContinues ==
    [][ctl.pc = "stale" /\ rows' # rows
         => LET s == ctl.session
            IN  log[s][Len(log[s])].role = "assistant" \/ s \in queued \/ Active(s)]_vars

-----------------------------------------------------------------------------
(* Liveness: tasks and timers run, a round of a turn need not end. *)

Progress(s) ==
    \/ ClaimTurn(s) \/ RefuseTurn(s) \/ NoMail(s) \/ AdmitMail(s) \/ StartMessage(s)
    \/ Checkpoint(s) \/ CheckpointFails(s) \/ Preempt(s) \/ ReadOpen(s) \/ EmitClose(s)
    \/ EndTurn(s) \/ StopReleased(s) \/ StopDeadline(s)

ControllerStep ==
    \/ HandoffStep /\ ctl.pc # "serve"
    \/ DrainStep /\ ctl.pc # "serve"
    \/ StartupStep /\ ctl.pc # "down"
    \/ DriverStep

FairSpec == /\ Spec
            /\ \A s \in Sessions : WF_vars(Progress(s))
            /\ WF_vars(ControllerStep)

\* A handoff request is answered: the server serves on, or the process is replaced
\* (or dies), whatever its turns do.
HandoffResolves == ctl.pc = "queued" ~> ctl.pc \in {"serve", "down"}

\* A cancelled turn's message is closed and its session freed, unless the process
\* dies: the next one closes it.
CancelledCloses ==
    \A s \in Sessions : Active(s) /\ cancel[s] # NoCause ~> ~Active(s)

\* A resume that a starting process finds is consumed, unless that process dies too
\* or its main actor woke first and holds the session's turn: the pass skips it.
ResumeDelivered ==
    \A s \in Sessions : ctl.pc = "recover" /\ Live(s)
                         ~> ~Live(s) \/ ctl.pc = "down" \/ turn[s].pc = "mail"
==============================================================================
