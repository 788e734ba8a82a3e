------------------------------ MODULE SessionLog ------------------------------
(***************************************************************************)
(* What turn termination needs of a session's event log: its messages in   *)
(* order and how each one ended, and the table of pending resumes next to  *)
(* it (crates/hya-store/src/recovery.rs, handoff.rs, and the fold of       *)
(* MessageStarted and MessageFinished in crates/hya-proto).  A text, a     *)
(* model or a token count is not kept.                                     *)
(***************************************************************************)
EXTENDS Naturals, Sequences, FiniteSets

\* How an assistant message may end: FinishReason and FinishCause in one value.
Causes == {"user_cancel", "shutdown", "archived"}
Ends == {"stop", "error", "handoff", "interrupted"} \cup Causes
OpenEnd == "open"

\* MessageProjection: who wrote it, its end, whether one of its tool parts is
\* pending or running, and how many MessageFinished the log holds for it.
Message == [role : {"user", "assistant"}, end : Ends \cup {OpenEnd},
            openTool : BOOLEAN, finishes : Nat]

UserMessage == [role |-> "user", end |-> "stop", openTool |-> FALSE, finishes |-> 1]
AssistantMessage == [role |-> "assistant", end |-> OpenEnd, openTool |-> FALSE, finishes |-> 0]

IsOpen(m) == m.role = "assistant" /\ m.end = OpenEnd
OpenMessages(log) == {i \in DOMAIN log : IsOpen(log[i])}

\* The fold of MessageFinished overwrites finish and cause, whatever they were.
Finished(m, end) ==
    [role |-> m.role, end |-> end, openTool |-> FALSE, finishes |-> m.finishes + 1]

\* MUTANT: messages that are finished are finished again.
TerminalEvents_all(log, end) ==
    [i \in DOMAIN log |-> IF log[i].role = "assistant" THEN Finished(log[i], end) ELSE log[i]]

\* open_turn_terminal_events: error the open tool parts of every open assistant
\* message, then finish it.
TerminalEvents(log, end) ==
    [i \in DOMAIN log |-> IF IsOpen(log[i]) THEN Finished(log[i], end) ELSE log[i]]

\* A checkpoint may not error a tool call away.
OpenToolParts(log) == \E i \in OpenMessages(log) : log[i].openTool

\* The transcript ends at a handoff close.
EndsAtHandoff(log) == log # <<>> /\ log[Len(log)].end = "handoff"

-----------------------------------------------------------------------------
(* pending_resume: the messages the checkpoint closed, whether the row was  *)
(* taken, and how many continuations were started for it.                   *)

Resume == [closed : SUBSET Nat, taken : BOOLEAN, drives : Nat]
PendingResume(closed) == [closed |-> closed, taken |-> FALSE, drives |-> 0]

LiveResumes(rows) == {i \in DOMAIN rows : ~rows[i].taken}

\* The row begin_handoff_resume takes: the oldest live one.
Oldest(rows) == CHOOSE i \in LiveResumes(rows) : \A j \in LiveResumes(rows) : i <= j
==============================================================================
