---------------------------- MODULE HandoffProofs ----------------------------
(***************************************************************************)
(* What turn termination and the restart handoff guarantee for any number  *)
(* of sessions, prompts, restarts, crashes and store faults.               *)
(***************************************************************************)
EXTENDS Handoff, FiniteSetTheorems, SequenceTheorems, WellFoundedInduction, TLAPS

USE DEF store, turns, gate

-----------------------------------------------------------------------------
(* Messages, logs and resume rows. *)

\* The two messages a session appends, and a finished one, are messages.
LEMMA MessageType ==
    /\ UserMessage \in Message
    /\ AssistantMessage \in Message
    /\ \A m \in Message, e \in Ends : Finished(m, e) \in Message
  <1>1. UserMessage \in Message /\ AssistantMessage \in Message
    BY DEF UserMessage, AssistantMessage, Message, Ends, OpenEnd
  <1>2. ASSUME NEW m \in Message, NEW e \in Ends PROVE Finished(m, e) \in Message
    BY DEF Finished, Message
  <1>3. QED
    BY <1>1, <1>2

\* Rewriting one message of a log keeps it a log of the same length.
LEMMA FinishInLog ==
    ASSUME NEW q \in Seq(Message), NEW i, NEW e \in Ends
    PROVE  /\ [q EXCEPT ![i] = Finished(@, e)] \in Seq(Message)
           /\ DOMAIN [q EXCEPT ![i] = Finished(@, e)] = DOMAIN q
  <1> DEFINE new == [q EXCEPT ![i] = Finished(@, e)]
  <1>1. DOMAIN new = 1..Len(q) /\ Len(q) \in Nat
    OBVIOUS
  <1>2. \A j \in 1..Len(q) : new[j] \in Message
    BY MessageType
  <1>3. new \in Seq(Message)
    <2>1. new = [j \in 1..Len(q) |-> new[j]]
      BY <1>1
    <2> HIDE DEF new
    <2>2. new \in [1..Len(q) -> Message]
      BY <1>2, <2>1
    <2>3. QED
      BY <1>1, <2>2, SeqDef
  <1>4. QED
    BY <1>1, <1>3

\* The same for the open-tool mark of a message.
LEMMA ToolInLog ==
    ASSUME NEW q \in Seq(Message), NEW i, NEW b \in BOOLEAN
    PROVE  /\ [q EXCEPT ![i].openTool = b] \in Seq(Message)
           /\ DOMAIN [q EXCEPT ![i].openTool = b] = DOMAIN q
  <1> DEFINE new == [q EXCEPT ![i].openTool = b]
  <1>1. DOMAIN new = 1..Len(q) /\ Len(q) \in Nat
    OBVIOUS
  <1>2. \A j \in 1..Len(q) : new[j] \in Message
    <2> SUFFICES ASSUME NEW j \in 1..Len(q) PROVE new[j] \in Message
      OBVIOUS
    <2>1. q[j] \in Message
      OBVIOUS
    <2>2. [q[j] EXCEPT !.openTool = b] \in Message
      BY <2>1 DEF Message
    <2>3. QED
      BY <2>1, <2>2
  <1>3. new \in Seq(Message)
    <2>1. new = [j \in 1..Len(q) |-> new[j]]
      BY <1>1
    <2> HIDE DEF new
    <2>2. new \in [1..Len(q) -> Message]
      BY <1>2, <2>1
    <2>3. QED
      BY <1>1, <2>2, SeqDef
  <1>4. QED
    BY <1>1, <1>3

\* Closing every open message keeps a log a log of the same length.
LEMMA TerminalInLog ==
    ASSUME NEW q \in Seq(Message), NEW e \in Ends
    PROVE  /\ TerminalEvents(q, e) \in Seq(Message)
           /\ DOMAIN TerminalEvents(q, e) = DOMAIN q
  <1> DEFINE new == TerminalEvents(q, e)
  <1>1. DOMAIN new = 1..Len(q) /\ Len(q) \in Nat
    BY DEF TerminalEvents
  <1>2. \A j \in 1..Len(q) : new[j] \in Message
    BY MessageType DEF TerminalEvents
  <1>3. new \in Seq(Message)
    <2>1. new = [j \in 1..Len(q) |-> new[j]]
      BY <1>1 DEF TerminalEvents
    <2> HIDE DEF new
    <2>2. new \in [1..Len(q) -> Message]
      BY <1>2, <2>1
    <2>3. QED
      BY <1>1, <2>2, SeqDef
  <1>4. QED
    BY <1>1, <1>3

\* Marking a resume row taken, or driven, keeps the table a table of the same length.
LEMMA MarkInRows ==
    ASSUME NEW q \in Seq(Resume), NEW i, NEW b \in BOOLEAN
    PROVE  /\ [q EXCEPT ![i].taken = b] \in Seq(Resume)
           /\ DOMAIN [q EXCEPT ![i].taken = b] = DOMAIN q
           /\ [q EXCEPT ![i].drives = @ + 1] \in Seq(Resume)
           /\ DOMAIN [q EXCEPT ![i].drives = @ + 1] = DOMAIN q
  <1> DEFINE taken == [q EXCEPT ![i].taken = b]
             driven == [q EXCEPT ![i].drives = @ + 1]
  <1>1. Len(q) \in Nat /\ DOMAIN taken = 1..Len(q) /\ DOMAIN driven = 1..Len(q)
    OBVIOUS
  <1>2. ASSUME NEW j \in 1..Len(q) PROVE taken[j] \in Resume /\ driven[j] \in Resume
    <2>1. q[j] \in Resume
      OBVIOUS
    <2>2. [q[j] EXCEPT !.taken = b] \in Resume
      BY <2>1 DEF Resume
    <2>3. q[j].drives + 1 \in Nat
      BY <2>1 DEF Resume
    <2>4. [q[j] EXCEPT !.drives = q[j].drives + 1] \in Resume
      BY <2>1, <2>3 DEF Resume
    <2>5. taken[j] \in Resume
      BY <2>1, <2>2
    <2>6. driven[j] = q[j] \/ driven[j] = [q[j] EXCEPT !.drives = q[j].drives + 1]
      OBVIOUS
    <2>7. QED
      BY <2>1, <2>4, <2>5, <2>6
  <1>3. taken = [j \in 1..Len(q) |-> taken[j]] /\ driven = [j \in 1..Len(q) |-> driven[j]]
    BY <1>1
  <1>4. taken \in [1..Len(q) -> Resume] /\ driven \in [1..Len(q) -> Resume]
    <2> HIDE DEF taken, driven
    <2> QED
      BY <1>2, <1>3
  <1> HIDE DEF taken, driven
  <1>5. taken \in Seq(Resume) /\ driven \in Seq(Resume)
    BY <1>1, <1>4, SeqDef
  <1>6. QED
    BY <1>1, <1>5 DEF taken, driven

\* The row begin_handoff_resume takes is a live one whenever there is one.
LEMMA OldestLive ==
    ASSUME NEW q \in Seq(Resume), LiveResumes(q) # {}
    PROVE  Oldest(q) \in LiveResumes(q) /\ Oldest(q) \in Nat
  <1> DEFINE T == LiveResumes(q)
  <1>1. T \subseteq Nat
    BY DEF LiveResumes
  <1>2. PICK i \in T : \A j \in T : ~(<<j, i>> \in OpToRel(<, Nat))
    BY <1>1, WFMin, NatLessThanWellFounded
  <1>3. \A j \in T : i <= j
    <2> SUFFICES ASSUME NEW j \in T PROVE i <= j
      OBVIOUS
    <2>1. i \in Nat /\ j \in Nat
      BY <1>1
    <2>2. ~(j < i)
      BY <1>2, <2>1 DEF OpToRel
    <2>3. QED
      BY <2>1, <2>2
  <1> HIDE DEF T
  <1>4. \E k \in T : \A j \in T : k <= j
    BY <1>3
  <1>5. (CHOOSE k \in T : \A j \in T : k <= j) \in T
    BY <1>4
  <1>6. QED
    BY <1>1, <1>5 DEF Oldest, T

-----------------------------------------------------------------------------
(* Which actions write which variable. *)

\* The log.
LEMMA LogWriters ==
    [Next]_vars =>
        \/ UNCHANGED log
        \/ \E s \in Sessions :
              \/ AdmitMail(s) \/ StartMessage(s) \/ Checkpoint(s) \/ CallTool(s)
              \/ ToolReturns(s) \/ FinishRound(s) \/ EmitClose(s) \/ Prompt(s)
              \/ StopDeadline(s) \/ SweepTurn(s) \/ RecoverTurn(s)
  <1>1. ASSUME NEW s \in Sessions, TurnStep(s)
        PROVE
                \/ UNCHANGED log \/ AdmitMail(s) \/ StartMessage(s) \/ Checkpoint(s)
                \/ CallTool(s) \/ ToolReturns(s) \/ FinishRound(s) \/ EmitClose(s)
    BY <1>1 DEF TurnStep, ClaimTurn, RefuseTurn, NoMail, StartFails, Spend, Goto,
        Boundary, CheckpointFails, RoundFails, Preempt, ReadOpen, CloseFails,
        EndTurn
  <1>2. ASSUME NEW s \in Sessions, Environment(s)
        PROVE UNCHANGED log \/ Prompt(s) \/ StopDeadline(s)
    BY <1>2 DEF Environment, Wake, Spend, CancelRun, StopTurn, StopReleased,
        StartRun, FinishRun, Archive, Unarchive
  <1>3. ASSUME HandoffStep
        PROVE  UNCHANGED log
    BY <1>3 DEF HandoffStep, RequestHandoff, Spend, CtlGoto, QueuedFails, Abort,
        CheckRuns, WaitIdle, WaitDeadline, ReportStragglers, RecheckRuns,
        RunsUnknown, SpawnFails, SpawnSuccessor, Release, Die
  <1>4. ASSUME DrainStep
        PROVE  UNCHANGED log \/ \E s \in Sessions : SweepTurn(s)
    BY <1>4 DEF DrainStep, BeginDrain, Spend, CtlGoto, DrainWaited, Swept, Exit, Die
  <1>5. ASSUME StartupStep
        PROVE  UNCHANGED log \/ \E s \in Sessions : RecoverTurn(s)
    BY <1>5 DEF StartupStep, Boot, RecoverRuns, Abort, ResumeTimeout, Spend, Die,
        DropLease, PassEnds
  <1>6. ASSUME DriverStep
        PROVE  UNCHANGED log
    BY <1>6 DEF DriverStep, LiftQuiesce, CtlGoto, ListResumes, Spend, PassEnds,
        PassDone, ReadTail, DropLease, DriverFault, AckStale, TakeRow, Ack,
        StartContinuation, Reserve, Skip
  <1>7. ASSUME Crash PROVE UNCHANGED log
    BY <1>7 DEF Crash, Die
  <1>8. ASSUME UNCHANGED vars PROVE UNCHANGED log
    BY <1>8 DEF vars
  <1> QED
    BY <1>1, <1>2, <1>3, <1>4, <1>5, <1>6, <1>7, <1>8 DEF Next

\* The pending_resume table.
LEMMA RowsWriters ==
    [Next]_vars =>
        \/ UNCHANGED rows \/ AckStale \/ Ack \/ StartContinuation
        \/ \E s \in Sessions : Checkpoint(s)
  <1>1. ASSUME NEW s \in Sessions, TurnStep(s)
        PROVE UNCHANGED rows \/ Checkpoint(s)
    BY <1>1 DEF TurnStep, ClaimTurn, RefuseTurn, NoMail, AdmitMail, Goto,
        StartMessage, StartFails, Spend, Boundary, CheckpointFails, CallTool,
        ToolReturns, FinishRound, FinishMessage, RoundFails, Preempt, ReadOpen,
        EmitClose, CloseFails, EndTurn
  <1>2. ASSUME NEW s \in Sessions, Environment(s)
        PROVE UNCHANGED rows
    BY <1>2 DEF Environment, Prompt, Spend, Wake, CancelRun, StopTurn, StopReleased,
        StopDeadline, StartRun, FinishRun, Archive, Unarchive
  <1>3. ASSUME HandoffStep
        PROVE  UNCHANGED rows
    BY <1>3 DEF HandoffStep, RequestHandoff, Spend, CtlGoto, QueuedFails, Abort,
        CheckRuns, WaitIdle, WaitDeadline, ReportStragglers, RecheckRuns,
        RunsUnknown, SpawnFails, SpawnSuccessor, Release, Die
  <1>4. ASSUME DrainStep
        PROVE  UNCHANGED rows
    BY <1>4 DEF DrainStep, BeginDrain, Spend, CtlGoto, DrainWaited, Swept, Exit,
        Die, SweepTurn
  <1>5. ASSUME StartupStep
        PROVE  UNCHANGED rows
    BY <1>5 DEF StartupStep, Boot, RecoverRuns, Abort, ResumeTimeout, Spend, Die,
        DropLease, PassEnds, RecoverTurn
  <1>6. ASSUME DriverStep
        PROVE  UNCHANGED rows \/ AckStale \/ Ack \/ StartContinuation
    BY <1>6 DEF DriverStep, LiftQuiesce, CtlGoto, ListResumes, Spend, PassEnds,
        PassDone, ReadTail, DropLease, DriverFault, Reserve, Skip
  <1>7. ASSUME Crash PROVE UNCHANGED rows
    BY <1>7 DEF Crash, Die
  <1>8. ASSUME UNCHANGED vars PROVE UNCHANGED rows
    BY <1>8 DEF vars
  <1> QED
    BY <1>1, <1>2, <1>3, <1>4, <1>5, <1>6, <1>7, <1>8 DEF Next

\* The Workflow runs.
LEMMA RunWriters ==
    [Next]_vars =>
        \/ UNCHANGED wf \/ RecoverRuns
        \/ \E s \in Sessions :
              \/ StartRun(s) \/ FinishRun(s)
  <1>1. ASSUME NEW s \in Sessions, TurnStep(s)
        PROVE UNCHANGED wf
    BY <1>1 DEF TurnStep, ClaimTurn, RefuseTurn, NoMail, AdmitMail, Goto,
        StartMessage, StartFails, Spend, Boundary, Checkpoint, CheckpointFails,
        CallTool, ToolReturns, FinishRound, FinishMessage, RoundFails, Preempt,
        ReadOpen, EmitClose, CloseFails, EndTurn
  <1>2. ASSUME NEW s \in Sessions, Environment(s)
        PROVE UNCHANGED wf \/ StartRun(s) \/ FinishRun(s)
    BY <1>2 DEF Environment, Prompt, Spend, Wake, CancelRun, StopTurn, StopReleased,
        StopDeadline, Archive, Unarchive
  <1>3. ASSUME HandoffStep
        PROVE  UNCHANGED wf
    BY <1>3 DEF HandoffStep, RequestHandoff, Spend, CtlGoto, QueuedFails, Abort,
        CheckRuns, WaitIdle, WaitDeadline, ReportStragglers, RecheckRuns,
        RunsUnknown, SpawnFails, SpawnSuccessor, Release, Die
  <1>4. ASSUME DrainStep
        PROVE  UNCHANGED wf
    BY <1>4 DEF DrainStep, BeginDrain, Spend, CtlGoto, DrainWaited, Swept, Exit,
        Die, SweepTurn
  <1>5. ASSUME StartupStep
        PROVE  UNCHANGED wf \/ RecoverRuns
    BY <1>5 DEF StartupStep, Boot, ResumeTimeout, Spend, Die, DropLease, PassEnds,
        RecoverTurn
  <1>6. ASSUME DriverStep
        PROVE  UNCHANGED wf
    BY <1>6 DEF DriverStep, LiftQuiesce, CtlGoto, ListResumes, Spend, PassEnds,
        PassDone, ReadTail, DropLease, DriverFault, AckStale, TakeRow, Ack,
        StartContinuation, Reserve, Skip
  <1>7. ASSUME Crash PROVE UNCHANGED wf
    BY <1>7 DEF Crash, Die
  <1>8. ASSUME UNCHANGED vars PROVE UNCHANGED wf
    BY <1>8 DEF vars
  <1> QED
    BY <1>1, <1>2, <1>3, <1>4, <1>5, <1>6, <1>7, <1>8 DEF Next

\* The archived flags.
LEMMA ArchiveWriters ==
    [Next]_vars =>
        UNCHANGED archived \/ \E s \in Sessions : Prompt(s) \/ Archive(s) \/ Unarchive(s)
  <1>1. ASSUME NEW s \in Sessions, TurnStep(s)
        PROVE UNCHANGED archived
    BY <1>1 DEF TurnStep, ClaimTurn, RefuseTurn, NoMail, AdmitMail, Goto,
        StartMessage, StartFails, Spend, Boundary, Checkpoint, CheckpointFails,
        CallTool, ToolReturns, FinishRound, FinishMessage, RoundFails, Preempt,
        ReadOpen, EmitClose, CloseFails, EndTurn
  <1>2. ASSUME NEW s \in Sessions, Environment(s)
        PROVE UNCHANGED archived \/ Prompt(s) \/ Archive(s) \/ Unarchive(s)
    BY <1>2 DEF Environment, Spend, Wake, CancelRun, StopTurn, StopReleased,
        StopDeadline, StartRun, FinishRun
  <1>3. ASSUME HandoffStep
        PROVE  UNCHANGED archived
    BY <1>3 DEF HandoffStep, RequestHandoff, Spend, CtlGoto, QueuedFails, Abort,
        CheckRuns, WaitIdle, WaitDeadline, ReportStragglers, RecheckRuns,
        RunsUnknown, SpawnFails, SpawnSuccessor, Release, Die
  <1>4. ASSUME DrainStep
        PROVE  UNCHANGED archived
    BY <1>4 DEF DrainStep, BeginDrain, Spend, CtlGoto, DrainWaited, Swept, Exit,
        Die, SweepTurn
  <1>5. ASSUME StartupStep
        PROVE  UNCHANGED archived
    BY <1>5 DEF StartupStep, Boot, RecoverRuns, Abort, ResumeTimeout, Spend, Die, DropLease, PassEnds,
        RecoverTurn
  <1>6. ASSUME DriverStep
        PROVE  UNCHANGED archived
    BY <1>6 DEF DriverStep, LiftQuiesce, CtlGoto, ListResumes, Spend, PassEnds,
        PassDone, ReadTail, DropLease, DriverFault, AckStale, TakeRow, Ack,
        StartContinuation, Reserve, Skip
  <1>7. ASSUME Crash PROVE UNCHANGED archived
    BY <1>7 DEF Crash, Die
  <1>8. ASSUME UNCHANGED vars PROVE UNCHANGED archived
    BY <1>8 DEF vars
  <1> QED
    BY <1>1, <1>2, <1>3, <1>4, <1>5, <1>6, <1>7, <1>8 DEF Next

\* The turns.
LEMMA TurnWriters ==
    [Next]_vars =>
        \/ UNCHANGED turn \/ Release \/ Exit \/ ResumeTimeout \/ ReadTail \/ DriverFault \/ Ack \/ StartContinuation \/ Crash
        \/ \E s \in Sessions :
              \/ ClaimTurn(s) \/ NoMail(s) \/ AdmitMail(s) \/ StartMessage(s)
              \/ StartFails(s) \/ Boundary(s) \/ Checkpoint(s) \/ CheckpointFails(s)
              \/ CallTool(s) \/ ToolReturns(s) \/ FinishRound(s) \/ RoundFails(s)
              \/ Preempt(s) \/ ReadOpen(s) \/ EmitClose(s) \/ CloseFails(s)
              \/ EndTurn(s) \/ Wake(s) \/ Reserve(s)
  <1>1. ASSUME NEW s \in Sessions, TurnStep(s)
        PROVE
                \/ UNCHANGED turn \/ ClaimTurn(s) \/ NoMail(s) \/ AdmitMail(s)
                \/ StartMessage(s) \/ StartFails(s) \/ Boundary(s) \/ Checkpoint(s)
                \/ CheckpointFails(s) \/ CallTool(s) \/ ToolReturns(s)
                \/ FinishRound(s) \/ RoundFails(s) \/ Preempt(s) \/ ReadOpen(s)
                \/ EmitClose(s) \/ CloseFails(s) \/ EndTurn(s)
    BY <1>1 DEF TurnStep, RefuseTurn
  <1>2. ASSUME NEW s \in Sessions, Environment(s)
        PROVE UNCHANGED turn \/ Wake(s)
    BY <1>2 DEF Environment, Prompt, Spend, CancelRun, StopTurn, StopReleased,
        StopDeadline, StartRun, FinishRun, Archive, Unarchive
  <1>3. ASSUME HandoffStep
        PROVE  UNCHANGED turn \/ Release
    BY <1>3 DEF HandoffStep, RequestHandoff, Spend, CtlGoto, QueuedFails, Abort,
        CheckRuns, WaitIdle, WaitDeadline, ReportStragglers, RecheckRuns,
        RunsUnknown, SpawnFails, SpawnSuccessor
  <1>4. ASSUME DrainStep
        PROVE  UNCHANGED turn \/ Exit
    BY <1>4 DEF DrainStep, BeginDrain, Spend, CtlGoto, DrainWaited, Swept, SweepTurn
  <1>5. ASSUME StartupStep
        PROVE  UNCHANGED turn \/ ResumeTimeout
    BY <1>5 DEF StartupStep, Boot, RecoverRuns, Abort, RecoverTurn
  <1>6. ASSUME DriverStep
        PROVE  UNCHANGED turn \/ ReadTail \/ DriverFault \/ Ack \/ StartContinuation \/ \E s \in Sessions : Reserve(s)
    BY <1>6 DEF DriverStep, LiftQuiesce, CtlGoto, ListResumes, Spend, PassEnds,
        PassDone, AckStale, TakeRow, Skip
  <1>7. ASSUME UNCHANGED vars PROVE UNCHANGED turn
    BY <1>7 DEF vars
  <1> QED
    BY <1>1, <1>2, <1>3, <1>4, <1>5, <1>6, <1>7 DEF Next

\* The recorded causes.
LEMMA CancelWriters ==
    [Next]_vars =>
        \/ UNCHANGED cancel \/ Release \/ BeginDrain \/ Exit \/ ResumeTimeout \/ ReadTail \/ DriverFault \/ Ack \/ Crash
        \/ \E s \in Sessions :
              \/ NoMail(s) \/ EndTurn(s) \/ CancelRun(s) \/ StopTurn(s)
  <1>1. ASSUME NEW s \in Sessions, TurnStep(s)
        PROVE UNCHANGED cancel \/ NoMail(s) \/ EndTurn(s)
    BY <1>1 DEF TurnStep, ClaimTurn, RefuseTurn, AdmitMail, Goto, StartMessage,
        StartFails, Spend, Boundary, Checkpoint, CheckpointFails, CallTool,
        ToolReturns, FinishRound, FinishMessage, RoundFails, Preempt, ReadOpen,
        EmitClose, CloseFails
  <1>2. ASSUME NEW s \in Sessions, Environment(s)
        PROVE UNCHANGED cancel \/ CancelRun(s) \/ StopTurn(s)
    BY <1>2 DEF Environment, Prompt, Spend, Wake, StopReleased, StopDeadline,
        StartRun, FinishRun, Archive, Unarchive
  <1>3. ASSUME HandoffStep
        PROVE  UNCHANGED cancel \/ Release
    BY <1>3 DEF HandoffStep, RequestHandoff, Spend, CtlGoto, QueuedFails, Abort,
        CheckRuns, WaitIdle, WaitDeadline, ReportStragglers, RecheckRuns,
        RunsUnknown, SpawnFails, SpawnSuccessor
  <1>4. ASSUME DrainStep
        PROVE  UNCHANGED cancel \/ BeginDrain \/ Exit
    BY <1>4 DEF DrainStep, DrainWaited, Swept, CtlGoto, SweepTurn, Spend
  <1>5. ASSUME StartupStep
        PROVE  UNCHANGED cancel \/ ResumeTimeout
    BY <1>5 DEF StartupStep, Boot, RecoverRuns, Abort, RecoverTurn
  <1>6. ASSUME DriverStep
        PROVE  UNCHANGED cancel \/ ReadTail \/ DriverFault \/ Ack
    BY <1>6 DEF DriverStep, LiftQuiesce, CtlGoto, ListResumes, Spend, PassEnds,
        PassDone, AckStale, TakeRow, StartContinuation, Reserve, Skip
  <1>7. ASSUME UNCHANGED vars PROVE UNCHANGED cancel
    BY <1>7 DEF vars
  <1> QED
    BY <1>1, <1>2, <1>3, <1>4, <1>5, <1>6, <1>7 DEF Next

\* A turn, its clients and its run leave the controller and the gate alone.
LEMMA SessionFrame ==
    ASSUME NEW s \in Sessions, TurnStep(s) \/ Environment(s) PROVE UNCHANGED <<ctl, gate>>
  BY DEF TurnStep, Environment, ClaimTurn, RefuseTurn, NoMail, AdmitMail, StartMessage,
     StartFails, Boundary, Checkpoint, CheckpointFails, CallTool, ToolReturns, FinishRound,
     RoundFails, Preempt, ReadOpen, EmitClose, CloseFails, EndTurn, Prompt, Wake, CancelRun,
     StopTurn, StopReleased, StopDeadline, StartRun, FinishRun, Archive, Unarchive

-----------------------------------------------------------------------------
(* Type correctness. *)

LEMMA TypeInit == Init => TypeOK
  <1> SUFFICES ASSUME Init PROVE TypeOK
    OBVIOUS
  <1>1. NoTurn \in Turn
    BY DEF NoTurn, Turn, TurnPcs, Ends
  <1>2. Controller("serve", FALSE) \in Ctl
    BY DEF Controller, Ctl, CtlPcs
  <1>3. <<>> \in Seq(Message) /\ <<>> \in Seq(Resume)
    OBVIOUS
  <1>4. Controller("serve", FALSE).pc \notin RowPcs
    BY DEF Controller, RowPcs
  <1>5. QED
    BY <1>1, <1>2, <1>3, <1>4 DEF Init, TypeOK, RunStates

\* What the actions put into a log, they put into a log of messages.
LEMMA LogType ==
    ASSUME TypeOK, [Next]_vars PROVE log' \in [Sessions -> Seq(Message)]
  <1> USE DEF TypeOK
  <1>1. ASSUME NEW s \in Sessions, Prompt(s) \/ AdmitMail(s) \/ StartMessage(s)
        PROVE  log' \in [Sessions -> Seq(Message)]
    <2>1. PICK m \in Message : log' = [log EXCEPT ![s] = Append(log[s], m)]
      BY <1>1, MessageType DEF Prompt, AdmitMail, StartMessage
    <2>2. Append(log[s], m) \in Seq(Message)
      OBVIOUS
    <2>3. QED
      BY <2>1, <2>2
  <1>2. ASSUME NEW s \in Sessions,
               Checkpoint(s) \/ StopDeadline(s) \/ SweepTurn(s) \/ RecoverTurn(s)
        PROVE  log' \in [Sessions -> Seq(Message)]
    <2>1. {"handoff", "archived", "shutdown", "interrupted"} \subseteq Ends
      BY DEF Ends, Causes
    <2>2. \A e \in Ends : TerminalEvents(log[s], e) \in Seq(Message)
      BY TerminalInLog
    <2>3. log' = log \/ \E e \in Ends : log' = [log EXCEPT ![s] = TerminalEvents(log[s], e)]
      BY <1>2, <2>1 DEF Checkpoint, StopDeadline, SweepTurn, RecoverTurn
    <2>4. QED
      BY <2>2, <2>3
  <1>3. ASSUME NEW s \in Sessions, CallTool(s) \/ ToolReturns(s)
        PROVE  log' \in [Sessions -> Seq(Message)]
    <2>1. PICK b \in BOOLEAN :
            log' = [log EXCEPT ![s] = [log[s] EXCEPT ![turn[s].msg].openTool = b]]
      BY <1>3 DEF CallTool, ToolReturns
    <2>2. [log[s] EXCEPT ![turn[s].msg].openTool = b] \in Seq(Message)
      BY ToolInLog
    <2>3. QED
      BY <2>1, <2>2
  <1>4. ASSUME NEW s \in Sessions, FinishRound(s) \/ EmitClose(s)
        PROVE  log' \in [Sessions -> Seq(Message)]
    <2>1. "stop" \in Ends /\ turn[s].end \in Ends
      BY DEF Ends, Turn
    <2>2. PICK e \in Ends :
            log' = [log EXCEPT ![s] = [log[s] EXCEPT ![turn[s].msg] = Finished(@, e)]]
      BY <1>4, <2>1 DEF FinishRound, EmitClose, FinishMessage
    <2>3. [log[s] EXCEPT ![turn[s].msg] = Finished(@, e)] \in Seq(Message)
      BY FinishInLog
    <2>4. QED
      BY <2>2, <2>3
  <1> QED
    BY <1>1, <1>2, <1>3, <1>4, LogWriters

\* A resume table stays one: a checkpoint adds a row, the driver marks rows.
LEMMA RowsType ==
    ASSUME TypeOK, [Next]_vars PROVE rows' \in [Sessions -> Seq(Resume)]
  <1> USE DEF TypeOK
  <1>1. ASSUME NEW s \in Sessions, Checkpoint(s)
        PROVE  rows' \in [Sessions -> Seq(Resume)]
    <2>1. OpenMessages(log[s]) \in SUBSET Nat
      BY DEF OpenMessages
    <2>2. PendingResume(OpenMessages(log[s])) \in Resume
      BY <2>1 DEF PendingResume, Resume
    <2>3. Append(rows[s], PendingResume(OpenMessages(log[s]))) \in Seq(Resume)
      BY <2>2
    <2>4. QED
      BY <1>1, <2>3 DEF Checkpoint
  <1>2. CASE Ack \/ AckStale
    <2>1. UNCHANGED rows \/ TakeRow(ctl.session)
      BY <1>2 DEF Ack, AckStale
    <2>2. \A s \in Sessions : [rows[s] EXCEPT ![Oldest(rows[s])].taken = TRUE] \in Seq(Resume)
      BY MarkInRows
    <2>3. CASE TakeRow(ctl.session)
      <3>1. rows' = [rows EXCEPT ![ctl.session] =
                       [rows[ctl.session] EXCEPT ![Oldest(rows[ctl.session])].taken = TRUE]]
        BY <2>3 DEF TakeRow
      <3>2. QED
        BY <2>2, <3>1
    <2>4. QED
      BY <2>1, <2>3
  <1>3. CASE StartContinuation
    <2>1. \A s \in Sessions : [rows[s] EXCEPT ![ctl.row].drives = @ + 1] \in Seq(Resume)
      BY MarkInRows
    <2>2. QED
      BY <1>3, <2>1 DEF StartContinuation
  <1> QED
    BY <1>1, <1>2, <1>3, RowsWriters

\* The updates of a turn that the actions make keep it a turn.
LEMMA TurnUpdates ==
    /\ NoTurn \in Turn
    /\ \A r, v \in BOOLEAN, p \in TurnPcs :
         [NoTurn EXCEPT !.pc = p, !.root = r, !.served = v] \in Turn
    /\ \A p \in TurnPcs : [NoTurn EXCEPT !.pc = p] \in Turn
    /\ \A u \in Turn, p \in TurnPcs : [u EXCEPT !.pc = p] \in Turn
    /\ \A u \in Turn, p \in TurnPcs, i \in Nat : [u EXCEPT !.pc = p, !.msg = i] \in Turn
    /\ \A u \in Turn, p \in TurnPcs, e \in Ends : [u EXCEPT !.pc = p, !.end = e] \in Turn
    /\ \A u \in Turn, p \in TurnPcs, r \in BOOLEAN : [u EXCEPT !.pc = p, !.root = r] \in Turn
  <1>1. NoTurn \in Turn
    BY DEF NoTurn, Turn, TurnPcs, Ends
  <1>2. \A u \in Turn, p \in TurnPcs : [u EXCEPT !.pc = p] \in Turn
    BY DEF Turn
  <1>3. \A u \in Turn, i \in Nat : [u EXCEPT !.msg = i] \in Turn
    BY DEF Turn
  <1>4. \A u \in Turn, e \in Ends : [u EXCEPT !.end = e] \in Turn
    BY DEF Turn
  <1>5. \A u \in Turn, r \in BOOLEAN : [u EXCEPT !.root = r] \in Turn
    BY DEF Turn
  <1>6. \A u \in Turn, r \in BOOLEAN : [u EXCEPT !.served = r] \in Turn
    BY DEF Turn
  <1>7. QED
    BY <1>1, <1>2, <1>3, <1>4, <1>5, <1>6

\* The updates of the controller do as well.
LEMMA CtlUpdates ==
    /\ \A p \in CtlPcs, b \in BOOLEAN : Controller(p, b) \in Ctl
    /\ \A c \in Ctl, p \in CtlPcs : [c EXCEPT !.pc = p] \in Ctl
    /\ \A c \in Ctl, a \in {"serve", "spawn"} : [c EXCEPT !.after = a] \in Ctl
    /\ \A c \in Ctl, S \in SUBSET Sessions : [c EXCEPT !.todo = S] \in Ctl
    /\ \A c \in Ctl, s \in Sessions : [c EXCEPT !.session = s] \in Ctl
    /\ \A c \in Ctl, i \in Nat : [c EXCEPT !.row = i] \in Ctl
    /\ \A c \in Ctl, b \in BOOLEAN : [c EXCEPT !.boot = b] \in Ctl
    /\ \A c \in Ctl, b \in BOOLEAN : [c EXCEPT !.barred = b] \in Ctl
  <1>1. \A p \in CtlPcs, b \in BOOLEAN : Controller(p, b) \in Ctl
    BY DEF Controller, Ctl
  <1>2. \A c \in Ctl, p \in CtlPcs : [c EXCEPT !.pc = p] \in Ctl
    BY DEF Ctl
  <1>3. \A c \in Ctl, a \in {"serve", "spawn"} : [c EXCEPT !.after = a] \in Ctl
    BY DEF Ctl
  <1>4. \A c \in Ctl, S \in SUBSET Sessions : [c EXCEPT !.todo = S] \in Ctl
    BY DEF Ctl
  <1>5. \A c \in Ctl, s \in Sessions : [c EXCEPT !.session = s] \in Ctl
    BY DEF Ctl
  <1>6. \A c \in Ctl, i \in Nat : [c EXCEPT !.row = i] \in Ctl
    BY DEF Ctl
  <1>7. \A c \in Ctl, b \in BOOLEAN : [c EXCEPT !.boot = b] \in Ctl
    BY DEF Ctl
  <1>8. \A c \in Ctl, b \in BOOLEAN : [c EXCEPT !.barred = b] \in Ctl
    BY DEF Ctl
  <1>9. QED
    BY <1>1, <1>2, <1>3, <1>4, <1>5, <1>6, <1>7, <1>8

LEMMA TurnType ==
    ASSUME TypeOK, [Next]_vars PROVE turn' \in [Sessions -> Turn]
  <1> DEFINE Typed == turn' \in [Sessions -> Turn]
  <1>a. turn \in [Sessions -> Turn] /\ cancel \in [Sessions -> Causes \cup {NoCause}]
        /\ log \in [Sessions -> Seq(Message)]
    BY DEF TypeOK
  <1>b. {"idle", "lease", "mail", "starting", "boundary", "handing", "round", "tools",
         "closing", "emitting", "cleanup"} = TurnPcs
    BY DEF TurnPcs
  <1>1. ASSUME NEW s \in Sessions, NEW p \in TurnPcs, Goto(s, p) PROVE Typed
    BY <1>a, <1>1, TurnUpdates DEF Goto
  <1>2. ASSUME NEW s \in Sessions,
               AdmitMail(s) \/ StartFails(s) \/ Boundary(s) \/ Checkpoint(s) \/ CheckpointFails(s)
               \/ CallTool(s) \/ ToolReturns(s) \/ FinishRound(s) \/ ReadOpen(s) \/ EmitClose(s)
               \/ CloseFails(s)
        PROVE  Typed
    <2>1. \E p \in TurnPcs : Goto(s, p)
      BY <1>2, <1>b DEF AdmitMail, StartFails, Boundary, Checkpoint, CheckpointFails, CallTool,
         ToolReturns, FinishRound, ReadOpen, EmitClose, CloseFails
    <2>2. QED
      BY <2>1, <1>1
  <1>3. ASSUME NEW s \in Sessions, NoMail(s) \/ EndTurn(s) PROVE Typed
    BY <1>a, <1>3, TurnUpdates DEF NoMail, EndTurn
  <1>4. ASSUME NEW s \in Sessions, ClaimTurn(s) PROVE Typed
    <2>1. [NoTurn EXCEPT !.pc = "starting", !.root = TRUE, !.served = TRUE] \in Turn
      BY <1>b, TurnUpdates
    <2>2. QED
      BY <1>a, <1>4, <2>1 DEF ClaimTurn
  <1>5. ASSUME NEW s \in Sessions, Wake(s) \/ Reserve(s) PROVE Typed
    <2>1. [NoTurn EXCEPT !.pc = "mail"] \in Turn /\ [NoTurn EXCEPT !.pc = "lease"] \in Turn
      BY <1>b, TurnUpdates
    <2>2. QED
      BY <1>a, <1>5, <2>1 DEF Wake, Reserve
  <1>6. ASSUME NEW s \in Sessions, StartMessage(s) PROVE Typed
    <2>1. Len(log[s]) + 1 \in Nat /\ turn[s] \in Turn
      BY <1>a
    <2>2. [turn[s] EXCEPT !.pc = "boundary", !.msg = Len(log[s]) + 1] \in Turn
      BY <1>b, <2>1, TurnUpdates
    <2>3. QED
      BY <1>a, <1>6, <2>2 DEF StartMessage
  <1>7. ASSUME NEW s \in Sessions, RoundFails(s) PROVE Typed
    <2>1. [turn[s] EXCEPT !.pc = "closing", !.end = "error"] \in Turn
      BY <1>a, <1>b, TurnUpdates DEF Ends
    <2>2. QED
      BY <1>a, <1>7, <2>1 DEF RoundFails
  <1>8. ASSUME NEW s \in Sessions, Preempt(s) PROVE Typed
    <2>1. cancel[s] \in Ends
      BY <1>a, <1>8 DEF Preempt, Ends
    <2>2. [turn[s] EXCEPT !.pc = "closing", !.end = cancel[s]] \in Turn
      BY <1>a, <1>b, <2>1, TurnUpdates
    <2>3. QED
      BY <1>a, <1>8, <2>2 DEF Preempt
  <1>9. ASSUME DropLease PROVE Typed
    BY <1>a, <1>9, TurnUpdates DEF DropLease
  <1>10. ASSUME NEW b, Die(b) PROVE Typed
    BY <1>10, TurnUpdates DEF Die
  <1>11. CASE StartContinuation
    <2>1. \A s \in Sessions : [turn[s] EXCEPT !.pc = "starting", !.root = TRUE] \in Turn
      BY <1>a, <1>b, TurnUpdates
    <2>2. QED
      BY <1>a, <1>11, <2>1 DEF StartContinuation
  <1>12. CASE Release \/ Exit \/ ResumeTimeout \/ Crash
    <2>1. UNCHANGED turn \/ DropLease \/ \E b \in BOOLEAN : Die(b)
      BY <1>12 DEF Release, Exit, ResumeTimeout, Crash
    <2>2. QED
      BY <1>a, <1>9, <1>10, <2>1
  <1>13. CASE ReadTail \/ DriverFault \/ Ack
    <2>1. UNCHANGED turn \/ DropLease
      BY <1>13 DEF ReadTail, DriverFault, Ack
    <2>2. QED
      BY <1>a, <1>9, <2>1
  <1> QED
    BY <1>a, <1>2, <1>3, <1>4, <1>5, <1>6, <1>7, <1>8, <1>11, <1>12, <1>13, TurnWriters

LEMMA CancelType ==
    ASSUME TypeOK, [Next]_vars PROVE cancel' \in [Sessions -> Causes \cup {NoCause}]
  <1> DEFINE Typed == cancel' \in [Sessions -> Causes \cup {NoCause}]
  <1>a. cancel \in [Sessions -> Causes \cup {NoCause}]
    BY DEF TypeOK
  <1>b. {"user_cancel", "shutdown", "archived"} \subseteq Causes
    BY DEF Causes
  <1>1. ASSUME NEW s \in Sessions, NoMail(s) \/ EndTurn(s) \/ StopTurn(s) \/ CancelRun(s)
        PROVE  Typed
    BY <1>a, <1>b, <1>1 DEF NoMail, EndTurn, StopTurn, CancelRun
  <1>2. ASSUME DropLease \/ (\E b \in BOOLEAN : Die(b)) PROVE Typed
    BY <1>a, <1>2 DEF DropLease, Die
  <1>3. CASE BeginDrain
    BY <1>a, <1>b, <1>3 DEF BeginDrain
  <1>4. CASE Release \/ Exit \/ ResumeTimeout \/ Crash \/ ReadTail \/ DriverFault \/ Ack
    <2>1. UNCHANGED cancel \/ DropLease \/ \E b \in BOOLEAN : Die(b)
      BY <1>4 DEF Release, Exit, ResumeTimeout, Crash, ReadTail, DriverFault, Ack
    <2>2. QED
      BY <1>a, <1>2, <2>1
  <1> QED
    BY <1>a, <1>1, <1>3, <1>4, CancelWriters

LEMMA CtlType ==
    ASSUME TypeOK, [Next]_vars PROVE ctl' \in Ctl
  <1>a. ctl \in Ctl /\ ActiveSessions \in SUBSET Sessions
    BY DEF TypeOK, ActiveSessions
  <1>b. {"serve", "queued", "waiting", "deadline", "idle", "spawn", "spawned", "draining",
         "sweeping", "stopping", "down", "recover", "lift", "list", "next", "read", "ack",
         "start", "stale"} \subseteq CtlPcs
    BY DEF CtlPcs, PassPcs
  <1>c. ctl.successor \in BOOLEAN /\ ctl.after \in CtlPcs /\ ctl.todo \in SUBSET Sessions
    BY <1>a, <1>b DEF Ctl
  <1>1. ASSUME NEW p \in CtlPcs, CtlGoto(p) PROVE ctl' \in Ctl
    BY <1>1, <1>a, CtlUpdates DEF CtlGoto
  <1>2. ASSUME NEW a \in {"serve", "spawn"}, Abort(a) PROVE ctl' \in Ctl
    BY <1>2, <1>a, <1>b, CtlUpdates DEF Abort
  <1>3. PassEnds \in Ctl
    BY <1>c, CtlUpdates DEF PassEnds
  <1>4. ASSUME NEW b \in BOOLEAN, Die(b) PROVE ctl' \in Ctl
    BY <1>4, <1>b, CtlUpdates DEF Die
  <1>5. ASSUME NEW s \in Sessions, TurnStep(s) \/ Environment(s) PROVE UNCHANGED ctl
    BY <1>5 DEF TurnStep, Environment, ClaimTurn, RefuseTurn, NoMail, AdmitMail, StartMessage,
       StartFails, Boundary, Checkpoint, CheckpointFails, CallTool, ToolReturns, FinishRound,
       RoundFails, Preempt, ReadOpen, EmitClose, CloseFails, EndTurn, Prompt, Wake, CancelRun,
       StopTurn, StopReleased, StopDeadline, StartRun, FinishRun, Archive, Unarchive
  <1>6. CASE HandoffStep
    <2>1. (\E p \in CtlPcs : CtlGoto(p)) \/ (\E a \in {"serve", "spawn"} : Abort(a)) \/ Die(TRUE)
      BY <1>6, <1>b DEF HandoffStep, RequestHandoff, QueuedFails, CheckRuns, WaitIdle, WaitDeadline,
         ReportStragglers, RecheckRuns, RunsUnknown, SpawnFails, SpawnSuccessor, Release
    <2>2. QED
      BY <1>1, <1>2, <1>4, <2>1
  <1>7. CASE DrainStep
    <2>1. CASE \E s \in Sessions : SweepTurn(s)
      <3>1. PICK s \in Sessions : ctl' = [ctl EXCEPT !.todo = ctl.todo \ {s}]
        BY <2>1 DEF SweepTurn
      <3>2. ctl.todo \ {s} \in SUBSET Sessions
        BY <1>c
      <3>3. QED
        BY <1>a, <3>1, <3>2, CtlUpdates
    <2>2. CASE DrainWaited
      <3>1. PICK p \in CtlPcs : ctl' = [ctl EXCEPT !.pc = p, !.todo = ActiveSessions]
        BY <1>b, <2>2 DEF DrainWaited
      <3>2. QED
        BY <1>a, <3>1, CtlUpdates
    <2>3. CASE BeginDrain \/ Swept \/ Exit
      <3>1. (\E p \in CtlPcs : CtlGoto(p)) \/ Die(FALSE)
        BY <1>b, <2>3 DEF BeginDrain, Swept, Exit
      <3>2. QED
        BY <1>1, <1>4, <3>1
    <2>4. QED
      BY <1>7, <2>1, <2>2, <2>3 DEF DrainStep
  <1>8. CASE StartupStep
    <2>1. CASE Boot
      <3>1. PICK S \in SUBSET Sessions :
              ctl' = [ctl EXCEPT !.pc = "recover", !.boot = TRUE, !.todo = S]
        BY <2>1 DEF Boot
      <3>2. QED
        BY <1>a, <1>b, <3>1, CtlUpdates
    <2>2. CASE \E s \in Sessions : RecoverTurn(s)
      <3>1. PICK s \in Sessions : ctl' = [ctl EXCEPT !.todo = ctl.todo \ {s}]
        BY <2>2 DEF RecoverTurn
      <3>2. ctl.todo \ {s} \in SUBSET Sessions
        BY <1>c
      <3>3. QED
        BY <1>a, <3>1, <3>2, CtlUpdates
    <2>3. CASE RecoverRuns
      BY <1>2, <2>3 DEF RecoverRuns
    <2>4. CASE ResumeTimeout
      BY <1>3, <1>4, <2>4 DEF ResumeTimeout
    <2>5. QED
      BY <1>8, <2>1, <2>2, <2>3, <2>4 DEF StartupStep
  <1>9. CASE DriverStep
    <2>1. CASE ListResumes
      <3>1. ctl' = PassEnds \/ \E S \in SUBSET Sessions : ctl' = [ctl EXCEPT !.pc = "next", !.todo = S]
        BY <2>1 DEF ListResumes
      <3>2. CASE ctl' = PassEnds
        BY <1>3, <3>2
      <3>3. ASSUME NEW S \in SUBSET Sessions, ctl' = [ctl EXCEPT !.pc = "next", !.todo = S]
            PROVE  ctl' \in Ctl
        BY <1>a, <1>b, <3>3, CtlUpdates
      <3>4. QED
        BY <3>1, <3>2, <3>3
    <2>2. CASE \E s \in Sessions : Reserve(s)
      <3>1. PICK s \in Sessions :
              ctl' = [ctl EXCEPT !.pc = "read", !.todo = ctl.todo \ {s}, !.session = s]
        BY <2>2 DEF Reserve
      <3>2. ctl.todo \ {s} \in SUBSET Sessions
        BY <1>c
      <3>3. QED
        BY <1>a, <1>b, <3>1, <3>2, CtlUpdates
    <2>3. CASE \E s \in Sessions : Skip(s)
      <3>1. PICK s \in Sessions : ctl' = [ctl EXCEPT !.todo = ctl.todo \ {s}]
        BY <2>3 DEF Skip
      <3>2. ctl.todo \ {s} \in SUBSET Sessions
        BY <1>c
      <3>3. QED
        BY <1>a, <3>1, <3>2, CtlUpdates
    <2>4. CASE Ack
      <3>1. ctl.session \in Sessions
        BY <2>4 DEF Ack, RowPcs, TypeOK
      <3>2. CASE Live(ctl.session)
        <4>1. ctl' = [ctl EXCEPT !.pc = "start", !.row = Oldest(rows[ctl.session])]
          BY <2>4, <3>2 DEF Ack
        <4>2. Oldest(rows[ctl.session]) \in Nat
          BY <3>1, <3>2, OldestLive DEF Live, TypeOK
        <4>3. QED
          BY <1>a, <1>b, <4>1, <4>2, CtlUpdates
      <3>3. CASE ~Live(ctl.session)
        BY <1>1, <1>b, <2>4, <3>3 DEF Ack
      <3>4. QED
        BY <3>2, <3>3
    <2>5. CASE StartContinuation
      BY <1>a, <1>b, <2>5, CtlUpdates DEF StartContinuation
    <2>6. CASE ReadTail
      <3>1. PICK p \in CtlPcs, b \in BOOLEAN : ctl' = [ctl EXCEPT !.pc = p, !.barred = b]
        BY <1>b, <2>6 DEF ReadTail, Barred
      <3>2. QED
        BY <1>a, <3>1, CtlUpdates
    <2>7. CASE LiftQuiesce \/ PassDone \/ DriverFault \/ AckStale
      BY <1>1, <1>3, <1>b, <2>7 DEF LiftQuiesce, PassDone, DriverFault, AckStale
    <2>8. QED
      BY <1>9, <2>1, <2>2, <2>3, <2>4, <2>5, <2>6, <2>7 DEF DriverStep
  <1>10. CASE Crash
    BY <1>4, <1>10 DEF Crash
  <1>11. CASE UNCHANGED vars
    BY <1>a, <1>11 DEF vars
  <1> QED
    BY <1>a, <1>5, <1>6, <1>7, <1>8, <1>9, <1>10, <1>11 DEF Next

\* The driver works on a session it took from its list.
LEMMA SessionType ==
    ASSUME TypeOK, [Next]_vars PROVE ctl'.pc \in RowPcs => ctl'.session \in Sessions
  <1> DEFINE Typed == ctl'.pc \in RowPcs => ctl'.session \in Sessions
  <1>a. ctl \in Ctl /\ (ctl.pc \in RowPcs => ctl.session \in Sessions)
    BY DEF TypeOK
  <1>b. ctl.after \notin RowPcs
    BY <1>a DEF Ctl, RowPcs
  <1>c. PassEnds.pc \notin RowPcs
    BY <1>b DEF PassEnds, Controller
  <1>d. {"queued", "waiting", "deadline", "idle", "spawn", "spawned", "draining", "sweeping",
         "stopping", "recover", "down"} \cap RowPcs = {}
    BY DEF RowPcs
  <1>e. ASSUME \/ \E p : p \notin RowPcs /\ CtlGoto(p)
               \/ \E a : Abort(a)
               \/ \E b : Die(b)
        PROVE  ctl'.pc \notin RowPcs
    <2>1. ASSUME NEW p, p \notin RowPcs, CtlGoto(p) PROVE ctl'.pc \notin RowPcs
      <3>1. ctl'.pc = p
        BY <1>a, <2>1 DEF CtlGoto, Ctl
      <3>2. QED
        BY <2>1, <3>1
    <2>2. ASSUME NEW a, Abort(a) PROVE ctl'.pc \notin RowPcs
      BY <1>a, <2>2 DEF Abort, Ctl, RowPcs
    <2>3. ASSUME NEW b, Die(b) PROVE ctl'.pc \notin RowPcs
      BY <2>3 DEF Die, Controller, RowPcs
    <2>4. QED
      BY <1>e, <2>1, <2>2, <2>3
  <1>1. ASSUME NEW s \in Sessions, TurnStep(s) \/ Environment(s) PROVE UNCHANGED ctl
    BY <1>1, SessionFrame
  <1>2. CASE HandoffStep
    <2>1. \/ \E p : p \notin RowPcs /\ CtlGoto(p)
          \/ \E a : Abort(a)
          \/ \E b : Die(b)
      BY <1>d, <1>2 DEF HandoffStep, RequestHandoff, QueuedFails, CheckRuns, WaitIdle,
         WaitDeadline, ReportStragglers, RecheckRuns, RunsUnknown, SpawnFails, SpawnSuccessor,
         Release
    <2>2. QED
      BY <1>e, <2>1
  <1>3. CASE DrainStep
    <2>1. CASE BeginDrain \/ Swept \/ Exit
      BY <1>d, <1>e, <2>1 DEF BeginDrain, Swept, Exit
    <2>2. CASE DrainWaited \/ \E s \in Sessions : SweepTurn(s)
      BY <1>a, <2>2 DEF DrainWaited, SweepTurn, Ctl, RowPcs
    <2>3. QED
      BY <1>3, <2>1, <2>2 DEF DrainStep
  <1>4. CASE StartupStep
    <2>1. CASE RecoverRuns \/ ResumeTimeout
      BY <1>c, <1>e, <2>1 DEF RecoverRuns, ResumeTimeout
    <2>2. CASE Boot \/ \E s \in Sessions : RecoverTurn(s)
      BY <1>a, <2>2 DEF Boot, RecoverTurn, Ctl, RowPcs
    <2>3. QED
      BY <1>4, <2>1, <2>2 DEF StartupStep
  <1>5. CASE DriverStep
    BY <1>a, <1>c, <1>5 DEF DriverStep, LiftQuiesce, ListResumes, PassDone, ReadTail, DriverFault,
       AckStale, Ack, StartContinuation, Reserve, Skip, CtlGoto, Ctl, RowPcs
  <1>6. CASE Crash
    BY <1>e, <1>6 DEF Crash
  <1>7. CASE UNCHANGED vars
    BY <1>a, <1>7 DEF vars
  <1> QED
    BY <1>a, <1>1, <1>2, <1>3, <1>4, <1>5, <1>6, <1>7 DEF Next

\* Every other variable keeps its type.
LEMMA RestType ==
    ASSUME TypeOK, [Next]_vars
    PROVE  /\ wf' \in [Sessions -> RunStates]
           /\ archived' \subseteq Roots
           /\ queued' \subseteq Sessions
           /\ stops' \subseteq Sessions
           /\ holding' \in BOOLEAN
           /\ draining' \in BOOLEAN
           /\ started' \subseteq Sessions
           /\ used' \in [Kinds -> Nat]
  <1>1. wf' \in [Sessions -> RunStates]
    <2>1. wf \in [Sessions -> RunStates] /\ {"running", "ended", "interrupted"} \subseteq RunStates
      BY DEF TypeOK, RunStates
    <2>2. ASSUME NEW s \in Sessions, StartRun(s) \/ FinishRun(s) PROVE wf' \in [Sessions -> RunStates]
      BY <2>1, <2>2 DEF StartRun, FinishRun
    <2>3. CASE RecoverRuns
      BY <2>1, <2>3 DEF RecoverRuns
    <2>4. QED
      BY <2>1, <2>2, <2>3, RunWriters
  <1>2. used' \in [Kinds -> Nat]
    <2>1. ASSUME NEW k \in Kinds, Spend(k) PROVE used' \in [Kinds -> Nat]
      BY <2>1 DEF Spend, TypeOK
    <2>2. {"prompt", "main", "wake", "handoff", "stop", "crash", "timeout", "fault", "run",
          "archive"} = Kinds
      BY DEF Kinds
    <2>3. ASSUME NEW s \in Sessions, TurnStep(s) \/ Environment(s)
          PROVE  UNCHANGED used \/ \E k \in Kinds : Spend(k)
      BY <2>2, <2>3 DEF TurnStep, Environment, ClaimTurn, RefuseTurn, NoMail, AdmitMail,
         StartMessage, StartFails, Boundary, Checkpoint, CheckpointFails, CallTool, ToolReturns,
         FinishRound, RoundFails, Preempt, ReadOpen, EmitClose, CloseFails, EndTurn, Prompt, Wake,
         CancelRun, StopTurn, StopReleased, StopDeadline, StartRun, FinishRun, Archive, Unarchive
    <2>4. ASSUME HandoffStep \/ DrainStep \/ StartupStep
          PROVE  UNCHANGED used \/ \E k \in Kinds : Spend(k)
      BY <2>2, <2>4 DEF HandoffStep, RequestHandoff, QueuedFails, CheckRuns, WaitIdle,
         WaitDeadline, ReportStragglers, RecheckRuns, RunsUnknown, SpawnFails, SpawnSuccessor,
         Release, DrainStep, BeginDrain, DrainWaited, SweepTurn, Swept, Exit, StartupStep, Boot,
         RecoverRuns, ResumeTimeout, RecoverTurn
    <2>5. ASSUME DriverStep \/ Crash \/ UNCHANGED vars
          PROVE  UNCHANGED used \/ \E k \in Kinds : Spend(k)
      BY <2>2, <2>5 DEF DriverStep, LiftQuiesce, ListResumes, PassDone, ReadTail, DriverFault,
         AckStale, Ack, StartContinuation, Reserve, Skip, Crash, vars
    <2>6. QED
      BY <2>1, <2>3, <2>4, <2>5 DEF Next, TypeOK
  <1>3. ActiveSessions \subseteq Sessions
    BY DEF ActiveSessions
  <1>4. ASSUME NEW s \in Sessions, TurnStep(s) \/ Environment(s)
        PROVE  queued' \subseteq Sessions /\ stops' \subseteq Sessions /\ UNCHANGED gate
    BY <1>4 DEF TypeOK, TurnStep, Environment, ClaimTurn, RefuseTurn, NoMail, AdmitMail,
       StartMessage, StartFails, Boundary, Checkpoint, CheckpointFails, CallTool, ToolReturns,
       FinishRound, RoundFails, Preempt, ReadOpen, EmitClose, CloseFails, EndTurn, Prompt, Wake,
       CancelRun, StopTurn, StopReleased, StopDeadline, StartRun, FinishRun, Archive, Unarchive
  <1>5. ASSUME HandoffStep \/ DrainStep \/ StartupStep \/ DriverStep \/ Crash \/ UNCHANGED vars
        PROVE  /\ queued' \in {queued, {}} /\ stops' \in {stops, {}}
               /\ holding' \in {holding, TRUE, FALSE} /\ draining' \in {draining, TRUE, FALSE}
               /\ started' \in {started, started \cup ActiveSessions, {}}
    <2>1. CASE HandoffStep
      BY <2>1 DEF HandoffStep, RequestHandoff, QueuedFails, CheckRuns, WaitIdle, WaitDeadline,
         ReportStragglers, RecheckRuns, RunsUnknown, SpawnFails, SpawnSuccessor, Release, Die
    <2>2. CASE DrainStep \/ StartupStep
      BY <2>2 DEF DrainStep, BeginDrain, DrainWaited, SweepTurn, Swept, Exit, StartupStep, Boot,
         RecoverRuns, ResumeTimeout, RecoverTurn, Die
    <2>3. CASE DriverStep \/ Crash \/ UNCHANGED vars
      BY <2>3 DEF DriverStep, LiftQuiesce, ListResumes, PassDone, ReadTail, DriverFault, AckStale,
         Ack, StartContinuation, Reserve, Skip, Crash, Die, vars
    <2>4. QED
      BY <1>5, <2>1, <2>2, <2>3
  <1>6. archived' \subseteq Roots
    BY ArchiveWriters DEF TypeOK, Prompt, Archive, Unarchive
  <1>7. QED
    BY <1>1, <1>2, <1>3, <1>4, <1>5, <1>6 DEF Next, TypeOK

\* Every variable keeps its type, for any sessions and any bounds: the log stays a
\* sequence of messages, and the driver only ever works on a session it listed.
THEOREM TypeCorrect == Spec => []TypeOK
  <1>1. Init => TypeOK
    BY TypeInit
  <1>2. TypeOK /\ [Next]_vars => TypeOK'
    BY LogType, RowsType, TurnType, CancelType, CtlType, SessionType, RestType DEF TypeOK
  <1>3. QED
    BY <1>1, <1>2, PTL DEF Spec

-----------------------------------------------------------------------------
(* Resumes. *)

\* What a step may do to the resume rows of one session.
RowStep(s) ==
    \/ rows'[s] = rows[s]
    \/ /\ Checkpoint(s) /\ ~Live(s)
       /\ rows'[s] = Append(rows[s], PendingResume(OpenMessages(log[s])))
    \/ /\ Live(s)
       /\ rows'[s] = [rows[s] EXCEPT ![Oldest(rows[s])].taken = TRUE]
    \/ /\ ctl.pc = "start" /\ ctl.session = s /\ ctl'.pc # "start"
       /\ rows'[s] = [rows[s] EXCEPT ![ctl.row].drives = @ + 1]

\* The row the driver is about to continue is consumed, and nobody continued it.
DriveInv ==
    /\ DrivenOnce
    /\ ctl.pc = "start" => /\ ctl.row \in DOMAIN rows[ctl.session]
                           /\ rows[ctl.session][ctl.row].taken
                           /\ rows[ctl.session][ctl.row].drives = 0

\* The code of a turn that has an unfinished message of its own.
InMessage == {"boundary", "handing", "round", "tools", "closing", "emitting"}

\* A turn never writes over a message that a checkpoint closed.
CloseInv ==
    /\ CloseHasResume
    /\ \A s \in Sessions :
         /\ turn[s].end # "handoff"
         /\ turn[s].pc \in InMessage => /\ turn[s].msg \in DOMAIN log[s]
                                        /\ log[s][turn[s].msg].end # "handoff"

\* Where the controller can stand while the gate is closed.
GateInv ==
    /\ holding => ctl.pc \in {"queued", "waiting", "deadline", "idle", "spawn", "spawned", "lift"}
    /\ draining => ctl.pc \in {"draining", "sweeping", "stopping"}
    /\ ctl.boot => ctl.pc \in {"recover"} \cup PassPcs /\ ~holding

LEMMA RowEffect ==
    ASSUME TypeOK, [Next]_vars PROVE \A s \in Sessions : RowStep(s)
  <1>a. rows \in [Sessions -> Seq(Resume)]
    BY DEF TypeOK
  <1>1. CASE UNCHANGED rows
    BY <1>1 DEF RowStep
  <1>2. ASSUME NEW u \in Sessions, Checkpoint(u) PROVE \A s \in Sessions : RowStep(s)
    <2>1. ~Live(u) /\ rows' = [rows EXCEPT ![u] = Append(@, PendingResume(OpenMessages(log[u])))]
      BY <1>2 DEF Checkpoint, CheckpointRefused
    <2>2. QED
      BY <1>2, <1>a, <2>1 DEF RowStep
  <1>3. CASE AckStale \/ Ack
    <2> DEFINE u == ctl.session
    <2>1. UNCHANGED rows \/ (Live(u) /\ TakeRow(u))
      BY <1>3 DEF AckStale, Ack
    <2>2. ASSUME Live(u), TakeRow(u) PROVE \A s \in Sessions : RowStep(s)
      <3>1. rows' = [rows EXCEPT ![u] = [rows[u] EXCEPT ![Oldest(rows[u])].taken = TRUE]]
        BY <2>2 DEF TakeRow
      <3>2. QED
        BY <1>a, <2>2, <3>1 DEF RowStep
    <2>3. QED
      BY <1>1, <2>1, <2>2
  <1>4. CASE StartContinuation
    <2>1. ctl.pc = "start" /\ ctl'.pc # "start"
      BY <1>4 DEF StartContinuation, TypeOK, Ctl
    <2>2. rows' = [rows EXCEPT ![ctl.session] = [rows[ctl.session] EXCEPT ![ctl.row].drives = @ + 1]]
      BY <1>4 DEF StartContinuation
    <2>3. QED
      BY <1>a, <2>1, <2>2 DEF RowStep
  <1> QED
    BY <1>1, <1>2, <1>3, <1>4, RowsWriters

\* OneLiveResume without cardinalities.
Single == \A s \in Sessions : \A i, j \in LiveResumes(rows[s]) : i = j

LEMMA SingleCorrect == Spec => []Single
  <1>1. Init => Single
    BY DEF Init, LiveResumes, Single
  <1>2. TypeOK /\ Single /\ [Next]_vars => Single'
    <2> SUFFICES ASSUME TypeOK, Single, [Next]_vars, NEW s \in Sessions,
                        NEW i \in LiveResumes(rows'[s]), NEW j \in LiveResumes(rows'[s])
                 PROVE  i = j
      BY DEF LiveResumes, Single
    <2>1. rows[s] \in Seq(Resume) /\ \A k, l \in LiveResumes(rows[s]) : k = l
      BY DEF TypeOK, Single
    <2>2. RowStep(s)
      BY RowEffect
    <2> DEFINE q == rows[s]
               new == rows'[s]
    <2>3. CASE new = q
      BY <2>1, <2>3
    <2>4. CASE ~Live(s) /\ new = Append(q, PendingResume(OpenMessages(log[s])))
      <3>1. LiveResumes(new) \subseteq {Len(q) + 1}
        BY <2>1, <2>4 DEF Live, LiveResumes
      <3>2. QED
        BY <3>1
    <2>5. CASE new = [q EXCEPT ![Oldest(q)].taken = TRUE]
      <3>1. LiveResumes(new) \subseteq LiveResumes(q)
        BY <2>1, <2>5 DEF LiveResumes
      <3>2. QED
        BY <2>1, <3>1
    <2>6. CASE new = [q EXCEPT ![ctl.row].drives = @ + 1]
      <3>1. LiveResumes(new) \subseteq LiveResumes(q)
        BY <2>1, <2>6 DEF LiveResumes
      <3>2. QED
        BY <2>1, <3>1
    <2>7. QED
      BY <2>2, <2>3, <2>4, <2>5, <2>6 DEF RowStep
  <1>3. QED
    BY <1>1, <1>2, TypeCorrect, PTL DEF Spec

\* A session never has two live resumes: a checkpoint is refused while one is live,
\* and only then adds a row.
THEOREM NoSecondResume == Spec => []OneLiveResume
  <1>1. Single => OneLiveResume
    <2> SUFFICES ASSUME Single, NEW s \in Sessions PROVE Cardinality(LiveResumes(rows[s])) <= 1
      BY DEF OneLiveResume
    <2>1. CASE LiveResumes(rows[s]) = {}
      BY <2>1, FS_EmptySet
    <2>2. ASSUME NEW i \in LiveResumes(rows[s]) PROVE Cardinality(LiveResumes(rows[s])) <= 1
      <3>1. LiveResumes(rows[s]) = {i}
        BY <2>2 DEF Single
      <3>2. Cardinality({i}) = 1
        BY FS_Singleton
      <3>3. QED
        BY <3>1, <3>2
    <2>3. QED
      BY <2>1, <2>2
  <1>2. QED
    BY <1>1, SingleCorrect, PTL

\* The driver comes to the start of a continuation only from the ack.
LEMMA StartEffect ==
    ASSUME TypeOK, [Next]_vars, ctl'.pc = "start"
    PROVE  UNCHANGED ctl \/ (Ack /\ Live(ctl.session))
  <1>a. ctl \in Ctl /\ ctl.after # "start"
    BY DEF TypeOK, Ctl
  <1>b. ASSUME \/ \E p : p # "start" /\ CtlGoto(p)
               \/ \E x : Abort(x)
               \/ \E b : Die(b)
               \/ ctl' = PassEnds
        PROVE  FALSE
    <2>1. ASSUME NEW p, p # "start", CtlGoto(p) PROVE FALSE
      <3>1. ctl'.pc = p
        BY <1>a, <2>1 DEF CtlGoto, Ctl
      <3>2. QED
        BY <2>1, <3>1
    <2>2. ASSUME NEW x, Abort(x) PROVE FALSE
      BY <1>a, <2>2 DEF Abort, Ctl
    <2>3. ASSUME NEW b, Die(b) PROVE FALSE
      BY <2>3 DEF Die, Controller
    <2>4. CASE ctl' = PassEnds
      BY <1>a, <2>4 DEF PassEnds, Controller
    <2>5. QED
      BY <1>b, <2>1, <2>2, <2>3, <2>4
  <1>1. ASSUME NEW s \in Sessions, TurnStep(s) \/ Environment(s) PROVE UNCHANGED ctl
    BY <1>1, SessionFrame
  <1>2. CASE HandoffStep
    BY <1>b, <1>2 DEF HandoffStep, RequestHandoff, QueuedFails, CheckRuns, WaitIdle, WaitDeadline,
       ReportStragglers, RecheckRuns, RunsUnknown, SpawnFails, SpawnSuccessor, Release
  <1>3. CASE DrainStep
    <2>1. CASE BeginDrain \/ Swept \/ Exit
      BY <1>b, <2>1 DEF BeginDrain, Swept, Exit
    <2>2. CASE DrainWaited \/ \E s \in Sessions : SweepTurn(s)
      BY <1>a, <2>2 DEF DrainWaited, SweepTurn, Ctl
    <2>3. QED
      BY <1>3, <2>1, <2>2 DEF DrainStep
  <1>4. CASE StartupStep
    <2>1. CASE RecoverRuns \/ ResumeTimeout
      BY <1>b, <2>1 DEF RecoverRuns, ResumeTimeout
    <2>2. CASE Boot \/ \E s \in Sessions : RecoverTurn(s)
      BY <1>a, <2>2 DEF Boot, RecoverTurn, Ctl
    <2>3. QED
      BY <1>4, <2>1, <2>2 DEF StartupStep
  <1>5. CASE DriverStep
    <2>1. CASE LiftQuiesce \/ PassDone \/ DriverFault \/ AckStale
      BY <1>b, <2>1 DEF LiftQuiesce, PassDone, DriverFault, AckStale
    <2>2. CASE ListResumes \/ ReadTail \/ StartContinuation \/ \E s \in Sessions : Reserve(s) \/ Skip(s)
      BY <1>a, <1>b, <2>2 DEF ListResumes, ReadTail, StartContinuation, Reserve, Skip, Ctl
    <2>3. CASE Ack
      BY <1>b, <2>3 DEF Ack
    <2>4. QED
      BY <1>5, <2>1, <2>2, <2>3 DEF DriverStep
  <1>6. CASE Crash
    BY <1>b, <1>6 DEF Crash
  <1>7. CASE UNCHANGED vars
    BY <1>7 DEF vars
  <1> QED
    BY <1>1, <1>2, <1>3, <1>4, <1>5, <1>6, <1>7 DEF Next

LEMMA DriveStep == TypeOK /\ DriveInv /\ [Next]_vars => DriveInv'
  <1> SUFFICES ASSUME TypeOK, DriveInv, [Next]_vars PROVE DriveInv'
    OBVIOUS
  <1>a. rows \in [Sessions -> Seq(Resume)] /\ DrivenOnce
    BY DEF TypeOK, DriveInv
  <1>b. \A s \in Sessions : RowStep(s)
    BY RowEffect
  <1>1. ASSUME NEW s \in Sessions, NEW i \in DOMAIN rows'[s]
        PROVE  rows'[s][i].drives <= (IF rows'[s][i].taken THEN 1 ELSE 0)
    <2> DEFINE q == rows[s]
               new == rows'[s]
    <2>a. q \in Seq(Resume)
          /\ \A k \in DOMAIN q : /\ q[k].drives <= (IF q[k].taken THEN 1 ELSE 0)
                                 /\ q[k].drives \in Nat
      <3>1. q \in Seq(Resume) /\ \A k \in DOMAIN q : q[k] \in Resume
        BY <1>a
      <3>2. \A k \in DOMAIN q : q[k].drives \in Nat
        BY <3>1 DEF Resume
      <3>3. QED
        BY <1>a, <3>1, <3>2 DEF DrivenOnce
    <2>1. CASE new = q
      BY <1>1, <2>1, <2>a
    <2>2. CASE new = Append(q, PendingResume(OpenMessages(log[s])))
      <3>1. i \in DOMAIN q \/ i = Len(q) + 1
        BY <1>1, <2>2, <2>a
      <3>2. CASE i \in DOMAIN q
        BY <2>2, <2>a, <3>2
      <3>3. CASE i = Len(q) + 1
        <4>1. new[i] = PendingResume(OpenMessages(log[s]))
          BY <2>2, <2>a, <3>3
        <4>2. QED
          BY <4>1 DEF PendingResume
      <3>4. QED
        BY <3>1, <3>2, <3>3
    <2>3. CASE new = [q EXCEPT ![Oldest(q)].taken = TRUE]
      <3>1. i \in DOMAIN q /\ new[i].drives = q[i].drives /\ (q[i].taken => new[i].taken)
        BY <1>1, <2>3, <2>a DEF Resume
      <3>2. QED
        BY <3>1, <2>a
    <2>4. CASE ctl.pc = "start" /\ ctl.session = s /\ new = [q EXCEPT ![ctl.row].drives = @ + 1]
      <3>1. ctl.row \in DOMAIN q /\ q[ctl.row].taken /\ q[ctl.row].drives = 0
        BY <2>4 DEF DriveInv
      <3>2. CASE i = ctl.row
        <4>1. new[i] = [q[i] EXCEPT !.drives = q[i].drives + 1] /\ q[i] \in Resume
          BY <2>4, <2>a, <3>1, <3>2
        <4>2. new[i].drives = 1 /\ new[i].taken = q[i].taken
          BY <3>1, <3>2, <4>1 DEF Resume
        <4>3. QED
          BY <3>1, <3>2, <4>2
      <3>3. CASE i # ctl.row
        BY <1>1, <2>4, <2>a, <3>3
      <3>4. QED
        BY <3>2, <3>3
    <2>5. QED
      BY <1>b, <2>1, <2>2, <2>3, <2>4 DEF RowStep
  <1>2. ASSUME ctl'.pc = "start"
        PROVE  /\ ctl'.row \in DOMAIN rows'[ctl'.session]
               /\ rows'[ctl'.session][ctl'.row].taken
               /\ rows'[ctl'.session][ctl'.row].drives = 0
    <2> DEFINE s == ctl.session
               q == rows[s]
               new == rows'[s]
    <2>1. CASE UNCHANGED ctl
      <3>1. s \in Sessions /\ ctl.pc = "start"
        BY <1>2, <2>1 DEF TypeOK, RowPcs
      <3>2. q \in Seq(Resume) /\ ctl.row \in DOMAIN q /\ q[ctl.row].taken /\ q[ctl.row].drives = 0
        BY <1>a, <3>1 DEF DriveInv
      <3>3. CASE new = q
        BY <2>1, <3>2, <3>3
      <3>4. CASE new = Append(q, PendingResume(OpenMessages(log[s])))
        BY <2>1, <3>2, <3>4
      <3>5. CASE new = [q EXCEPT ![Oldest(q)].taken = TRUE]
        <4>1. ctl.row \in DOMAIN new
          BY <3>2, <3>5
        <4>2. new[ctl.row].taken /\ new[ctl.row].drives = 0
          BY <3>2, <3>5 DEF Resume
        <4>3. QED
          BY <2>1, <4>1, <4>2
      <3>6. QED
        BY <1>2, <1>b, <2>1, <3>1, <3>3, <3>4, <3>5 DEF RowStep
    <2>2. CASE Ack /\ Live(s)
      <3> DEFINE i == Oldest(q)
      <3>1. s \in Sessions
        BY <2>2 DEF Ack, TypeOK, RowPcs
      <3>2. q \in Seq(Resume) /\ i \in DOMAIN q /\ ~q[i].taken
        BY <1>a, <2>2, <3>1, OldestLive DEF Live, LiveResumes
      <3>3. q[i].drives = 0
        <4>1. q[i] \in Resume
          BY <3>2
        <4>2. q[i].drives <= 0 /\ q[i].drives \in Nat
          BY <1>a, <3>1, <3>2, <4>1 DEF DrivenOnce, Resume
        <4>3. QED
          BY <4>2
      <3>4. ctl'.session = s /\ ctl'.row = i
        BY <2>2 DEF Ack, TypeOK, Ctl
      <3>5. new = [q EXCEPT ![i].taken = TRUE]
        BY <1>a, <2>2, <3>1 DEF Ack, TakeRow
      <3> HIDE DEF i
      <3>6. i \in DOMAIN new /\ new[i] = [q[i] EXCEPT !.taken = TRUE] /\ q[i] \in Resume
        BY <3>2, <3>5
      <3>7. new[i].taken /\ new[i].drives = 0
        BY <3>3, <3>6 DEF Resume
      <3>8. QED
        BY <3>4, <3>6, <3>7
    <2>3. QED
      BY <1>2, <2>1, <2>2, StartEffect
  <1>3. QED
    BY <1>1, <1>2 DEF DriveInv, DrivenOnce

\* A checkpoint is continued at most once over all processes: its row is taken in the
\* transaction before the continuation, and no other action counts a continuation.
THEOREM ResumedOnce == Spec => []DrivenOnce
  <1>1. Init => DriveInv
    BY DEF Init, DriveInv, DrivenOnce, Controller
  <1>2. DriveInv => DrivenOnce
    BY DEF DriveInv
  <1>3. QED
    BY <1>1, <1>2, DriveStep, TypeCorrect, PTL DEF Spec

-----------------------------------------------------------------------------
(* The log and the resume rows agree. *)

NotHandoff == Ends \ {"handoff"}

\* What a step may do to the log of one session.
LogStep(s) ==
    \/ log'[s] = log[s]
    \/ Checkpoint(s)
    \/ \E m \in {UserMessage, AssistantMessage} :
         log'[s] = Append(log[s], m) /\ (m = UserMessage \/ StartMessage(s))
    \/ \E e \in NotHandoff : log'[s] = TerminalEvents(log[s], e)
    \/ /\ turn[s].pc \in InMessage
       /\ \E e \in NotHandoff : log'[s] = [log[s] EXCEPT ![turn[s].msg] = Finished(@, e)]
    \/ /\ turn[s].pc \in InMessage
       /\ \E b \in BOOLEAN : log'[s] = [log[s] EXCEPT ![turn[s].msg].openTool = b]

LEMMA LogEffect ==
    ASSUME TypeOK, CloseInv, [Next]_vars PROVE \A s \in Sessions : LogStep(s)
  <1>a. log \in [Sessions -> Seq(Message)]
    BY DEF TypeOK
  <1>b. {"archived", "shutdown", "interrupted", "stop"} \subseteq NotHandoff
        /\ \A s \in Sessions : turn[s].end \in NotHandoff
    BY DEF NotHandoff, Ends, Causes, CloseInv, TypeOK, Turn
  <1>1. ASSUME NEW u \in Sessions, Prompt(u) \/ AdmitMail(u) \/ StartMessage(u)
        PROVE  \A s \in Sessions : LogStep(s)
    <2>1. PICK m \in {UserMessage, AssistantMessage} :
            log' = [log EXCEPT ![u] = Append(log[u], m)] /\ (m = UserMessage \/ StartMessage(u))
      BY <1>1 DEF Prompt, AdmitMail, StartMessage
    <2>2. QED
      BY <1>a, <2>1 DEF LogStep
  <1>2. ASSUME NEW u \in Sessions, Checkpoint(u) PROVE \A s \in Sessions : LogStep(s)
    BY <1>a, <1>2 DEF Checkpoint, LogStep
  <1>3. ASSUME NEW u \in Sessions, StopDeadline(u) \/ SweepTurn(u) \/ RecoverTurn(u)
        PROVE  \A s \in Sessions : LogStep(s)
    <2>1. log' = log \/ \E e \in NotHandoff : log' = [log EXCEPT ![u] = TerminalEvents(log[u], e)]
      BY <1>b, <1>3 DEF StopDeadline, SweepTurn, RecoverTurn
    <2>2. QED
      BY <1>a, <2>1 DEF LogStep
  <1>4. ASSUME NEW u \in Sessions, CallTool(u) \/ ToolReturns(u)
        PROVE  \A s \in Sessions : LogStep(s)
    <2>1. turn[u].pc \in InMessage
      BY <1>4 DEF CallTool, ToolReturns, InMessage
    <2>2. PICK b \in BOOLEAN :
            log' = [log EXCEPT ![u] = [log[u] EXCEPT ![turn[u].msg].openTool = b]]
      BY <1>4 DEF CallTool, ToolReturns
    <2>3. QED
      BY <1>a, <2>1, <2>2 DEF LogStep
  <1>5. ASSUME NEW u \in Sessions, FinishRound(u) \/ EmitClose(u)
        PROVE  \A s \in Sessions : LogStep(s)
    <2>1. turn[u].pc \in InMessage
      BY <1>5 DEF FinishRound, EmitClose, InMessage
    <2>2. PICK e \in NotHandoff :
            log' = [log EXCEPT ![u] = [log[u] EXCEPT ![turn[u].msg] = Finished(@, e)]]
      BY <1>b, <1>5 DEF FinishRound, EmitClose, FinishMessage
    <2>3. QED
      BY <1>a, <2>1, <2>2 DEF LogStep
  <1>6. CASE UNCHANGED log
    BY <1>6 DEF LogStep
  <1> QED
    BY <1>1, <1>2, <1>3, <1>4, <1>5, <1>6, LogWriters

\* A turn has a message of its own only from StartMessage on, and keeps it.
LEMMA TurnEffect ==
    ASSUME TypeOK, CloseInv, [Next]_vars, NEW s \in Sessions
    PROVE  /\ turn'[s].end # "handoff"
           /\ turn'[s].pc \in InMessage =>
                \/ StartMessage(s)
                \/ turn[s].pc \in InMessage /\ turn'[s].msg = turn[s].msg
  <1> DEFINE Kept == turn'[s].pc \in InMessage /\ turn[s].pc \in InMessage
                     /\ turn'[s].msg = turn[s].msg /\ turn'[s].end = turn[s].end
             Out == turn'[s].pc \notin InMessage /\ turn'[s].end = turn[s].end
             Closing == turn'[s].pc = "closing" /\ turn[s].pc \in InMessage
                        /\ turn'[s].msg = turn[s].msg /\ turn'[s].end # "handoff"
             Reset == turn'[s].pc \notin InMessage /\ turn'[s].end = "stop"
  <1>a. turn \in [Sessions -> Turn] /\ cancel \in [Sessions -> Causes \cup {NoCause}]
        /\ turn[s].end # "handoff"
    BY DEF TypeOK, CloseInv
  <1>b. NoTurn.pc \notin InMessage /\ NoTurn.end = "stop"
    BY DEF NoTurn, InMessage
  <1>1. ASSUME NEW u \in Sessions, NEW p, Goto(u, p),
               p \in InMessage => turn[u].pc \in InMessage
        PROVE  UNCHANGED turn[s] \/ Kept \/ Out
    <2>1. turn' = [turn EXCEPT ![u] = [turn[u] EXCEPT !.pc = p]]
      BY <1>1 DEF Goto
    <2>2. CASE u = s
      <3>1. turn'[s].pc = p /\ turn'[s].msg = turn[s].msg /\ turn'[s].end = turn[s].end
        BY <1>a, <2>1, <2>2 DEF Turn
      <3>2. QED
        BY <1>1, <2>2, <3>1
    <2>3. CASE u # s
      BY <1>a, <2>1, <2>3
    <2>4. QED
      BY <2>2, <2>3
  <1>2. ASSUME NEW u \in Sessions,
               AdmitMail(u) \/ StartFails(u) \/ Boundary(u) \/ Checkpoint(u) \/ CheckpointFails(u)
               \/ CallTool(u) \/ ToolReturns(u) \/ FinishRound(u) \/ ReadOpen(u) \/ EmitClose(u)
               \/ CloseFails(u)
        PROVE  UNCHANGED turn[s] \/ Kept \/ Out
    <2>1. \E p : Goto(u, p) /\ (p \in InMessage => turn[u].pc \in InMessage)
      BY <1>2 DEF AdmitMail, StartFails, Boundary, Checkpoint, CheckpointFails, CallTool,
         ToolReturns, FinishRound, ReadOpen, EmitClose, CloseFails, InMessage
    <2>2. QED
      BY <1>1, <2>1
  <1>3. ASSUME NEW u \in Sessions, NoMail(u) \/ EndTurn(u) PROVE UNCHANGED turn[s] \/ Reset
    BY <1>a, <1>b, <1>3 DEF NoMail, EndTurn
  <1>4. ASSUME NEW u \in Sessions, ClaimTurn(u) \/ Wake(u) \/ Reserve(u)
        PROVE  UNCHANGED turn[s] \/ Reset
    BY <1>a, <1>4 DEF ClaimTurn, Wake, Reserve, NoTurn, InMessage
  <1>5. ASSUME NEW u \in Sessions, RoundFails(u) \/ Preempt(u)
        PROVE  UNCHANGED turn[s] \/ Closing
    <2>1. PICK e : /\ turn' = [turn EXCEPT ![u] = [turn[u] EXCEPT !.pc = "closing", !.end = e]]
                   /\ e = "error" \/ e = cancel[u]
      BY <1>5 DEF RoundFails, Preempt
    <2>2. e # "handoff" /\ turn[u].pc \in InMessage
      BY <1>a, <1>5, <2>1 DEF RoundFails, Preempt, InMessage, Causes, NoCause
    <2>3. CASE u = s
      BY <1>a, <2>1, <2>2, <2>3 DEF Turn
    <2>4. CASE u # s
      BY <1>a, <2>1, <2>4
    <2>5. QED
      BY <2>3, <2>4
  <1>6. ASSUME NEW u \in Sessions, StartMessage(u)
        PROVE  UNCHANGED turn[s] \/ (StartMessage(s) /\ turn'[s].end = turn[s].end)
    <2>1. turn' = [turn EXCEPT ![u] = [turn[u] EXCEPT !.pc = "boundary", !.msg = Len(log[u]) + 1]]
      BY <1>6 DEF StartMessage
    <2>2. CASE u = s
      BY <1>6, <1>a, <2>1, <2>2 DEF Turn
    <2>3. CASE u # s
      BY <1>a, <2>1, <2>3
    <2>4. QED
      BY <2>2, <2>3
  <1>7. ASSUME DropLease \/ \E b \in BOOLEAN : Die(b) PROVE UNCHANGED turn[s] \/ Reset
    BY <1>a, <1>b, <1>7 DEF DropLease, Die
  <1>8. CASE StartContinuation
    <2> DEFINE u == ctl.session
    <2>1. turn' = [turn EXCEPT ![u] = [turn[u] EXCEPT !.pc = "starting", !.root = TRUE]]
      BY <1>8 DEF StartContinuation
    <2>2. CASE u = s
      <3>1. turn'[s].pc = "starting" /\ turn'[s].end = turn[s].end
        BY <1>a, <2>1, <2>2 DEF Turn
      <3>2. QED
        BY <1>a, <3>1 DEF InMessage
    <2>3. CASE u # s
      BY <1>a, <2>1, <2>3
    <2>4. QED
      BY <2>2, <2>3
  <1>9. CASE Release \/ Exit \/ ResumeTimeout \/ Crash \/ ReadTail \/ DriverFault \/ Ack
    <2>1. UNCHANGED turn \/ DropLease \/ \E b \in BOOLEAN : Die(b)
      BY <1>9 DEF Release, Exit, ResumeTimeout, Crash, ReadTail, DriverFault, Ack
    <2>2. QED
      BY <1>7, <1>a, <2>1
  <1> QED
    BY <1>a, <1>2, <1>3, <1>4, <1>5, <1>6, <1>8, <1>9, TurnWriters

HandoffCloses(q) == {i \in DOMAIN q : q[i].end = "handoff"}
ClosedBy(r) == UNION {r[i].closed : i \in DOMAIN r}

\* Only a checkpoint makes a message end with a handoff, and it takes none back.
LEMMA ClosesKept ==
    ASSUME TypeOK, CloseInv, NEW s \in Sessions, LogStep(s), ~Checkpoint(s)
    PROVE  HandoffCloses(log'[s]) = HandoffCloses(log[s])
  <1> DEFINE q == log[s]
             new == log'[s]
  <1>a. q \in Seq(Message) /\ \A i \in DOMAIN q : q[i] \in Message
    BY DEF TypeOK
  <1> USE DEF HandoffCloses
  <1>1. CASE new = q
    BY <1>1
  <1>2. ASSUME NEW m \in {UserMessage, AssistantMessage}, new = Append(q, m)
        PROVE  HandoffCloses(new) = HandoffCloses(q)
    <2>1. m.end # "handoff"
      BY DEF UserMessage, AssistantMessage, OpenEnd
    <2>2. DOMAIN q = 1..Len(q) /\ DOMAIN new = 1..(Len(q) + 1) /\ Len(q) \in Nat
          /\ new[Len(q) + 1] = m /\ \A i \in DOMAIN q : new[i] = q[i]
      BY <1>2, <1>a, MessageType
    <2> HIDE DEF q, new
    <2>3. QED
      BY <2>1, <2>2
  <1>3. ASSUME NEW e \in NotHandoff, new = TerminalEvents(q, e)
        PROVE  HandoffCloses(new) = HandoffCloses(q)
    <2>1. DOMAIN new = DOMAIN q
      BY <1>3, <1>a, TerminalInLog DEF NotHandoff
    <2>2. \A i \in DOMAIN q : new[i].end = "handoff" <=> q[i].end = "handoff"
      BY <1>3 DEF TerminalEvents, IsOpen, Finished, OpenEnd, NotHandoff
    <2>3. QED
      BY <2>1, <2>2
  <1>4. ASSUME NEW e \in NotHandoff, turn[s].pc \in InMessage,
               new = [q EXCEPT ![turn[s].msg] = Finished(@, e)]
        PROVE  HandoffCloses(new) = HandoffCloses(q)
    <2>1. DOMAIN new = DOMAIN q /\ q[turn[s].msg].end # "handoff"
      BY <1>4 DEF CloseInv
    <2>2. \A i \in DOMAIN q : new[i].end = "handoff" <=> q[i].end = "handoff"
      BY <1>4, <2>1 DEF Finished, NotHandoff
    <2>3. QED
      BY <2>1, <2>2
  <1>5. ASSUME NEW b \in BOOLEAN, new = [q EXCEPT ![turn[s].msg].openTool = b]
        PROVE  HandoffCloses(new) = HandoffCloses(q)
    <2>1. DOMAIN new = DOMAIN q
      BY <1>5
    <2>2. \A i \in DOMAIN q : new[i].end = q[i].end
      <3> SUFFICES ASSUME NEW i \in DOMAIN q PROVE new[i].end = q[i].end
        OBVIOUS
      <3>1. CASE i = turn[s].msg
        <4>1. new[i] = [q[i] EXCEPT !.openTool = b] /\ q[i] \in Message
          BY <1>5, <1>a, <3>1
        <4>2. QED
          BY <4>1 DEF Message
      <3>2. CASE i # turn[s].msg
        BY <1>5, <3>2
      <3>3. QED
        BY <3>1, <3>2
    <2>3. QED
      BY <2>1, <2>2
  <1>6. QED
    BY <1>1, <1>2, <1>3, <1>4, <1>5 DEF LogStep

\* ... and only a checkpoint adds to what the rows say was closed.
LEMMA ClosedByKept ==
    ASSUME TypeOK, NEW s \in Sessions, RowStep(s), ~Checkpoint(s)
    PROVE  ClosedBy(rows'[s]) = ClosedBy(rows[s])
  <1> DEFINE q == rows[s]
             new == rows'[s]
  <1>a. q \in Seq(Resume) /\ \A i \in DOMAIN q : q[i] \in Resume
    BY DEF TypeOK
  <1>1. ASSUME DOMAIN new = DOMAIN q, \A i \in DOMAIN q : new[i].closed = q[i].closed
        PROVE  ClosedBy(new) = ClosedBy(q)
    BY <1>1 DEF ClosedBy
  <1>2. CASE new = q
    BY <1>2
  <1>3. ASSUME NEW k, new = [q EXCEPT ![k].taken = TRUE] PROVE ClosedBy(new) = ClosedBy(q)
    <2>1. DOMAIN new = DOMAIN q
      BY <1>3
    <2>2. ASSUME NEW i \in DOMAIN q PROVE new[i].closed = q[i].closed
      <3>1. CASE i = k
        <4>1. new[i] = [q[i] EXCEPT !.taken = TRUE] /\ q[i] \in Resume
          BY <1>3, <1>a, <3>1
        <4>2. QED
          BY <4>1 DEF Resume
      <3>2. CASE i # k
        BY <1>3, <3>2
      <3>3. QED
        BY <3>1, <3>2
    <2>3. QED
      BY <1>1, <2>1, <2>2
  <1>4. ASSUME NEW k, new = [q EXCEPT ![k].drives = @ + 1] PROVE ClosedBy(new) = ClosedBy(q)
    <2>1. DOMAIN new = DOMAIN q
      BY <1>4
    <2>2. ASSUME NEW i \in DOMAIN q PROVE new[i].closed = q[i].closed
      <3>1. CASE i = k
        <4>1. new[i] = [q[i] EXCEPT !.drives = q[i].drives + 1] /\ q[i] \in Resume
          BY <1>4, <1>a, <3>1
        <4>2. QED
          BY <4>1 DEF Resume
      <3>2. CASE i # k
        BY <1>4, <3>2
      <3>3. QED
        BY <3>1, <3>2
    <2>3. QED
      BY <1>1, <2>1, <2>2
  <1>5. QED
    BY <1>2, <1>3, <1>4 DEF RowStep

\* The checkpoint closes the messages its row names, in the same transaction.
LEMMA CheckpointAgrees ==
    ASSUME TypeOK, NEW s \in Sessions, Checkpoint(s)
    PROVE  /\ HandoffCloses(log'[s]) = HandoffCloses(log[s]) \cup OpenMessages(log[s])
           /\ ClosedBy(rows'[s]) = ClosedBy(rows[s]) \cup OpenMessages(log[s])
           /\ turn'[s].pc \notin InMessage
  <1> DEFINE q == log[s]
             r == rows[s]
             new == TerminalEvents(q, "handoff")
             row == PendingResume(OpenMessages(q))
  <1>a. q \in Seq(Message) /\ r \in Seq(Resume)
        /\ log' = [log EXCEPT ![s] = new] /\ rows' = [rows EXCEPT ![s] = Append(r, row)]
    BY DEF TypeOK, Checkpoint
  <1>b. log'[s] = new /\ rows'[s] = Append(r, row)
    BY <1>a DEF TypeOK
  <1>1. HandoffCloses(new) = HandoffCloses(q) \cup OpenMessages(q)
    <2>1. DOMAIN new = DOMAIN q
      BY DEF TerminalEvents
    <2>2. \A i \in DOMAIN q : new[i].end = "handoff" <=> q[i].end = "handoff" \/ IsOpen(q[i])
      BY DEF TerminalEvents, Finished
    <2> HIDE DEF new
    <2>3. QED
      BY <2>1, <2>2 DEF HandoffCloses, OpenMessages
  <1>2. ClosedBy(Append(r, row)) = ClosedBy(r) \cup OpenMessages(q)
    <2>1. row.closed = OpenMessages(q)
      BY DEF PendingResume
    <2> HIDE DEF row
    <2>2. DOMAIN r = 1..Len(r) /\ DOMAIN Append(r, row) = 1..(Len(r) + 1) /\ Len(r) \in Nat
          /\ Append(r, row)[Len(r) + 1] = row /\ \A i \in DOMAIN r : Append(r, row)[i] = r[i]
      BY <1>a
    <2> DEFINE t == Append(r, row)
    <2>3. DOMAIN t = DOMAIN r \cup {Len(r) + 1} /\ t[Len(r) + 1] = row
          /\ \A i \in DOMAIN r : t[i] = r[i]
      BY <2>2
    <2> HIDE DEF t, r
    <2>4. ClosedBy(t) = ClosedBy(r) \cup OpenMessages(q)
      BY <2>1, <2>3 DEF ClosedBy
    <2>5. QED
      BY <2>4 DEF t, r
  <1>3. turn'[s].pc = "cleanup"
    BY DEF Checkpoint, Goto, TypeOK, Turn
  <1>4. QED
    BY <1>1, <1>2, <1>3, <1>b DEF InMessage

\* No message ever leaves a log.
LEMMA LogGrows ==
    ASSUME TypeOK, NEW s \in Sessions, LogStep(s), ~Checkpoint(s)
    PROVE  DOMAIN log[s] \subseteq DOMAIN log'[s]
  <1>1. log[s] \in Seq(Message)
    BY DEF TypeOK
  <1>2. ASSUME NEW m \in {UserMessage, AssistantMessage}, log'[s] = Append(log[s], m)
        PROVE  DOMAIN log[s] \subseteq DOMAIN log'[s]
    BY <1>1, <1>2, MessageType
  <1>3. ASSUME NEW e \in NotHandoff, log'[s] = TerminalEvents(log[s], e)
        PROVE  DOMAIN log[s] \subseteq DOMAIN log'[s]
    BY <1>3 DEF TerminalEvents
  <1>4. QED
    BY <1>2, <1>3 DEF LogStep

LEMMA CloseStep == TypeOK /\ CloseInv /\ [Next]_vars => CloseInv'
  <1> SUFFICES ASSUME TypeOK, CloseInv, [Next]_vars PROVE CloseInv'
    OBVIOUS
  <1>a. \A s \in Sessions : LogStep(s) /\ RowStep(s)
    BY LogEffect, RowEffect
  <1>b. \A s \in Sessions : HandoffCloses(log[s]) = ClosedBy(rows[s])
    BY DEF CloseInv, CloseHasResume, HandoffCloses, ClosedBy
  <1>1. ASSUME NEW s \in Sessions PROVE HandoffCloses(log'[s]) = ClosedBy(rows'[s])
    <2>1. CASE Checkpoint(s)
      BY <1>b, <2>1, CheckpointAgrees
    <2>2. CASE ~Checkpoint(s)
      BY <1>a, <1>b, <2>2, ClosesKept, ClosedByKept
    <2>3. QED
      BY <2>1, <2>2
  <1>2. ASSUME NEW s \in Sessions, turn'[s].pc \in InMessage
        PROVE  turn'[s].msg \in DOMAIN log'[s] /\ log'[s][turn'[s].msg].end # "handoff"
    <2> DEFINE q == log[s]
               new == log'[s]
               i == turn'[s].msg
    <2>a. q \in Seq(Message) /\ ~Checkpoint(s)
      BY <1>2, CheckpointAgrees DEF TypeOK
    <2>1. CASE StartMessage(s)
      <3>1. new = Append(q, AssistantMessage) /\ i = Len(q) + 1
        BY <2>1 DEF StartMessage, TypeOK, Turn
      <3>2. AssistantMessage.end # "handoff"
        BY DEF AssistantMessage, OpenEnd
      <3>3. i \in DOMAIN new /\ new[i] = AssistantMessage
        BY <2>a, <3>1, MessageType
      <3>4. QED
        BY <3>2, <3>3
    <2>2. CASE turn[s].pc \in InMessage /\ i = turn[s].msg
      <3>1. i \in DOMAIN q /\ q[i].end # "handoff"
        BY <2>2 DEF CloseInv
      <3>2. i \in DOMAIN new
        BY <1>a, <2>a, <3>1, LogGrows
      <3>3. i \notin HandoffCloses(new)
        BY <1>a, <2>a, <3>1, ClosesKept DEF HandoffCloses
      <3>4. QED
        BY <3>2, <3>3 DEF HandoffCloses
    <2>3. QED
      BY <1>2, <2>1, <2>2, TurnEffect
  <1>3. ASSUME NEW s \in Sessions PROVE turn'[s].end # "handoff"
    BY TurnEffect
  <1>4. QED
    BY <1>1, <1>2, <1>3 DEF CloseInv, CloseHasResume, HandoffCloses, ClosedBy

LEMMA CloseCorrect == Spec => []CloseInv
  <1>1. Init => CloseInv
    <2> SUFFICES ASSUME Init PROVE CloseInv
      OBVIOUS
    <2>1. \A s \in Sessions : log[s] = <<>> /\ rows[s] = <<>> /\ turn[s] = NoTurn
      BY DEF Init
    <2>2. DOMAIN <<>> = {}
      OBVIOUS
    <2>3. CloseHasResume
      BY <2>1, <2>2 DEF CloseHasResume
    <2>4. NoTurn.pc \notin InMessage /\ NoTurn.end # "handoff"
      BY DEF NoTurn, InMessage
    <2>5. QED
      BY <2>1, <2>3, <2>4 DEF CloseInv
  <1>2. QED
    BY <1>1, CloseStep, TypeCorrect, PTL DEF Spec

\* The log and the queued resumes never disagree: the messages that end with a
\* handoff are those some checkpoint row names, whatever fails, crashes, times out or
\* is closed by somebody else.
THEOREM LogAndRowsAgree == Spec => []CloseHasResume
  <1>1. CloseInv => CloseHasResume
    BY DEF CloseInv
  <1>2. QED
    BY <1>1, CloseCorrect, PTL

\* No step turns a message with an open tool part into one that ended with a handoff.
THEOREM NoCallErrored == Spec => CallsSurviveHandoff
  <1>1. TypeOK /\ CloseInv /\ [Next]_vars =>
          [\A s \in Sessions : \A i \in DOMAIN log[s] :
             log[s][i].openTool /\ log'[s][i].end = "handoff" => log[s][i].end = "handoff"]_vars
    <2> SUFFICES ASSUME TypeOK, CloseInv, [Next]_vars, NEW s \in Sessions,
                        NEW i \in DOMAIN log[s], log[s][i].openTool, log'[s][i].end = "handoff"
                 PROVE  log[s][i].end = "handoff"
      OBVIOUS
    <2>1. CASE Checkpoint(s)
      <3>1. log'[s] = TerminalEvents(log[s], "handoff") /\ ~OpenToolParts(log[s])
        BY <2>1 DEF Checkpoint, CheckpointRefused, TypeOK
      <3>2. ~IsOpen(log[s][i])
        BY <3>1 DEF OpenToolParts, OpenMessages
      <3>3. log'[s][i] = log[s][i]
        BY <3>1, <3>2 DEF TerminalEvents
      <3>4. QED
        BY <3>3
    <2>2. CASE ~Checkpoint(s)
      <3>1. HandoffCloses(log'[s]) = HandoffCloses(log[s])
        BY <2>2, LogEffect, ClosesKept
      <3>2. i \in DOMAIN log'[s]
        BY <2>2, LogEffect, LogGrows
      <3>3. QED
        BY <3>1, <3>2 DEF HandoffCloses
    <2>3. QED
      BY <2>1, <2>2
  <1>2. QED
    BY <1>1, TypeCorrect, CloseCorrect, PTL DEF Spec, CallsSurviveHandoff

-----------------------------------------------------------------------------
(* The gate. *)

LEMMA GateStep == TypeOK /\ GateInv /\ [Next]_vars => GateInv'
  <1> SUFFICES ASSUME TypeOK, GateInv, [Next]_vars PROVE GateInv'
    OBVIOUS
  <1>a. ctl \in Ctl
    BY DEF TypeOK
  <1>b. PassEnds.pc \in {"serve", "spawn"} /\ ~PassEnds.boot
    BY <1>a DEF PassEnds, Controller, Ctl
  <1>c. ASSUME NEW x, Abort(x) PROVE ctl'.pc = "lift" /\ ctl'.boot = ctl.boot
    BY <1>a, <1>c DEF Abort, Ctl
  <1>d. ASSUME NEW p, CtlGoto(p) PROVE ctl'.pc = p /\ ctl'.boot = ctl.boot
    BY <1>a, <1>d DEF CtlGoto, Ctl
  <1>1. ASSUME NEW s \in Sessions, TurnStep(s) \/ Environment(s) PROVE UNCHANGED <<ctl, gate>>
    BY <1>1, SessionFrame
  <1>2. CASE HandoffStep
    <2>1. CASE Release
      BY <2>1 DEF Release, Die, Controller, GateInv
    <2>2. CASE RequestHandoff
      BY <1>a, <2>2 DEF RequestHandoff, CtlGoto, Ctl, GateInv, PassPcs
    <2>3. CASE QueuedFails \/ CheckRuns \/ SpawnFails \/ ReportStragglers \/ RecheckRuns
      <3>1. /\ ctl.pc \in {"queued", "deadline", "idle", "spawn"}
            /\ UNCHANGED <<holding, draining>>
            /\ (\E x : Abort(x)) \/ CtlGoto("waiting") \/ CtlGoto("spawn")
        BY <2>3 DEF QueuedFails, CheckRuns, SpawnFails, ReportStragglers, RecheckRuns
      <3>2. ctl'.pc \in {"lift", "waiting", "spawn"} /\ ctl'.boot = ctl.boot
        BY <1>c, <1>d, <3>1
      <3>3. QED
        BY <3>1, <3>2 DEF GateInv, PassPcs
    <2>4. CASE WaitIdle \/ WaitDeadline \/ RunsUnknown \/ SpawnSuccessor
      BY <1>a, <2>4 DEF WaitIdle, WaitDeadline, RunsUnknown, SpawnSuccessor, CtlGoto, Ctl, GateInv,
         PassPcs
    <2>5. QED
      BY <1>2, <2>1, <2>2, <2>3, <2>4 DEF HandoffStep
  <1>3. CASE DrainStep
    <2>1. CASE Exit
      BY <2>1 DEF Exit, Die, Controller, GateInv
    <2>2. CASE BeginDrain
      BY <1>d, <2>2 DEF BeginDrain, GateInv, PassPcs
    <2>3. CASE DrainWaited \/ Swept \/ \E s \in Sessions : SweepTurn(s)
      <3>1. /\ ctl.pc \in {"draining", "sweeping"} /\ UNCHANGED gate
            /\ ctl'.pc \in {"sweeping", "stopping"} /\ ctl'.boot = ctl.boot
        BY <1>a, <1>d, <2>3 DEF DrainWaited, Swept, SweepTurn, Ctl
      <3>2. QED
        BY <3>1 DEF GateInv, PassPcs
    <2>4. QED
      BY <1>3, <2>1, <2>2, <2>3 DEF DrainStep
  <1>4. CASE StartupStep
    <2>1. CASE ResumeTimeout
      <3>1. CASE Die(FALSE)
        BY <3>1 DEF Die, Controller, GateInv
      <3>2. CASE ctl' = PassEnds /\ UNCHANGED gate
        BY <1>b, <2>1, <3>2 DEF ResumeTimeout, GateInv, PassPcs
      <3>3. QED
        BY <2>1, <3>1, <3>2 DEF ResumeTimeout
    <2>2. CASE Boot \/ RecoverRuns \/ \E s \in Sessions : RecoverTurn(s)
      <3>1. /\ ctl.pc \in {"down", "recover"} /\ UNCHANGED gate
            /\ ctl'.pc \in {"recover", "lift"}
        BY <1>a, <1>c, <2>2 DEF Boot, RecoverRuns, RecoverTurn, Ctl
      <3>2. QED
        BY <3>1 DEF GateInv, PassPcs
    <2>3. QED
      BY <1>4, <2>1, <2>2 DEF StartupStep
  <1>5. CASE DriverStep
    <2>1. CASE ctl' = PassEnds /\ UNCHANGED gate /\ ctl.pc \in {"list", "next"}
      BY <1>b, <2>1 DEF GateInv
    <2>2. CASE LiftQuiesce \/ DriverFault \/ AckStale
      BY <1>a, <2>2 DEF LiftQuiesce, DriverFault, AckStale, CtlGoto, Ctl, GateInv, PassPcs
    <2>3. CASE ReadTail \/ Ack \/ StartContinuation \/ \E s \in Sessions : Reserve(s) \/ Skip(s)
      <3>1. CASE ReadTail
        <4>1. /\ ctl.pc = "read" /\ UNCHANGED gate
              /\ ctl'.pc \in {"ack", "stale"} /\ ctl'.boot = ctl.boot
          BY <1>a, <3>1 DEF ReadTail, Ctl
        <4>2. QED
          BY <4>1 DEF GateInv, PassPcs
      <3>2. CASE Ack
        <4>1. /\ ctl.pc = "ack" /\ UNCHANGED gate
              /\ ctl'.pc \in {"next", "start"} /\ ctl'.boot = ctl.boot
          BY <1>a, <1>d, <3>2 DEF Ack, Ctl
        <4>2. QED
          BY <4>1 DEF GateInv, PassPcs
      <3>3. CASE StartContinuation \/ \E s \in Sessions : Reserve(s) \/ Skip(s)
        <4>1. /\ ctl.pc \in {"next", "start"} /\ UNCHANGED gate
              /\ ctl'.pc \in {"next", "read"} /\ ctl'.boot = ctl.boot
          BY <1>a, <3>3 DEF StartContinuation, Reserve, Skip, Ctl
        <4>2. QED
          BY <4>1 DEF GateInv, PassPcs
      <3>4. QED
        BY <2>3, <3>1, <3>2, <3>3
    <2>4. CASE ListResumes /\ ctl' # PassEnds
      BY <1>a, <2>4 DEF ListResumes, Ctl, GateInv, PassPcs
    <2>5. QED
      BY <1>5, <2>1, <2>2, <2>3, <2>4 DEF DriverStep, PassDone, ListResumes
  <1>6. CASE Crash
    BY <1>6 DEF Crash, Die, Controller, GateInv
  <1>7. CASE UNCHANGED vars
    BY <1>7 DEF vars, GateInv
  <1> QED
    BY <1>1, <1>2, <1>3, <1>4, <1>5, <1>6, <1>7 DEF Next, GateInv

\* A server that serves admits turns: every rejected or failed restart, and every
\* startup, has reopened the gate before it comes back to the signal loop.
THEOREM ServesOpen == Spec => []GateReopened
  <1>1. Init => GateInv
    BY DEF Init, GateInv, Controller
  <1>2. GateInv => GateReopened
    BY DEF GateInv, GateReopened
  <1>3. QED
    BY <1>1, <1>2, GateStep, TypeCorrect, PTL DEF Spec

-----------------------------------------------------------------------------
(* What a step does to the controller and to one session's turn. *)

\* The environment's counters only grow.
LEMMA UsedWriters == [Next]_vars => UNCHANGED used \/ \E k \in Kinds : Spend(k)
  <1>1. ASSUME NEW s \in Sessions, TurnStep(s) PROVE UNCHANGED used \/ \E k \in Kinds : Spend(k)
    BY <1>1 DEF Kinds, TurnStep, ClaimTurn, RefuseTurn, NoMail, AdmitMail, StartMessage, StartFails,
       Boundary, Checkpoint, CheckpointFails, CallTool, ToolReturns, FinishRound, RoundFails,
       Preempt, ReadOpen, EmitClose, CloseFails, EndTurn
  <1>2. ASSUME NEW s \in Sessions, Environment(s) PROVE UNCHANGED used \/ \E k \in Kinds : Spend(k)
    BY <1>2 DEF Kinds, Environment, Prompt, Wake, CancelRun, StopTurn, StopReleased, StopDeadline,
       StartRun, FinishRun, Archive, Unarchive
  <1>3. CASE HandoffStep
    BY <1>3 DEF Kinds, HandoffStep, RequestHandoff, QueuedFails, CheckRuns, WaitIdle, WaitDeadline,
       ReportStragglers, RecheckRuns, RunsUnknown, SpawnFails, SpawnSuccessor, Release
  <1>4. CASE DrainStep
    BY <1>4 DEF Kinds, DrainStep, BeginDrain, DrainWaited, SweepTurn, Swept, Exit
  <1>5. CASE StartupStep
    BY <1>5 DEF Kinds, StartupStep, Boot, RecoverRuns, ResumeTimeout, RecoverTurn
  <1>6. CASE DriverStep
    BY <1>6 DEF Kinds, DriverStep, LiftQuiesce, ListResumes, PassDone, ReadTail, DriverFault,
       AckStale, Ack, StartContinuation, Reserve, Skip
  <1>7. CASE Crash
    BY <1>7 DEF Kinds, Crash
  <1>8. CASE UNCHANGED vars
    BY <1>8 DEF vars
  <1> QED
    BY <1>1, <1>2, <1>3, <1>4, <1>5, <1>6, <1>7, <1>8 DEF Next

LEMMA UsedGrows ==
    ASSUME TypeOK, [Next]_vars, NEW k \in Kinds, used'[k] = 0
    PROVE  used[k] = 0 /\ ~Spend(k)
  <1>1. used \in [Kinds -> Nat]
    BY DEF TypeOK
  <1>2. ~Spend(k)
    BY <1>1 DEF Spend
  <1>3. ASSUME NEW j \in Kinds, Spend(j) PROVE used[k] = 0
    BY <1>1, <1>2, <1>3 DEF Spend
  <1>4. QED
    BY <1>2, <1>3, UsedWriters

\* The controller's steps, as far as startup and the driver are concerned.
LeasePcs == {"read", "ack", "start"}
Listed == {"next"} \cup RowPcs

CtlStep ==
    \/ UNCHANGED ctl
    \/ ctl'.pc = "down" /\ ~ctl'.boot /\ \E b \in BOOLEAN : Die(b)
    \/ Boot \/ RecoverRuns \/ \E s \in Sessions : RecoverTurn(s)
    \/ ListResumes /\ ctl' = [ctl EXCEPT !.pc = "next", !.todo = {s \in Sessions : Live(s)}]
    \/ ReadTail \/ DriverFault \/ AckStale \/ Ack \/ StartContinuation
    \/ \E s \in Sessions : Reserve(s) \/ Skip(s)
    \/ /\ Up
       /\ ctl'.pc \notin {"down", "recover"} \cup Listed
       /\ ctl'.boot => ctl.boot /\ ctl.pc \notin Listed

LEMMA CtlEffect == ASSUME TypeOK, [Next]_vars PROVE CtlStep
  <1>a. ctl \in Ctl
    BY DEF TypeOK
  <1>b. PassEnds.pc \in {"serve", "spawn"} /\ ~PassEnds.boot
    BY <1>a DEF PassEnds, Controller, Ctl
  <1>c. ASSUME NEW x, Abort(x) PROVE ctl'.pc = "lift" /\ ctl'.boot = ctl.boot
    BY <1>a, <1>c DEF Abort, Ctl
  <1>d. ASSUME NEW p, CtlGoto(p) PROVE ctl'.pc = p /\ ctl'.boot = ctl.boot
    BY <1>a, <1>d DEF CtlGoto, Ctl
  <1>e. ASSUME NEW b \in BOOLEAN, Die(b) PROVE ctl'.pc = "down" /\ ~ctl'.boot
    BY <1>e DEF Die, Controller
  <1>1. ASSUME NEW s \in Sessions, TurnStep(s) \/ Environment(s) PROVE CtlStep
    BY <1>1, SessionFrame DEF CtlStep
  <1>2. CASE HandoffStep
    <2>1. CASE Release
      BY <1>e, <2>1 DEF Release, CtlStep
    <2>2. CASE QueuedFails \/ CheckRuns \/ SpawnFails \/ ReportStragglers \/ RecheckRuns
      <3>1. ctl.pc \in {"queued", "deadline", "idle", "spawn"}
            /\ ((\E x : Abort(x)) \/ CtlGoto("waiting") \/ CtlGoto("spawn"))
        BY <2>2 DEF QueuedFails, CheckRuns, SpawnFails, ReportStragglers, RecheckRuns
      <3>2. ctl'.pc \in {"lift", "waiting", "spawn"} /\ ctl'.boot = ctl.boot
        BY <1>c, <1>d, <3>1
      <3>3. QED
        BY <3>1, <3>2 DEF CtlStep, Up, Listed, RowPcs
    <2>3. CASE RequestHandoff \/ WaitIdle \/ WaitDeadline \/ RunsUnknown \/ SpawnSuccessor
      <3>1. ctl.pc \in {"serve", "waiting", "queued", "idle", "spawn"}
            /\ \E p \in {"queued", "idle", "deadline", "waiting", "spawn", "spawned"} : CtlGoto(p)
        BY <2>3 DEF RequestHandoff, WaitIdle, WaitDeadline, RunsUnknown, SpawnSuccessor
      <3>2. ctl'.pc \in {"queued", "idle", "deadline", "waiting", "spawn", "spawned"} /\ ctl'.boot = ctl.boot
        BY <1>d, <3>1
      <3>3. QED
        BY <3>1, <3>2 DEF CtlStep, Up, Listed, RowPcs
    <2>4. QED
      BY <1>2, <2>1, <2>2, <2>3 DEF HandoffStep
  <1>3. CASE DrainStep
    <2>1. CASE Exit
      BY <1>e, <2>1 DEF Exit, CtlStep
    <2>2. CASE BeginDrain \/ DrainWaited \/ Swept \/ \E s \in Sessions : SweepTurn(s)
      <3>1. ctl.pc \in {"serve", "draining", "sweeping"}
            /\ ctl'.pc \in {"draining", "sweeping", "stopping"} /\ ctl'.boot = ctl.boot
        BY <1>a, <1>d, <2>2 DEF BeginDrain, DrainWaited, Swept, SweepTurn, Ctl
      <3>2. QED
        BY <3>1 DEF CtlStep, Up, Listed, RowPcs
    <2>3. QED
      BY <1>3, <2>1, <2>2 DEF DrainStep
  <1>4. CASE StartupStep
    <2>1. CASE ResumeTimeout
      <3>1. CASE Die(FALSE)
        BY <1>e, <3>1 DEF CtlStep
      <3>2. CASE ctl' = PassEnds /\ ctl.pc \in PassPcs
        BY <1>b, <3>2 DEF CtlStep, Up, Listed, RowPcs, PassPcs
      <3>3. QED
        BY <2>1, <3>1, <3>2 DEF ResumeTimeout
    <2>2. QED
      BY <1>4, <2>1 DEF StartupStep, CtlStep
  <1>5. CASE DriverStep
    <2>1. CASE ctl' = PassEnds /\ ctl.pc \in {"list", "next"}
      BY <1>b, <2>1 DEF CtlStep, Up, Listed, RowPcs
    <2>2. CASE LiftQuiesce
      <3>1. ctl.pc = "lift" /\ ctl'.pc = "list" /\ ctl'.boot = ctl.boot
        BY <1>d, <2>2 DEF LiftQuiesce
      <3>2. QED
        BY <3>1 DEF CtlStep, Up, Listed, RowPcs
    <2>3. QED
      BY <1>5, <2>1, <2>2 DEF DriverStep, PassDone, ListResumes, CtlStep
  <1>6. CASE Crash
    BY <1>e, <1>6 DEF Crash, CtlStep
  <1>7. CASE UNCHANGED vars
    BY <1>7 DEF vars, CtlStep
  <1> QED
    BY <1>1, <1>2, <1>3, <1>4, <1>5, <1>6, <1>7 DEF Next

\* A lease ends where its turn ends, where the driver gives it back, or with the
\* process.
Reset(s) ==
    /\ turn'[s].pc = "idle" /\ ~turn'[s].root
    /\ \/ turn[s].pc \in {"mail", "cleanup"} /\ UNCHANGED ctl
       \/ ctl.pc \in LeasePcs /\ s = ctl.session /\ ctl'.pc \notin LeasePcs
       \/ ctl'.pc = "down"

\* A turn moves on.  It comes to the handing of its checkpoint only as a root turn
\* under a quiesced gate.
Onward(s) ==
    /\ turn[s].pc \notin {"idle", "lease"} /\ turn'[s].pc \notin {"idle", "lease"}
    /\ turn'[s].root = turn[s].root
    /\ turn'[s].pc = "handing" => turn[s].root /\ holding
    /\ UNCHANGED ctl

Move(s) ==
    \/ turn'[s] = turn[s]
    \/ Reset(s)
    \/ Onward(s)
    \/ ClaimTurn(s) /\ turn'[s].pc = "starting"
    \/ Wake(s) /\ turn'[s].pc = "mail" /\ ~turn'[s].root
    \/ Reserve(s) /\ turn'[s].pc = "lease" /\ ~turn'[s].root
    \/ StartContinuation /\ s = ctl.session /\ turn'[s].pc = "starting"

LEMMA MoveEffect ==
    ASSUME TypeOK, [Next]_vars, NEW s \in Sessions PROVE Move(s)
  <1>a. turn \in [Sessions -> Turn] /\ ctl \in Ctl
    BY DEF TypeOK
  <1>b. NoTurn.pc = "idle" /\ ~NoTurn.root
    BY DEF NoTurn
  <1>c. ASSUME NEW u \in Sessions, u # s, NEW x, turn' = [turn EXCEPT ![u] = x] PROVE Move(s)
    BY <1>a, <1>c DEF Move
  <1>1. ASSUME NEW u \in Sessions, NEW p, Goto(u, p), p \notin {"idle", "lease"},
               turn[u].pc \notin {"idle", "lease"}, UNCHANGED ctl,
               p = "handing" => turn[u].root /\ holding
        PROVE  Move(s)
    <2>1. turn' = [turn EXCEPT ![u] = [turn[u] EXCEPT !.pc = p]]
      BY <1>1 DEF Goto
    <2>2. CASE u = s
      <3>1. turn'[s].pc = p /\ turn'[s].root = turn[s].root
        BY <1>a, <2>1, <2>2 DEF Turn
      <3>2. QED
        BY <1>1, <2>2, <3>1 DEF Move, Onward
    <2>3. QED
      BY <1>c, <2>1, <2>2
  <1>2. ASSUME NEW u \in Sessions,
               AdmitMail(u) \/ StartFails(u) \/ Boundary(u) \/ Checkpoint(u) \/ CheckpointFails(u)
               \/ CallTool(u) \/ ToolReturns(u) \/ FinishRound(u) \/ ReadOpen(u) \/ EmitClose(u)
               \/ CloseFails(u)
        PROVE  Move(s)
    <2>1. UNCHANGED ctl /\ turn[u].pc \notin {"idle", "lease"}
          /\ \E p : Goto(u, p) /\ p \notin {"idle", "lease"} /\ (p = "handing" => turn[u].root /\ holding)
      BY <1>2 DEF AdmitMail, StartFails, Boundary, Checkpoint, CheckpointFails, CallTool,
         ToolReturns, FinishRound, ReadOpen, EmitClose, CloseFails
    <2>2. QED
      BY <1>1, <2>1
  <1>3. ASSUME NEW u \in Sessions, NoMail(u) \/ EndTurn(u) PROVE Move(s)
    <2>1. turn' = [turn EXCEPT ![u] = NoTurn] /\ turn[u].pc \in {"mail", "cleanup"} /\ UNCHANGED ctl
      BY <1>3 DEF NoMail, EndTurn
    <2>2. CASE u = s
      BY <1>a, <1>b, <2>1, <2>2 DEF Move, Reset
    <2>3. QED
      BY <1>c, <2>1, <2>2
  <1>4. ASSUME NEW u \in Sessions, ClaimTurn(u) \/ Wake(u) \/ Reserve(u) PROVE Move(s)
    <2>1. CASE u = s
      <3>1. ClaimTurn(u) => turn'[s].pc = "starting"
        BY <1>a, <2>1 DEF ClaimTurn, NoTurn
      <3>2. Wake(u) => turn'[s].pc = "mail" /\ ~turn'[s].root
        BY <1>a, <2>1 DEF Wake, NoTurn
      <3>3. Reserve(u) => turn'[s].pc = "lease" /\ ~turn'[s].root
        BY <1>a, <2>1 DEF Reserve, NoTurn
      <3>4. QED
        BY <1>4, <2>1, <3>1, <3>2, <3>3 DEF Move
    <2>2. CASE u # s
      BY <1>c, <1>4, <2>2 DEF ClaimTurn, Wake, Reserve
    <2>3. QED
      BY <2>1, <2>2
  <1>5. ASSUME NEW u \in Sessions, RoundFails(u) \/ Preempt(u) PROVE Move(s)
    <2>1. PICK e : turn' = [turn EXCEPT ![u] = [turn[u] EXCEPT !.pc = "closing", !.end = e]]
      BY <1>5 DEF RoundFails, Preempt
    <2>2. turn[u].pc \in InMessage /\ UNCHANGED ctl
      BY <1>5 DEF RoundFails, Preempt, InMessage
    <2>3. CASE u = s
      <3>1. turn'[s].pc = "closing" /\ turn'[s].root = turn[s].root
        BY <1>a, <2>1, <2>3 DEF Turn
      <3>2. QED
        BY <2>2, <2>3, <3>1 DEF Move, Onward, InMessage
    <2>4. QED
      BY <1>c, <2>1, <2>3
  <1>6. ASSUME NEW u \in Sessions, StartMessage(u) PROVE Move(s)
    <2>1. turn' = [turn EXCEPT ![u] = [turn[u] EXCEPT !.pc = "boundary", !.msg = Len(log[u]) + 1]]
          /\ turn[u].pc = "starting" /\ UNCHANGED ctl
      BY <1>6 DEF StartMessage
    <2>2. CASE u = s
      <3>1. turn'[s].pc = "boundary" /\ turn'[s].root = turn[s].root
        BY <1>a, <2>1, <2>2 DEF Turn
      <3>2. QED
        BY <2>1, <2>2, <3>1 DEF Move, Onward
    <2>3. QED
      BY <1>c, <2>1, <2>2
  <1>7. ASSUME NEW b \in BOOLEAN, Die(b) PROVE Move(s)
    BY <1>b, <1>7 DEF Die, Controller, Move, Reset
  <1>8. ASSUME DropLease, ctl.pc \in LeasePcs, ctl'.pc \notin LeasePcs PROVE Move(s)
    <2>1. ctl.session \in Sessions /\ turn' = [turn EXCEPT ![ctl.session] = NoTurn]
      BY <1>8 DEF DropLease, TypeOK, LeasePcs, RowPcs
    <2>2. CASE ctl.session = s
      BY <1>a, <1>b, <1>8, <2>1, <2>2 DEF Move, Reset
    <2>3. QED
      BY <1>c, <2>1, <2>2
  <1>9. CASE ReadTail \/ DriverFault \/ Ack
    <2>1. \/ UNCHANGED turn
          \/ DropLease /\ ctl.pc \in LeasePcs /\ ctl'.pc \notin LeasePcs
      BY <1>9, <1>a DEF ReadTail, DriverFault, Ack, CtlGoto, LeasePcs, Ctl
    <2>2. QED
      BY <1>8, <2>1 DEF Move
  <1>10. CASE ResumeTimeout
    <2>1. PassEnds.pc \in {"serve", "spawn"}
      BY <1>a DEF PassEnds, Controller, Ctl
    <2>2. \/ Die(FALSE)
          \/ UNCHANGED turn
          \/ DropLease /\ ctl.pc \in LeasePcs /\ ctl' = PassEnds
      BY <1>10 DEF ResumeTimeout, LeasePcs
    <2>3. QED
      BY <1>7, <1>8, <2>1, <2>2 DEF Move, LeasePcs
  <1>11. CASE StartContinuation
    <2>1. ctl.session \in Sessions
          /\ turn' = [turn EXCEPT ![ctl.session] = [turn[ctl.session] EXCEPT !.pc = "starting", !.root = TRUE]]
      BY <1>11 DEF StartContinuation, TypeOK, RowPcs
    <2>2. CASE ctl.session = s
      <3>1. turn'[s].pc = "starting"
        BY <1>a, <2>1, <2>2 DEF Turn
      <3>2. QED
        BY <1>11, <2>2, <3>1 DEF Move
    <2>3. QED
      BY <1>c, <2>1, <2>2
  <1>12. CASE Release \/ Exit \/ Crash
    BY <1>7, <1>12 DEF Release, Exit, Crash
  <1>13. CASE UNCHANGED turn
    BY <1>13 DEF Move
  <1> QED
    BY <1>2, <1>3, <1>4, <1>5, <1>6, <1>9, <1>10, <1>11, <1>12, <1>13, TurnWriters

\* Requests come from clients and stops from the team, of a process that is up.
LEMMA QueueEffect ==
    [Next]_vars => /\ queued' \subseteq queued \/ (Serving /\ \E r \in Roots : queued' = queued \cup {r})
                   /\ stops' \subseteq stops \/ Up
  <1> DEFINE Goal == /\ queued' \subseteq queued \/ (Serving /\ \E r \in Roots : queued' = queued \cup {r})
                     /\ stops' \subseteq stops \/ Up
  <1>1. ASSUME NEW s \in Sessions, TurnStep(s) PROVE Goal
    BY <1>1 DEF TurnStep, ClaimTurn, RefuseTurn, NoMail, AdmitMail, StartMessage, StartFails,
       Boundary, Checkpoint, CheckpointFails, CallTool, ToolReturns, FinishRound, RoundFails,
       Preempt, ReadOpen, EmitClose, CloseFails, EndTurn
  <1>2. ASSUME NEW s \in Sessions, Environment(s) PROVE Goal
    BY <1>2 DEF Environment, Prompt, Wake, CancelRun, StopTurn, StopReleased, StopDeadline,
       StartRun, FinishRun, Archive, Unarchive
  <1>3. CASE HandoffStep
    BY <1>3 DEF HandoffStep, RequestHandoff, QueuedFails, CheckRuns, WaitIdle, WaitDeadline,
       ReportStragglers, RecheckRuns, RunsUnknown, SpawnFails, SpawnSuccessor, Release, Die
  <1>4. CASE DrainStep
    BY <1>4 DEF DrainStep, BeginDrain, DrainWaited, SweepTurn, Swept, Exit, Die
  <1>5. CASE StartupStep
    BY <1>5 DEF StartupStep, Boot, RecoverRuns, ResumeTimeout, RecoverTurn, Die
  <1>6. CASE DriverStep
    BY <1>6 DEF DriverStep, LiftQuiesce, ListResumes, PassDone, ReadTail, DriverFault,
       AckStale, Ack, StartContinuation, Reserve, Skip
  <1>7. CASE Crash
    BY <1>7 DEF Crash, Die
  <1>8. CASE UNCHANGED vars
    BY <1>8 DEF vars
  <1> QED
    BY <1>1, <1>2, <1>3, <1>4, <1>5, <1>6, <1>7, <1>8 DEF Next

-----------------------------------------------------------------------------
(* A process and the turns it runs. *)

\* A process that is down, or has yet to repair the log, runs no turn; the session
\* the driver works on is under the driver's lease; a process that has not opened its
\* doors has no request and no turn at its checkpoint.
ProcInv ==
    /\ ~Up => queued = {} /\ stops = {} /\ \A s \in Sessions : turn[s].pc = "idle"
    /\ ctl.pc \in LeasePcs => turn[ctl.session].pc = "lease"
    /\ ctl.boot => queued = {} /\ \A s \in Sessions : turn[s].pc # "handing"

LEMMA ProcStep == TypeOK /\ GateInv /\ ProcInv /\ [Next]_vars => ProcInv'
  <1> SUFFICES ASSUME TypeOK, GateInv, ProcInv, [Next]_vars PROVE ProcInv'
    OBVIOUS
  <1>a. ctl \in Ctl /\ (ctl.pc \in RowPcs => ctl.session \in Sessions)
    BY DEF TypeOK
  <1>b. CtlStep /\ \A s \in Sessions : Move(s)
    BY CtlEffect, MoveEffect
  <1>c. ASSUME NEW b \in BOOLEAN, Die(b)
        PROVE queued' = {} /\ stops' = {} /\ \A s \in Sessions : turn'[s].pc = "idle"
    BY <1>c DEF Die, NoTurn
  <1>1. ASSUME ~Up'
        PROVE  queued' = {} /\ stops' = {} /\ \A s \in Sessions : turn'[s].pc = "idle"
    <2>1. CASE UNCHANGED ctl
      <3>1. ~Up
        BY <1>1, <2>1 DEF Up
      <3>2. queued = {} /\ stops = {} /\ \A s \in Sessions : turn[s].pc = "idle"
        BY <3>1 DEF ProcInv
      <3>3. queued' = {} /\ stops' = {}
        BY <3>1, <3>2, QueueEffect DEF Serving
      <3>4. ASSUME NEW s \in Sessions PROVE turn'[s].pc = "idle"
        BY <1>b, <3>1, <3>2 DEF Move, Reset, Onward, ClaimTurn, Wake, Reserve, StartContinuation, Up
      <3>5. QED
        BY <3>3, <3>4
    <2>2. ASSUME NEW b \in BOOLEAN, Die(b)
          PROVE  queued' = {} /\ stops' = {} /\ \A s \in Sessions : turn'[s].pc = "idle"
      BY <1>c, <2>2
    <2>3. CASE Boot \/ \E s \in Sessions : RecoverTurn(s)
      BY <2>3 DEF Boot, RecoverTurn, ProcInv, Up
    <2>4. CASE RecoverRuns
      BY <1>1, <1>a, <2>4 DEF RecoverRuns, Abort, Up, Ctl
    <2>5. CASE \/ ReadTail \/ DriverFault \/ AckStale \/ Ack \/ StartContinuation
               \/ \E s \in Sessions : Reserve(s) \/ Skip(s)
      BY <1>1, <1>a, <2>5 DEF ReadTail, DriverFault, AckStale, Ack, StartContinuation, Reserve, Skip,
         CtlGoto, Up, Ctl
    <2>6. CASE ctl' = [ctl EXCEPT !.pc = "next", !.todo = {s \in Sessions : Live(s)}]
      BY <1>1, <1>a, <2>6 DEF Up, Ctl
    <2>7. CASE ctl'.pc \notin {"down", "recover"} \cup Listed
      BY <1>1, <2>7 DEF Up
    <2>8. QED
      BY <1>b, <2>1, <2>2, <2>3, <2>4, <2>5, <2>6, <2>7 DEF CtlStep
  <1>2. ASSUME ctl'.pc \in LeasePcs PROVE turn'[ctl'.session].pc = "lease"
    <2>1. CASE UNCHANGED ctl
      <3>1. ctl.pc \in LeasePcs /\ ctl.session \in Sessions /\ turn[ctl.session].pc = "lease"
        BY <1>2, <1>a, <2>1 DEF ProcInv, LeasePcs, RowPcs
      <3>2. Move(ctl.session)
        BY <1>b, <3>1
      <3>3. turn'[ctl.session] = turn[ctl.session]
        BY <2>1, <3>1, <3>2, <1>2, <1>a DEF Move, Reset, Onward, ClaimTurn, Wake, Reserve,
           StartContinuation, GateOpen, Active, LeasePcs, Ctl
      <3>4. QED
        BY <2>1, <3>1, <3>3
    <2>2. ASSUME NEW s \in Sessions, Reserve(s) PROVE turn'[ctl'.session].pc = "lease"
      BY <1>a, <2>2 DEF Reserve, Ctl, TypeOK, NoTurn
    <2>3. CASE ReadTail \/ Ack
      <3>1. UNCHANGED turn /\ ctl'.session = ctl.session /\ ctl.pc \in LeasePcs
        BY <1>2, <1>a, <2>3 DEF ReadTail, Ack, CtlGoto, LeasePcs, Ctl
      <3>2. QED
        BY <3>1 DEF ProcInv
    <2>4. CASE \/ DriverFault \/ AckStale \/ StartContinuation \/ Boot \/ RecoverRuns
               \/ \E s \in Sessions : Skip(s) \/ RecoverTurn(s)
      BY <1>2, <1>a, <2>4 DEF DriverFault, AckStale, StartContinuation, Skip, Boot, RecoverRuns,
         RecoverTurn, Abort, CtlGoto, LeasePcs, Ctl
    <2>5. CASE ctl' = [ctl EXCEPT !.pc = "next", !.todo = {s \in Sessions : Live(s)}]
      BY <1>2, <1>a, <2>5 DEF LeasePcs, Ctl
    <2>6. QED
      BY <1>2, <1>b, <2>1, <2>2, <2>3, <2>4, <2>5 DEF CtlStep, Listed, LeasePcs, RowPcs
  <1>3. ASSUME ctl'.boot PROVE queued' = {} /\ \A s \in Sessions : turn'[s].pc # "handing"
    <2>1. CASE Boot
      BY <2>1 DEF Boot, ProcInv, Up
    <2>2. CASE ctl.boot
      <3>1. queued = {} /\ ~holding /\ \A s \in Sessions : turn[s].pc # "handing"
        BY <2>2 DEF ProcInv, GateInv
      <3>2. queued' = {}
        BY <2>2, <3>1, QueueEffect DEF Serving
      <3>3. ASSUME NEW s \in Sessions PROVE turn'[s].pc # "handing"
        BY <1>b, <3>1 DEF Move, Reset, Onward
      <3>4. QED
        BY <3>2, <3>3
    <2>3. ctl.boot \/ Boot
      BY <1>3, <1>a, <1>b DEF CtlStep, ReadTail, DriverFault, AckStale, Ack, StartContinuation, Reserve,
         Skip, RecoverRuns, RecoverTurn, Abort, CtlGoto, Ctl
    <2>4. QED
      BY <2>1, <2>2, <2>3
  <1>4. QED
    BY <1>1, <1>2, <1>3 DEF ProcInv

\* Only top-level sessions hand off: requests, root turns, continuations and resume
\* rows are theirs.
RootInv ==
    /\ queued \subseteq Roots
    /\ \A s \in Sessions : /\ turn[s].root => s \in Roots
                           /\ turn[s].pc = "handing" => turn[s].root
    /\ ctl.pc \in {"ack", "start"} => ctl.session \in Roots
    /\ \A s \in Members : rows[s] = <<>>

LEMMA RootStep == TypeOK /\ RootInv /\ [Next]_vars => RootInv'
  <1> SUFFICES ASSUME TypeOK, RootInv, [Next]_vars PROVE RootInv'
    OBVIOUS
  <1>a. ctl \in Ctl /\ turn \in [Sessions -> Turn]
    BY DEF TypeOK
  <1>b. CtlStep /\ \A s \in Sessions : Move(s) /\ RowStep(s)
    BY CtlEffect, MoveEffect, RowEffect
  <1>1. queued' \subseteq Roots
    BY QueueEffect DEF RootInv
  <1>2. ASSUME NEW s \in Sessions
        PROVE  /\ turn'[s].root => s \in Roots
               /\ turn'[s].pc = "handing" => turn'[s].root
    <2>1. CASE turn'[s] = turn[s]
      BY <2>1 DEF RootInv
    <2>2. CASE Reset(s)
      BY <2>2 DEF Reset
    <2>3. CASE Onward(s)
      BY <2>3 DEF Onward, RootInv
    <2>4. CASE ClaimTurn(s) /\ turn'[s].pc = "starting"
      BY <2>4 DEF ClaimTurn, RootInv
    <2>5. CASE (Wake(s) \/ Reserve(s)) /\ turn'[s].pc \in {"mail", "lease"} /\ ~turn'[s].root
      BY <2>5
    <2>6. CASE StartContinuation /\ s = ctl.session /\ turn'[s].pc = "starting"
      BY <2>6 DEF StartContinuation, RootInv
    <2>7. QED
      BY <1>b, <2>1, <2>2, <2>3, <2>4, <2>5, <2>6 DEF Move
  <1>3. ASSUME ctl'.pc \in {"ack", "start"} PROVE ctl'.session \in Roots
    <2>1. CASE UNCHANGED ctl
      BY <1>3, <2>1 DEF RootInv
    <2>2. CASE ReadTail
      <3>1. Candidate(ctl.session) /\ ctl'.session = ctl.session
        BY <1>3, <1>a, <2>2 DEF ReadTail, CtlGoto, Ctl
      <3>2. QED
        BY <3>1 DEF Candidate
    <2>3. CASE Ack
      BY <1>3, <1>a, <2>3 DEF Ack, CtlGoto, Ctl, RootInv
    <2>4. CASE \/ DriverFault \/ AckStale \/ StartContinuation \/ Boot \/ RecoverRuns
               \/ \E s \in Sessions : Reserve(s) \/ Skip(s) \/ RecoverTurn(s)
      BY <1>3, <1>a, <2>4 DEF DriverFault, AckStale, StartContinuation, Reserve, Skip, Boot,
         RecoverRuns, RecoverTurn, Abort, CtlGoto, Ctl
    <2>5. CASE ctl' = [ctl EXCEPT !.pc = "next", !.todo = {s \in Sessions : Live(s)}]
      BY <1>3, <1>a, <2>5 DEF Ctl
    <2>6. QED
      BY <1>3, <1>b, <2>1, <2>2, <2>3, <2>4, <2>5 DEF CtlStep, Listed, RowPcs
  <1>4. ASSUME NEW s \in Members PROVE rows'[s] = <<>>
    <2>1. s \in Sessions /\ s \notin Roots /\ rows[s] = <<>>
      BY SessionsAssumption DEF Sessions, RootInv
    <2>2. ~Live(s)
      BY <2>1 DEF Live, LiveResumes
    <2>3. ~Checkpoint(s)
      BY <2>1 DEF Checkpoint, RootInv
    <2>4. ~(ctl.pc = "start" /\ ctl.session = s)
      BY <2>1 DEF RootInv
    <2>5. QED
      BY <1>b, <2>1, <2>2, <2>3, <2>4 DEF RowStep
  <1>5. QED
    BY <1>1, <1>2, <1>3, <1>4 DEF RootInv

\* The facts about the process, its gate, its turns and its log, together.
HandoffInv == TypeOK /\ GateInv /\ CloseInv /\ ProcInv /\ RootInv

LEMMA HandoffCorrect == Spec => []HandoffInv
  <1>1. Init => GateInv /\ ProcInv /\ RootInv
    BY DEF Init, GateInv, ProcInv, RootInv, Controller, Up, NoTurn, LeasePcs, Sessions
  <1>2. QED
    BY <1>1, GateStep, ProcStep, RootStep, TypeCorrect, CloseCorrect, PTL DEF Spec, HandoffInv

-----------------------------------------------------------------------------
(* A row thrown away as stale belongs to a session that moved on. *)

LEMMA EndIsClose ==
    ASSUME NEW q \in Seq(Message) PROVE EndsAtHandoff(q) <=> Len(q) \in HandoffCloses(q)
  <1>1. Len(q) \in Nat /\ DOMAIN q = 1..Len(q) /\ (q = <<>> <=> Len(q) = 0)
    BY EmptySeq
  <1>2. QED
    BY <1>1 DEF EndsAtHandoff, HandoffCloses

\* Only a checkpoint makes a session end at a handoff.
LEMMA EndStep ==
    ASSUME TypeOK, CloseInv, [Next]_vars, NEW s \in Sessions, ~Checkpoint(s), EndsAtHandoff(log'[s])
    PROVE  EndsAtHandoff(log[s])
  <1>1. log[s] \in Seq(Message) /\ log'[s] \in Seq(Message)
    BY LogType DEF TypeOK
  <1>2. DOMAIN log[s] \subseteq DOMAIN log'[s] /\ HandoffCloses(log'[s]) = HandoffCloses(log[s])
    BY LogEffect, LogGrows, ClosesKept
  <1>3. Len(log'[s]) \in HandoffCloses(log[s])
    BY <1>1, <1>2, EndIsClose
  <1>4. Len(log'[s]) = Len(log[s])
    <2>1. Len(log'[s]) \in 1..Len(log[s]) /\ 1..Len(log[s]) \subseteq 1..Len(log'[s])
      BY <1>1, <1>2, <1>3 DEF HandoffCloses
    <2>2. Len(log'[s]) \in Nat /\ Len(log[s]) \in Nat
      BY <1>1
    <2>3. Len(log[s]) \in 1..Len(log[s])
      BY <2>1, <2>2
    <2>4. Len(log[s]) \in 1..Len(log'[s])
      BY <2>1, <2>3
    <2>5. QED
      BY <2>1, <2>2, <2>4
  <1>5. QED
    BY <1>1, <1>3, <1>4, EndIsClose

\* Between the drop of the lease and the ack the session may start another turn, but
\* the gate is open: that turn does not hand off.
StaleInv ==
    ctl.pc = "stale" => /\ turn[ctl.session].pc # "handing"
                        /\ ~ctl.barred => ~EndsAtHandoff(log[ctl.session])

LEMMA StaleStep == HandoffInv /\ StaleInv /\ [Next]_vars => StaleInv'
  <1> SUFFICES ASSUME HandoffInv, StaleInv, [Next]_vars, ctl'.pc = "stale"
               PROVE  /\ turn'[ctl'.session].pc # "handing"
                      /\ ~ctl'.barred => ~EndsAtHandoff(log'[ctl'.session])
    BY DEF StaleInv
  <1>a. TypeOK /\ GateInv /\ CloseInv /\ ProcInv /\ RootInv /\ ctl \in Ctl
    BY DEF HandoffInv, TypeOK
  <1>b. CtlStep
    BY <1>a, CtlEffect
  <1>1. CASE UNCHANGED ctl
    <2> DEFINE s == ctl.session
    <2>1. s \in Sessions /\ ctl.pc = "stale" /\ ~holding
      BY <1>a, <1>1 DEF TypeOK, RowPcs, GateInv
    <2>2. turn[s].pc # "handing" /\ (~ctl.barred => ~EndsAtHandoff(log[s]))
      BY <2>1 DEF StaleInv
    <2>3. Move(s)
      BY <1>a, <2>1, MoveEffect
    <2>4. turn'[s].pc # "handing"
      BY <2>1, <2>2, <2>3 DEF Move, Reset, Onward
    <2>5. ~Checkpoint(s)
      BY <2>2 DEF Checkpoint
    <2>6. ~ctl.barred => ~EndsAtHandoff(log'[s])
      BY <1>a, <2>1, <2>2, <2>5, EndStep
    <2>7. QED
      BY <1>1, <2>4, <2>6
  <1>2. CASE ReadTail
    <2> DEFINE s == ctl.session
    <2>1. /\ s \in Sessions /\ ~Candidate(s) /\ DropLease /\ UNCHANGED log
          /\ ctl'.session = s /\ ctl'.barred = Barred(s)
      BY <1>a, <1>2 DEF ReadTail, Ctl, TypeOK, RowPcs
    <2>2. turn'[s].pc = "idle"
      BY <1>a, <2>1 DEF DropLease, TypeOK, NoTurn
    <2>3. s \in Members => ~EndsAtHandoff(log[s])
      <3> SUFFICES ASSUME s \in Members PROVE ~EndsAtHandoff(log[s])
        OBVIOUS
      <3>1. rows[s] = <<>> /\ HandoffCloses(log[s]) = ClosedBy(rows[s])
        BY <1>a, <2>1 DEF RootInv, CloseInv, CloseHasResume, HandoffCloses, ClosedBy
      <3>2. HandoffCloses(log[s]) = {}
        BY <3>1 DEF ClosedBy
      <3>3. QED
        BY <1>a, <2>1, <3>2, EndIsClose DEF TypeOK
    <2>4. ~Barred(s) => ~EndsAtHandoff(log[s])
      BY <2>1, <2>3 DEF Candidate, Sessions
    <2>5. QED
      BY <2>1, <2>2, <2>4
  <1>3. CASE \/ DriverFault \/ AckStale \/ Ack \/ StartContinuation \/ Boot \/ RecoverRuns
             \/ \E s \in Sessions : Reserve(s) \/ Skip(s) \/ RecoverTurn(s)
    BY <1>a, <1>3 DEF DriverFault, AckStale, Ack, StartContinuation, Reserve, Skip, Boot,
       RecoverRuns, RecoverTurn, Abort, CtlGoto, Ctl
  <1>4. CASE ctl' = [ctl EXCEPT !.pc = "next", !.todo = {s \in Sessions : Live(s)}]
    BY <1>a, <1>4 DEF Ctl
  <1>5. QED
    BY <1>b, <1>1, <1>2, <1>3, <1>4 DEF CtlStep, Listed, RowPcs

\* No resume is thrown away while its session still ends at the handoff, unless the
\* driver found it archived or with a running or interrupted Workflow run: neither the
\* turn that may start between the drop of the lease and the ack, nor a crash, a fault
\* or another restart makes the decision of ReadTail wrong.
THEOREM StaleIsStale == Spec => StaleMovedOn
  <1>1. Init => StaleInv
    BY DEF Init, StaleInv, Controller
  <1>2. Spec => []StaleInv
    BY <1>1, StaleStep, HandoffCorrect, PTL DEF Spec
  <1>3. StaleInv => [ctl.pc = "stale" /\ rows' # rows /\ ~ctl.barred
                       => ~EndsAtHandoff(log[ctl.session])]_vars
    BY DEF StaleInv
  <1>4. QED
    BY <1>2, <1>3, PTL DEF StaleMovedOn

-----------------------------------------------------------------------------
(* Every open message has a turn. *)

\* Without store faults a turn leaves its message only when it has closed it, or when
\* its process dies.
Leaves(s) ==
    \/ ctl'.pc = "down"
    \/ Checkpoint(s) \/ FinishRound(s) \/ EmitClose(s)
    \/ ReadOpen(s) /\ ~IsOpen(log[s][turn[s].msg])

LEMMA LeaveEffect ==
    ASSUME HandoffInv, [Next]_vars, used'["fault"] = 0, NEW s \in Sessions,
           turn[s].pc \in InMessage, turn'[s].pc \notin InMessage
    PROVE  Leaves(s)
  <1>a. turn \in [Sessions -> Turn] /\ ctl \in Ctl /\ ProcInv /\ TypeOK
    BY DEF HandoffInv, TypeOK
  <1>b. ~Spend("fault")
    BY <1>a, UsedGrows DEF Kinds
  <1>c. turn'[s] # turn[s]
    OBVIOUS
  <1>d. ASSUME NEW u \in Sessions, NEW x, turn' = [turn EXCEPT ![u] = x] PROVE u = s
    BY <1>a, <1>c, <1>d
  <1>1. ASSUME NEW u \in Sessions, Checkpoint(u) \/ FinishRound(u) \/ EmitClose(u) PROVE Leaves(s)
    BY <1>1, <1>d DEF Leaves, Checkpoint, FinishRound, EmitClose, Goto
  <1>2. ASSUME NEW u \in Sessions, ReadOpen(u) PROVE Leaves(s)
    <2>1. u = s
      BY <1>2, <1>d DEF ReadOpen, Goto
    <2>2. ~IsOpen(log[s][turn[s].msg])
      <3> SUFFICES ASSUME IsOpen(log[s][turn[s].msg]) PROVE FALSE
        OBVIOUS
      <3>1. turn'[s].pc = "emitting"
        BY <1>a, <1>2, <2>1 DEF ReadOpen, Goto, Turn
      <3>2. QED
        BY <3>1 DEF InMessage
    <2>3. QED
      BY <1>2, <2>1, <2>2 DEF Leaves
  <1>3. ASSUME NEW u \in Sessions,
               Boundary(u) \/ CheckpointFails(u) \/ CallTool(u) \/ ToolReturns(u) \/ RoundFails(u)
               \/ Preempt(u) \/ StartMessage(u)
        PROVE  FALSE
    <2>1. u = s
      BY <1>3, <1>d DEF Boundary, CheckpointFails, CallTool, ToolReturns, RoundFails, Preempt,
         StartMessage, Goto
    <2>2. turn'[s].pc \in InMessage
      BY <1>3, <1>a, <2>1 DEF Boundary, CheckpointFails, CallTool, ToolReturns, RoundFails, Preempt,
         StartMessage, Goto, InMessage, Turn
    <2>3. QED
      BY <2>2
  <1>4. ASSUME NEW u \in Sessions,
               ClaimTurn(u) \/ NoMail(u) \/ AdmitMail(u) \/ EndTurn(u) \/ Wake(u) \/ Reserve(u)
        PROVE  FALSE
    <2>1. u = s
      BY <1>4, <1>d DEF ClaimTurn, NoMail, AdmitMail, EndTurn, Wake, Reserve, Goto
    <2>2. QED
      BY <1>4, <2>1 DEF ClaimTurn, NoMail, AdmitMail, EndTurn, Wake, Reserve, GateOpen, Active, InMessage
  <1>5. ASSUME NEW u \in Sessions, StartFails(u) \/ CloseFails(u) PROVE FALSE
    BY <1>5, <1>b DEF StartFails, CloseFails
  <1>6. CASE ReadTail \/ DriverFault \/ Ack \/ StartContinuation \/ Release \/ Exit \/ Crash \/ ResumeTimeout
    <2>1. \/ \E b \in BOOLEAN : Die(b)
          \/ ctl.pc \in LeasePcs /\ \E x : turn' = [turn EXCEPT ![ctl.session] = x]
      BY <1>6, <1>b, <1>c DEF ReadTail, DriverFault, Ack, StartContinuation, Release, Exit, Crash,
         ResumeTimeout, DropLease, LeasePcs
    <2>2. ASSUME ctl.pc \in LeasePcs, NEW x, turn' = [turn EXCEPT ![ctl.session] = x] PROVE FALSE
      <3>1. ctl.session \in Sessions /\ turn[ctl.session].pc = "lease"
        BY <1>a, <2>2 DEF ProcInv, TypeOK, LeasePcs, RowPcs
      <3>2. ctl.session = s
        BY <1>d, <2>2, <3>1
      <3>3. QED
        BY <3>1, <3>2 DEF InMessage
    <2>3. QED
      BY <2>1, <2>2 DEF Die, Controller, Leaves
  <1> QED
    BY <1>c, <1>1, <1>2, <1>3, <1>4, <1>5, <1>6, TurnWriters

\* Only a turn that starts opens a message.
LEMMA OpenShrinks ==
    ASSUME TypeOK, CloseInv, [Next]_vars, NEW s \in Sessions, ~StartMessage(s)
    PROVE  OpenMessages(log'[s]) \subseteq OpenMessages(log[s])
  <1> DEFINE q == log[s]
             new == log'[s]
  <1>a. q \in Seq(Message) /\ (\A i \in DOMAIN q : q[i] \in Message) /\ LogStep(s)
    BY LogEffect DEF TypeOK
  <1> USE DEF OpenMessages, IsOpen
  <1>1. CASE new = q
    BY <1>1
  <1>2. ASSUME new = Append(q, UserMessage) PROVE OpenMessages(new) \subseteq OpenMessages(q)
    <2>1. UserMessage.role # "assistant"
      BY DEF UserMessage
    <2>2. DOMAIN q = 1..Len(q) /\ DOMAIN new = 1..(Len(q) + 1) /\ Len(q) \in Nat
          /\ new[Len(q) + 1] = UserMessage /\ \A i \in DOMAIN q : new[i] = q[i]
      BY <1>2, <1>a, MessageType
    <2> HIDE DEF q, new
    <2>3. QED
      BY <2>1, <2>2
  <1>3. ASSUME NEW e, new = TerminalEvents(q, e) PROVE OpenMessages(new) \subseteq OpenMessages(q)
    <2>1. DOMAIN new = DOMAIN q
      BY <1>3 DEF TerminalEvents
    <2>2. \A i \in DOMAIN q : IsOpen(new[i]) => IsOpen(q[i])
      BY <1>3 DEF TerminalEvents
    <2> HIDE DEF q, new
    <2>3. QED
      BY <2>1, <2>2
  <1>4. ASSUME NEW e \in NotHandoff, new = [q EXCEPT ![turn[s].msg] = Finished(@, e)]
        PROVE  OpenMessages(new) \subseteq OpenMessages(q)
    <2>1. e # OpenEnd /\ DOMAIN new = DOMAIN q
      BY <1>4 DEF NotHandoff, Ends, Causes, OpenEnd
    <2>2. \A i \in DOMAIN q : IsOpen(new[i]) => IsOpen(q[i])
      BY <1>4, <2>1 DEF Finished
    <2> HIDE DEF q, new
    <2>3. QED
      BY <2>1, <2>2
  <1>5. ASSUME NEW b \in BOOLEAN, new = [q EXCEPT ![turn[s].msg].openTool = b]
        PROVE  OpenMessages(new) \subseteq OpenMessages(q)
    <2>1. DOMAIN new = DOMAIN q
      BY <1>5
    <2>2. \A i \in DOMAIN q : new[i].end = q[i].end /\ new[i].role = q[i].role
      <3> SUFFICES ASSUME NEW i \in DOMAIN q PROVE new[i].end = q[i].end /\ new[i].role = q[i].role
        OBVIOUS
      <3>1. CASE i = turn[s].msg
        <4>1. new[i] = [q[i] EXCEPT !.openTool = b] /\ q[i] \in Message
          BY <1>5, <1>a, <3>1
        <4>2. QED
          BY <4>1 DEF Message
      <3>2. CASE i # turn[s].msg
        BY <1>5, <3>2
      <3>3. QED
        BY <3>1, <3>2
    <2> HIDE DEF q, new
    <2>3. QED
      BY <2>1, <2>2
  <1>6. CASE Checkpoint(s)
    BY <1>3, <1>6 DEF Checkpoint, TypeOK
  <1>7. QED
    BY <1>a, <1>1, <1>2, <1>3, <1>4, <1>5, <1>6 DEF LogStep

\* Closing what is open leaves nothing open.
LEMMA TerminalCloses ==
    ASSUME NEW q, NEW e \in Ends, e # OpenEnd PROVE OpenMessages(TerminalEvents(q, e)) = {}
  <1> DEFINE new == TerminalEvents(q, e)
  <1>1. DOMAIN new = DOMAIN q
    BY DEF TerminalEvents
  <1>2. \A i \in DOMAIN q : ~IsOpen(new[i])
    BY DEF TerminalEvents, IsOpen, Finished
  <1> HIDE DEF new
  <1>3. OpenMessages(new) = {}
    BY <1>1, <1>2 DEF OpenMessages
  <1>4. QED
    BY <1>3 DEF new

\* While a process repairs the log, the sessions that still have an open message are
\* on its list; from then on the message has a turn.
OpenInv ==
    used["fault"] = 0 =>
        /\ OpenHasTurn
        /\ ctl.pc = "recover" => \A s \in Sessions : OpenMessages(log[s]) # {} => s \in ctl.todo

\* A turn that starts has the one open message of its session.
LEMMA OpenStart ==
    ASSUME HandoffInv, OpenHasTurn, NEW s \in Sessions, StartMessage(s), NEW i \in OpenMessages(log'[s])
    PROVE  turn'[s].msg = i /\ turn'[s].pc \in InMessage
  <1> DEFINE q == log[s]
             new == log'[s]
  <1>a. TypeOK /\ ProcInv /\ q \in Seq(Message) /\ turn[s].pc = "starting"
    BY DEF HandoffInv, TypeOK, StartMessage
  <1>1. Up
    BY <1>a DEF ProcInv
  <1>2. OpenMessages(q) = {}
    BY <1>1, <1>a DEF OpenHasTurn
  <1>3. new = Append(q, AssistantMessage) /\ turn'[s].msg = Len(q) + 1 /\ turn'[s].pc = "boundary"
    BY <1>a DEF StartMessage, TypeOK, Turn
  <1>4. DOMAIN q = 1..Len(q) /\ DOMAIN new = 1..(Len(q) + 1) /\ Len(q) \in Nat
        /\ \A j \in DOMAIN q : new[j] = q[j]
    BY <1>a, <1>3, MessageType
  <1> HIDE DEF q, new
  <1>5. i \in OpenMessages(new)
    BY DEF new
  <1>6. i = Len(q) + 1
    <2> SUFFICES ASSUME i \in DOMAIN q PROVE FALSE
      BY <1>4, <1>5 DEF OpenMessages
    <2>1. i \in OpenMessages(q)
      BY <1>4, <1>5 DEF OpenMessages
    <2>2. QED
      BY <1>2, <2>1
  <1>7. QED
    BY <1>3, <1>6 DEF InMessage

\* A turn that leaves its message has closed it.
LEMMA LeaveCloses ==
    ASSUME HandoffInv, NEW s \in Sessions, turn[s].pc \in InMessage, Leaves(s), ctl'.pc # "down"
    PROVE  turn[s].msg \notin OpenMessages(log'[s])
  <1>a. TypeOK /\ CloseInv /\ log \in [Sessions -> Seq(Message)] /\ turn[s].msg \in DOMAIN log[s]
    BY DEF HandoffInv, TypeOK, CloseInv
  <1>b. turn[s].end \in Ends /\ turn[s].end # "handoff"
    BY <1>a DEF CloseInv, TypeOK, Turn
  <1>1. CASE Checkpoint(s)
    <2>1. log'[s] = TerminalEvents(log[s], "handoff")
      BY <1>1, <1>a DEF Checkpoint
    <2>2. QED
      BY <2>1, TerminalCloses DEF Ends, Causes, OpenEnd
  <1>2. ASSUME NEW e, e # OpenEnd, FinishMessage(s, e) PROVE turn[s].msg \notin OpenMessages(log'[s])
    <2>1. log'[s] = [log[s] EXCEPT ![turn[s].msg] = Finished(log[s][turn[s].msg], e)]
      BY <1>2, <1>a DEF FinishMessage
    <2>2. log'[s][turn[s].msg] = Finished(log[s][turn[s].msg], e)
      BY <1>a, <2>1
    <2>3. QED
      BY <1>2, <2>2 DEF OpenMessages, IsOpen, Finished
  <1>3. CASE ReadOpen(s) /\ ~IsOpen(log[s][turn[s].msg])
    BY <1>3 DEF ReadOpen, OpenMessages
  <1>4. turn[s].end # OpenEnd /\ "stop" # OpenEnd
    BY <1>b DEF Ends, Causes, OpenEnd
  <1>5. Checkpoint(s) \/ (ReadOpen(s) /\ ~IsOpen(log[s][turn[s].msg]))
        \/ FinishMessage(s, "stop") \/ FinishMessage(s, turn[s].end)
    BY DEF Leaves, FinishRound, EmitClose
  <1>6. QED
    BY <1>1, <1>2, <1>3, <1>4, <1>5

LEMMA OpenStep == HandoffInv /\ OpenInv /\ [Next]_vars => OpenInv'
  <1> SUFFICES ASSUME HandoffInv, OpenInv, [Next]_vars, used'["fault"] = 0
               PROVE  /\ OpenHasTurn'
                      /\ ctl'.pc = "recover" =>
                           \A s \in Sessions : OpenMessages(log'[s]) # {} => s \in ctl'.todo
    BY DEF OpenInv
  <1>a. TypeOK /\ CloseInv /\ ProcInv /\ ctl \in Ctl /\ log \in [Sessions -> Seq(Message)]
    BY DEF HandoffInv, TypeOK
  <1>b. OpenHasTurn /\ (ctl.pc = "recover" =>
                          \A s \in Sessions : OpenMessages(log[s]) # {} => s \in ctl.todo)
    BY <1>a, UsedGrows DEF OpenInv, Kinds
  <1>c. CtlStep
    BY <1>a, CtlEffect
  <1>1. ASSUME Up', NEW s \in Sessions, NEW i \in OpenMessages(log'[s])
        PROVE  turn'[s].msg = i /\ turn'[s].pc \in InMessage
    <2>1. CASE StartMessage(s)
      BY <1>b, <2>1, OpenStart
    <2>2. CASE ~StartMessage(s) /\ Up
      <3>1. turn[s].msg = i /\ turn[s].pc \in InMessage
        BY <1>a, <1>b, <2>2, OpenShrinks DEF OpenHasTurn, InMessage
      <3>2. ctl'.pc # "down"
        BY <1>1 DEF Up
      <3>3. turn'[s].pc \in InMessage
        BY <3>1, <3>2, LeaveEffect, LeaveCloses
      <3>4. QED
        BY <1>a, <2>2, <3>1, <3>3, TurnEffect
    <2>3. CASE ~Up
      <3>1. RecoverRuns
        <4>1. ctl'.pc \notin {"down", "recover"}
          BY <1>1 DEF Up
        <4>2. ctl.pc \in {"down", "recover"} /\ ctl'.pc # ctl.pc
          BY <2>3, <4>1 DEF Up
        <4>3. ~Boot /\ ~\E u \in Sessions : RecoverTurn(u)
          BY <1>a, <4>1, <4>2 DEF Boot, RecoverTurn, Ctl
        <4>4. ~(ReadTail \/ DriverFault \/ AckStale \/ Ack \/ StartContinuation \/ ListResumes
                \/ \E u \in Sessions : Reserve(u) \/ Skip(u))
          BY <4>2 DEF ReadTail, DriverFault, AckStale, Ack, StartContinuation, ListResumes,
             Reserve, Skip
        <4>5. QED
          BY <1>c, <2>3, <4>1, <4>2, <4>3, <4>4 DEF CtlStep
      <3>2. OpenMessages(log[s]) = {} /\ log'[s] = log[s]
        BY <1>b, <3>1 DEF RecoverRuns
      <3>3. QED
        BY <3>2
    <2>4. QED
      BY <2>1, <2>2, <2>3
  <1>2. ASSUME ctl'.pc = "recover", NEW s \in Sessions, OpenMessages(log'[s]) # {}
        PROVE  s \in ctl'.todo
    <2>1. CASE UNCHANGED ctl
      <3>1. ctl.pc = "recover" /\ ~Up
        BY <1>2, <2>1 DEF Up
      <3>2. ~StartMessage(s)
        BY <1>a, <3>1 DEF ProcInv, StartMessage
      <3>3. OpenMessages(log[s]) # {}
        BY <1>a, <1>2, <3>2, OpenShrinks
      <3>4. QED
        BY <1>b, <2>1, <3>1, <3>3
    <2>2. CASE Boot
      BY <1>a, <1>2, <2>2 DEF Boot, Ctl
    <2>3. ASSUME NEW u \in Sessions, RecoverTurn(u) PROVE s \in ctl'.todo
      <3>1. ctl.pc = "recover" /\ ctl'.todo = ctl.todo \ {u}
            /\ log' = [log EXCEPT ![u] = TerminalEvents(log[u], "interrupted")]
        BY <1>a, <2>3 DEF RecoverTurn, Ctl
      <3>2. s # u
        <4>1. log'[u] = TerminalEvents(log[u], "interrupted")
          BY <1>a, <3>1
        <4>2. OpenMessages(log'[u]) = {}
          BY <4>1, TerminalCloses DEF Ends, OpenEnd
        <4>3. QED
          BY <1>2, <4>2
      <3>3. log'[s] = log[s]
        BY <1>a, <3>1, <3>2
      <3>4. QED
        BY <1>b, <1>2, <3>1, <3>2, <3>3
    <2>4. CASE \/ RecoverRuns \/ ReadTail \/ DriverFault \/ AckStale \/ Ack \/ StartContinuation
               \/ \E u \in Sessions : Reserve(u) \/ Skip(u)
      BY <1>a, <1>2, <2>4 DEF RecoverRuns, ReadTail, DriverFault, AckStale, Ack, StartContinuation,
         Reserve, Skip, Abort, CtlGoto, Ctl
    <2>5. CASE ctl' = [ctl EXCEPT !.pc = "next", !.todo = {u \in Sessions : Live(u)}]
      BY <1>a, <1>2, <2>5 DEF Ctl
    <2>6. QED
      BY <1>c, <1>2, <2>1, <2>2, <2>3, <2>4, <2>5 DEF CtlStep
  <1>3. QED
    BY <1>1, <1>2 DEF OpenHasTurn, InMessage

\* As long as no store call failed, every open assistant message of a process that has
\* repaired its log is the message of the turn that runs in its session: a crash, a
\* checkpoint, a drain or a cancel never leaves one behind.
THEOREM NoOrphanMessage == Spec => [](used["fault"] = 0 => OpenHasTurn)
  <1>1. Init => OpenInv
    <2> SUFFICES ASSUME Init PROVE OpenInv
      OBVIOUS
    <2>1. \A s \in Sessions : OpenMessages(log[s]) = {}
      BY DEF Init, OpenMessages
    <2>2. ctl.pc = "serve"
      BY DEF Init, Controller
    <2>3. QED
      BY <2>1, <2>2 DEF OpenInv, OpenHasTurn
  <1>2. OpenInv => (used["fault"] = 0 => OpenHasTurn)
    BY DEF OpenInv
  <1>3. QED
    BY <1>1, <1>2, OpenStep, HandoffCorrect, PTL DEF Spec

-----------------------------------------------------------------------------
(* The startup pass delivers every resume. *)

\* Only a checkpoint makes a resume live ...
LEMMA LiveStep ==
    ASSUME TypeOK, [Next]_vars, NEW s \in Sessions, ~Checkpoint(s), Live(s)'
    PROVE  Live(s)
  <1> DEFINE q == rows[s]
             new == rows'[s]
  <1>1. q \in Seq(Resume) /\ RowStep(s) /\ LiveResumes(new) # {}
    BY RowEffect DEF TypeOK, Live
  <1>2. ASSUME NEW k, new = [q EXCEPT ![k].drives = @ + 1] PROVE LiveResumes(new) \subseteq LiveResumes(q)
    BY <1>1, <1>2 DEF LiveResumes
  <1>3. new = q \/ Live(s) \/ \E k : new = [q EXCEPT ![k].drives = @ + 1]
    BY <1>1 DEF RowStep
  <1>4. QED
    BY <1>1, <1>2, <1>3 DEF Live

\* ... and taking the oldest leaves none.
LEMMA TakenGone ==
    ASSUME TypeOK, Single, NEW s \in Sessions, Live(s), TakeRow(s)
    PROVE  ~Live(s)'
  <1> DEFINE q == rows[s]
             k == Oldest(q)
             new == rows'[s]
  <1>1. q \in Seq(Resume) /\ k \in LiveResumes(q) /\ \A i, j \in LiveResumes(q) : i = j
    BY OldestLive DEF TypeOK, Live, Single
  <1>2. new = [q EXCEPT ![k].taken = TRUE]
    BY DEF TakeRow, TypeOK
  <1> HIDE DEF k
  <1>3. DOMAIN new = DOMAIN q /\ new[k].taken /\ \A i \in DOMAIN q : i # k => new[i] = q[i]
    <2>1. k \in DOMAIN q /\ q[k] \in Resume
      BY <1>1 DEF LiveResumes
    <2>2. new[k] = [q[k] EXCEPT !.taken = TRUE]
      BY <1>2, <2>1
    <2>3. new[k].taken
      BY <2>1, <2>2 DEF Resume
    <2>4. QED
      BY <1>2, <2>3
  <1> HIDE DEF new, q
  <1>4. LiveResumes(new) = {}
    BY <1>1, <1>3 DEF LiveResumes
  <1>5. QED
    BY <1>4 DEF Live, new

\* A live resume the pass has yet to come to, or is working on.
Pending(s) == s \in ctl.todo \/ (ctl.session = s /\ ctl.pc \in {"read", "ack", "stale"})

\* No store call failed and no main actor woke.
Quiet == used["fault"] = 0 /\ used["main"] = 0

\* Until the doors are open nobody but the driver has a turn of a session with a live
\* resume, and so the pass skips none of them.
DeliverInv ==
    Quiet /\ ctl.boot =>
        /\ ctl.pc \in Listed => \A s \in Sessions : Live(s) => Pending(s)
        /\ \A s \in Roots : Active(s) /\ Live(s) => s = ctl.session /\ ctl.pc \in {"read", "ack"}

LEMMA DeliverStep == HandoffInv /\ Single /\ DeliverInv /\ [Next]_vars => DeliverInv'
  <1> SUFFICES ASSUME HandoffInv, Single, DeliverInv, [Next]_vars, Quiet', ctl'.boot
               PROVE  /\ ctl'.pc \in Listed => \A s \in Sessions : Live(s)' => Pending(s)'
                      /\ \A s \in Roots : Active(s)' /\ Live(s)' =>
                             s = ctl'.session /\ ctl'.pc \in {"read", "ack"}
    BY DEF DeliverInv
  <1>a. TypeOK /\ GateInv /\ ProcInv /\ RootInv /\ ctl \in Ctl /\ turn \in [Sessions -> Turn]
    BY DEF HandoffInv, TypeOK
  <1>b. Quiet /\ ~Spend("fault") /\ ~Spend("main")
    BY <1>a, UsedGrows DEF Quiet, Kinds
  <1>c. CtlStep
    BY <1>a, CtlEffect
  <1>d. ~DriverFault
    BY <1>b DEF DriverFault
  <1>1. CASE Boot \/ RecoverRuns \/ \E u \in Sessions : RecoverTurn(u)
    <2>1. ctl'.pc \in {"recover", "lift"} /\ ctl.pc \in {"down", "recover"} /\ UNCHANGED turn
      BY <1>a, <1>1 DEF Boot, RecoverRuns, RecoverTurn, Abort, Ctl
    <2>2. \A s \in Sessions : ~Active(s)'
      BY <1>a, <2>1 DEF ProcInv, Up, Active
    <2>3. QED
      BY <2>1, <2>2 DEF Listed, RowPcs, Sessions
  <1>2. ASSUME ~(Boot \/ RecoverRuns \/ \E u \in Sessions : RecoverTurn(u)) PROVE ctl.boot
    <2>1. CASE UNCHANGED ctl
      BY <2>1
    <2>2. CASE ListResumes /\ ctl' = [ctl EXCEPT !.pc = "next", !.todo = {s \in Sessions : Live(s)}]
      BY <1>a, <2>2 DEF Ctl
    <2>3. CASE \/ ReadTail \/ AckStale \/ Ack \/ StartContinuation
               \/ \E u \in Sessions : Reserve(u) \/ Skip(u)
      BY <1>a, <2>3 DEF ReadTail, AckStale, Ack, StartContinuation, Reserve, Skip, CtlGoto, Ctl
    <2>4. QED
      BY <1>2, <1>c, <1>d, <2>1, <2>2, <2>3 DEF CtlStep
  <1>3. CASE ctl.boot /\ ~(Boot \/ RecoverRuns \/ \E u \in Sessions : RecoverTurn(u))
    <2>a. /\ ctl.pc \in Listed => \A s \in Sessions : Live(s) => Pending(s)
          /\ \A s \in Roots : Active(s) /\ Live(s) => s = ctl.session /\ ctl.pc \in {"read", "ack"}
      BY <1>3, <1>b DEF DeliverInv
    <2>b. \A s \in Sessions : Live(s)' => Live(s)
      BY <1>3, <1>a, LiveStep DEF ProcInv, Checkpoint
    <2>c. ~holding /\ ~draining
      BY <1>3, <1>a DEF GateInv, PassPcs
    <2>d. \A s \in Sessions : Live(s) => s \in Roots
      <3> SUFFICES ASSUME NEW s \in Members PROVE ~Live(s)
        BY DEF Sessions
      <3>1. rows[s] = <<>>
        BY <1>a DEF RootInv
      <3>2. QED
        BY <3>1 DEF Live, LiveResumes
    <2>e. ASSUME NEW s \in Sessions, s = ctl.session, Ack \/ AckStale PROVE ~Live(s)'
      <3>1. CASE Live(s)
        BY <1>a, <2>e, <3>1, TakenGone DEF Ack, AckStale
      <3>2. CASE ~Live(s)
        BY <2>b, <3>2
      <3>3. QED
        BY <3>1, <3>2
    <2>1. ASSUME ctl'.pc \in Listed, NEW s \in Sessions, Live(s)' PROVE Pending(s)'
      <3>1. CASE UNCHANGED ctl
        BY <2>1, <2>a, <2>b, <3>1 DEF Pending
      <3>2. CASE ListResumes /\ ctl' = [ctl EXCEPT !.pc = "next", !.todo = {u \in Sessions : Live(u)}]
        BY <1>a, <2>1, <2>b, <3>2 DEF Pending, Ctl
      <3>3. CASE ReadTail
        BY <1>a, <2>1, <2>a, <2>b, <3>3 DEF ReadTail, CtlGoto, Ctl, Pending, Listed, RowPcs
      <3>4. CASE Ack \/ AckStale
        <4>1. s # ctl.session /\ ctl.pc \in Listed /\ ctl'.todo = ctl.todo
          BY <1>a, <2>1, <2>e, <3>4 DEF Ack, AckStale, CtlGoto, Ctl, Listed, RowPcs
        <4>2. QED
          BY <2>1, <2>a, <2>b, <4>1 DEF Pending
      <3>5. CASE StartContinuation
        <4>1. ctl.pc = "start" /\ ctl.pc \in Listed /\ ctl'.todo = ctl.todo
          BY <1>a, <3>5 DEF StartContinuation, Ctl, Listed, RowPcs
        <4>2. QED
          BY <2>1, <2>a, <2>b, <4>1 DEF Pending
      <3>6. ASSUME NEW u \in Sessions, Reserve(u) \/ Skip(u) PROVE Pending(s)'
        <4>1. ctl.pc = "next" /\ ctl.pc \in Listed /\ ctl'.todo = ctl.todo \ {u}
          BY <1>a, <3>6 DEF Reserve, Skip, Ctl, Listed
        <4>2. s \in ctl.todo /\ Live(s) /\ s \in Roots
          BY <2>1, <2>a, <2>b, <2>d, <4>1 DEF Pending
        <4>3. CASE Reserve(u)
          <5>1. ctl'.session = u /\ ctl'.pc = "read"
            BY <1>a, <4>3 DEF Reserve, Ctl
          <5>2. QED
            BY <4>1, <4>2, <5>1 DEF Pending
        <4>4. CASE Skip(u)
          <5>1. Active(u)
            BY <2>c, <4>4 DEF Skip, GateOpen
          <5>2. s # u
            BY <2>a, <4>1, <4>2, <5>1
          <5>3. QED
            BY <4>1, <4>2, <5>2 DEF Pending
        <4>5. QED
          BY <3>6, <4>3, <4>4
      <3>7. QED
        BY <1>3, <1>c, <1>d, <2>1, <3>1, <3>2, <3>3, <3>4, <3>5, <3>6 DEF CtlStep
    <2>2. ASSUME NEW s \in Roots, Active(s)', Live(s)'
          PROVE  s = ctl'.session /\ ctl'.pc \in {"read", "ack"}
      <3>a. s \in Sessions /\ Live(s)
        BY <2>2, <2>b DEF Sessions
      <3>1. CASE Active(s)
        <4>1. s = ctl.session /\ ctl.pc \in {"read", "ack"}
          BY <2>2, <2>a, <3>a, <3>1
        <4>2. ~Ack
          BY <2>2, <2>e, <3>a, <4>1
        <4>3. CASE UNCHANGED ctl
          BY <4>1, <4>3
        <4>4. CASE ReadTail
          <5>1. Candidate(s)
            <6> SUFFICES ASSUME ~Candidate(s) PROVE FALSE
              OBVIOUS
            <6>1. turn' = [turn EXCEPT ![s] = NoTurn]
              BY <4>1, <4>4 DEF ReadTail, DropLease
            <6>2. QED
              BY <1>a, <2>2, <3>a, <6>1 DEF Active, NoTurn
          <5>2. QED
            BY <1>a, <4>1, <4>4, <5>1 DEF ReadTail, CtlGoto, Ctl
        <4>5. ~(AckStale \/ StartContinuation \/ ListResumes \/ \E u \in Sessions : Reserve(u) \/ Skip(u))
          BY <4>1 DEF AckStale, StartContinuation, ListResumes, Reserve, Skip
        <4>6. ctl.pc \in Listed
          BY <4>1 DEF Listed, RowPcs
        <4>7. QED
          BY <1>3, <1>c, <1>d, <4>2, <4>3, <4>4, <4>5, <4>6 DEF CtlStep
      <3>2. CASE ~Active(s)
        <4>1. Move(s) /\ turn[s].pc = "idle" /\ turn'[s].pc # "idle"
          BY <1>a, <2>2, <3>a, <3>2, MoveEffect DEF Active
        <4>2. ~ClaimTurn(s)
          BY <1>3, <1>a DEF ClaimTurn, ProcInv
        <4>3. ~Wake(s)
          BY <1>b, <2>2 DEF Wake
        <4>4. ~(StartContinuation /\ s = ctl.session)
          BY <1>a, <4>1 DEF StartContinuation, ProcInv, LeasePcs
        <4>5. Reserve(s)
          BY <4>1, <4>2, <4>3, <4>4 DEF Move, Reset, Onward
        <4>6. QED
          BY <1>a, <4>5 DEF Reserve, Ctl
      <3>3. QED
        BY <3>1, <3>2
    <2>3. QED
      BY <2>1, <2>2
  <1>4. QED
    BY <1>1, <1>2, <1>3

\* If no store call fails and no main actor wakes, a startup pass that comes to its end
\* leaves no live resume behind: none is skipped, whatever crashed or timed out before
\* it, and whichever members woke while it ran.
THEOREM StartupDrains == Spec /\ []Quiet => StartupDelivers
  <1>1. Init => DeliverInv
    BY DEF Init, DeliverInv, Controller
  <1>2. Spec => []DeliverInv
    BY <1>1, DeliverStep, HandoffCorrect, SingleCorrect, PTL DEF Spec
  <1>3. DeliverInv /\ Quiet => [ctl.boot /\ ctl.pc = "next" /\ ctl.todo = {} /\ ctl'.pc = "serve"
                                  => \A s \in Sessions : ~Live(s)]_vars
    BY DEF DeliverInv, Listed, Pending
  <1>4. QED
    BY <1>2, <1>3, PTL DEF StartupDelivers

==============================================================================
