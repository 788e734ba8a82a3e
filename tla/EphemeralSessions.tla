--------------------------- MODULE EphemeralSessions ---------------------------
(***************************************************************************)
(* Ephemeral sessions (crates/hya-server/src/ephemeral.rs): the reaper     *)
(* drops a session that was created before the user asked for one, once it *)
(* is unused and no client watches it, next to the handlers that create,   *)
(* watch, use and delete sessions.                                         *)
(*                                                                         *)
(* A read of a session answers with the fold of its log at one moment (see *)
(* EventLog), so the log is kept as that fold and its last sequence        *)
(* number.  Steps are the await points of the handlers and of the reaper.  *)
(***************************************************************************)
EXTENDS Naturals, FiniteSets

CONSTANTS
    Sessions,       \* session ids
    Parent(_),      \* session -> its parent, or NoSession
    NoSession,      \* not a session
    Clients,        \* each has at most one request and one stream open
    Tasks,          \* bound: checks that are queued or run at a time
    NoOne,          \* holder of a free admission slot
    Turn,           \* holder of a slot: a turn that was spawned
    MaxSeq,         \* bound: events written
    MaxGen,         \* bound: times a last watcher leaves
    MaxFaults       \* bound: failed store calls, dropped requests and restarts

ASSUME EphemeralAssumption ==
    /\ NoSession \notin Sessions
    /\ \A s \in Sessions : Parent(s) \in Sessions \cup {NoSession}
    /\ NoOne \notin Clients \cup Tasks \cup {Turn}
    /\ Turn \notin Clients \cup Tasks
    /\ Clients \cap Tasks = {}
    /\ MaxSeq \in Nat /\ MaxGen \in Nat /\ MaxFaults \in Nat

VARIABLES
    seq,        \* sequence numbers given out
    sess,       \* session -> fold of its log
    born,       \* session ids in use
    removed,    \* ghost: sessions a client deleted
    gen,        \* session -> Watch.generation, 0 without an entry
    gens,       \* SessionWatchers.generations
    stream,     \* client -> session it watches, or NoSession
    slot,       \* session -> holder of its admission slot (RunRegistry)
    call,       \* client -> its request: where it stands, and its session
    check,      \* task -> a Check that waits, or the reap that runs it
    sweep,      \* sessions the startup sweep still has to look at
    lapse,      \* ghost: a check was given up since the start
    faults      \* of MaxFaults

log == <<seq, sess, born, removed>>
watches == <<gen, gens, stream>>
faultVars == <<lapse, faults>>
vars == <<log, watches, slot, call, check, sweep, faultVars>>

-----------------------------------------------------------------------------
(* Data. *)

\* last: Projection.last_seq, zero without rows.  used: it has a message or a
\* title.  cleared (ghost): a use, or a fork, took the mark away.
Gone == [last |-> 0, ephemeral |-> FALSE, used |-> FALSE, cleared |-> FALSE]
Live(s) == sess[s].last # 0

Idle == [at |-> "idle", session |-> NoSession]
NoCheck == [at |-> "idle", session |-> NoSession, gen |-> 0, ephemeral |-> FALSE, last |-> 0]
Due(s, g) == [NoCheck EXCEPT !.at = "wait", !.session = s, !.gen = g]

Watched(s) == \E c \in Clients : stream[c] = s

\* delete_session_where takes the session and its descendants (two levels here).
Tree(s) == {t \in Sessions : t = s \/ Parent(t) = s}

\* Projection::apply of the events that touch the mark.
Folded(f, event) ==
    CASE event = "created" -> f
      [] event = "marked"  -> [f EXCEPT !.ephemeral = TRUE]
      [] event = "setting" -> f
      [] event = "used"    -> [f EXCEPT !.used = TRUE, !.ephemeral = FALSE,
                                        !.cleared = @ \/ f.ephemeral]
      [] event = "kept"    -> [f EXCEPT !.ephemeral = FALSE, !.cleared = @ \/ f.ephemeral]

Emit(s, event) ==
    /\ seq' = seq + 1
    /\ sess' = [sess EXCEPT ![s] = [Folded(@, event) EXCEPT !.last = seq + 1]]

Erased(s) == [t \in Sessions |-> IF t \in Tree(s) THEN Gone ELSE sess[t]]

\* SessionWatchers::schedule.
Schedule(s) ==
    \E t \in Tasks : /\ check[t] = NoCheck
                     /\ check' = [check EXCEPT ![t] = Due(s, gen[s])]

Init ==
    /\ seq = 0
    /\ sess = [s \in Sessions |-> Gone]
    /\ born = {}
    /\ removed = {}
    /\ gen = [s \in Sessions |-> 0]
    /\ gens = 0
    /\ stream = [c \in Clients |-> NoSession]
    /\ slot = [s \in Sessions |-> NoOne]
    /\ call = [c \in Clients |-> Idle]
    /\ check = [t \in Tasks |-> NoCheck]
    /\ sweep = {}
    /\ lapse = FALSE
    /\ faults = 0

-----------------------------------------------------------------------------
(* create_session. *)

Goes(c, at, s) == call' = [call EXCEPT ![c] = [at |-> at, session |-> s]]
Ends(c) == call' = [call EXCEPT ![c] = Idle]
At(c, at) == call[c].at = at

\* Within MaxSeq there is room for n more events after those of the requests that
\* are under way.
Room(n) == seq + Cardinality({c \in Clients : ~At(c, "idle")}) + n <= MaxSeq

\* create_with_id: a fresh id, SessionCreated, and then the session's hooks.
Create(c, s, ephemeral) ==
    /\ At(c, "idle")
    /\ Room(IF ephemeral THEN 2 ELSE 1)
    /\ s \notin born
    /\ Parent(s) # NoSession => Live(Parent(s))
    /\ Emit(s, "created")
    /\ born' = born \cup {s}
    /\ IF ephemeral /\ Parent(s) = NoSession THEN Goes(c, "bind", s) ELSE UNCHANGED call
    /\ UNCHANGED <<removed, watches, slot, check, sweep, faultVars>>

\* set_session_ephemeral(true) reads the session ...
MarkRead(c) ==
    LET s == call[c].session
    IN  /\ At(c, "bind")
        /\ \/ /\ ~Live(s)
              /\ Ends(c)
           \/ /\ Live(s)
              /\ Goes(c, IF sess[s].used \/ sess[s].ephemeral THEN "marked" ELSE "mark", s)
        /\ UNCHANGED <<log, watches, slot, check, sweep, faultVars>>

\* ... and appends the mark after it.
Mark(c) ==
    /\ At(c, "mark")
    /\ Emit(call[c].session, "marked")
    /\ Goes(c, "marked", call[c].session)
    /\ UNCHANGED <<born, removed, watches, slot, check, sweep, faultVars>>

Unclaimed(c) ==
    /\ At(c, "marked")
    /\ Schedule(call[c].session)
    /\ Ends(c)
    /\ UNCHANGED <<log, watches, slot, sweep, faultVars>>

-----------------------------------------------------------------------------
(* Streams. *)

\* stream_session and frame_stream: the session existed when it was looked up.
OpenStream(c, s) ==
    /\ stream[c] = NoSession
    /\ s \in born
    /\ gens < MaxGen
    /\ stream' = [stream EXCEPT ![c] = s]
    /\ UNCHANGED <<log, gen, gens, slot, call, check, sweep, faultVars>>

\* WatchGuard::drop, SessionWatchers::release.
CloseStream(c) ==
    LET s == stream[c]
    IN  /\ s # NoSession
        /\ stream' = [stream EXCEPT ![c] = NoSession]
        /\ IF \E d \in Clients \ {c} : stream[d] = s
           THEN UNCHANGED <<gen, gens, check>>
           ELSE /\ gens' = gens + 1
                /\ gen' = [gen EXCEPT ![s] = gens + 1]
                /\ \E t \in Tasks : /\ check[t] = NoCheck
                                    /\ check' = [check EXCEPT ![t] = Due(s, gens + 1)]
        /\ UNCHANGED <<log, slot, call, sweep, faultVars>>

-----------------------------------------------------------------------------
(* Uses. *)

\* create_turn: the admission slot is free, the session existed.
StartRun(c, s) ==
    /\ At(c, "idle")
    /\ Room(1)
    /\ s \in born
    /\ slot[s] = NoOne
    /\ slot' = [slot EXCEPT ![s] = c]
    /\ Goes(c, "exists", s)
    /\ UNCHANGED <<log, watches, check, sweep, faultVars>>

\* MUTANT: a prompt relies on the look it took before the slot was its own.
UnarchiveForTurn_unchecked(c) ==
    /\ At(c, "exists")
    /\ Goes(c, "admit", call[c].session)
    /\ UNCHANGED <<log, watches, slot, check, sweep, faultVars>>

\* unarchive_for_turn reads the session under the slot.
UnarchiveForTurn(c) ==
    LET s == call[c].session
    IN  /\ At(c, "exists")
        /\ \/ /\ Live(s)
              /\ Goes(c, "admit", s)
              /\ UNCHANGED slot
           \/ /\ ~Live(s)
              /\ Ends(c)
              /\ slot' = [slot EXCEPT ![s] = NoOne]
        /\ UNCHANGED <<log, watches, check, sweep, faultVars>>

\* admit_user_prompt, then spawn_turn_run: the turn keeps the slot.
Admit(c) ==
    LET s == call[c].session
    IN  /\ At(c, "admit")
        /\ Emit(s, "used")
        /\ slot' = [slot EXCEPT ![s] = Turn]
        /\ Ends(c)
        /\ UNCHANGED <<born, removed, watches, check, sweep, faultVars>>

TurnEnds(s) ==
    /\ slot[s] = Turn
    /\ slot' = [slot EXCEPT ![s] = NoOne]
    /\ UNCHANGED <<log, watches, call, check, sweep, faultVars>>

\* update_session (a title, or a setting that is no use) and fork_session, which
\* keeps an ephemeral source: each looks first and writes later, without the slot.
Look(c, s, event) ==
    /\ At(c, "idle")
    /\ Room(1)
    /\ Live(s)
    /\ event = "kept" => sess[s].ephemeral
    /\ Goes(c, event, s)
    /\ UNCHANGED <<log, watches, slot, check, sweep, faultVars>>

Write(c) ==
    /\ call[c].at \in {"used", "setting", "kept"}
    /\ Emit(call[c].session, call[c].at)
    /\ Ends(c)
    /\ UNCHANGED <<born, removed, watches, slot, check, sweep, faultVars>>

\* delete_session: asks nobody.
DeleteSession(s) ==
    /\ Live(s)
    /\ sess' = Erased(s)
    /\ removed' = removed \cup Tree(s)
    /\ UNCHANGED <<seq, born, watches, slot, call, check, sweep, faultVars>>

\* The client's connection goes away: its handler is dropped where it waits, and
\* with it the slot it holds.
Disconnect(c) ==
    LET s == call[c].session
    IN  /\ ~At(c, "idle")
        /\ faults < MaxFaults
        /\ faults' = faults + 1
        /\ Ends(c)
        /\ slot' = [t \in Sessions |-> IF slot[t] = c THEN NoOne ELSE slot[t]]
        /\ lapse' = (lapse \/ At(c, "marked"))
        /\ UNCHANGED <<log, watches, check, sweep>>

-----------------------------------------------------------------------------
(* The reaper: reap. *)

TaskAt(t, at) == check[t].at = at
Becomes(t, rec) == check' = [check EXCEPT ![t] = rec]
TaskEnds(t) == Becomes(t, NoCheck)

\* SessionWatchers::current.
Current(t) == LET s == check[t].session IN ~Watched(s) /\ gen[s] = check[t].gen

\* SessionWatchers::forget.
Forget(t) == gen' = IF Current(t) THEN [gen EXCEPT ![check[t].session] = 0] ELSE gen

\* The grace is over.
Fire(t) ==
    /\ TaskAt(t, "wait")
    /\ IF Current(t) THEN Becomes(t, [check[t] EXCEPT !.at = "look"]) ELSE TaskEnds(t)
    /\ UNCHANGED <<log, watches, slot, call, sweep, faultVars>>

\* still_ephemeral: its read.
StillEphemeral(t) ==
    /\ TaskAt(t, "look")
    /\ Becomes(t, [check[t] EXCEPT !.at = "looked",
                                   !.ephemeral = sess[check[t].session].ephemeral])
    /\ UNCHANGED <<log, watches, slot, call, sweep, faultVars>>

\* It is used, or gone: the bookkeeping goes.  When it was marked after the read,
\* its creation check may be void from here on.
NotEphemeral(t) ==
    /\ TaskAt(t, "looked")
    /\ ~check[t].ephemeral
    /\ Forget(t)
    /\ TaskEnds(t)
    /\ lapse' = (lapse \/ sess[check[t].session].ephemeral)
    /\ UNCHANGED <<log, gens, stream, slot, call, sweep, faults>>

\* reserve_quiet.
Reserve(t) ==
    LET s == check[t].session
    IN  /\ TaskAt(t, "looked")
        /\ check[t].ephemeral
        /\ slot[s] = NoOne
        /\ slot' = [slot EXCEPT ![s] = t]
        /\ Becomes(t, [check[t] EXCEPT !.at = "reread"])
        /\ UNCHANGED <<log, watches, call, sweep, faultVars>>

\* MUTANT: a check that meets a running turn is not taken up again.
Busy_dropped(t) ==
    /\ TaskAt(t, "looked")
    /\ check[t].ephemeral
    /\ slot[check[t].session] # NoOne
    /\ TaskEnds(t)
    /\ UNCHANGED <<log, watches, slot, call, sweep, faultVars>>

Busy(t) ==
    LET s == check[t].session
    IN  /\ TaskAt(t, "looked")
        /\ check[t].ephemeral
        /\ slot[s] # NoOne
        /\ Becomes(t, Due(s, gen[s]))
        /\ UNCHANGED <<log, watches, slot, call, sweep, faultVars>>

ReRead(t) ==
    LET f == sess[check[t].session]
    IN  /\ TaskAt(t, "reread")
        /\ Becomes(t, [check[t] EXCEPT !.at = "reviewed", !.ephemeral = f.ephemeral,
                                       !.last = f.last])
        /\ UNCHANGED <<log, watches, slot, call, sweep, faultVars>>

Released(t) == slot' = [slot EXCEPT ![check[t].session] = NoOne]

Review(t) ==
    /\ TaskAt(t, "reviewed")
    /\ IF check[t].ephemeral /\ Current(t)
       THEN /\ Becomes(t, [check[t] EXCEPT !.at = "delete"])
            /\ UNCHANGED slot
       ELSE TaskEnds(t) /\ Released(t)
    /\ UNCHANGED <<log, watches, call, sweep, faultVars>>

\* MUTANT: the log is deleted whatever was written since the read.
StillEndsAt_always(s, last) == Live(s)

\* The condition of delete_session_at.
StillEndsAt(s, last) == Live(s) /\ sess[s].last = last

Drop(t) ==
    LET s == check[t].session
    IN  /\ TaskAt(t, "delete")
        /\ StillEndsAt(s, check[t].last)
        /\ sess' = Erased(s)
        /\ Becomes(t, [check[t] EXCEPT !.at = "dropped"])
        /\ UNCHANGED <<seq, born, removed, watches, slot, call, sweep, faultVars>>

Dropped(t) ==
    /\ TaskAt(t, "dropped")
    /\ Forget(t)
    /\ TaskEnds(t)
    /\ Released(t)
    /\ UNCHANGED <<log, gens, stream, call, sweep, faultVars>>

\* The log grew since the read: check again.
Grew(t) ==
    LET s == check[t].session
    IN  /\ TaskAt(t, "delete")
        /\ ~StillEndsAt(s, check[t].last)
        /\ Becomes(t, Due(s, gen[s]))
        /\ Released(t)
        /\ UNCHANGED <<log, watches, call, sweep, faultVars>>

\* A store call of the reaper fails: the first read counts as "not ephemeral", the
\* others end the check.
ReapFails(t) ==
    /\ faults < MaxFaults
    /\ check[t].at \in {"look", "reread", "delete"}
    /\ faults' = faults + 1
    /\ lapse' = TRUE
    /\ IF TaskAt(t, "look") THEN Forget(t) /\ UNCHANGED slot
                            ELSE Released(t) /\ UNCHANGED gen
    /\ TaskEnds(t)
    /\ UNCHANGED <<log, gens, stream, call, sweep>>

-----------------------------------------------------------------------------
(* Startup. *)

\* The server stops or dies; the next one lists the sessions it finds.
Restart ==
    /\ faults < MaxFaults
    /\ faults' = faults + 1
    /\ gen' = [s \in Sessions |-> 0]
    /\ gens' = 0
    /\ stream' = [c \in Clients |-> NoSession]
    /\ slot' = [s \in Sessions |-> NoOne]
    /\ call' = [c \in Clients |-> Idle]
    /\ check' = [t \in Tasks |-> NoCheck]
    /\ sweep' = {s \in Sessions : Live(s)}
    /\ lapse' = FALSE
    /\ UNCHANGED log

\* sweep: one session at a time.
Sweep(s) ==
    /\ s \in sweep
    /\ sweep' = sweep \ {s}
    /\ IF sess[s].ephemeral THEN Schedule(s) ELSE UNCHANGED check
    /\ UNCHANGED <<log, watches, slot, call, faultVars>>

Handler(c) ==
    \/ MarkRead(c) \/ Mark(c) \/ Unclaimed(c)
    \/ UnarchiveForTurn(c) \/ Admit(c) \/ Write(c)

Reap(t) ==
    \/ Fire(t) \/ StillEphemeral(t) \/ NotEphemeral(t) \/ Reserve(t) \/ Busy(t)
    \/ ReRead(t) \/ Review(t) \/ Drop(t) \/ Dropped(t) \/ Grew(t)

Next ==
    \/ \E c \in Clients, s \in Sessions :
         \/ \E ephemeral \in BOOLEAN : Create(c, s, ephemeral)
         \/ OpenStream(c, s)
         \/ StartRun(c, s)
         \/ \E event \in {"used", "setting", "kept"} : Look(c, s, event)
    \/ \E c \in Clients : Handler(c) \/ CloseStream(c) \/ Disconnect(c)
    \/ \E s \in Sessions : TurnEnds(s) \/ DeleteSession(s) \/ Sweep(s)
    \/ \E t \in Tasks : Reap(t) \/ ReapFails(t)
    \/ Restart

Spec == Init /\ [][Next]_vars

\* Tasks, handlers and turns go on; what clients do is theirs.
Fairness ==
    /\ \A t \in Tasks : WF_vars(Reap(t))
    /\ \A c \in Clients : WF_vars(Handler(c))
    /\ \A s \in Sessions : WF_vars(TurnEnds(s)) /\ WF_vars(Sweep(s))

FairSpec == Spec /\ Fairness

-----------------------------------------------------------------------------
(* Properties. *)

Root(s) == Parent(s) = NoSession

\* A step of the reaper that takes the log of s.
DropOf(s) == \E t \in Tasks : Drop(t) /\ s \in Tree(check[t].session)

\* The mark goes for good: a root session that a message, a title or a fork has
\* cleared is never deleted by the server, whatever the reaper had read before.
ClearedIsKept == [][\A s \in Sessions : Root(s) /\ sess[s].cleared => ~DropOf(s)]_vars

\* A prompt that was admitted is appended to the session it was sent to: the
\* reaper and a prompt never work on one root session at once, so no prompt starts
\* a new log after the drop.
PromptLands ==
    [][\A c \in Clients : LET s == call[c].session IN
         Admit(c) /\ Root(s) => Live(s) \/ s \in removed]_vars

\* An unused session nobody watches does not stay: the check that drops it
\* survives busy slots, writes, voided checks and restarts.
Leftover(s) == sess[s].ephemeral /\ ~Watched(s) /\ ~lapse
UnusedIsDropped == \A s \in Sessions : Leftover(s) ~> ~Leftover(s)

TypeOK ==
    /\ seq \in Nat
    /\ sess \in [Sessions -> [last : Nat, ephemeral : BOOLEAN, used : BOOLEAN, cleared : BOOLEAN]]
    /\ born \subseteq Sessions /\ removed \subseteq Sessions /\ sweep \subseteq Sessions
    /\ gen \in [Sessions -> Nat] /\ gens \in Nat
    /\ stream \in [Clients -> Sessions \cup {NoSession}]
    /\ slot \in [Sessions -> Clients \cup Tasks \cup {NoOne, Turn}]
    /\ call \in [Clients -> [at : {"idle", "bind", "mark", "marked", "exists", "admit", "used",
                                   "setting", "kept"},
                             session : Sessions \cup {NoSession}]]
    /\ check \in [Tasks -> [at : {"idle", "wait", "look", "looked", "reread", "reviewed",
                                  "delete", "dropped"},
                            session : Sessions \cup {NoSession}, gen : Nat,
                            ephemeral : BOOLEAN, last : Nat]]
    /\ lapse \in BOOLEAN /\ faults \in Nat
===============================================================================
