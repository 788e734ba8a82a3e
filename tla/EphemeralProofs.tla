---------------------------- MODULE EphemeralProofs ----------------------------
(***************************************************************************)
(* Proofs about EphemeralSessions, for any number of sessions, clients,    *)
(* checks, streams and restarts: what the mark, the sequence number of the *)
(* re-read and the admission slot are worth together.                      *)
(***************************************************************************)
EXTENDS EphemeralSessions, TLAPS

\* A cleared mark is away, sequence numbers grow, and an id that is not in use has
\* no log.
LogInv ==
    \A s \in Sessions :
      /\ sess[s].last <= seq
      /\ sess[s].cleared => ~sess[s].ephemeral
      /\ s \notin born => sess[s] = Gone

\* A request works on an id that is in use.  The one that will mark a session is
\* its creator, and until then nothing was there to clear.
CallInv ==
    \A c \in Clients :
      /\ ~At(c, "idle") => call[c].session \in Sessions \cap born
      /\ call[c].at \in {"bind", "mark"} =>
           /\ ~sess[call[c].session].ephemeral
           /\ ~sess[call[c].session].cleared
           /\ \A d \in Clients : call[d].at \in {"bind", "mark"} =>
                d = c \/ call[d].session # call[c].session

\* What the re-read saw still holds while the log ends where it ended.
CheckInv ==
    \A t \in Tasks :
      /\ ~TaskAt(t, "idle") => check[t].session \in Sessions
      /\ check[t].at \in {"reviewed", "delete"} =>
           /\ check[t].last <= seq
           /\ check[t].ephemeral /\ StillEndsAt(check[t].session, check[t].last) =>
                sess[check[t].session].ephemeral
      /\ TaskAt(t, "delete") => check[t].ephemeral

\* The admission slot is held by the prompt, or by the reap, that works under it.
SlotInv ==
    /\ \A c \in Clients : call[c].at \in {"exists", "admit"} => slot[call[c].session] = c
    /\ \A t \in Tasks : check[t].at \in {"reread", "reviewed", "delete", "dropped"} =>
         slot[check[t].session] = t

\* A prompt that found its session under the slot still finds it.
AdmitInv ==
    \A c \in Clients : At(c, "admit") /\ Root(call[c].session) =>
      Live(call[c].session) \/ call[c].session \in removed

Inv == TypeOK /\ LogInv /\ CallInv /\ CheckInv /\ SlotInv /\ AdmitInv

-----------------------------------------------------------------------------
(* Type correctness. *)

Events == {"created", "marked", "setting", "used", "kept"}

LEMMA FoldTyped ==
  ASSUME TypeOK, NEW s \in Sessions, NEW e \in Events, Emit(s, e)
  PROVE  /\ seq' = seq + 1 /\ seq' \in Nat
         /\ sess' \in [Sessions -> [last : Nat, ephemeral : BOOLEAN, used : BOOLEAN,
                                    cleared : BOOLEAN]]
         /\ \A t \in Sessions \ {s} : sess'[t] = sess[t]
         /\ sess'[s].last = seq + 1
         /\ e # "marked" => (sess'[s].ephemeral => sess[s].ephemeral)
         /\ e = "marked" => sess'[s].cleared = sess[s].cleared
         /\ sess'[s].cleared => sess[s].cleared \/ (sess[s].ephemeral /\ ~sess'[s].ephemeral)
<1> DEFINE Rec == [last : Nat, ephemeral : BOOLEAN, used : BOOLEAN, cleared : BOOLEAN]
           f == sess[s]
<1>1. f \in Rec /\ seq \in Nat
  BY DEF TypeOK
<1> HIDE DEF f
<1>2. /\ Folded(f, e) \in Rec
      /\ e # "marked" => (Folded(f, e).ephemeral => f.ephemeral)
      /\ e = "marked" => Folded(f, e).cleared = f.cleared
      /\ Folded(f, e).cleared => f.cleared \/ (f.ephemeral /\ ~Folded(f, e).ephemeral)
  <2>1. CASE e = "created" BY <1>1, <2>1 DEF Folded
  <2>2. CASE e = "marked" BY <1>1, <2>2 DEF Folded
  <2>3. CASE e = "setting" BY <1>1, <2>3 DEF Folded
  <2>4. CASE e = "used" BY <1>1, <2>4 DEF Folded
  <2>5. CASE e = "kept" BY <1>1, <2>5 DEF Folded
  <2> QED BY <2>1, <2>2, <2>3, <2>4, <2>5 DEF Events
<1> DEFINE g == Folded(f, e)
           h == [g EXCEPT !.last = seq + 1]
<1>3. g \in Rec /\ h \in Rec /\ h.last = seq + 1 /\ h.ephemeral = g.ephemeral
      /\ h.cleared = g.cleared
  BY <1>1, <1>2
<1>4. sess' = [sess EXCEPT ![s] = h] /\ seq' = seq + 1
  BY DEF Emit, f
<1>5. sess'[s] = h /\ \A t \in Sessions \ {s} : sess'[t] = sess[t]
  BY <1>4 DEF TypeOK
<1>6. sess' \in [Sessions -> Rec]
  BY <1>3, <1>4 DEF TypeOK
<1> HIDE DEF h
<1> QED BY <1>1, <1>2, <1>3, <1>4, <1>5, <1>6 DEF f

LEMMA ErasedTyped ==
  ASSUME TypeOK, NEW s
  PROVE  Erased(s) \in [Sessions -> [last : Nat, ephemeral : BOOLEAN, used : BOOLEAN,
                                     cleared : BOOLEAN]]
BY DEF TypeOK, Erased, Gone

TaskRec ==
    [at : {"idle", "wait", "look", "looked", "reread", "reviewed", "delete", "dropped"},
     session : Sessions \cup {NoSession}, gen : Nat, ephemeral : BOOLEAN, last : Nat]

LEMMA DueTyped ==
  ASSUME NEW s \in Sessions, NEW g \in Nat
  PROVE  Due(s, g) \in TaskRec /\ Due(s, g).at = "wait" /\ Due(s, g).session = s
BY DEF Due, NoCheck, TaskRec

LEMMA NoCheckTyped == NoCheck \in TaskRec /\ NoCheck.at = "idle"
BY DEF NoCheck, TaskRec

\* What a step of the reaper leaves of its check.
LEMMA TaskMoves ==
  ASSUME Inv, NEW t \in Tasks, Reap(t) \/ ReapFails(t)
  PROVE  /\ check' \in [Tasks -> TaskRec]
         /\ \A u \in Tasks \ {t} : check'[u] = check[u]
         /\ check[t].session \in Sessions
         /\ check'[t].at # "idle" => check'[t].session = check[t].session
         /\ check'[t].at \in {"reviewed", "delete"} =>
              \/ ReRead(t)
              \/ Review(t) /\ check[t].ephemeral /\ check'[t].ephemeral
                 /\ check'[t].last = check[t].last
<1> DEFINE k == check[t]
<1>0. /\ k \in TaskRec /\ k.session \in Sessions \cup {NoSession}
      /\ check \in [Tasks -> TaskRec]
      /\ \A s \in Sessions : gen[s] \in Nat
      /\ (k.at # "idle" => k.session \in Sessions)
      /\ \A s \in Sessions : sess[s].ephemeral \in BOOLEAN /\ sess[s].last \in Nat
  BY DEF Inv, TypeOK, TaskRec, CheckInv, TaskAt
<1>00. k.session \in Sessions
  BY <1>0 DEF Reap, ReapFails, Fire, StillEphemeral, NotEphemeral, Reserve, Busy, ReRead, Review,
     Drop, Dropped, Grew, TaskAt
<1> HIDE DEF k
<1>1. PICK r \in TaskRec : /\ check' = [check EXCEPT ![t] = r]
                           /\ r.at # "idle" => r.session = k.session
                           /\ r.at \in {"reviewed", "delete"} =>
                                \/ ReRead(t)
                                \/ Review(t) /\ k.ephemeral /\ r.ephemeral /\ r.last = k.last
  <2>1. CASE TaskEnds(t)
    BY <2>1, NoCheckTyped DEF TaskEnds, Becomes
  <2>2. CASE Becomes(t, Due(k.session, gen[k.session]))
    BY <2>2, <1>0, <1>00, DueTyped DEF Becomes
  <2>3. CASE Fire(t)
    <3>1. [k EXCEPT !.at = "look"] \in TaskRec BY <1>0 DEF TaskRec
    <3> QED BY <1>0, <2>1, <2>3, <3>1 DEF Fire, Becomes, k, TaskRec
  <2>4. CASE StillEphemeral(t)
    <3> DEFINE r == [k EXCEPT !.at = "looked", !.ephemeral = sess[k.session].ephemeral]
    <3>1. r \in TaskRec /\ r.at = "looked" /\ r.session = k.session
      BY <1>0, <1>00 DEF TaskRec
    <3>2. check' = [check EXCEPT ![t] = r]
      BY <2>4 DEF StillEphemeral, Becomes, k
    <3> HIDE DEF r
    <3> QED BY <3>1, <3>2
  <2>5. CASE Reserve(t)
    <3>1. [k EXCEPT !.at = "reread"] \in TaskRec BY <1>0 DEF TaskRec
    <3> QED BY <1>0, <2>5, <3>1 DEF Reserve, Becomes, k, TaskRec
  <2>6. CASE ReRead(t)
    <3> DEFINE r == [k EXCEPT !.at = "reviewed", !.ephemeral = sess[k.session].ephemeral,
                              !.last = sess[k.session].last]
    <3>1. r \in TaskRec /\ r.at = "reviewed" /\ r.session = k.session
      BY <1>0, <1>00 DEF TaskRec
    <3>2. check' = [check EXCEPT ![t] = r]
      BY <2>6 DEF ReRead, Becomes, k
    <3> HIDE DEF r
    <3> QED BY <2>6, <3>1, <3>2
  <2>7. CASE Review(t)
    <3> DEFINE r == [k EXCEPT !.at = "delete"]
    <3>1. r \in TaskRec /\ r.session = k.session /\ r.ephemeral = k.ephemeral /\ r.last = k.last
      BY <1>0 DEF TaskRec
    <3>2. CASE k.ephemeral /\ check' = [check EXCEPT ![t] = r]
      <4> HIDE DEF r
      <4> QED BY <2>7, <3>1, <3>2
    <3> QED BY <2>1, <2>7, <3>2 DEF Review, Becomes, k
  <2>8. CASE Drop(t)
    <3>1. [k EXCEPT !.at = "dropped"] \in TaskRec BY <1>0 DEF TaskRec
    <3> QED BY <1>0, <2>8, <3>1 DEF Drop, Becomes, k, TaskRec
  <2> QED
    BY <2>1, <2>2, <2>3, <2>4, <2>5, <2>6, <2>7, <2>8
    DEF Reap, ReapFails, NotEphemeral, Busy, Dropped, Grew, k
<1>2. check'[t] = r /\ check' \in [Tasks -> TaskRec] /\ \A u \in Tasks \ {t} : check'[u] = check[u]
  BY <1>0, <1>1
<1> QED BY <1>1, <1>2, <1>00 DEF k

\* The re-read keeps what the fold says at that moment.
LEMMA ReReadSees ==
  ASSUME Inv, NEW t \in Tasks, ReRead(t)
  PROVE  /\ check'[t].ephemeral = sess[check[t].session].ephemeral
         /\ check'[t].last = sess[check[t].session].last
         /\ check'[t].at = "reviewed"
<1> DEFINE k == check[t]
           r == [k EXCEPT !.at = "reviewed", !.ephemeral = sess[k.session].ephemeral,
                          !.last = sess[k.session].last]
<1>1. k \in TaskRec /\ check \in [Tasks -> TaskRec]
  BY DEF Inv, TypeOK, TaskRec
<1>2. check' = [check EXCEPT ![t] = r]
  BY DEF ReRead, Becomes
<1> HIDE DEF k
<1>3. r.ephemeral = sess[k.session].ephemeral /\ r.last = sess[k.session].last
      /\ r.at = "reviewed"
  BY <1>1 DEF TaskRec
<1> HIDE DEF r
<1> QED BY <1>1, <1>2, <1>3 DEF k

\* A check that is handed to the reaper takes a free place.
LEMMA Scheduled ==
  ASSUME TypeOK, NEW s \in Sessions, NEW g \in Nat,
         NEW t \in Tasks, check[t] = NoCheck, check' = [check EXCEPT ![t] = Due(s, g)]
  PROVE  /\ check' \in [Tasks -> TaskRec]
         /\ \A u \in Tasks : \/ check'[u] = check[u]
                             \/ check'[u].at = "wait" /\ check'[u].session \in Sessions
BY DueTyped DEF TypeOK, TaskRec

CallRec ==
    [at : {"idle", "bind", "mark", "marked", "exists", "admit", "used", "setting", "kept"},
     session : Sessions \cup {NoSession}]

LEMMA TypePreserved == Inv /\ [Next]_vars => TypeOK'
<1> SUFFICES ASSUME Inv, [Next]_vars PROVE TypeOK'
  OBVIOUS
<1>0. TypeOK /\ check \in [Tasks -> TaskRec] /\ call \in [Clients -> CallRec]
      /\ Idle \in CallRec /\ NoCheck \in TaskRec
  BY NoCheckTyped DEF Inv, TypeOK, TaskRec, CallRec, Idle
<1>00. /\ \A c \in Clients : ~At(c, "idle") => call[c].session \in Sessions
       /\ \A t \in Tasks : ~TaskAt(t, "idle") => check[t].session \in Sessions
  BY DEF Inv, CallInv, CheckInv
<1>1. ASSUME NEW c \in Clients, NEW s \in Sessions, NEW ephemeral \in BOOLEAN,
             Create(c, s, ephemeral)
      PROVE  TypeOK'
  <2>1. call' \in [Clients -> CallRec]
    BY <1>0, <1>1 DEF Create, Goes, CallRec
  <2>2. Emit(s, "created")
    BY <1>1 DEF Create
  <2> QED BY <1>0, <1>1, <2>1, <2>2, FoldTyped DEF Create, Events, TypeOK, CallRec, watches,
          faultVars
<1>2. ASSUME NEW c \in Clients, NEW s \in Sessions, OpenStream(c, s)
      PROVE  TypeOK'
  BY <1>0, <1>2 DEF OpenStream, TypeOK, log, faultVars
<1>3. ASSUME NEW c \in Clients, NEW s \in Sessions, StartRun(c, s)
      PROVE  TypeOK'
  BY <1>0, <1>3 DEF StartRun, TypeOK, Goes, log, watches, faultVars
<1>4. ASSUME NEW c \in Clients, NEW s \in Sessions, NEW e \in {"used", "setting", "kept"},
             Look(c, s, e)
      PROVE  TypeOK'
  BY <1>0, <1>4 DEF Look, TypeOK, Goes, log, watches, faultVars
<1>5. ASSUME NEW c \in Clients, MarkRead(c)
      PROVE  TypeOK'
  <2>1. call[c].session \in Sessions
    BY <1>0, <1>00, <1>5 DEF MarkRead, At
  <2>2. call' \in [Clients -> CallRec]
    BY <1>0, <1>5, <2>1 DEF MarkRead, Goes, Ends, CallRec
  <2> QED BY <1>0, <1>5, <2>2 DEF MarkRead, TypeOK, CallRec, log, watches, faultVars
<1>6. ASSUME NEW c \in Clients, Mark(c)
      PROVE  TypeOK'
  <2>1. call[c].session \in Sessions /\ Emit(call[c].session, "marked")
    BY <1>0, <1>00, <1>6 DEF Mark, At
  <2>2. call' \in [Clients -> CallRec]
    BY <1>0, <1>6, <2>1 DEF Mark, Goes, CallRec
  <2> QED BY <1>0, <1>6, <2>1, <2>2, FoldTyped DEF Mark, Events, TypeOK, CallRec, watches, faultVars
<1>7. ASSUME NEW c \in Clients, Unclaimed(c)
      PROVE  TypeOK'
  <2>1. call[c].session \in Sessions /\ gen[call[c].session] \in Nat
    BY <1>0, <1>00, <1>7 DEF Unclaimed, At, TypeOK
  <2>2. check' \in [Tasks -> TaskRec]
    BY <1>0, <1>7, <2>1, Scheduled DEF Unclaimed, Schedule
  <2> QED BY <1>0, <1>7, <2>2 DEF Unclaimed, Ends, TypeOK, CallRec, TaskRec, log, watches, faultVars
<1>8. ASSUME NEW c \in Clients, UnarchiveForTurn(c)
      PROVE  TypeOK'
  <2>1. call[c].session \in Sessions
    BY <1>0, <1>00, <1>8 DEF UnarchiveForTurn, At
  <2>2. call' \in [Clients -> CallRec]
    BY <1>0, <1>8, <2>1 DEF UnarchiveForTurn, Goes, Ends, CallRec
  <2>3. slot' \in [Sessions -> Clients \cup Tasks \cup {NoOne, Turn}]
    BY <1>0, <1>8 DEF UnarchiveForTurn, TypeOK
  <2> QED BY <1>0, <1>8, <2>2, <2>3 DEF UnarchiveForTurn, CallRec, TypeOK, log, watches, faultVars
<1>9. ASSUME NEW c \in Clients, Admit(c)
      PROVE  TypeOK'
  <2>1. call[c].session \in Sessions /\ Emit(call[c].session, "used")
    BY <1>0, <1>00, <1>9 DEF Admit, At
  <2>2. slot' \in [Sessions -> Clients \cup Tasks \cup {NoOne, Turn}] /\ call' \in [Clients -> CallRec]
    BY <1>0, <1>9, <2>1 DEF Admit, Ends, TypeOK
  <2> QED BY <1>0, <1>9, <2>1, <2>2, FoldTyped DEF Admit, Events, CallRec, TypeOK, watches, faultVars
<1>10. ASSUME NEW c \in Clients, Write(c)
       PROVE  TypeOK'
  <2>1. call[c].session \in Sessions /\ call[c].at \in Events /\ Emit(call[c].session, call[c].at)
    BY <1>0, <1>00, <1>10 DEF Write, At, Events
  <2>2. call' \in [Clients -> CallRec]
    BY <1>0, <1>10, <2>1 DEF Write, Ends
  <2> QED BY <1>0, <1>10, <2>1, <2>2, FoldTyped DEF Write, CallRec, TypeOK, watches, faultVars
<1>11. ASSUME NEW c \in Clients, CloseStream(c)
       PROVE  TypeOK'
  <2>1. stream[c] \in Sessions /\ gens + 1 \in Nat
    BY <1>0, <1>11 DEF CloseStream, TypeOK
  <2>2. check' \in [Tasks -> TaskRec]
    BY <1>0, <1>11, <2>1, Scheduled DEF CloseStream
  <2>3. gen' \in [Sessions -> Nat] /\ gens' \in Nat
    BY <1>0, <1>11, <2>1 DEF CloseStream, TypeOK
  <2> QED BY <1>0, <1>11, <2>2, <2>3 DEF CloseStream, TypeOK, TaskRec, log, faultVars
<1>12. ASSUME NEW c \in Clients, Disconnect(c)
       PROVE  TypeOK'
  BY <1>0, <1>12 DEF Disconnect, Ends, TypeOK, CallRec, log, watches
<1>13. ASSUME NEW s \in Sessions, TurnEnds(s)
       PROVE  TypeOK'
  BY <1>0, <1>13 DEF TurnEnds, TypeOK, log, watches, faultVars
<1>14. ASSUME NEW s \in Sessions, DeleteSession(s)
       PROVE  TypeOK'
  <2>1. removed' \subseteq Sessions
    BY <1>0, <1>14 DEF DeleteSession, TypeOK, Tree
  <2> QED BY <1>0, <1>14, <2>1, ErasedTyped DEF DeleteSession, TypeOK, watches, faultVars
<1>15. ASSUME NEW s \in Sessions, Sweep(s)
       PROVE  TypeOK'
  <2>1. check' \in [Tasks -> TaskRec]
    BY <1>0, <1>15, Scheduled DEF Sweep, Schedule, TypeOK
  <2> QED BY <1>0, <1>15, <2>1 DEF Sweep, TypeOK, TaskRec, log, watches, faultVars
<1>16. ASSUME NEW t \in Tasks, Reap(t) \/ ReapFails(t)
       PROVE  TypeOK'
  <2>1. check' \in [Tasks -> TaskRec] /\ check[t].session \in Sessions
    BY <1>16, TaskMoves
  <2>2. gen' \in [Sessions -> Nat]
    BY <1>0, <1>16, <2>1 DEF Reap, ReapFails, Fire, StillEphemeral, NotEphemeral, Reserve, Busy,
       ReRead, Review, Drop, Dropped, Grew, Forget, TypeOK, watches
  <2>3. slot' \in [Sessions -> Clients \cup Tasks \cup {NoOne, Turn}]
    BY <1>0, <1>16, <2>1 DEF Reap, ReapFails, Fire, StillEphemeral, NotEphemeral, Reserve, Busy,
       ReRead, Review, Drop, Dropped, Grew, Released, TypeOK
  <2>4. sess' = sess \/ sess' = Erased(check[t].session)
    BY <1>16 DEF Reap, ReapFails, Fire, StillEphemeral, NotEphemeral, Reserve, Busy,
       ReRead, Review, Drop, Dropped, Grew, log
  <2>5. faults' \in Nat
    <3>1. faults' = faults \/ faults' = faults + 1
      BY <1>16 DEF Reap, ReapFails, Fire, StillEphemeral, NotEphemeral, Reserve, Busy,
         ReRead, Review, Drop, Dropped, Grew, faultVars
    <3> QED BY <1>0, <3>1 DEF TypeOK
  <2>6. lapse' \in BOOLEAN
    <3>1. lapse' = lapse \/ lapse' = TRUE \/ lapse' = (lapse \/ sess[check[t].session].ephemeral)
      BY <1>16, Zenon DEF Reap, ReapFails, Fire, StillEphemeral, NotEphemeral, Reserve, Busy,
         ReRead, Review, Drop, Dropped, Grew, faultVars
    <3> QED BY <1>0, <3>1, Zenon DEF TypeOK
  <2>7. UNCHANGED <<seq, born, removed, gens, stream, call, sweep>>
    BY <1>16 DEF Reap, ReapFails, Fire, StillEphemeral, NotEphemeral, Reserve, Busy,
       ReRead, Review, Drop, Dropped, Grew, log, watches
  <2> QED BY <1>0, <2>1, <2>2, <2>3, <2>4, <2>5, <2>6, <2>7, ErasedTyped DEF TypeOK, TaskRec
<1>17. CASE Restart
  <2>1. call' \in [Clients -> CallRec] /\ check' \in [Tasks -> TaskRec]
    BY <1>0, <1>17 DEF Restart
  <2>2. /\ gen' \in [Sessions -> Nat] /\ stream' \in [Clients -> Sessions \cup {NoSession}]
        /\ slot' \in [Sessions -> Clients \cup Tasks \cup {NoOne, Turn}]
        /\ sweep' \subseteq Sessions
    BY <1>0, <1>17 DEF Restart
  <2>3. UNCHANGED log /\ gens' \in Nat /\ faults' \in Nat
    BY <1>0, <1>17 DEF Restart, TypeOK
  <2>4. lapse' \in BOOLEAN
    BY <1>17, Zenon DEF Restart
  <2> QED BY <1>0, <2>1, <2>2, <2>3, <2>4 DEF TypeOK, TaskRec, CallRec, log
<1>18. CASE UNCHANGED vars
  BY <1>0, <1>18 DEF TypeOK, vars, log, watches, faultVars
<1> QED
  BY <1>1, <1>2, <1>3, <1>4, <1>5, <1>6, <1>7, <1>8, <1>9, <1>10, <1>11, <1>12, <1>13, <1>14,
     <1>15, <1>16, <1>17, <1>18 DEF Next, Handler

-----------------------------------------------------------------------------
(* Steps, by what they do to the logs. *)

Writes(s, e) ==
    /\ Emit(s, e)
    /\ removed' = removed
    /\ IF e = "created" THEN s \notin born /\ born' = born \cup {s}
                        ELSE s \in born /\ born' = born
    /\ e = "marked" => \E c \in Clients : At(c, "mark") /\ call[c].session = s
                                             /\ call'[c].at = "marked"

Erases(s) ==
    /\ sess' = Erased(s)
    /\ UNCHANGED <<seq, born>>
    /\ removed \subseteq removed'
    /\ \A t \in Tree(s) : t \in removed' \/ \E u \in Tasks : Drop(u) /\ check[u].session = s

LEMMA LogMoves ==
  ASSUME Inv, [Next]_vars
  PROVE  \/ UNCHANGED log
         \/ \E s \in Sessions, e \in Events : Writes(s, e)
         \/ \E s \in Sessions : Erases(s)
<1>0. /\ \A c \in Clients : ~At(c, "idle") => call[c].session \in Sessions \cap born
      /\ \A t \in Tasks : ~TaskAt(t, "idle") => check[t].session \in Sessions
  BY DEF Inv, CallInv, CheckInv
<1>1. ASSUME NEW c \in Clients, NEW s \in Sessions, NEW ephemeral \in BOOLEAN,
             Create(c, s, ephemeral)
      PROVE  Writes(s, "created")
  BY <1>1 DEF Create, Writes
<1>2. ASSUME NEW c \in Clients, Mark(c)
      PROVE  call[c].session \in Sessions /\ Writes(call[c].session, "marked")
  <2>1. call'[c].at = "marked"
    BY <1>2 DEF Mark, Goes, Inv, TypeOK
  <2> QED BY <1>0, <1>2, <2>1 DEF Mark, Writes, At
<1>3. ASSUME NEW c \in Clients, Admit(c)
      PROVE  call[c].session \in Sessions /\ Writes(call[c].session, "used")
  BY <1>0, <1>3 DEF Admit, Writes, At
<1>4. ASSUME NEW c \in Clients, Write(c)
      PROVE  /\ call[c].session \in Sessions /\ call[c].at \in Events
             /\ Writes(call[c].session, call[c].at)
  BY <1>0, <1>4 DEF Write, Writes, At, Events
<1>5. ASSUME NEW s \in Sessions, DeleteSession(s)
      PROVE  Erases(s)
  BY <1>5 DEF DeleteSession, Erases
<1>6. ASSUME NEW t \in Tasks, Drop(t)
      PROVE  check[t].session \in Sessions /\ Erases(check[t].session)
  BY <1>0, <1>6 DEF Drop, Erases, TaskAt
<1>7. CASE \/ \E c \in Clients, s \in Sessions :
                OpenStream(c, s) \/ StartRun(c, s)
                \/ \E e \in {"used", "setting", "kept"} : Look(c, s, e)
           \/ \E c \in Clients : MarkRead(c) \/ Unclaimed(c) \/ UnarchiveForTurn(c)
                                 \/ CloseStream(c) \/ Disconnect(c)
           \/ \E s \in Sessions : TurnEnds(s) \/ Sweep(s)
           \/ \E t \in Tasks : Fire(t) \/ StillEphemeral(t) \/ NotEphemeral(t) \/ Reserve(t)
                               \/ Busy(t) \/ ReRead(t) \/ Review(t) \/ Dropped(t) \/ Grew(t)
                               \/ ReapFails(t)
           \/ Restart
  BY <1>7 DEF OpenStream, StartRun, Look, MarkRead, Unclaimed, UnarchiveForTurn, CloseStream,
     Disconnect, TurnEnds, Sweep, Fire, StillEphemeral, NotEphemeral, Reserve, Busy, ReRead, Review,
     Dropped, Grew, ReapFails, Restart
<1>8. CASE UNCHANGED vars
  BY <1>8 DEF vars
<1>9. "created" \in Events /\ "marked" \in Events /\ "used" \in Events
  BY DEF Events
<1> QED
  BY <1>1, <1>2, <1>3, <1>4, <1>5, <1>6, <1>7, <1>8, <1>9 DEF Next, Handler, Reap

LEMMA LogPreserved ==
  ASSUME Inv, [Next]_vars
  PROVE  LogInv'
<1>0. TypeOK /\ LogInv /\ seq \in Nat
  BY DEF Inv, TypeOK
<1>1. CASE UNCHANGED log
  BY <1>0, <1>1 DEF LogInv, log
<1>2. ASSUME NEW s \in Sessions, NEW e \in Events, Writes(s, e)
      PROVE  LogInv'
  <2>1. Emit(s, e) /\ s \in born' /\ born \subseteq born'
    BY <1>2 DEF Writes
  <2>2. e = "marked" => ~sess[s].cleared
    BY <1>2 DEF Writes, Inv, CallInv, At
  <2>3. sess'[s].cleared => ~sess'[s].ephemeral
    BY <1>0, <2>1, <2>2, FoldTyped DEF LogInv
  <2>4. \A t \in Sessions : sess'[t].last <= seq'
    <3>1. \A t \in Sessions : sess[t].last \in Nat /\ sess[t].last <= seq
      BY <1>0 DEF LogInv, TypeOK
    <3> QED BY <1>0, <2>1, <3>1, FoldTyped
  <2> QED BY <1>0, <2>1, <2>3, <2>4, FoldTyped DEF LogInv
<1>3. ASSUME NEW s \in Sessions, Erases(s)
      PROVE  LogInv'
  <2>1. \A t \in Sessions : sess'[t] = Gone \/ sess'[t] = sess[t]
    BY <1>3 DEF Erases, Erased
  <2>2. Gone.last = 0 /\ Gone.cleared = FALSE
    BY DEF Gone
  <2> QED BY <1>0, <1>3, <2>1, <2>2 DEF LogInv, Erases
<1> QED BY <1>1, <1>2, <1>3, LogMoves

\* A step that is not the mark leaves an unmarked, uncleared session so.
LEMMA UnmarkedStays ==
  ASSUME Inv, [Next]_vars, NEW s \in Sessions, ~sess[s].ephemeral, ~sess[s].cleared,
         \A c \in Clients : At(c, "mark") /\ call'[c].at = "marked" => call[c].session # s
  PROVE  ~sess'[s].ephemeral /\ ~sess'[s].cleared
<1>0. TypeOK
  BY DEF Inv
<1>1. CASE UNCHANGED log
  BY <1>1 DEF log
<1>2. ASSUME NEW x \in Sessions, NEW e \in Events, Writes(x, e)
      PROVE  ~sess'[s].ephemeral /\ ~sess'[s].cleared
  <2>1. Emit(x, e)
    BY <1>2 DEF Writes
  <2>2. CASE x # s
    BY <1>0, <2>1, <2>2, FoldTyped
  <2>3. CASE x = s
    <3>1. e # "marked"
      BY <1>2, <2>3 DEF Writes
    <3> QED BY <1>0, <2>1, <2>3, <3>1, FoldTyped
  <2> QED BY <2>2, <2>3
<1>3. ASSUME NEW x \in Sessions, Erases(x)
      PROVE  ~sess'[s].ephemeral /\ ~sess'[s].cleared
  <2>1. sess'[s] = Gone \/ sess'[s] = sess[s]
    BY <1>3 DEF Erases, Erased
  <2>2. Gone.ephemeral = FALSE /\ Gone.cleared = FALSE
    BY DEF Gone
  <2> QED BY <2>1, <2>2
<1> QED BY <1>1, <1>2, <1>3, LogMoves

-----------------------------------------------------------------------------
(* Steps, by what they do to the requests. *)

Marking(c) == call[c].at \in {"bind", "mark"}

\* A request stays, ends, goes on with a session that is in use, reads what it
\* will mark, or creates a session.
Moves(c) ==
    \/ call'[c] = call[c]
    \/ call'[c].at = "idle"
    \/ ~Marking(c)' /\ call'[c].session \in Sessions \cap born
    \/ At(c, "bind") /\ call'[c].session = call[c].session
    \/ /\ call'[c].session \in Sessions \ born
       /\ born' = born \cup {call'[c].session}
       /\ \A d \in Clients \ {c} : call'[d] = call[d]

LEMMA CallMoves ==
  ASSUME Inv, [Next]_vars
  PROVE  \A c \in Clients : Moves(c)
<1>0. /\ call \in [Clients -> CallRec] /\ Idle.at = "idle"
      /\ \A c \in Clients : ~At(c, "idle") => call[c].session \in Sessions \cap born
      /\ \A s \in Sessions : s \notin born => ~Live(s)
  BY DEF Inv, TypeOK, CallRec, Idle, CallInv, LogInv, Live, Gone
<1> DEFINE To(c, at, s) == call' = [call EXCEPT ![c] = [at |-> at, session |-> s]]
<1>1. ASSUME NEW c \in Clients, NEW at, NEW s, To(c, at, s)
      PROVE  /\ call'[c].at = at /\ call'[c].session = s
             /\ \A d \in Clients \ {c} : call'[d] = call[d]
  BY <1>0, <1>1
<1>2. ASSUME NEW c \in Clients, NEW s \in Sessions, NEW ephemeral \in BOOLEAN,
             Create(c, s, ephemeral)
      PROVE  \A d \in Clients : Moves(d)
  BY <1>1, <1>2 DEF Create, Goes, Moves
<1>3. ASSUME NEW c \in Clients, NEW s \in Sessions, StartRun(c, s)
      PROVE  \A d \in Clients : Moves(d)
  BY <1>1, <1>3 DEF StartRun, Goes, Moves, Marking
<1>4. ASSUME NEW c \in Clients, NEW s \in Sessions, NEW e \in {"used", "setting", "kept"},
             Look(c, s, e)
      PROVE  \A d \in Clients : Moves(d)
  BY <1>0, <1>1, <1>4 DEF Look, Goes, Moves, Marking
<1>5. ASSUME NEW c \in Clients, Ends(c)
      PROVE  \A d \in Clients : Moves(d)
  BY <1>0, <1>5 DEF Ends, Moves
<1>6. ASSUME NEW c \in Clients, MarkRead(c)
      PROVE  \A d \in Clients : Moves(d)
  BY <1>1, <1>5, <1>6 DEF MarkRead, Goes, Moves
<1>7. ASSUME NEW c \in Clients, Mark(c)
      PROVE  \A d \in Clients : Moves(d)
  BY <1>0, <1>1, <1>7 DEF Mark, Goes, Moves, Marking, At
<1>8. ASSUME NEW c \in Clients, UnarchiveForTurn(c)
      PROVE  \A d \in Clients : Moves(d)
  BY <1>0, <1>1, <1>5, <1>8 DEF UnarchiveForTurn, Goes, Moves, Marking, At
<1>9. CASE Restart
  BY <1>0, <1>9 DEF Restart, Moves
<1>10. CASE UNCHANGED call
  BY <1>10 DEF Moves
<1>11. CASE \/ \E c \in Clients, s \in Sessions : OpenStream(c, s)
            \/ \E c \in Clients : CloseStream(c)
            \/ \E s \in Sessions : TurnEnds(s) \/ DeleteSession(s) \/ Sweep(s)
            \/ \E t \in Tasks : Reap(t) \/ ReapFails(t)
  BY <1>10, <1>11 DEF OpenStream, CloseStream, TurnEnds, DeleteSession, Sweep, Reap, Fire,
     StillEphemeral, NotEphemeral, Reserve, Busy, ReRead, Review, Drop, Dropped, Grew, ReapFails
<1>12. CASE \E c \in Clients : Unclaimed(c) \/ Admit(c) \/ Write(c) \/ Disconnect(c)
  BY <1>5, <1>12 DEF Unclaimed, Admit, Write, Disconnect
<1>13. CASE UNCHANGED vars
  BY <1>10, <1>13 DEF vars
<1> QED
  BY <1>2, <1>3, <1>4, <1>6, <1>7, <1>8, <1>9, <1>11, <1>12, <1>13 DEF Next, Handler

LEMMA CallPreserved ==
  ASSUME Inv, [Next]_vars
  PROVE  CallInv'
<1>0. /\ CallInv /\ LogInv /\ TypeOK' /\ \A c \in Clients : Moves(c)
  BY CallMoves, TypePreserved DEF Inv
<1>1. born \subseteq born' /\ born' \subseteq Sessions
  BY <1>0, LogMoves DEF log, Writes, Erases, TypeOK
<1>2. ASSUME NEW c \in Clients, ~At(c, "idle")'
      PROVE  call'[c].session \in Sessions \cap born'
  BY <1>0, <1>1, <1>2 DEF Moves, CallInv, At
<1>3. ASSUME NEW c \in Clients, Marking(c)', NEW d \in Clients, Marking(d)', d # c
      PROVE  call'[d].session # call'[c].session
  <2>1. \/ Marking(c) /\ call'[c].session = call[c].session
        \/ call'[c].session \notin born /\ \A e \in Clients \ {c} : call'[e] = call[e]
    BY <1>0, <1>3 DEF Moves, Marking, At
  <2>2. \/ Marking(d) /\ call'[d].session = call[d].session
        \/ call'[d].session \notin born /\ \A e \in Clients \ {d} : call'[e] = call[e]
    BY <1>0, <1>3 DEF Moves, Marking, At
  <2>3. /\ Marking(c) => call[c].session \in born
        /\ Marking(d) => call[d].session \in born
    BY <1>0 DEF CallInv, Marking, At
  <2>4. Marking(c) /\ Marking(d) => call[d].session # call[c].session
    BY <1>0, <1>3 DEF CallInv, Marking
  <2> QED BY <1>3, <2>1, <2>2, <2>3, <2>4 DEF Marking
<1>4. ASSUME NEW c \in Clients, Marking(c)'
      PROVE  ~sess'[call'[c].session].ephemeral /\ ~sess'[call'[c].session].cleared
  <2> DEFINE s == call'[c].session
  <2>1. s \in Sessions
    BY <1>2, <1>4 DEF Marking, At
  <2>2. \/ Marking(c) /\ s = call[c].session
        \/ s \notin born
    BY <1>0, <1>4 DEF Moves, Marking, At
  <2>3. ~sess[s].ephemeral /\ ~sess[s].cleared
    BY <1>0, <2>1, <2>2 DEF CallInv, Marking, LogInv, Gone
  <2>4. \A d \in Clients : At(d, "mark") /\ call'[d].at = "marked" => call[d].session # s
    <3> SUFFICES ASSUME NEW d \in Clients, At(d, "mark"), call'[d].at = "marked",
                        call[d].session = s
                 PROVE  FALSE
      OBVIOUS
    <3>1. s \in born
      BY <1>0 DEF CallInv, At
    <3>2. d # c
      BY <1>4 DEF Marking
    <3> QED BY <1>0, <2>2, <3>1, <3>2 DEF CallInv, Marking, At
  <2> HIDE DEF s
  <2>5. ~sess'[s].ephemeral /\ ~sess'[s].cleared
    BY <2>1, <2>3, <2>4, UnmarkedStays
  <2> QED BY <2>5 DEF s
<1> QED BY <1>2, <1>3, <1>4 DEF CallInv, Marking

-----------------------------------------------------------------------------
(* Steps, by what they do to the checks. *)

LEMMA CheckMoves ==
  ASSUME Inv, [Next]_vars, NEW t \in Tasks
  PROVE  \/ check'[t] = check[t]
         \/ check'[t].at = "idle"
         \/ check'[t].at = "wait" /\ check'[t].session \in Sessions
         \/ Reap(t) \/ ReapFails(t)
<1>0. /\ TypeOK /\ NoCheck.at = "idle"
      /\ \A c \in Clients : ~At(c, "idle") => call[c].session \in Sessions
  BY NoCheckTyped DEF Inv, CallInv
<1>1. ASSUME NEW s \in Sessions, NEW g \in Nat, NEW u \in Tasks, check[u] = NoCheck,
             check' = [check EXCEPT ![u] = Due(s, g)]
      PROVE  check'[t] = check[t] \/ (check'[t].at = "wait" /\ check'[t].session \in Sessions)
  BY <1>0, <1>1, Scheduled
<1>2. ASSUME NEW c \in Clients, Unclaimed(c)
      PROVE  check'[t] = check[t] \/ (check'[t].at = "wait" /\ check'[t].session \in Sessions)
  <2>1. call[c].session \in Sessions /\ gen[call[c].session] \in Nat
    BY <1>0, <1>2 DEF Unclaimed, At, TypeOK
  <2> QED BY <1>1, <1>2, <2>1 DEF Unclaimed, Schedule
<1>3. ASSUME NEW c \in Clients, CloseStream(c)
      PROVE  check'[t] = check[t] \/ (check'[t].at = "wait" /\ check'[t].session \in Sessions)
  <2>1. stream[c] \in Sessions /\ gens + 1 \in Nat
    BY <1>0, <1>3 DEF CloseStream, TypeOK
  <2> QED BY <1>1, <1>3, <2>1 DEF CloseStream
<1>4. ASSUME NEW s \in Sessions, Sweep(s)
      PROVE  check'[t] = check[t] \/ (check'[t].at = "wait" /\ check'[t].session \in Sessions)
  BY <1>0, <1>1, <1>4 DEF Sweep, Schedule, TypeOK
<1>5. CASE Restart
  BY <1>0, <1>5 DEF Restart
<1>6. ASSUME NEW u \in Tasks, Reap(u) \/ ReapFails(u)
      PROVE  u = t \/ check'[t] = check[t]
  BY <1>6, TaskMoves
<1>7. CASE UNCHANGED check
  BY <1>7
<1>8. CASE \/ \E c \in Clients, s \in Sessions :
                \/ \E ephemeral \in BOOLEAN : Create(c, s, ephemeral)
                \/ OpenStream(c, s) \/ StartRun(c, s)
                \/ \E e \in {"used", "setting", "kept"} : Look(c, s, e)
           \/ \E c \in Clients : MarkRead(c) \/ Mark(c) \/ UnarchiveForTurn(c) \/ Admit(c)
                                 \/ Write(c) \/ Disconnect(c)
           \/ \E s \in Sessions : TurnEnds(s) \/ DeleteSession(s)
           \/ UNCHANGED vars
  BY <1>7, <1>8 DEF Create, OpenStream, StartRun, Look, MarkRead, Mark, UnarchiveForTurn, Admit,
     Write, Disconnect, TurnEnds, DeleteSession, vars
<1> QED BY <1>2, <1>3, <1>4, <1>5, <1>6, <1>8 DEF Next, Handler

LEMMA CheckPreserved ==
  ASSUME Inv, [Next]_vars
  PROVE  CheckInv'
<1>0. /\ TypeOK /\ TypeOK' /\ LogInv /\ CheckInv
  BY TypePreserved DEF Inv
<1> SUFFICES ASSUME NEW t \in Tasks
             PROVE  /\ (~TaskAt(t, "idle"))' => check'[t].session \in Sessions
                    /\ check'[t].at \in {"reviewed", "delete"} =>
                         /\ check'[t].last <= seq'
                         /\ check'[t].ephemeral /\ StillEndsAt(check[t].session, check[t].last)'
                              => sess'[check'[t].session].ephemeral
                    /\ TaskAt(t, "delete")' => check'[t].ephemeral
  BY DEF CheckInv
<1>1. CASE check'[t] = check[t]
  <2> DEFINE k == check[t]
             s == k.session
  <2>1. CASE k.at \notin {"reviewed", "delete"}
    BY <1>0, <1>1, <2>1 DEF CheckInv, TaskAt
  <2>2. CASE k.at \in {"reviewed", "delete"}
    <3>1. /\ s \in Sessions /\ k.last <= seq /\ k.last \in Nat /\ seq \in Nat
          /\ k.ephemeral /\ Live(s) /\ sess[s].last = k.last => sess[s].ephemeral
          /\ k.at = "delete" => k.ephemeral
      BY <1>0, <2>2 DEF CheckInv, TaskAt, StillEndsAt, TypeOK
    <3>2. CASE UNCHANGED log
      BY <1>1, <3>1, <3>2 DEF log, StillEndsAt, Live, TaskAt
    <3>3. ASSUME NEW x \in Sessions, NEW e \in Events, Writes(x, e)
          PROVE  /\ k.last <= seq'
                 /\ k.ephemeral /\ sess'[s].last # 0 /\ sess'[s].last = k.last
                      => sess'[s].ephemeral
      <4>1. Emit(x, e)
        BY <3>3 DEF Writes
      <4>2. seq' = seq + 1 /\ (x = s => sess'[s].last = seq + 1) /\ (x # s => sess'[s] = sess[s])
        BY <1>0, <3>1, <4>1, FoldTyped
      <4> QED BY <3>1, <4>2 DEF Live
    <3>4. ASSUME NEW x \in Sessions, Erases(x)
          PROVE  /\ k.last <= seq'
                 /\ k.ephemeral /\ sess'[s].last # 0 /\ sess'[s].last = k.last
                      => sess'[s].ephemeral
      <4>1. seq' = seq /\ (sess'[s] = Gone \/ sess'[s] = sess[s]) /\ Gone.last = 0
        BY <3>1, <3>4 DEF Erases, Erased, Gone
      <4> QED BY <3>1, <4>1 DEF Live
    <3> QED BY <1>1, <3>1, <3>2, <3>3, <3>4, LogMoves DEF StillEndsAt, Live, TaskAt
  <2> QED BY <2>1, <2>2
<1>2. CASE check'[t].at = "idle" \/ (check'[t].at = "wait" /\ check'[t].session \in Sessions)
  BY <1>2 DEF TaskAt
<1>3. CASE Reap(t) \/ ReapFails(t)
  <2>1. /\ check[t].session \in Sessions
        /\ check'[t].at # "idle" => check'[t].session = check[t].session
        /\ check'[t].at \in {"reviewed", "delete"} =>
             \/ ReRead(t)
             \/ Review(t) /\ check[t].ephemeral /\ check'[t].ephemeral
                /\ check'[t].last = check[t].last
    BY <1>3, TaskMoves
  <2>2. CASE ReRead(t)
    <3>1. UNCHANGED <<seq, sess>> /\ sess[check[t].session].last <= seq
      BY <1>0, <2>1, <2>2 DEF ReRead, log, LogInv
    <3> QED BY <2>1, <2>2, <3>1, ReReadSees DEF TaskAt
  <2>3. CASE Review(t) /\ check[t].ephemeral /\ check'[t].ephemeral
             /\ check'[t].last = check[t].last /\ check'[t].at \in {"reviewed", "delete"}
    <3>1. UNCHANGED <<seq, sess>> /\ check[t].at = "reviewed"
      BY <2>3 DEF Review, log, TaskAt
    <3> QED BY <1>0, <2>1, <2>3, <3>1 DEF CheckInv, StillEndsAt, Live, TaskAt
  <2> QED BY <2>1, <2>2, <2>3 DEF TaskAt
<1> QED BY <1>1, <1>2, <1>3, CheckMoves

-----------------------------------------------------------------------------
(* The admission slot. *)

Prompting(c) == call[c].at \in {"exists", "admit"}
Reaping(t) == check[t].at \in {"reread", "reviewed", "delete", "dropped"}

\* A request comes to a slot only as the prompt that takes it, or goes on with it.
LEMMA PromptMoves ==
  ASSUME Inv, [Next]_vars, NEW c \in Clients, Prompting(c)'
  PROVE  \/ call'[c] = call[c]
         \/ UnarchiveForTurn(c) /\ Live(call[c].session) /\ call'[c].session = call[c].session
         \/ \E s \in Sessions : StartRun(c, s) /\ call'[c].session = s /\ call'[c].at = "exists"
<1>0. call \in [Clients -> CallRec] /\ Idle.at = "idle"
  BY DEF Inv, TypeOK, CallRec, Idle
<1>1. ASSUME NEW d \in Clients, NEW at, NEW s, Goes(d, at, s)
      PROVE  /\ d # c => call'[c] = call[c]
             /\ d = c => call'[c].at = at /\ call'[c].session = s
  BY <1>0, <1>1 DEF Goes
<1>2. ASSUME NEW d \in Clients, Ends(d)
      PROVE  call'[c] = call[c]
  BY <1>0, <1>2 DEF Ends, Prompting
<1>3. ASSUME NEW d \in Clients, NEW s \in Sessions, NEW ephemeral \in BOOLEAN,
             Create(d, s, ephemeral)
      PROVE  call'[c] = call[c]
  BY <1>1, <1>3 DEF Create, Prompting
<1>4. ASSUME NEW d \in Clients, NEW s \in Sessions, StartRun(d, s)
      PROVE  call'[c] = call[c] \/ (d = c /\ call'[c].session = s /\ call'[c].at = "exists")
  BY <1>1, <1>4 DEF StartRun
<1>5. ASSUME NEW d \in Clients, NEW s \in Sessions, NEW e \in {"used", "setting", "kept"},
             Look(d, s, e)
      PROVE  call'[c] = call[c]
  BY <1>1, <1>5 DEF Look, Prompting
<1>6. ASSUME NEW d \in Clients, MarkRead(d) \/ Mark(d)
      PROVE  call'[c] = call[c]
  BY <1>1, <1>2, <1>6 DEF MarkRead, Mark, Prompting
<1>7. ASSUME NEW d \in Clients, UnarchiveForTurn(d)
      PROVE  call'[c] = call[c]
             \/ (d = c /\ Live(call[c].session) /\ call'[c].session = call[c].session)
  BY <1>1, <1>2, <1>7 DEF UnarchiveForTurn
<1>8. CASE Restart
  BY <1>0, <1>8 DEF Restart, Prompting
<1>9. CASE \/ \E d \in Clients, s \in Sessions : OpenStream(d, s)
           \/ \E d \in Clients : CloseStream(d)
           \/ \E s \in Sessions : TurnEnds(s) \/ DeleteSession(s) \/ Sweep(s)
           \/ \E t \in Tasks : Reap(t) \/ ReapFails(t)
           \/ UNCHANGED vars
  BY <1>9 DEF OpenStream, CloseStream, TurnEnds, DeleteSession, Sweep, Reap, Fire,
     StillEphemeral, NotEphemeral, Reserve, Busy, ReRead, Review, Drop, Dropped, Grew, ReapFails, vars
<1>10. CASE \E d \in Clients : Unclaimed(d) \/ Admit(d) \/ Write(d) \/ Disconnect(d)
  BY <1>2, <1>10 DEF Unclaimed, Admit, Write, Disconnect
<1> QED
  BY <1>3, <1>4, <1>5, <1>6, <1>7, <1>8, <1>9, <1>10 DEF Next, Handler

\* Only a free slot is taken, and only its holder gives it up.
LEMMA SlotMoves ==
  ASSUME Inv, [Next]_vars, NEW s \in Sessions, slot'[s] # slot[s]
  PROVE  \/ slot[s] = NoOne
         \/ slot[s] = Turn
         \/ \E c \in Clients : slot[s] = c /\ ~Prompting(c)'
         \/ \E t \in Tasks : slot[s] = t /\ ~Reaping(t)'
<1>0. /\ TypeOK /\ SlotInv /\ call \in [Clients -> CallRec] /\ Idle.at = "idle"
      /\ check \in [Tasks -> TaskRec] /\ NoCheck.at = "idle"
  BY NoCheckTyped DEF Inv, TypeOK, CallRec, TaskRec, Idle
<1>1. ASSUME NEW c \in Clients, NEW x \in Sessions, StartRun(c, x)
      PROVE  slot[s] = NoOne
  BY <1>0, <1>1 DEF StartRun, TypeOK
<1>2. ASSUME NEW c \in Clients, UnarchiveForTurn(c) \/ Admit(c)
      PROVE  slot[s] = c /\ ~Prompting(c)'
  <2>1. call[c].session = s /\ Ends(c) /\ Prompting(c)
    BY <1>0, <1>2 DEF UnarchiveForTurn, Admit, TypeOK, Prompting, At
  <2> QED BY <1>0, <2>1 DEF SlotInv, Ends, Prompting
<1>3. ASSUME NEW x \in Sessions, TurnEnds(x)
      PROVE  slot[s] = Turn
  BY <1>0, <1>3 DEF TurnEnds, TypeOK
<1>4. ASSUME NEW c \in Clients, Disconnect(c)
      PROVE  slot[s] = c /\ ~Prompting(c)'
  <2>1. Ends(c) /\ slot[s] = c
    BY <1>4 DEF Disconnect
  <2> QED BY <1>0, <2>1 DEF Ends, Prompting
<1>5. ASSUME NEW t \in Tasks, Reserve(t)
      PROVE  slot[s] = NoOne
  BY <1>0, <1>5 DEF Reserve, TypeOK
<1>6. ASSUME NEW t \in Tasks, Review(t) \/ Dropped(t) \/ Grew(t) \/ ReapFails(t)
      PROVE  slot[s] = t /\ ~Reaping(t)'
  <2>1. check[t].session = s /\ Reaping(t)
    BY <1>0, <1>6 DEF Review, Dropped, Grew, ReapFails, Released, Reaping, TaskAt, TypeOK
  <2>2. TaskEnds(t) \/ Becomes(t, Due(s, gen[s]))
    BY <1>6, <2>1 DEF Review, Dropped, Grew, ReapFails
  <2>3. gen[s] \in Nat
    BY <1>0 DEF TypeOK
  <2> QED BY <1>0, <2>1, <2>2, <2>3, DueTyped DEF SlotInv, TaskEnds, Becomes, Reaping
<1>7. CASE Restart
  <2>1. /\ \A c \in Clients : ~Prompting(c)'
        /\ \A t \in Tasks : ~Reaping(t)'
    BY <1>0, <1>7 DEF Restart, Prompting, Reaping
  <2> QED BY <1>0, <2>1 DEF TypeOK
<1>8. ASSUME \/ \E c \in Clients, x \in Sessions :
                  \/ \E ephemeral \in BOOLEAN : Create(c, x, ephemeral)
                  \/ OpenStream(c, x)
                  \/ \E e \in {"used", "setting", "kept"} : Look(c, x, e)
             \/ \E c \in Clients : MarkRead(c) \/ Mark(c) \/ Unclaimed(c) \/ Write(c)
                                   \/ CloseStream(c)
             \/ \E x \in Sessions : DeleteSession(x) \/ Sweep(x)
             \/ \E t \in Tasks : Fire(t) \/ StillEphemeral(t) \/ NotEphemeral(t) \/ Busy(t)
                                 \/ ReRead(t) \/ Drop(t)
             \/ UNCHANGED vars
      PROVE  FALSE
  BY <1>8 DEF Create, OpenStream, Look, MarkRead, Mark, Unclaimed, Write, CloseStream,
     DeleteSession, Sweep, Fire, StillEphemeral, NotEphemeral, Busy, ReRead, Drop, vars
<1> QED
  BY <1>1, <1>2, <1>3, <1>4, <1>5, <1>6, <1>7, <1>8 DEF Next, Handler, Reap

LEMMA SlotPreserved ==
  ASSUME Inv, [Next]_vars
  PROVE  SlotInv'
<1>0. /\ TypeOK /\ SlotInv /\ CallInv /\ CheckInv
      /\ NoOne \notin Clients \cup Tasks \cup {Turn} /\ Turn \notin Clients \cup Tasks
      /\ Clients \cap Tasks = {}
  BY EphemeralAssumption DEF Inv
<1>1. ASSUME NEW c \in Clients, Prompting(c)'
      PROVE  slot'[call'[c].session] = c
  <2>1. ASSUME Prompting(c), call'[c].session = call[c].session
        PROVE  slot'[call'[c].session] = c
    <3>1. slot[call[c].session] = c /\ call[c].session \in Sessions
      BY <1>0, <2>1 DEF SlotInv, CallInv, Prompting, At
    <3> QED BY <1>0, <1>1, <2>1, <3>1, SlotMoves
  <2>2. ASSUME NEW s \in Sessions, StartRun(c, s), call'[c].session = s
        PROVE  slot'[call'[c].session] = c
    BY <1>0, <2>2 DEF StartRun, TypeOK
  <2> QED BY <1>1, <2>1, <2>2, PromptMoves DEF Prompting, UnarchiveForTurn, At
<1>2. ASSUME NEW t \in Tasks, Reaping(t)'
      PROVE  slot'[check'[t].session] = t
  <2>1. ASSUME Reaping(t), check'[t].session = check[t].session
        PROVE  slot'[check'[t].session] = t
    <3>1. slot[check[t].session] = t /\ check[t].session \in Sessions
      BY <1>0, <2>1 DEF SlotInv, CheckInv, Reaping, TaskAt
    <3> QED BY <1>0, <1>2, <2>1, <3>1, SlotMoves
  <2>2. CASE check'[t] = check[t]
    BY <1>2, <2>1, <2>2 DEF Reaping
  <2>3. CASE Reap(t) \/ ReapFails(t)
    <3>1. check'[t].session = check[t].session /\ check[t].session \in Sessions
      BY <1>2, <2>3, TaskMoves DEF Reaping
    <3>2. CASE Reserve(t)
      BY <1>0, <3>1, <3>2 DEF Reserve, TypeOK
    <3>3. CASE Reaping(t)
      BY <2>1, <3>1, <3>3
    <3>4. CASE ~Reaping(t) /\ ~Reserve(t)
      <4>1. Fire(t) \/ StillEphemeral(t) \/ NotEphemeral(t) \/ Busy(t) \/ ReapFails(t)
        BY <2>3, <3>4 DEF Reap, ReRead, Review, Drop, Dropped, Grew, Reaping, TaskAt
      <4>2. gen[check[t].session] \in Nat /\ NoCheck.at = "idle"
        BY <1>0, <3>1, NoCheckTyped DEF TypeOK
      <4>3. check[t] \in TaskRec /\ check \in [Tasks -> TaskRec]
        BY <1>0 DEF TypeOK, TaskRec
      <4>4. CASE TaskEnds(t)
        BY <1>2, <4>2, <4>3, <4>4 DEF TaskEnds, Becomes, Reaping
      <4>5. CASE Becomes(t, Due(check[t].session, gen[check[t].session]))
        BY <1>2, <3>1, <4>2, <4>3, <4>5, DueTyped DEF Becomes, Reaping
      <4>6. CASE Becomes(t, [check[t] EXCEPT !.at = "look"])
        BY <1>2, <4>3, <4>6 DEF Becomes, Reaping, TaskRec
      <4>7. CASE StillEphemeral(t)
        BY <1>2, <4>3, <4>7 DEF StillEphemeral, Becomes, Reaping, TaskRec
      <4> QED BY <4>1, <4>4, <4>5, <4>6, <4>7 DEF Fire, NotEphemeral, Busy, ReapFails
    <3> QED BY <3>2, <3>3, <3>4
  <2> QED BY <1>2, <2>2, <2>3, CheckMoves DEF Reaping
<1> QED BY <1>1, <1>2 DEF SlotInv, Prompting, Reaping

LEMMA AdmitPreserved ==
  ASSUME Inv, [Next]_vars
  PROVE  AdmitInv'
<1>0. /\ TypeOK /\ SlotInv /\ CallInv /\ AdmitInv
      /\ NoSession \notin Sessions /\ Clients \cap Tasks = {}
  BY EphemeralAssumption DEF Inv
<1> SUFFICES ASSUME NEW c \in Clients, call'[c].at = "admit", Root(call'[c].session)
             PROVE  sess'[call'[c].session].last # 0 \/ call'[c].session \in removed'
  BY DEF AdmitInv, At, Live, Root
<1>1. CASE UnarchiveForTurn(c) /\ Live(call[c].session) /\ call'[c].session = call[c].session
  BY <1>1 DEF UnarchiveForTurn, log, Live
<1>2. CASE call'[c] = call[c]
  <2> DEFINE s == call[c].session
  <2>1. /\ s \in Sessions /\ slot[s] = c /\ (sess[s].last # 0 \/ s \in removed)
    BY <1>0, <1>2 DEF CallInv, SlotInv, AdmitInv, At, Live
  <2> HIDE DEF s
  <2>2. CASE UNCHANGED log
    BY <1>2, <2>1, <2>2 DEF log, s
  <2>3. ASSUME NEW x \in Sessions, NEW e \in Events, Writes(x, e)
        PROVE  sess'[s].last # 0 \/ s \in removed'
    <3>1. Emit(x, e) /\ removed' = removed
      BY <2>3 DEF Writes
    <3>2. (x = s => sess'[s].last = seq + 1) /\ (x # s => sess'[s] = sess[s]) /\ seq \in Nat
      BY <1>0, <2>1, <3>1, FoldTyped DEF TypeOK
    <3> QED BY <2>1, <3>1, <3>2
  <2>4. ASSUME NEW x \in Sessions, Erases(x)
        PROVE  sess'[s].last # 0 \/ s \in removed'
    <3>1. CASE s \notin Tree(x)
      BY <2>1, <2>4, <3>1 DEF Erases, Erased
    <3>2. ASSUME s \in Tree(x), NEW u \in Tasks, Drop(u), check[u].session = x
          PROVE  FALSE
      <4>1. s = x
        BY <1>0, <1>2, <3>2 DEF Tree, Root, s
      <4> QED BY <1>0, <2>1, <3>2, <4>1 DEF SlotInv, Drop, TaskAt
    <3> QED BY <2>4, <3>1, <3>2 DEF Erases
  <2> QED BY <1>2, <2>2, <2>3, <2>4, LogMoves DEF s
<1> QED BY <1>1, <1>2, PromptMoves DEF Prompting

-----------------------------------------------------------------------------
(* Theorems. *)

LEMMA InvHolds == Spec => []Inv
<1>1. Init => Inv
  <2> SUFFICES ASSUME Init PROVE Inv
    OBVIOUS
  <2>1. TypeOK
    <3>1. sess \in [Sessions -> [last : Nat, ephemeral : BOOLEAN, used : BOOLEAN, cleared : BOOLEAN]]
      BY DEF Init, Gone
    <3>2. call \in [Clients -> CallRec] /\ check \in [Tasks -> TaskRec]
      BY NoCheckTyped DEF Init, Idle, CallRec
    <3>3. lapse \in BOOLEAN
      BY Zenon DEF Init
    <3> QED BY <3>1, <3>2, <3>3 DEF Init, TypeOK, CallRec, TaskRec
  <2>2. LogInv
    BY DEF Init, LogInv, Gone
  <2>3. CallInv /\ CheckInv /\ SlotInv /\ AdmitInv
    BY DEF Init, CallInv, CheckInv, SlotInv, AdmitInv, At, TaskAt, Idle, NoCheck
  <2> QED BY <2>1, <2>2, <2>3 DEF Inv
<1>2. Inv /\ [Next]_vars => Inv'
  BY TypePreserved, LogPreserved, CallPreserved, CheckPreserved, SlotPreserved, AdmitPreserved
  DEF Inv
<1> QED BY <1>1, <1>2, PTL DEF Spec

\* Every reachable state has its type: no handler, check or restart leaves a
\* request or a check without its session.
THEOREM TypeCorrect == Spec => []TypeOK
<1>1. Inv => TypeOK
  BY DEF Inv
<1> QED BY <1>1, InvHolds, PTL

\* The reaper never drops a root session whose mark a message, a title or a fork
\* has cleared, however the use falls between its reads and its delete: the
\* delete is made for the sequence number of a read that saw the mark.
THEOREM ClearedKept == Spec => ClearedIsKept
<1>1. Inv /\ [Next]_vars =>
        [\A s \in Sessions : Root(s) /\ sess[s].cleared => ~DropOf(s)]_vars
  <2> SUFFICES ASSUME Inv, NEW s \in Sessions, Root(s), sess[s].cleared,
                      NEW t \in Tasks, Drop(t), s \in Tree(check[t].session)
               PROVE  FALSE
    BY DEF DropOf
  <2>1. check[t].session \in Sessions /\ check[t].ephemeral
    BY DEF Inv, CheckInv, Drop, TaskAt
  <2>2. s = check[t].session
    BY <2>1, EphemeralAssumption DEF Tree, Root
  <2>3. sess[s].ephemeral
    BY <2>1, <2>2 DEF Inv, CheckInv, Drop, TaskAt
  <2> QED BY <2>3 DEF Inv, LogInv
<1> QED BY <1>1, InvHolds, PTL DEF Spec, ClearedIsKept

\* A prompt that was admitted to a root session is appended to the log it was sent
\* to, unless a client deleted the session: the slot keeps the reaper away from
\* the look on.
THEOREM PromptsLand == Spec => PromptLands
<1>1. Inv /\ [Next]_vars =>
        [\A c \in Clients : LET s == call[c].session IN
           Admit(c) /\ Root(s) => Live(s) \/ s \in removed]_vars
  BY DEF Inv, AdmitInv, Admit
<1> QED BY <1>1, InvHolds, PTL DEF Spec, PromptLands
===============================================================================
