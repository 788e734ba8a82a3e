---------------------------- MODULE PermissionPlane ----------------------------
(***************************************************************************)
(* Permission asks: a tool call that needs the user's word                 *)
(* (crates/hya-tool/src/permission.rs), the bridge that keeps the asks no  *)
(* one has answered (crates/hya-server/src/pending/permission.rs), the     *)
(* clients that answer them, switch a tree to `yolo` and delete saved      *)
(* rules, and the durable rows a new process finds                         *)
(* (crates/hya-store/src/interaction.rs, crates/hya-backend/src/serve.rs). *)
(*                                                                         *)
(* One action is the code between two awaits.  Each ask is of one session  *)
(* and of one key: what an "allow always" answer to it is remembered as    *)
(* (RememberScope with its action).  The rules of the configuration are    *)
(* left out: an ask is a check that they answer with Mode::Ask.            *)
(***************************************************************************)
EXTENDS Naturals

CONSTANTS
    Asks,           \* tool calls that need permission
    SessionOf(_),   \* ask -> the session of the call
    KeyOf(_),       \* ask -> what "always" is remembered as
    Keys,
    KindOf(_),      \* key -> the RememberScope it is of
    Sessions,
    RootOf(_),      \* session -> root of its tree
    Roots,
    Clients,        \* each has at most one request open
    NoAsk, NoRoot,
    Budget          \* bound: mode switches, interceptions, cancels, faults, ends of
                    \* the process and deletions of rules

Scopes == {"legacy", "exact", "project", "session"}
Replies == {"once", "always", "reject"}

ASSUME PermissionAssumption ==
    /\ NoAsk \notin Asks /\ NoRoot \notin Roots
    /\ \A a \in Asks : SessionOf(a) \in Sessions /\ KeyOf(a) \in Keys
    /\ \A k \in Keys : KindOf(k) \in Scopes
    /\ \A s \in Sessions : RootOf(s) \in Roots
    /\ Budget \in Nat

VARIABLES
    ask,        \* ask -> where its tool call stands
    verdict,    \* ask -> what its reply channel holds
    mode,       \* root -> permission mode its log records
    live,       \* keys granted on the plane (persistent, native_grants, scoped)
    chan,       \* asks sent to the bridge; their order decides nothing here
    bridge,     \* the bridge task: where it stands, and its ask
    pending,    \* PermissionRequests.inner
    client,     \* client -> its request
    rows,       \* unresolved pending_interaction rows
    queue,      \* ask -> its pending_interaction_reply row
    saved,      \* asks whose saved_permission row (psv_<id>) exists
    proc,       \* the process: up, down, or starting
    swept,      \* ghost: roots swept since their mode became yolo, while every
                \* read of the lineage of an ask was answered
    spent       \* of Budget

plane == <<ask, verdict, mode, live>>
asked == <<chan, bridge, pending>>
stored == <<rows, queue, saved>>
vars == <<plane, asked, client, stored, proc, swept, spent>>

-----------------------------------------------------------------------------
(* Data. *)

AskPcs == {"new", "check", "decide", "wait", "allowed", "denied", "unavailable", "cancelled"}
InFlight == {"check", "decide", "wait"}
Verdicts == Replies \cup {"none", "closed"}
ClientPcs == {"idle", "found", "missing", "queue", "present", "resolve", "rule", "sweep",
              "drop", "revoke"}
Request == [pc : ClientPcs, ask : Asks \cup {NoAsk}, reply : Replies,
            related : SUBSET Asks, root : Roots \cup {NoRoot}]
NoRequest == [pc |-> "idle", ask |-> NoAsk, reply |-> "once", related |-> {}, root |-> NoRoot]

TreeOf(a) == RootOf(SessionOf(a))
Yolo(a) == mode[TreeOf(a)] = "yolo"

Spend == spent < Budget /\ spent' = spent + 1

\* oneshot::Sender::send: it fails when the call no longer waits.
Sent(S, v) == [a \in Asks |-> IF a \in S /\ ask[a] = "wait" THEN v ELSE verdict[a]]

\* MUTANT: the bridge decides outside the lock.
LockFree_always == TRUE
\* The mutex of PermissionRequests.inner: the bridge holds it over its awaits.
LockFree == bridge.pc # "save"

Up == proc.pc = "up"

Init ==
    /\ ask = [a \in Asks |-> "new"]
    /\ verdict = [a \in Asks |-> "none"]
    /\ mode = [r \in Roots |-> "manual"]
    /\ live = {} /\ chan = {} /\ pending = {}
    /\ bridge = [pc |-> "recv", ask |-> NoAsk]
    /\ client = [c \in Clients |-> NoRequest]
    /\ rows = {} /\ saved = {}
    /\ queue = [a \in Asks |-> "none"]
    /\ proc = [pc |-> "up", successor |-> FALSE, todo |-> {}]
    /\ swept = {}
    /\ spent = 0

-----------------------------------------------------------------------------
(* The tool call. *)

\* mode_permission_plane reads the mode once for the call; yolo asks nobody.
\* The turns a start resumes make calls before the process serves.
Call(a) ==
    /\ proc.pc # "down" /\ ask[a] = "new"
    /\ ask' = [ask EXCEPT ![a] = IF Yolo(a) THEN "allowed" ELSE "check"]
    /\ UNCHANGED <<verdict, mode, live, asked, client, stored, proc, swept, spent>>

\* authorize and assert look the remembered grants up.
Check(a) ==
    /\ ask[a] = "check"
    /\ ask' = [ask EXCEPT ![a] = IF KeyOf(a) \in live THEN "allowed" ELSE "decide"]
    /\ UNCHANGED <<verdict, mode, live, asked, client, stored, proc, swept, spent>>

\* apply_decision
Apply(a, v) ==
    /\ ask' = [ask EXCEPT ![a] = CASE v = "reject" -> "denied"
                                   [] v = "closed" -> "unavailable"
                                   [] OTHER -> "allowed"]
    /\ live' = IF v = "always" THEN live \cup {KeyOf(a)} ELSE live

\* A plugin or the approver of a bundle mode decides before the user is asked.
Intercept(a, v) ==
    /\ ask[a] = "decide" /\ Spend
    /\ verdict' = [verdict EXCEPT ![a] = v]
    /\ Apply(a, v)
    /\ UNCHANGED <<mode, asked, client, stored, proc, swept>>

Ask(a) ==
    /\ ask[a] = "decide"
    /\ ask' = [ask EXCEPT ![a] = "wait"]
    /\ chan' = chan \cup {a}
    /\ UNCHANGED <<verdict, mode, live, bridge, pending, client, stored, proc, swept, spent>>

\* The task of the call finds its answer.
Wake(a) ==
    /\ ask[a] = "wait" /\ verdict[a] # "none"
    /\ Apply(a, verdict[a])
    /\ UNCHANGED <<verdict, mode, asked, client, stored, proc, swept, spent>>

\* The turn is cancelled: the future that waits is dropped, its ask is not.
Cancel(a) ==
    /\ ask[a] \in InFlight /\ Spend
    /\ ask' = [ask EXCEPT ![a] = "cancelled"]
    /\ UNCHANGED <<verdict, mode, live, asked, client, stored, proc, swept>>

-----------------------------------------------------------------------------
(* The bridge task. *)

BridgeGoto(pc, a) == bridge' = [pc |-> pc, ask |-> a]

\* MUTANT: one prompt at a time.
Recv_serial(a) ==
    /\ bridge.pc = "recv" /\ a \in chan /\ pending = {}
    /\ chan' = chan \ {a}
    /\ BridgeGoto("decide", a)
    /\ UNCHANGED <<plane, pending, client, stored, proc, swept, spent>>

Recv(a) ==
    /\ bridge.pc = "recv" /\ a \in chan
    /\ chan' = chan \ {a}
    /\ BridgeGoto("decide", a)
    /\ UNCHANGED <<plane, pending, client, stored, proc, swept, spent>>

\* Under the lock: an ask of a yolo tree is allowed, any other one is kept.
Decide ==
    /\ bridge.pc = "decide"
    /\ IF Yolo(bridge.ask)
       THEN /\ verdict' = Sent({bridge.ask}, "once")
            /\ BridgeGoto("recv", NoAsk)
       ELSE /\ BridgeGoto("save", bridge.ask)
            /\ UNCHANGED verdict
    /\ UNCHANGED <<ask, mode, live, chan, pending, client, stored, proc, swept, spent>>

\* tree_is_yolo answers false when the log cannot be read: the ask is kept.
DecideBlind ==
    /\ bridge.pc = "decide" /\ Spend
    /\ BridgeGoto("save", bridge.ask)
    /\ swept' = swept \ {TreeOf(bridge.ask)}
    /\ UNCHANGED <<plane, chan, pending, client, stored, proc>>

Keep ==
    /\ bridge.pc = "save"
    /\ rows' = rows \cup {bridge.ask}
    /\ pending' = pending \cup {bridge.ask}
    /\ BridgeGoto("recv", NoAsk)
    /\ UNCHANGED <<plane, chan, client, queue, saved, proc, swept, spent>>

\* MUTANT: the error of save_pending_interaction is ignored.
KeepFails_asks ==
    /\ bridge.pc = "save" /\ Spend
    /\ pending' = pending \cup {bridge.ask}
    /\ BridgeGoto("recv", NoAsk)
    /\ UNCHANGED <<plane, chan, client, stored, proc, swept>>

\* An ask that cannot be made durable is rejected.
KeepFails ==
    /\ bridge.pc = "save" /\ Spend
    /\ verdict' = Sent({bridge.ask}, "reject")
    /\ BridgeGoto("recv", NoAsk)
    /\ UNCHANGED <<ask, mode, live, chan, pending, client, stored, proc, swept>>

-----------------------------------------------------------------------------
(* A client answers an ask: respond_interaction, then PermissionRequests::reply. *)

Step(c, pc) == client' = [client EXCEPT ![c].pc = pc]
Done(c) == client' = [client EXCEPT ![c] = NoRequest]

\* The handler looks the ask up in the list of the pending ones.
Respond(c, a, r) ==
    /\ Up /\ LockFree /\ client[c].pc = "idle" /\ a \in pending
    /\ client' = [client EXCEPT ![c] = [NoRequest EXCEPT !.pc = "found", !.ask = a, !.reply = r]]
    /\ UNCHANGED <<plane, asked, stored, proc, swept, spent>>

Look(c) ==
    /\ LockFree /\ client[c].pc = "found"
    /\ Step(c, IF client[c].ask \in pending THEN "present" ELSE "missing")
    /\ UNCHANGED <<plane, asked, stored, proc, swept, spent>>

\* Not pending here: a reply to an unresolved row is queued for a successor.
ReadRows(c) ==
    /\ client[c].pc = "missing"
    /\ IF client[c].ask \in rows THEN Step(c, "queue") ELSE Done(c)
    /\ UNCHANGED <<plane, asked, stored, proc, swept, spent>>

QueueReply(c) ==
    /\ client[c].pc = "queue"
    /\ queue' = [queue EXCEPT ![client[c].ask] = IF @ = "none" THEN "queued" ELSE @]
    /\ Done(c)
    /\ UNCHANGED <<plane, asked, rows, saved, proc, swept, spent>>

\* take_related_for_reply
Related(a, r) ==
    {b \in pending \ {a} : /\ SessionOf(b) = SessionOf(a)
                           /\ \/ r = "always" /\ KeyOf(b) = KeyOf(a)
                              \/ r = "reject" /\ (KindOf(KeyOf(a)) = "exact" => KeyOf(b) = KeyOf(a))}

\* MUTANT: the result of the send is ignored.
Take_unheard(c) ==
    LET a == client[c].ask
        r == client[c].reply IN
    /\ LockFree /\ client[c].pc = "present" /\ a \in pending
    /\ pending' = pending \ ({a} \cup Related(a, r))
    /\ verdict' = Sent({a}, r)
    /\ client' = [client EXCEPT ![c].pc = "resolve", ![c].related = Related(a, r)]
    /\ UNCHANGED <<ask, mode, live, chan, bridge, stored, proc, swept, spent>>

\* The ask and the related ones leave the map; the answer is sent after the unlock.
Take(c) ==
    LET a == client[c].ask
        r == client[c].reply IN
    /\ LockFree /\ client[c].pc = "present" /\ a \in pending
    /\ pending' = pending \ ({a} \cup Related(a, r))
    /\ IF ask[a] = "wait"
       THEN /\ verdict' = Sent({a}, r)
            /\ client' = [client EXCEPT ![c].pc = "resolve", ![c].related = Related(a, r)]
       ELSE /\ verdict' = Sent(Related(a, r), r)
            /\ Done(c)
    /\ UNCHANGED <<ask, mode, live, chan, bridge, stored, proc, swept, spent>>

Taken(c) ==
    /\ LockFree /\ client[c].pc = "present" /\ client[c].ask \notin pending
    /\ Done(c)
    /\ UNCHANGED <<plane, asked, stored, proc, swept, spent>>

\* The rest of the reply has no await: the related asks hear the answer too.
Finish(c) ==
    /\ verdict' = Sent(client[c].related, client[c].reply)
    /\ Done(c)

\* resolve_pending_interaction; its error is ignored.
Resolve(c) ==
    /\ client[c].pc = "resolve"
    /\ \/ rows' = rows \ {client[c].ask} /\ UNCHANGED spent
       \/ Spend /\ UNCHANGED rows
    /\ IF client[c].reply = "always"
       THEN Step(c, "rule") /\ UNCHANGED verdict
       ELSE Finish(c)
    /\ UNCHANGED <<ask, mode, live, asked, queue, saved, proc, swept>>

\* saved_row: a session's grant has no row.  One row per (project, action, resource).
Row(a) == IF KindOf(KeyOf(a)) = "session" \/ \E b \in saved : KeyOf(b) = KeyOf(a)
          THEN {} ELSE {a}

Remember(c) ==
    /\ client[c].pc = "rule"
    /\ saved' = saved \cup Row(client[c].ask)
    /\ Finish(c)
    /\ UNCHANGED <<ask, mode, live, asked, rows, queue, proc, swept, spent>>

\* The request ends early: a store call fails, or the client disconnects and
\* the future is dropped at an await.  The channels it holds close with it.
Fail(c) ==
    /\ client[c].pc # "idle" /\ Spend
    /\ verdict' = Sent(client[c].related, "closed")
    /\ Done(c)
    /\ UNCHANGED <<ask, mode, live, asked, stored, proc, swept>>

-----------------------------------------------------------------------------
(* A client switches the mode of a tree, or deletes a saved rule. *)

SetMode(c, r, m) ==
    /\ Up /\ client[c].pc = "idle" /\ Spend
    /\ mode' = [mode EXCEPT ![r] = m]
    /\ swept' = swept \ {r}
    /\ IF m = "yolo"
       THEN client' = [client EXCEPT ![c] = [NoRequest EXCEPT !.pc = "sweep", !.root = r]]
       ELSE UNCHANGED client
    /\ UNCHANGED <<ask, verdict, live, asked, stored, proc>>

\* lineage_root of the session of the ask
InTree(a, r) == TreeOf(a) = r

\* allow_tree_once
Sweep(c) ==
    LET S == {a \in pending : InTree(a, client[c].root)} IN
    /\ LockFree /\ client[c].pc = "sweep"
    /\ pending' = pending \ S
    /\ verdict' = Sent(S, "once")
    /\ swept' = IF mode[client[c].root] = "yolo" THEN swept \cup {client[c].root} ELSE swept
    /\ Done(c)
    /\ UNCHANGED <<ask, mode, live, chan, bridge, stored, proc, spent>>

\* lineage_root cannot read the log of an ask: the ask is left where it is.
SweepBlind(c, a) ==
    LET S == {b \in pending : b # a /\ InTree(b, client[c].root)} IN
    /\ LockFree /\ client[c].pc = "sweep" /\ a \in pending /\ Spend
    /\ pending' = pending \ S
    /\ verdict' = Sent(S, "once")
    /\ swept' = swept \ {client[c].root}
    /\ Done(c)
    /\ UNCHANGED <<ask, mode, live, chan, bridge, stored, proc>>

\* delete_saved_rule: the row is read, then deleted, then revoked on the plane.
ReadRule(c, a) ==
    /\ Up /\ client[c].pc = "idle" /\ a \in saved /\ Spend
    /\ client' = [client EXCEPT ![c] = [NoRequest EXCEPT !.pc = "drop", !.ask = a]]
    /\ UNCHANGED <<plane, asked, stored, proc, swept>>

DropRule(c) ==
    /\ client[c].pc = "drop"
    /\ saved' = saved \ {client[c].ask}
    /\ Step(c, "revoke")
    /\ UNCHANGED <<plane, asked, rows, queue, proc, swept, spent>>

Revoke(c) ==
    /\ client[c].pc = "revoke"
    /\ live' = live \ {KeyOf(client[c].ask)}
    /\ Done(c)
    /\ UNCHANGED <<ask, verdict, mode, asked, stored, proc, swept, spent>>

-----------------------------------------------------------------------------
(* The process ends and another one starts. *)

\* The memory of the process is gone; recovery closes the calls that were open.
Halt(successor) ==
    /\ ask' = [a \in Asks |-> IF ask[a] \in InFlight THEN "cancelled" ELSE ask[a]]
    /\ live' = {} /\ chan' = {} /\ pending' = {}
    /\ bridge' = [pc |-> "recv", ask |-> NoAsk]
    /\ client' = [c \in Clients |-> NoRequest]
    /\ proc' = [pc |-> "down", successor |-> successor, todo |-> {}]

\* A crash at any time, or a handoff: it waits until no turn is active.
Stop(successor) ==
    /\ Up /\ Spend
    /\ successor => \A a \in Asks : ask[a] \notin InFlight
    /\ Halt(successor)
    /\ UNCHANGED <<verdict, mode, stored, swept>>

\* restore_saved_permissions, then resume_handed_off_interactions lists the replies.
Start ==
    /\ proc.pc = "down"
    /\ live' = {KeyOf(a) : a \in saved}
    /\ proc' = [proc EXCEPT !.pc = "boot", !.todo = {a \in Asks : queue[a] = "queued"}]
    /\ UNCHANGED <<ask, verdict, mode, asked, client, stored, swept, spent>>

\* continue_interaction_failure: a successor gives up, and the old generation
\* or a plain start comes back; a plain start goes on.
GiveUp(a) ==
    IF proc.successor
    THEN Halt(FALSE)
    ELSE /\ proc' = [proc EXCEPT !.todo = @ \ {a}]
         /\ UNCHANGED <<ask, live, asked, client>>

\* claim_pending_interaction_reply
Claim(a) ==
    /\ queue' = [queue EXCEPT ![a] = "consumed"]
    /\ rows' = rows \ {a}

\* The ask was resolved: its reply is claimed and nothing follows.
Discard(a) ==
    /\ proc.pc = "boot" /\ a \in proc.todo /\ a \notin rows
    /\ Claim(a)
    /\ proc' = [proc EXCEPT !.todo = @ \ {a}]
    /\ UNCHANGED <<plane, asked, client, saved, swept, spent>>

\* interaction_tool_target finds no open call: recovery closed what was open.
NoTarget(a) ==
    /\ proc.pc = "boot" /\ a \in proc.todo /\ a \in rows
    /\ GiveUp(a)
    /\ UNCHANGED <<verdict, mode, stored, swept, spent>>

\* The one open call is of a turn this start resumed: the reply is claimed, and
\* try_begin_turn refuses the session of a turn that runs.
Continue(a) ==
    /\ proc.pc = "boot" /\ a \in proc.todo /\ a \in rows
    /\ Claim(a)
    /\ \/ GiveUp(a)
       \/ /\ proc' = [proc EXCEPT !.todo = @ \ {a}]
          /\ UNCHANGED <<ask, live, asked, client>>
    /\ UNCHANGED <<verdict, mode, saved, swept, spent>>

Serve ==
    /\ proc.pc = "boot" /\ proc.todo = {}
    /\ proc' = [proc EXCEPT !.pc = "up", !.successor = FALSE]
    /\ UNCHANGED <<plane, asked, client, stored, swept, spent>>

-----------------------------------------------------------------------------
CallStep(a) == Check(a) \/ Ask(a) \/ Wake(a)
BridgeStep == (\E a \in Asks : Recv(a)) \/ Decide \/ Keep
Handler(c) == \/ Look(c) \/ ReadRows(c) \/ QueueReply(c) \/ Take(c) \/ Taken(c)
              \/ Resolve(c) \/ Remember(c) \/ Sweep(c) \/ DropRule(c) \/ Revoke(c)
Boot == Start \/ Serve \/ \E a \in Asks : Discard(a) \/ NoTarget(a) \/ Continue(a)

Next ==
    \/ \E a \in Asks : Call(a) \/ CallStep(a) \/ Cancel(a)
    \/ \E a \in Asks, v \in Replies : Intercept(a, v)
    \/ BridgeStep
    \/ KeepFails \/ DecideBlind
    \/ \E c \in Clients : Handler(c) \/ Fail(c)
    \/ \E c \in Clients, a \in Asks, r \in Replies : Respond(c, a, r)
    \/ \E c \in Clients, r \in Roots, m \in {"manual", "yolo"} : SetMode(c, r, m)
    \/ \E c \in Clients, a \in Asks : ReadRule(c, a) \/ SweepBlind(c, a)
    \/ \E successor \in BOOLEAN : Stop(successor)
    \/ Boot

Spec == Init /\ [][Next]_vars

\* Tasks that can run do run; clients ask, cancel and switch as they like.
Fairness ==
    /\ \A a \in Asks : WF_vars(CallStep(a))
    /\ WF_vars(BridgeStep)
    /\ \A c \in Clients : WF_vars(Handler(c))

FairSpec == Spec /\ Fairness

-----------------------------------------------------------------------------
(* Properties. *)

\* Calls, asks, requests, rows and the process keep their types; the bridge has
\* an ask in hand exactly while it decides on one, and a handler has its ask.
TypeOK ==
    /\ ask \in [Asks -> AskPcs]
    /\ verdict \in [Asks -> Verdicts]
    /\ mode \in [Roots -> {"manual", "yolo"}]
    /\ live \subseteq Keys
    /\ chan \subseteq Asks /\ pending \subseteq Asks
    /\ bridge \in [pc : {"recv", "decide", "save"}, ask : Asks \cup {NoAsk}]
    /\ bridge.ask = NoAsk <=> bridge.pc = "recv"
    /\ client \in [Clients -> Request]
    /\ \A c \in Clients : /\ client[c].ask = NoAsk <=> client[c].pc \in {"idle", "sweep"}
                          /\ client[c].root = NoRoot <=> client[c].pc # "sweep"
    /\ rows \subseteq Asks /\ saved \subseteq Asks
    /\ queue \in [Asks -> {"none", "queued", "consumed"}]
    /\ proc \in [pc : {"up", "down", "boot"}, successor : BOOLEAN, todo : SUBSET Asks]
    /\ swept \subseteq Roots
    /\ spent \in Nat

\* An ask that races a switch to yolo is swept or allowed by the bridge: once
\* allow_tree_once ran, and while the tree stays in yolo, none of its asks is
\* pending.
YoloReleased == \A a \in pending : TreeOf(a) \notin swept

\* Every ask a client can be shown has an unresolved row, whatever store calls
\* failed and whichever client answers it.
PendingIsDurable == pending \subseteq rows

\* A rule is saved only for an "always" that the waiting call received: not for
\* a call that was cancelled before the answer, nor for another answer to it.
SavedWasHeard == \A a \in saved : verdict[a] = "always"

\* A call that waits is asked of the user, or ends: no ask is lost between the
\* channel, the bridge, the map and the requests that took it.
AskReaches == \A a \in Asks : ask[a] = "wait" ~> (a \in pending \/ ask[a] # "wait")
===============================================================================
