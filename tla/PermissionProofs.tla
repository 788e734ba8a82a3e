---------------------------- MODULE PermissionProofs ----------------------------
(***************************************************************************)
(* Proofs about PermissionPlane, for any number of calls, clients, trees,  *)
(* faults and restarts.  An ask is in one place at a time: the channel,    *)
(* the hand of the bridge, the map, or the requests that took it; a place  *)
(* it has left it does not come back to.  So nobody answers it twice.      *)
(***************************************************************************)
EXTENDS PermissionPlane, TLAPS

Early == {"new", "check", "decide"}
Holding(c) == client[c].pc \in {"resolve", "rule"}

\* Nobody can answer the ask any more: its call has asked, and it is in no place.
Gone(a) ==
    /\ ask[a] \notin Early
    /\ a \notin chan /\ a \notin pending /\ a # bridge.ask
    /\ \A c \in Clients : a \notin client[c].related

\* An ask is in one place.
PlaceInv ==
    /\ \A a \in chan : a \notin pending /\ a # bridge.ask
    /\ bridge.ask \notin pending
    /\ \A c \in Clients : \A a \in client[c].related :
         a \notin chan /\ a \notin pending /\ a # bridge.ask

\* A call that has not asked is nowhere, and nobody works on it.
EarlyInv ==
    \A a \in Asks : ask[a] \in Early =>
      /\ a \notin chan /\ a \notin pending /\ a # bridge.ask
      /\ \A c \in Clients : a \notin client[c].related /\ client[c].ask # a
      /\ queue[a] = "none"

\* The ask of a saved rule, of a request that has answered it, and of a reply a
\* start works on is gone.
GoneInv ==
    /\ \A a \in saved : Gone(a)
    /\ \A c \in Clients : Holding(c) => Gone(client[c].ask)
    /\ \A a \in proc.todo : Gone(a)

\* A process that is down does nothing.
DownInv ==
    proc.pc = "down" =>
      /\ chan = {} /\ pending = {} /\ bridge.ask = NoAsk
      /\ \A a \in Asks : ask[a] \notin InFlight
      /\ \A c \in Clients : client[c] = NoRequest

\* A request that will save a rule has sent the call its "always".
HeardInv ==
    \A c \in Clients :
      /\ Holding(c) /\ client[c].reply = "always" => verdict[client[c].ask] = "always"
      /\ client[c].pc = "rule" => client[c].reply = "always"

\* A swept tree is in yolo, and the ask the bridge is about to keep is not of it.
YoloInv ==
    /\ \A r \in swept : mode[r] = "yolo"
    /\ bridge.pc = "save" => TreeOf(bridge.ask) \notin swept

AskInv == PlaceInv /\ EarlyInv /\ GoneInv /\ DownInv
Inv == TypeOK /\ AskInv /\ HeardInv /\ SavedWasHeard /\ YoloInv /\ YoloReleased /\ PendingIsDurable

-----------------------------------------------------------------------------
(* Type correctness. *)

TypePlane ==
    /\ ask \in [Asks -> AskPcs]
    /\ verdict \in [Asks -> Verdicts]
    /\ mode \in [Roots -> {"manual", "yolo"}]
    /\ live \subseteq Keys
    /\ chan \subseteq Asks /\ pending \subseteq Asks
    /\ bridge \in [pc : {"recv", "decide", "save"}, ask : Asks \cup {NoAsk}]
    /\ bridge.ask = NoAsk <=> bridge.pc = "recv"

TypeClient ==
    /\ client \in [Clients -> Request]
    /\ \A c \in Clients : /\ client[c].ask = NoAsk <=> client[c].pc \in {"idle", "sweep"}
                          /\ client[c].root = NoRoot <=> client[c].pc # "sweep"

TypeRest ==
    /\ rows \subseteq Asks /\ saved \subseteq Asks
    /\ queue \in [Asks -> {"none", "queued", "consumed"}]
    /\ proc \in [pc : {"up", "down", "boot"}, successor : BOOLEAN, todo : SUBSET Asks]
    /\ swept \subseteq Roots
    /\ spent \in Nat

LEMMA TypeParts == TypeOK <=> TypePlane /\ TypeClient /\ TypeRest
BY DEF TypeOK, TypePlane, TypeClient, TypeRest

LEMMA RequestTyped ==
  ASSUME PermissionAssumption
  PROVE  NoRequest \in Request /\ NoRequest.pc = "idle" /\ NoRequest.ask = NoAsk
         /\ NoRequest.related = {} /\ NoRequest.root = NoRoot
BY DEF NoRequest, Request, ClientPcs, Replies

\* A request that goes on keeps its ask, its answer and what it holds.
LEMMA Stepped ==
  ASSUME TypeOK, NEW c \in Clients, NEW pc \in ClientPcs \ {"idle", "sweep"},
         client[c].pc \notin {"idle", "sweep"}, Step(c, pc)
  PROVE  /\ TypeClient'
         /\ client'[c].pc = pc /\ client'[c].ask = client[c].ask
         /\ client'[c].reply = client[c].reply /\ client'[c].related = client[c].related
         /\ \A d \in Clients \ {c} : client'[d] = client[d]
<1>1. client' \in [Clients -> Request]
  BY DEF Step, TypeOK, Request
<1>2. /\ client'[c].pc = pc /\ client'[c].ask = client[c].ask
      /\ client'[c].reply = client[c].reply /\ client'[c].root = client[c].root
      /\ client'[c].related = client[c].related
      /\ \A d \in Clients \ {c} : client'[d] = client[d]
  BY DEF Step, TypeOK, Request
<1>3. ASSUME NEW d \in Clients
      PROVE  /\ client'[d].ask = NoAsk <=> client'[d].pc \in {"idle", "sweep"}
             /\ client'[d].root = NoRoot <=> client'[d].pc # "sweep"
  BY <1>2 DEF TypeOK
<1> QED BY <1>1, <1>2, <1>3 DEF TypeClient, Request, ClientPcs, Replies

LEMMA Opened ==
  ASSUME TypeOK, NEW c \in Clients, NEW q, q \in Request,
         q.ask = NoAsk <=> q.pc \in {"idle", "sweep"},
         q.root = NoRoot <=> q.pc # "sweep",
         client' = [client EXCEPT ![c] = q]
  PROVE  /\ TypeClient'
         /\ client'[c] = q
         /\ \A d \in Clients \ {c} : client'[d] = client[d]
<1>1. client'[c] = q /\ \A d \in Clients \ {c} : client'[d] = client[d]
  BY DEF TypeOK
<1>2. client' \in [Clients -> Request]
  BY DEF TypeOK
<1>3. ASSUME NEW d \in Clients
      PROVE  /\ client'[d].ask = NoAsk <=> client'[d].pc \in {"idle", "sweep"}
             /\ client'[d].root = NoRoot <=> client'[d].pc # "sweep"
  BY <1>1 DEF TypeOK
<1> QED BY <1>1, <1>2, <1>3 DEF TypeClient, Request, ClientPcs, Replies

LEMMA Ended ==
  ASSUME TypeOK, PermissionAssumption, NEW c \in Clients, Done(c)
  PROVE  /\ TypeClient'
         /\ client' \in [Clients -> Request]
         /\ client'[c] = NoRequest
         /\ \A d \in Clients \ {c} : client'[d] = client[d]
<1>1. client' = [client EXCEPT ![c] = NoRequest]
  BY DEF Done
<1>2. client' \in [Clients -> Request]
  BY <1>1, RequestTyped DEF TypeOK
<1> QED BY <1>1, <1>2, RequestTyped, Opened

\* A new request holds nothing.
LEMMA Answering ==
  ASSUME TypeOK, PermissionAssumption, NEW c \in Clients, NEW a \in Asks, NEW r \in Replies,
         client' = [client EXCEPT ![c] = [NoRequest EXCEPT !.pc = "found", !.ask = a, !.reply = r]]
  PROVE  /\ TypeClient'
         /\ client'[c].pc = "found" /\ client'[c].ask = a /\ client'[c].root = NoRoot
         /\ client'[c].related = {}
         /\ \A d \in Clients \ {c} : client'[d] = client[d]
<1> DEFINE q == [NoRequest EXCEPT !.pc = "found", !.ask = a, !.reply = r]
<1>1. q \in Request /\ q.pc = "found" /\ q.ask = a /\ q.root = NoRoot /\ q.related = {}
  BY DEF NoRequest, Request, ClientPcs, Replies
<1> HIDE DEF q
<1>2. client' = [client EXCEPT ![c] = q]
  BY DEF q
<1> QED BY <1>1, <1>2, Opened

LEMMA Deleting ==
  ASSUME TypeOK, PermissionAssumption, NEW c \in Clients, NEW a \in Asks,
         client' = [client EXCEPT ![c] = [NoRequest EXCEPT !.pc = "drop", !.ask = a]]
  PROVE  /\ TypeClient'
         /\ client'[c].pc = "drop" /\ client'[c].ask = a /\ client'[c].root = NoRoot
         /\ client'[c].related = {}
         /\ \A d \in Clients \ {c} : client'[d] = client[d]
<1> DEFINE q == [NoRequest EXCEPT !.pc = "drop", !.ask = a]
<1>1. q \in Request /\ q.pc = "drop" /\ q.ask = a /\ q.root = NoRoot /\ q.related = {}
  BY DEF NoRequest, Request, ClientPcs, Replies
<1> HIDE DEF q
<1>2. client' = [client EXCEPT ![c] = q]
  BY DEF q
<1> QED BY <1>1, <1>2, Opened

LEMMA Sweeping ==
  ASSUME TypeOK, PermissionAssumption, NEW c \in Clients, NEW r \in Roots,
         client' = [client EXCEPT ![c] = [NoRequest EXCEPT !.pc = "sweep", !.root = r]]
  PROVE  /\ TypeClient'
         /\ client'[c].pc = "sweep" /\ client'[c].ask = NoAsk /\ client'[c].root = r
         /\ client'[c].related = {}
         /\ \A d \in Clients \ {c} : client'[d] = client[d]
<1> DEFINE q == [NoRequest EXCEPT !.pc = "sweep", !.root = r]
<1>1. q \in Request /\ q.pc = "sweep" /\ q.ask = NoAsk /\ q.root = r /\ q.related = {}
  BY DEF NoRequest, Request, ClientPcs, Replies
<1> HIDE DEF q
<1>2. client' = [client EXCEPT ![c] = q]
  BY DEF q
<1> QED BY <1>1, <1>2, Opened

\* Only the calls that are sent an answer see their channel change.
LEMMA SentTyped ==
  ASSUME TypeOK, NEW S, NEW v \in Verdicts, verdict' = Sent(S, v)
  PROVE  /\ verdict' \in [Asks -> Verdicts]
         /\ \A a \in Asks \ S : verdict'[a] = verdict[a]
BY DEF Sent, TypeOK

LEMMA RelatedTyped ==
  ASSUME TypeOK, NEW a, NEW r
  PROVE  Related(a, r) \subseteq pending \ {a} /\ Related(a, r) \subseteq Asks
BY DEF Related, TypeOK

\* What a reply takes from the map it holds until it is done.
LEMMA Took ==
  ASSUME TypeOK, NEW c \in Clients, NEW S, S \subseteq Asks, client[c].pc = "present",
         client' = [client EXCEPT ![c].pc = "resolve", ![c].related = S]
  PROVE  /\ TypeClient'
         /\ client'[c].pc = "resolve" /\ client'[c].ask = client[c].ask
         /\ client'[c].reply = client[c].reply /\ client'[c].related = S
         /\ \A d \in Clients \ {c} : client'[d] = client[d]
<1> DEFINE q == [[client[c] EXCEPT !.pc = "resolve"] EXCEPT !.related = S]
<1>1. /\ q \in Request /\ q.pc = "resolve" /\ q.ask = client[c].ask
      /\ q.root = client[c].root /\ q.reply = client[c].reply /\ q.related = S
  BY DEF TypeOK, Request, ClientPcs
<1>2. client' = [client EXCEPT ![c] = q]
  BY DEF TypeOK
<1> HIDE DEF q
<1>3. /\ q.ask = NoAsk <=> q.pc \in {"idle", "sweep"}
      /\ q.root = NoRoot <=> q.pc # "sweep"
  BY <1>1 DEF TypeOK
<1> QED BY <1>1, <1>2, <1>3, Opened

LEMMA Halted ==
  ASSUME TypeOK, PermissionAssumption, NEW successor \in BOOLEAN, Halt(successor)
  PROVE  /\ ask' \in [Asks -> AskPcs]
         /\ \A a \in Asks : ask'[a] \notin InFlight /\ (ask'[a] \in Early => ask[a] \in Early)
         /\ live' = {} /\ chan' = {} /\ pending' = {}
         /\ bridge' = [pc |-> "recv", ask |-> NoAsk]
         /\ client' \in [Clients -> Request]
         /\ \A c \in Clients : client'[c] = NoRequest
         /\ proc' = [pc |-> "down", successor |-> successor, todo |-> {}]
BY RequestTyped DEF Halt, TypeOK, AskPcs, InFlight, Early

LEMMA GaveUp ==
  ASSUME TypeOK, PermissionAssumption, NEW a \in Asks, GiveUp(a)
  PROVE  /\ ask' \in [Asks -> AskPcs] /\ live' \subseteq Keys
         /\ chan' \subseteq Asks /\ pending' \subseteq Asks
         /\ bridge' \in [pc : {"recv", "decide", "save"}, ask : Asks \cup {NoAsk}]
         /\ bridge'.ask = NoAsk <=> bridge'.pc = "recv"
         /\ TypeClient'
         /\ proc' \in [pc : {"up", "down", "boot"}, successor : BOOLEAN, todo : SUBSET Asks]
<1>1. CASE proc.successor
  <2>1. Halt(FALSE)
    BY <1>1 DEF GiveUp
  <2>2. TypeClient'
    BY <2>1, Halted, RequestTyped DEF TypeClient, Request, ClientPcs, Replies
  <2>3. /\ ask' \in [Asks -> AskPcs] /\ live' = {} /\ chan' = {} /\ pending' = {}
        /\ bridge' = [pc |-> "recv", ask |-> NoAsk]
        /\ proc' = [pc |-> "down", successor |-> FALSE, todo |-> {}]
    BY <2>1, Halted
  <2> QED BY <2>1, <2>2, <2>3 DEF TypeOK
<1>2. CASE ~proc.successor
  <2>1. TypeClient'
    BY <1>2 DEF GiveUp, TypeOK, TypeClient, Request, ClientPcs, Replies
  <2> QED BY <1>2, <2>1 DEF GiveUp, asked, TypeOK
<1> QED BY <1>1, <1>2

LEMMA TypeStep ==
  ASSUME TypeOK, [Next]_vars
  PROVE  TypeOK'
<1> USE PermissionAssumption DEF plane, asked, stored, AskPcs, Verdicts, Replies,
     ClientPcs, Request
<1>1. ASSUME NEW a \in Asks, Call(a) PROVE TypeOK'
  BY <1>1 DEF Call, Yolo, TypeOK, InFlight
<1>2. ASSUME NEW a \in Asks, Check(a) PROVE TypeOK'
  BY <1>2 DEF Check, TypeOK, InFlight
<1>3. ASSUME NEW a \in Asks, Ask(a) PROVE TypeOK'
  BY <1>3 DEF Ask, TypeOK, InFlight
<1>4. ASSUME NEW a \in Asks, Wake(a) PROVE TypeOK'
  BY <1>4 DEF Wake, Apply, TypeOK, InFlight
<1>5. ASSUME NEW a \in Asks, Cancel(a) PROVE TypeOK'
  BY <1>5 DEF Cancel, Spend, TypeOK, InFlight
<1>6. ASSUME NEW a \in Asks, NEW v \in Replies, Intercept(a, v) PROVE TypeOK'
  BY <1>6 DEF Intercept, Apply, Spend, TypeOK, InFlight
<1>7. ASSUME NEW a \in Asks, Recv(a) PROVE TypeOK'
  BY <1>7 DEF Recv, BridgeGoto, TypeOK, InFlight
<1>8. ASSUME Decide PROVE TypeOK'
  BY <1>8, SentTyped DEF Decide, BridgeGoto, TypeOK
<1>9. ASSUME DecideBlind PROVE TypeOK'
  BY <1>9 DEF DecideBlind, BridgeGoto, Spend, TypeOK, InFlight
<1>10. ASSUME Keep PROVE TypeOK'
  BY <1>10 DEF Keep, BridgeGoto, TypeOK, InFlight
<1>11. ASSUME KeepFails PROVE TypeOK'
  <2>1. TypePlane'
    BY <1>11, SentTyped DEF KeepFails, BridgeGoto, Spend, TypeOK, TypePlane
  <2>2. TypeClient'
    BY <1>11 DEF KeepFails, BridgeGoto, Spend, TypeOK, TypeClient
  <2>3. TypeRest'
    BY <1>11 DEF KeepFails, BridgeGoto, Spend, TypeOK, TypeRest
  <2> QED BY <2>1, <2>2, <2>3 DEF TypeOK, TypePlane, TypeClient, TypeRest
<1>12. ASSUME NEW c \in Clients, Look(c) PROVE TypeOK'
  <2>1. TypePlane'
    BY <1>12 DEF Look, TypeOK, TypePlane
  <2>2. TypeClient'
    BY <1>12, Stepped DEF Look, TypeOK, TypeClient
  <2>3. TypeRest'
    BY <1>12 DEF Look, TypeOK, TypeRest
  <2> QED BY <2>1, <2>2, <2>3 DEF TypeOK, TypePlane, TypeClient, TypeRest
<1>13. ASSUME NEW c \in Clients, ReadRows(c) PROVE TypeOK'
  <2>1. TypePlane'
    BY <1>13 DEF ReadRows, TypeOK, TypePlane
  <2>2. TypeClient'
    <3>1. CASE client[c].ask \in rows
      BY <1>13, <3>1, Stepped DEF ReadRows
    <3>2. CASE client[c].ask \notin rows
      BY <1>13, <3>2, Ended DEF ReadRows
    <3> QED BY <3>1, <3>2
  <2>3. TypeRest'
    BY <1>13 DEF ReadRows, TypeOK, TypeRest
  <2> QED BY <2>1, <2>2, <2>3 DEF TypeOK, TypePlane, TypeClient, TypeRest
<1>14. ASSUME NEW c \in Clients, QueueReply(c) PROVE TypeOK'
  <2>1. TypePlane'
    BY <1>14 DEF QueueReply, TypeOK, TypePlane
  <2>2. TypeClient'
    BY <1>14, Ended DEF QueueReply, TypeOK, TypeClient
  <2>3. TypeRest'
    BY <1>14 DEF QueueReply, TypeOK, TypeRest
  <2> QED BY <2>1, <2>2, <2>3 DEF TypeOK, TypePlane, TypeClient, TypeRest
<1>15. ASSUME NEW c \in Clients, Take(c) PROVE TypeOK'
  <2>1. TypePlane'
    BY <1>15, SentTyped DEF Take, TypeOK, TypePlane
  <2>2. TypeClient'
    <3>1. CASE ask[client[c].ask] = "wait"
      BY <1>15, <3>1, Took, RelatedTyped DEF Take
    <3>2. CASE ask[client[c].ask] # "wait"
      BY <1>15, <3>2, Ended DEF Take
    <3> QED BY <3>1, <3>2
  <2>3. TypeRest'
    BY <1>15 DEF Take, TypeOK, TypeRest
  <2> QED BY <2>1, <2>2, <2>3 DEF TypeOK, TypePlane, TypeClient, TypeRest
<1>16. ASSUME NEW c \in Clients, Taken(c) PROVE TypeOK'
  <2>1. TypePlane'
    BY <1>16 DEF Taken, TypeOK, TypePlane
  <2>2. TypeClient'
    BY <1>16, Ended DEF Taken, TypeOK, TypeClient
  <2>3. TypeRest'
    BY <1>16 DEF Taken, TypeOK, TypeRest
  <2> QED BY <2>1, <2>2, <2>3 DEF TypeOK, TypePlane, TypeClient, TypeRest
<1>17. ASSUME NEW c \in Clients, Resolve(c) PROVE TypeOK'
  <2>1. TypePlane'
    BY <1>17, SentTyped DEF Resolve, Finish, Spend, TypeOK, TypePlane
  <2>2. TypeClient'
    <3>1. CASE client[c].reply = "always"
      BY <1>17, <3>1, Stepped DEF Resolve
    <3>2. CASE client[c].reply # "always"
      BY <1>17, <3>2, Ended DEF Resolve, Finish
    <3> QED BY <3>1, <3>2
  <2>3. TypeRest'
    BY <1>17 DEF Resolve, Finish, Spend, TypeOK, TypeRest
  <2> QED BY <2>1, <2>2, <2>3 DEF TypeOK, TypePlane, TypeClient, TypeRest
<1>18. ASSUME NEW c \in Clients, Remember(c) PROVE TypeOK'
  <2>1. TypePlane'
    BY <1>18, SentTyped DEF Remember, Finish, Row, TypeOK, TypePlane
  <2>2. TypeClient'
    BY <1>18, Ended, RequestTyped DEF Remember, Finish, Row, TypeOK, TypeClient
  <2>3. TypeRest'
    BY <1>18 DEF Remember, Finish, Row, TypeOK, TypeRest
  <2> QED BY <2>1, <2>2, <2>3 DEF TypeOK, TypePlane, TypeClient, TypeRest
<1>19. ASSUME NEW c \in Clients, Sweep(c) PROVE TypeOK'
  <2>1. TypePlane'
    BY <1>19, SentTyped DEF Sweep, TypeOK, TypePlane
  <2>2. TypeClient'
    BY <1>19, Ended, RequestTyped DEF Sweep, TypeOK, TypeClient
  <2>3. TypeRest'
    BY <1>19 DEF Sweep, TypeOK, TypeRest
  <2> QED BY <2>1, <2>2, <2>3 DEF TypeOK, TypePlane, TypeClient, TypeRest
<1>20. ASSUME NEW c \in Clients, DropRule(c) PROVE TypeOK'
  <2>1. TypePlane'
    BY <1>20 DEF DropRule, TypeOK, TypePlane
  <2>2. TypeClient'
    BY <1>20, Stepped DEF DropRule, TypeOK, TypeClient
  <2>3. TypeRest'
    BY <1>20 DEF DropRule, TypeOK, TypeRest
  <2> QED BY <2>1, <2>2, <2>3 DEF TypeOK, TypePlane, TypeClient, TypeRest
<1>21. ASSUME NEW c \in Clients, Revoke(c) PROVE TypeOK'
  <2>1. TypePlane'
    BY <1>21 DEF Revoke, TypeOK, TypePlane
  <2>2. TypeClient'
    BY <1>21, Ended DEF Revoke, TypeOK, TypeClient
  <2>3. TypeRest'
    BY <1>21 DEF Revoke, TypeOK, TypeRest
  <2> QED BY <2>1, <2>2, <2>3 DEF TypeOK, TypePlane, TypeClient, TypeRest
<1>22. ASSUME NEW c \in Clients, Fail(c) PROVE TypeOK'
  <2>1. TypePlane'
    BY <1>22, SentTyped DEF Fail, Spend, TypeOK, TypePlane
  <2>2. TypeClient'
    BY <1>22, Ended DEF Fail, Spend, TypeOK, TypeClient
  <2>3. TypeRest'
    BY <1>22 DEF Fail, Spend, TypeOK, TypeRest
  <2> QED BY <2>1, <2>2, <2>3 DEF TypeOK, TypePlane, TypeClient, TypeRest
<1>23. ASSUME NEW c \in Clients, NEW a \in Asks, NEW r \in Replies, Respond(c, a, r)
      PROVE  TypeOK'
  <2>1. TypePlane'
    BY <1>23 DEF Respond, TypeOK, TypePlane
  <2>2. TypeClient'
    BY <1>23, Answering DEF Respond, TypeOK, TypeClient
  <2>3. TypeRest'
    BY <1>23 DEF Respond, TypeOK, TypeRest
  <2> QED BY <2>1, <2>2, <2>3 DEF TypeOK, TypePlane, TypeClient, TypeRest
<1>24. ASSUME NEW c \in Clients, NEW r \in Roots, NEW m \in {"manual", "yolo"}, SetMode(c, r, m)
      PROVE  TypeOK'
  <2>1. TypePlane'
    BY <1>24 DEF SetMode, Spend, TypeOK, TypePlane
  <2>2. TypeClient'
    <3>1. CASE m = "yolo"
      BY <1>24, <3>1, Sweeping DEF SetMode
    <3>2. CASE m # "yolo"
      BY <1>24, <3>2 DEF SetMode, TypeOK, TypeClient
    <3> QED BY <3>1, <3>2
  <2>3. TypeRest'
    BY <1>24 DEF SetMode, Spend, TypeOK, TypeRest
  <2> QED BY <2>1, <2>2, <2>3 DEF TypeOK, TypePlane, TypeClient, TypeRest
<1>25. ASSUME NEW c \in Clients, NEW a \in Asks, ReadRule(c, a) PROVE TypeOK'
  <2>1. TypePlane'
    BY <1>25 DEF ReadRule, Spend, TypeOK, TypePlane
  <2>2. TypeClient'
    BY <1>25, Deleting DEF ReadRule, Spend, TypeOK, TypeClient
  <2>3. TypeRest'
    BY <1>25 DEF ReadRule, Spend, TypeOK, TypeRest
  <2> QED BY <2>1, <2>2, <2>3 DEF TypeOK, TypePlane, TypeClient, TypeRest
<1>26. ASSUME NEW c \in Clients, NEW a \in Asks, SweepBlind(c, a) PROVE TypeOK'
  <2>1. TypePlane'
    BY <1>26, SentTyped DEF SweepBlind, Spend, TypeOK, TypePlane
  <2>2. TypeClient'
    BY <1>26, Ended, RequestTyped DEF SweepBlind, Spend, TypeOK, TypeClient
  <2>3. TypeRest'
    BY <1>26 DEF SweepBlind, Spend, TypeOK, TypeRest
  <2> QED BY <2>1, <2>2, <2>3 DEF TypeOK, TypePlane, TypeClient, TypeRest
<1>27. ASSUME NEW successor \in BOOLEAN, Stop(successor) PROVE TypeOK'
  BY <1>27, Halted, RequestTyped DEF Stop, Spend, TypeOK
<1>28. ASSUME Start PROVE TypeOK'
  <2>1. TypePlane'
    BY <1>28 DEF Start, TypeOK, TypePlane
  <2>2. TypeClient'
    BY <1>28 DEF Start, TypeOK, TypeClient
  <2>3. TypeRest'
    BY <1>28 DEF Start, TypeOK, TypeRest
  <2> QED BY <2>1, <2>2, <2>3 DEF TypeOK, TypePlane, TypeClient, TypeRest
<1>29. ASSUME Serve PROVE TypeOK'
  BY <1>29 DEF Serve, TypeOK, InFlight
<1>30. ASSUME NEW a \in Asks, Discard(a) PROVE TypeOK'
  BY <1>30 DEF Discard, Claim, TypeOK, InFlight
<1>31. ASSUME NEW a \in Asks, NoTarget(a) PROVE TypeOK'
  <2>1. TypePlane'
    BY <1>31, GaveUp DEF NoTarget, TypeOK, TypePlane
  <2>2. TypeClient'
    BY <1>31, GaveUp DEF NoTarget, TypeOK, TypeClient
  <2>3. TypeRest'
    BY <1>31, GaveUp DEF NoTarget, TypeOK, TypeRest
  <2> QED BY <2>1, <2>2, <2>3 DEF TypeOK, TypePlane, TypeClient, TypeRest
<1>32. ASSUME NEW a \in Asks, Continue(a) PROVE TypeOK'
  <2>1. TypePlane'
    BY <1>32, GaveUp DEF Continue, Claim, TypeOK, TypePlane
  <2>2. TypeClient'
    BY <1>32, GaveUp DEF Continue, Claim, TypeOK, TypeClient
  <2>3. TypeRest'
    BY <1>32, GaveUp DEF Continue, Claim, TypeOK, TypeRest
  <2> QED BY <2>1, <2>2, <2>3 DEF TypeOK, TypePlane, TypeClient, TypeRest
<1>33. CASE UNCHANGED vars BY <1>33 DEF vars, TypeOK, InFlight
<1> QED BY <1>1, <1>2, <1>3, <1>4, <1>5, <1>6, <1>7, <1>8, <1>9, <1>10, <1>11, <1>12,
     <1>13, <1>14, <1>15, <1>16, <1>17, <1>18, <1>19, <1>20, <1>21, <1>22, <1>23,
     <1>24, <1>25, <1>26, <1>27, <1>28, <1>29, <1>30, <1>31, <1>32, <1>33
     DEF Next, CallStep, BridgeStep, Handler, Boot

LEMMA TypeInit == ASSUME Init PROVE TypeOK
BY PermissionAssumption, RequestTyped DEF Init, TypeOK, AskPcs, Verdicts

\* Calls, asks, requests, rows and the process keep their types, whatever fails.
THEOREM TypeCorrect == Spec => []TypeOK
<1>1. Init => TypeOK
  BY TypeInit
<1>2. TypeOK /\ [Next]_vars => TypeOK'
  BY TypeStep
<1> QED BY <1>1, <1>2, PTL DEF Spec

-----------------------------------------------------------------------------
(* An ask is in one place, and nobody answers it twice. *)

\* A request that has answered goes on to save a rule only for an "always".
HoldsOn(c) ==
    Holding(c)' => /\ Holding(c) /\ client'[c].reply = client[c].reply
                   /\ client'[c].pc = "rule" => client[c].pc = "rule" \/ client[c].reply = "always"

\* Most steps move no ask forward: places empty, requests end, replies are
\* recorded for calls that have asked.
Receding ==
    /\ \A a \in Asks : ask'[a] \in Early => ask[a] \in Early
    /\ chan' \subseteq chan /\ pending' \subseteq pending /\ bridge'.ask \in {bridge.ask, NoAsk}
    /\ \A c \in Clients : /\ client'[c].related \subseteq client[c].related
                          /\ client'[c].ask \in {client[c].ask, NoAsk}
                          /\ HoldsOn(c)
    /\ saved' \subseteq saved /\ proc'.todo \subseteq proc.todo
    /\ \A a \in Asks : queue'[a] # queue[a] => ask[a] \notin Early

MoveInv == PlaceInv /\ EarlyInv /\ GoneInv

LEMMA RecedingKeeps ==
  ASSUME TypeOK, TypeOK', MoveInv, Receding, PermissionAssumption
  PROVE  MoveInv'
<1>1. PlaceInv'
  <2>1. NoAsk \notin Asks
    BY DEF PermissionAssumption
  <2>2. chan' \subseteq Asks /\ pending' \subseteq Asks
        /\ \A c \in Clients : client'[c].related \subseteq Asks
    BY DEF TypeOK, Request
  <2> QED BY <2>1, <2>2 DEF MoveInv, Receding, PlaceInv
<1>2. ASSUME NEW a \in Asks, Gone(a) PROVE Gone(a)'
  BY <1>2 DEF TypeOK, Receding, Gone
<1>3. ASSUME NEW a \in Asks, ask'[a] \in Early
      PROVE  /\ a \notin chan' /\ a \notin pending' /\ a # bridge'.ask
             /\ \A c \in Clients : a \notin client'[c].related /\ client'[c].ask # a
             /\ queue'[a] = "none"
  <2>1. ask[a] \in Early
    BY <1>3 DEF Receding
  <2>2. a # NoAsk
    BY DEF PermissionAssumption
  <2> QED BY <2>1, <2>2 DEF MoveInv, Receding, EarlyInv
<1>4. EarlyInv'
  BY <1>3 DEF EarlyInv, Early
<1>5. ASSUME NEW c \in Clients, Holding(c)'
      PROVE  Gone(client[c].ask)' /\ client'[c].ask = client[c].ask
  <2>1. client'[c].ask # NoAsk /\ client'[c].ask \in Asks
    BY <1>5 DEF Holding, TypeOK, Request
  <2>2. client'[c].ask = client[c].ask /\ Holding(c)
    BY <1>5, <2>1 DEF Receding, HoldsOn
  <2>3. Gone(client[c].ask)
    BY <2>2 DEF MoveInv, GoneInv
  <2> QED BY <2>1, <2>2, <2>3, <1>2
<1>6. GoneInv'
  <2>1. ASSUME NEW a \in saved' PROVE Gone(a)'
    BY <2>1, <1>2 DEF Receding, MoveInv, GoneInv, TypeOK
  <2>2. ASSUME NEW a \in proc'.todo PROVE Gone(a)'
    BY <2>2, <1>2 DEF Receding, MoveInv, GoneInv, TypeOK
  <2>3. ASSUME NEW c \in Clients, Holding(c)' PROVE Gone(client[c].ask)'
    BY <1>5, <2>3
  <2> QED BY <2>1, <2>2, <1>5 DEF GoneInv, Gone, Early
<1> QED BY <1>1, <1>4, <1>6 DEF MoveInv

-----------------------------------------------------------------------------
(* The steps that recede. *)

LEMMA QueueUnchanged ==
  ASSUME TypeOK, UNCHANGED <<client, saved, proc, queue>>
  PROVE  /\ \A c \in Clients : /\ client'[c].related \subseteq client[c].related
                               /\ client'[c].ask \in {client[c].ask, NoAsk}
                               /\ HoldsOn(c)
         /\ saved' \subseteq saved /\ proc'.todo \subseteq proc.todo
         /\ \A a \in Asks : queue'[a] # queue[a] => ask[a] \notin Early
BY DEF Holding, HoldsOn

\* The steps of a call and of the bridge that put no ask in a place.
LEMMA CallRecedes ==
  ASSUME TypeOK, PermissionAssumption, NEW a \in Asks,
         \/ Call(a) \/ Check(a) \/ Wake(a) \/ Cancel(a)
         \/ \E v \in Replies : Intercept(a, v)
  PROVE  Receding
<1>1. UNCHANGED <<client, saved, proc, queue, chan, pending, bridge>>
  BY DEF Call, Check, Wake, Cancel, Intercept, asked, stored
<1>2. \A b \in Asks : ask'[b] \in Early => ask[b] \in Early
  BY DEF Call, Check, Wake, Cancel, Intercept, Apply, TypeOK, Early, InFlight
<1> QED BY <1>1, <1>2, QueueUnchanged DEF Receding

LEMMA BridgeRecedes ==
  ASSUME TypeOK, PermissionAssumption, Decide \/ DecideBlind \/ KeepFails
  PROVE  Receding
<1>1. UNCHANGED <<client, saved, proc, queue, chan, pending, ask>>
  BY DEF Decide, DecideBlind, KeepFails, plane, stored
<1>2. bridge'.ask \in {bridge.ask, NoAsk}
  BY DEF Decide, DecideBlind, KeepFails, BridgeGoto
<1> QED BY <1>1, <1>2, QueueUnchanged DEF Receding

\* The steps of a request that take nothing and save nothing.
LEMMA RequestRecedes ==
  ASSUME TypeOK, MoveInv, PermissionAssumption, NEW c \in Clients,
         \/ Look(c) \/ ReadRows(c) \/ QueueReply(c) \/ Taken(c) \/ Resolve(c)
         \/ Sweep(c) \/ DropRule(c) \/ Revoke(c) \/ Fail(c)
         \/ \E a \in Asks : SweepBlind(c, a)
  PROVE  Receding
<1>1. UNCHANGED <<ask, chan, bridge, proc>> /\ pending' \subseteq pending /\ saved' \subseteq saved
  BY DEF Look, ReadRows, QueueReply, Taken, Resolve, Sweep, DropRule, Revoke, Fail,
       SweepBlind,
         plane, asked, stored, Finish
<1>2. \/ Done(c)
      \/ /\ client[c].pc \notin {"idle", "sweep"}
         /\ \/ client[c].pc = "resolve" /\ client[c].reply = "always" /\ Step(c, "rule")
            \/ \E pc \in {"present", "missing", "queue", "revoke"} : Step(c, pc)
  <2>1. CASE Look(c) BY <2>1 DEF Look
  <2>2. CASE ReadRows(c) BY <2>2 DEF ReadRows
  <2>3. CASE Resolve(c) BY <2>3 DEF Resolve, Finish
  <2>4. CASE DropRule(c) BY <2>4 DEF DropRule
  <2> QED BY <2>1, <2>2, <2>3, <2>4 DEF QueueReply, Taken, Sweep, Revoke, Fail, SweepBlind
<1>3. /\ \A d \in Clients \ {c} : client'[d] = client[d]
      /\ client'[c].related \subseteq client[c].related
      /\ client'[c].ask \in {client[c].ask, NoAsk}
      /\ HoldsOn(c)
  <2>1. CASE Done(c) BY <2>1, Ended, RequestTyped DEF Holding, HoldsOn
  <2>2. CASE client[c].pc = "resolve" /\ client[c].reply = "always" /\ Step(c, "rule")
    BY <2>2, Stepped DEF ClientPcs, Holding, HoldsOn
  <2>3. CASE /\ client[c].pc \notin {"idle", "sweep"}
             /\ \E pc \in {"present", "missing", "queue", "revoke"} : Step(c, pc)
    BY <2>3, Stepped DEF ClientPcs, Holding, HoldsOn
  <2> QED BY <1>2, <2>1, <2>2, <2>3
<1>4. \A a \in Asks : queue'[a] # queue[a] => ask[a] \notin Early
  <2>1. CASE QueueReply(c)
    BY <2>1 DEF QueueReply, MoveInv, EarlyInv, TypeOK
  <2>2. CASE ~QueueReply(c)
    BY <2>2 DEF Look, ReadRows, Taken, Resolve, Sweep, DropRule, Revoke, Fail, SweepBlind,
         stored
  <2> QED BY <2>1, <2>2
<1>5. \A d \in Clients : /\ client'[d].related \subseteq client[d].related
                         /\ client'[d].ask \in {client[d].ask, NoAsk}
                         /\ HoldsOn(d)
  BY <1>3 DEF Holding, HoldsOn
<1> QED BY <1>1, <1>4, <1>5 DEF Receding

LEMMA SetModeRecedes ==
  ASSUME TypeOK, PermissionAssumption, NEW c \in Clients, NEW r \in Roots,
         NEW m \in {"manual", "yolo"}, SetMode(c, r, m)
  PROVE  Receding
<1>1. UNCHANGED <<ask, chan, bridge, pending, saved, proc, queue>>
  BY DEF SetMode, asked, stored
<1>2. CASE m = "yolo"
  <2>1. /\ client'[c].related = {} /\ client'[c].ask = NoAsk /\ ~Holding(c)'
        /\ \A d \in Clients \ {c} : client'[d] = client[d]
    BY <1>2, Sweeping DEF SetMode, Holding, HoldsOn
  <2>2. \A d \in Clients : /\ client'[d].related \subseteq client[d].related
                           /\ client'[d].ask \in {client[d].ask, NoAsk}
                           /\ HoldsOn(d)
    BY <2>1 DEF Holding, HoldsOn
  <2> QED BY <1>1, <2>2 DEF Receding
<1>3. CASE m # "yolo"
  BY <1>1, <1>3, QueueUnchanged DEF SetMode, Receding
<1> QED BY <1>2, <1>3

LEMMA HaltRecedes ==
  ASSUME TypeOK, PermissionAssumption, NEW successor \in BOOLEAN, Halt(successor),
         saved' = saved, \A a \in Asks : queue'[a] # queue[a] => ask[a] \notin Early
  PROVE  Receding
BY Halted, RequestTyped DEF Receding, Holding, HoldsOn, TypeOK

LEMMA ProcessRecedes ==
  ASSUME TypeOK, MoveInv, PermissionAssumption,
         \/ \E successor \in BOOLEAN : Stop(successor)
         \/ Serve
         \/ \E a \in Asks : Discard(a) \/ NoTarget(a) \/ Continue(a)
  PROVE  Receding
<1>1. saved' = saved /\ \A a \in Asks : queue'[a] # queue[a] => ask[a] \notin Early
  BY DEF Stop, Serve, Discard, NoTarget, Continue, Claim, stored, TypeOK, MoveInv,
       GoneInv, Gone
<1>2. CASE \E successor \in BOOLEAN : Halt(successor)
  BY <1>1, <1>2, HaltRecedes
<1>3. CASE ~\E successor \in BOOLEAN : Halt(successor)
  <2>1. UNCHANGED <<ask, chan, pending, bridge, client>> /\ proc'.todo \subseteq proc.todo
    <3>1. CASE Serve BY <3>1 DEF Serve, plane, asked, TypeOK
    <3>2. ASSUME NEW a \in Asks, Discard(a)
          PROVE  /\ UNCHANGED <<ask, chan, pending, bridge, client>>
                 /\ proc'.todo \subseteq proc.todo
      BY <3>2 DEF Discard, plane, asked, TypeOK
    <3>3. ASSUME NEW a \in Asks, GiveUp(a)
          PROVE  /\ UNCHANGED <<ask, chan, pending, bridge, client>>
                 /\ proc'.todo \subseteq proc.todo
      <4>1. ~Halt(FALSE) BY <1>3
      <4>2. ~proc.successor BY <4>1, <3>3 DEF GiveUp
      <4>3. proc' = [proc EXCEPT !.todo = @ \ {a}] /\ UNCHANGED <<ask, asked, client>>
        BY <4>2, <3>3 DEF GiveUp
      <4> QED BY <4>3 DEF asked, TypeOK
    <3>4. ASSUME NEW a \in Asks, Continue(a), ~GiveUp(a)
          PROVE  /\ UNCHANGED <<ask, chan, pending, bridge, client>>
                 /\ proc'.todo \subseteq proc.todo
      BY <3>4 DEF Continue, asked, TypeOK
    <3> QED BY <1>3, <3>1, <3>2, <3>3, <3>4 DEF Stop, NoTarget
  <2> QED BY <1>1, <2>1 DEF Receding, Holding, HoldsOn
<1> QED BY <1>2, <1>3

-----------------------------------------------------------------------------
(* The steps that put an ask in its next place. *)

\* Nothing but the ask itself moves: what is gone stays gone.
LEMMA AskMoves ==
  ASSUME TypeOK, TypeOK', MoveInv, PermissionAssumption, NEW a \in Asks,
         Ask(a) \/ Recv(a) \/ (Keep /\ a = bridge.ask)
  PROVE  MoveInv'
<1> DEFINE Moved ==
      /\ chan' \subseteq chan \cup {a} /\ pending' \subseteq pending \cup {a}
      /\ bridge'.ask \in {bridge.ask, a, NoAsk}
      /\ \A b \in Asks \ {a} : ask'[b] = ask[b]
      /\ ask'[a] \notin Early
      /\ \A c \in Clients : a \notin client[c].related
      /\ a \in chan' => a \notin pending' /\ a # bridge'.ask
      /\ a \in pending' => a # bridge'.ask
      /\ bridge'.ask = bridge.ask \/ bridge'.ask = NoAsk \/ bridge'.ask = a
      /\ ~Gone(a)
      /\ UNCHANGED <<client, saved, queue, proc>>
<1>1. a # NoAsk
  BY DEF PermissionAssumption
<1>2. Moved
  <2>1. CASE Ask(a)
    BY <1>1, <2>1 DEF Ask, stored, TypeOK, MoveInv, PlaceInv, EarlyInv, Gone, Early
  <2>2. CASE Recv(a)
    BY <1>1, <2>2 DEF Recv, BridgeGoto, plane, stored, TypeOK, MoveInv, PlaceInv,
         EarlyInv, Gone
  <2>3. CASE Keep /\ a = bridge.ask
    BY <1>1, <2>3 DEF Keep, BridgeGoto, plane, TypeOK, MoveInv, PlaceInv, EarlyInv, Gone
  <2> QED BY <2>1, <2>2, <2>3
<1>3. PlaceInv'
  <2>1. /\ chan \subseteq Asks /\ pending \subseteq Asks /\ NoAsk \notin Asks
        /\ \A c \in Clients : client[c].related \subseteq Asks
    BY DEF TypeOK, Request, PermissionAssumption
  <2>2. \A b \in chan' : b \notin pending' /\ b # bridge'.ask
    BY <1>2, <2>1 DEF MoveInv, PlaceInv
  <2>3. bridge'.ask \notin pending'
    BY <1>2, <2>1 DEF MoveInv, PlaceInv
  <2>4. \A c \in Clients : \A b \in client[c].related :
          b \notin chan' /\ b \notin pending' /\ b # bridge'.ask
    BY <1>2, <2>1 DEF MoveInv, PlaceInv
  <2> QED BY <1>2, <2>2, <2>3, <2>4 DEF PlaceInv
<1>4. ASSUME NEW b \in Asks, Gone(b) PROVE Gone(b)'
  BY <1>1, <1>2, <1>4 DEF Gone, TypeOK
<1>5. EarlyInv'
  BY <1>1, <1>2 DEF MoveInv, EarlyInv, TypeOK, Early
<1>6. GoneInv'
  <2>1. \A b \in saved \cup proc.todo : Gone(b)'
    BY <1>4 DEF MoveInv, GoneInv, TypeOK
  <2>2. ASSUME NEW c \in Clients, Holding(c) PROVE Gone(client[c].ask)'
    <3>1. client[c].ask \in Asks
      BY <2>2 DEF Holding, TypeOK, Request
    <3>2. Gone(client[c].ask)
      BY <2>2 DEF MoveInv, GoneInv
    <3>3. client' = client
      BY <1>2
    <3> QED BY <3>1, <3>2, <3>3, <1>4
  <2> QED BY <1>2, <2>1, <2>2 DEF GoneInv, Holding
<1> QED BY <1>3, <1>5, <1>6 DEF MoveInv

LEMMA TakeMoves ==
  ASSUME TypeOK, TypeOK', MoveInv, PermissionAssumption, NEW c \in Clients, Take(c)
  PROVE  MoveInv'
<1>0. PICK a \in Asks : a = client[c].ask
  BY DEF Take, TypeOK
<1> DEFINE S == Related(a, client[c].reply)
<1>1. /\ a \in pending /\ a \in Asks /\ a # NoAsk /\ S \subseteq pending \ {a}
      /\ client[c].pc = "present"
  BY <1>0, RelatedTyped DEF Take, TypeOK, PermissionAssumption
<1>2. pending' = pending \ ({a} \cup S) /\ UNCHANGED <<ask, chan, bridge, saved, queue, proc>>
  BY <1>0 DEF Take, stored
<1>3. /\ \A d \in Clients \ {c} : client'[d] = client[d]
      /\ client'[c].related \subseteq S /\ client'[c].ask \in {a, NoAsk}
      /\ Holding(c)' => client'[c].ask = a
  <2>1. CASE ask[a] = "wait"
    <3>1. S \subseteq Asks BY RelatedTyped
    <3>2. client' = [client EXCEPT ![c].pc = "resolve", ![c].related = S]
      BY <1>0, <2>1 DEF Take
    <3>3. /\ client'[c].pc = "resolve" /\ client'[c].ask = client[c].ask
          /\ client'[c].related = S
          /\ \A d \in Clients \ {c} : client'[d] = client[d]
      <4> HIDE DEF S
      <4> QED BY <1>1, <3>1, <3>2, Took
    <3> QED BY <1>0, <3>3
  <2>2. CASE ask[a] # "wait"
    <3>1. Done(c) BY <1>0, <2>2 DEF Take
    <3> QED BY <1>0, <3>1, Ended, RequestTyped DEF Holding
  <2> QED BY <2>1, <2>2
<1> HIDE DEF S
<1>4. PlaceInv'
  <2>1. \A d \in Clients : \A b \in client'[d].related :
          b \notin chan /\ b \notin pending' /\ b # bridge.ask
    BY <1>1, <1>2, <1>3 DEF MoveInv, PlaceInv
  <2> QED BY <1>2, <2>1 DEF MoveInv, PlaceInv
<1>5. ASSUME NEW b \in Asks, Gone(b) PROVE Gone(b)'
  <2>1. b \notin pending BY <1>5 DEF Gone
  <2>2. \A d \in Clients : b \notin client'[d].related
    BY <1>1, <1>3, <1>5, <2>1 DEF Gone
  <2> QED BY <1>2, <1>5, <2>2 DEF Gone
<1>6. Gone(a)'
  <2>1. \A d \in Clients : a \notin client'[d].related
    BY <1>1, <1>3 DEF MoveInv, PlaceInv
  <2>2. a \notin chan /\ a # bridge.ask /\ ask[a] \notin Early
    BY <1>1 DEF MoveInv, PlaceInv, EarlyInv
  <2> QED BY <1>2, <2>1, <2>2 DEF Gone
<1>7. EarlyInv'
  <2>1. ASSUME NEW b \in Asks, ask[b] \in Early
        PROVE  \A d \in Clients : b \notin client'[d].related /\ client'[d].ask # b
    <3>1. b \notin pending /\ b # a /\ b # NoAsk
      BY <1>1, <2>1 DEF MoveInv, EarlyInv, PermissionAssumption
    <3> QED BY <1>1, <1>3, <2>1, <3>1 DEF MoveInv, EarlyInv
  <2> QED BY <1>2, <2>1 DEF MoveInv, EarlyInv, Early
<1>8. GoneInv'
  <2>1. \A b \in saved \cup proc.todo : Gone(b)'
    BY <1>5 DEF MoveInv, GoneInv, TypeOK
  <2>2. ASSUME NEW d \in Clients \ {c}, Holding(d)' PROVE Gone(client[d].ask)'
    <3>1. Holding(d) /\ client'[d] = client[d] BY <1>3, <2>2 DEF Holding
    <3>2. client[d].ask \in Asks BY <3>1 DEF Holding, TypeOK, Request
    <3>3. Gone(client[d].ask) BY <3>1 DEF MoveInv, GoneInv
    <3> QED BY <1>5, <3>1, <3>2, <3>3
  <2>3. Holding(c)' => Gone(client[c].ask)'
    BY <1>3, <1>6
  <2> QED BY <1>2, <2>1, <2>2, <2>3 DEF GoneInv, Holding
<1> QED BY <1>4, <1>7, <1>8 DEF MoveInv

\* A rule is saved for an ask that is gone.
LEMMA RememberMoves ==
  ASSUME TypeOK, TypeOK', MoveInv, PermissionAssumption, NEW c \in Clients, Remember(c)
  PROVE  MoveInv'
<1> DEFINE a == client[c].ask
<1>1. UNCHANGED <<ask, chan, pending, bridge, queue, proc>> /\ saved' \subseteq saved \cup {a}
  BY DEF Remember, asked, Row
<1>2. Gone(a) /\ a \in Asks
  BY DEF Remember, Holding, MoveInv, GoneInv, TypeOK, Request
<1>3. client'[c] = NoRequest /\ \A d \in Clients \ {c} : client'[d] = client[d]
  BY Ended DEF Remember, Finish
<1> HIDE DEF a
<1>4. ASSUME NEW b \in Asks, Gone(b) PROVE Gone(b)'
  BY <1>1, <1>3, <1>4, RequestTyped DEF Gone
<1>5. PlaceInv'
  BY <1>1, <1>3, RequestTyped DEF MoveInv, PlaceInv
<1>6. EarlyInv'
  BY <1>1, <1>3, RequestTyped DEF MoveInv, EarlyInv, Early, PermissionAssumption
<1>7. GoneInv'
  <2>1. \A b \in saved' \cup proc.todo : Gone(b)'
    BY <1>1, <1>2, <1>4 DEF MoveInv, GoneInv, TypeOK
  <2>2. ASSUME NEW d \in Clients, Holding(d)' PROVE Gone(client[d].ask)'
    <3>1. d # c BY <2>2, <1>3, RequestTyped DEF Holding
    <3>2. Holding(d) /\ client'[d] = client[d] BY <1>3, <2>2, <3>1 DEF Holding
    <3>3. client[d].ask \in Asks BY <3>2 DEF Holding, TypeOK, Request
    <3>4. Gone(client[d].ask) BY <3>2 DEF MoveInv, GoneInv
    <3> QED BY <1>4, <3>2, <3>3, <3>4
  <2> QED BY <1>1, <2>1, <2>2 DEF GoneInv, Holding
<1> QED BY <1>5, <1>6, <1>7 DEF MoveInv

\* A new request is about an ask that was shown, or about a saved rule.
LEMMA RequestMoves ==
  ASSUME TypeOK, TypeOK', MoveInv, PermissionAssumption, NEW c \in Clients, NEW a \in Asks,
         ReadRule(c, a) \/ \E r \in Replies : Respond(c, a, r)
  PROVE  MoveInv'
<1>1. UNCHANGED <<ask, chan, pending, bridge, queue, proc, saved>> /\ ask[a] \notin Early
  BY DEF ReadRule, Respond, plane, asked, stored, MoveInv, EarlyInv, GoneInv, Gone
<1>2. /\ client'[c].related = {} /\ client'[c].ask = a /\ ~Holding(c)'
      /\ \A d \in Clients \ {c} : client'[d] = client[d]
  <2>1. CASE ReadRule(c, a)
    BY <2>1, Deleting DEF ReadRule, Holding
  <2>2. ASSUME NEW r \in Replies, Respond(c, a, r)
        PROVE  /\ client'[c].related = {} /\ client'[c].ask = a /\ ~Holding(c)'
               /\ \A d \in Clients \ {c} : client'[d] = client[d]
    BY <2>2, Answering DEF Respond, Holding
  <2> QED BY <2>1, <2>2
<1>3. ASSUME NEW b \in Asks, Gone(b) PROVE Gone(b)'
  BY <1>1, <1>2, <1>3 DEF Gone
<1>4. PlaceInv'
  BY <1>1, <1>2 DEF MoveInv, PlaceInv
<1>5. EarlyInv'
  BY <1>1, <1>2 DEF MoveInv, EarlyInv, Early
<1>6. GoneInv'
  <2>1. \A b \in saved \cup proc.todo : Gone(b)'
    BY <1>3 DEF MoveInv, GoneInv, TypeOK
  <2>2. ASSUME NEW d \in Clients, Holding(d)' PROVE Gone(client[d].ask)'
    <3>1. Holding(d) /\ client'[d] = client[d] BY <1>2, <2>2 DEF Holding
    <3>2. client[d].ask \in Asks BY <3>1 DEF Holding, TypeOK, Request
    <3>3. Gone(client[d].ask) BY <3>1 DEF MoveInv, GoneInv
    <3> QED BY <1>3, <3>1, <3>2, <3>3
  <2> QED BY <1>1, <2>1, <2>2 DEF GoneInv, Holding
<1> QED BY <1>4, <1>5, <1>6 DEF MoveInv

\* A start takes up replies to asks of an earlier process.
LEMMA StartMoves ==
  ASSUME TypeOK, TypeOK', MoveInv, DownInv, PermissionAssumption, Start
  PROVE  MoveInv'
<1>1. /\ UNCHANGED <<ask, chan, pending, bridge, client, queue, saved>>
      /\ proc'.todo = {a \in Asks : queue[a] = "queued"}
  BY DEF Start, asked, stored, TypeOK
<1>2. PlaceInv' /\ EarlyInv'
  BY <1>1 DEF MoveInv, PlaceInv, EarlyInv, Early
<1>3. ASSUME NEW a \in Asks, queue[a] = "queued" PROVE Gone(a)
  BY <1>3, RequestTyped DEF Start, DownInv, MoveInv, EarlyInv, Gone, PermissionAssumption
<1>4. ASSUME NEW a, Gone(a) PROVE Gone(a)'
  BY <1>1, <1>4 DEF Gone
<1>5. GoneInv'
  BY <1>1, <1>3, <1>4 DEF MoveInv, GoneInv, Holding
<1> QED BY <1>2, <1>5 DEF MoveInv

\* Every step recedes, or is one that moves an ask or opens a request.
Moving ==
    \/ Start \/ Keep
    \/ \E a \in Asks : Ask(a) \/ Recv(a)
    \/ \E c \in Clients : Take(c) \/ Remember(c)
    \/ \E c \in Clients, a \in Asks : ReadRule(c, a) \/ \E r \in Replies : Respond(c, a, r)

LEMMA RecedesOrMoves ==
  ASSUME TypeOK, MoveInv, [Next]_vars, PermissionAssumption
  PROVE  Receding \/ Moving
<1>1. CASE UNCHANGED vars
  BY <1>1, QueueUnchanged DEF vars, plane, asked, stored, Receding
<1> QED BY <1>1, CallRecedes, BridgeRecedes, RequestRecedes, SetModeRecedes, ProcessRecedes
        DEF Next, CallStep, BridgeStep, Handler, Boot, Moving

LEMMA MoveStep ==
  ASSUME TypeOK, TypeOK', AskInv, [Next]_vars, PermissionAssumption
  PROVE  MoveInv'
<1>1. MoveInv /\ DownInv
  BY DEF AskInv, MoveInv
<1>2. CASE Receding
  BY <1>1, <1>2, RecedingKeeps
<1>3. ASSUME Keep PROVE MoveInv'
  <2>1. bridge.ask \in Asks BY <1>3 DEF Keep, TypeOK
  <2> QED BY <1>1, <1>3, <2>1, AskMoves
<1> QED BY <1>1, <1>2, <1>3, RecedesOrMoves, AskMoves, TakeMoves, RememberMoves,
     RequestMoves,
           StartMoves DEF Moving

LEMMA HaltIsQuiet ==
  ASSUME TypeOK, PermissionAssumption, NEW successor \in BOOLEAN, Halt(successor)
  PROVE  DownInv'
<1>1. /\ chan' = {} /\ pending' = {} /\ bridge' = [pc |-> "recv", ask |-> NoAsk]
      /\ \A a \in Asks : ask'[a] \notin InFlight
      /\ \A c \in Clients : client'[c] = NoRequest
  BY Halted
<1> QED BY <1>1 DEF DownInv, InFlight, NoRequest

LEMMA DownStep ==
  ASSUME TypeOK, DownInv, [Next]_vars
  PROVE  DownInv'
<1> USE PermissionAssumption
<1>1. ASSUME NEW a \in Asks, Call(a) PROVE DownInv'
  BY <1>1, RequestTyped DEF Call, Yolo, plane, asked, stored, DownInv, InFlight
<1>2. ASSUME NEW a \in Asks, Check(a) PROVE DownInv'
  BY <1>2, RequestTyped DEF Check, plane, asked, stored, DownInv, InFlight
<1>3. ASSUME NEW a \in Asks, Ask(a) PROVE DownInv'
  BY <1>3, RequestTyped DEF Ask, plane, asked, stored, DownInv, InFlight
<1>4. ASSUME NEW a \in Asks, Wake(a) PROVE DownInv'
  BY <1>4, RequestTyped DEF Wake, Apply, plane, asked, stored, DownInv, InFlight
<1>5. ASSUME NEW a \in Asks, Cancel(a) PROVE DownInv'
  BY <1>5, RequestTyped DEF Cancel, Spend, plane, asked, stored, DownInv, InFlight
<1>6. ASSUME NEW a \in Asks, NEW v \in Replies, Intercept(a, v) PROVE DownInv'
  BY <1>6, RequestTyped DEF Intercept, Apply, Spend, plane, asked, stored,
       DownInv, InFlight
<1>7. ASSUME NEW a \in Asks, Recv(a) PROVE DownInv'
  BY <1>7, RequestTyped DEF Recv, BridgeGoto, plane, asked, stored, DownInv,
       InFlight
<1>8. ASSUME Decide PROVE DownInv'
  BY <1>8, RequestTyped DEF Decide, BridgeGoto, plane, asked, stored, DownInv,
       InFlight
<1>9. ASSUME DecideBlind PROVE DownInv'
  BY <1>9, RequestTyped DEF DecideBlind, BridgeGoto, Spend, plane, asked, stored,
       DownInv, InFlight
<1>10. ASSUME Keep PROVE DownInv'
  BY <1>10 DEF Keep, DownInv, TypeOK
<1>11. ASSUME KeepFails PROVE DownInv'
  BY <1>11, RequestTyped DEF KeepFails, BridgeGoto, Spend, plane, asked, stored,
       DownInv, InFlight
<1>12. ASSUME NEW c \in Clients, Look(c) PROVE DownInv'
  BY <1>12, RequestTyped DEF Look, plane, asked, stored, DownInv, InFlight
<1>13. ASSUME NEW c \in Clients, ReadRows(c) PROVE DownInv'
  BY <1>13, RequestTyped DEF ReadRows, plane, asked, stored, DownInv, InFlight
<1>14. ASSUME NEW c \in Clients, QueueReply(c) PROVE DownInv'
  BY <1>14, RequestTyped DEF QueueReply, plane, asked, stored, DownInv, InFlight
<1>15. ASSUME NEW c \in Clients, Take(c) PROVE DownInv'
  BY <1>15, RequestTyped DEF Take, DownInv, plane, asked, stored
<1>16. ASSUME NEW c \in Clients, Taken(c) PROVE DownInv'
  BY <1>16, RequestTyped DEF Taken, plane, asked, stored, DownInv, InFlight
<1>17. ASSUME NEW c \in Clients, Resolve(c) PROVE DownInv'
  BY <1>17, RequestTyped DEF Resolve, Finish, Spend, plane, asked, stored,
       DownInv, InFlight
<1>18. ASSUME NEW c \in Clients, Remember(c) PROVE DownInv'
  BY <1>18, RequestTyped DEF Remember, Finish, plane, asked, stored, DownInv,
       InFlight
<1>19. ASSUME NEW c \in Clients, Sweep(c) PROVE DownInv'
  BY <1>19, RequestTyped DEF Sweep, plane, asked, stored, DownInv, InFlight
<1>20. ASSUME NEW c \in Clients, DropRule(c) PROVE DownInv'
  BY <1>20, RequestTyped DEF DropRule, plane, asked, stored, DownInv, InFlight
<1>21. ASSUME NEW c \in Clients, Revoke(c) PROVE DownInv'
  BY <1>21, RequestTyped DEF Revoke, plane, asked, stored, DownInv, InFlight
<1>22. ASSUME NEW c \in Clients, Fail(c) PROVE DownInv'
  BY <1>22, RequestTyped DEF Fail, Spend, plane, asked, stored, DownInv, InFlight
<1>23. ASSUME NEW c \in Clients, NEW a \in Asks, NEW r \in Replies, Respond(c, a, r)
      PROVE  DownInv'
  BY <1>23, RequestTyped DEF Respond, Up, plane, asked, stored, DownInv, InFlight
<1>24. ASSUME NEW c \in Clients, NEW r \in Roots, NEW m \in {"manual", "yolo"}, SetMode(c, r, m)
      PROVE  DownInv'
  BY <1>24, RequestTyped DEF SetMode, Spend, Up, plane, asked, stored, DownInv,
       InFlight
<1>25. ASSUME NEW c \in Clients, NEW a \in Asks, ReadRule(c, a) PROVE DownInv'
  BY <1>25, RequestTyped DEF ReadRule, Spend, Up, plane, asked, stored, DownInv,
       InFlight
<1>26. ASSUME NEW c \in Clients, NEW a \in Asks, SweepBlind(c, a) PROVE DownInv'
  BY <1>26, RequestTyped DEF SweepBlind, Spend, plane, asked, stored, DownInv,
       InFlight
<1>27. ASSUME NEW successor \in BOOLEAN, Stop(successor) PROVE DownInv'
  BY <1>27, Halted DEF Stop, DownInv
<1>28. ASSUME Start PROVE DownInv'
  BY <1>28 DEF Start, DownInv, TypeOK
<1>29. ASSUME Serve PROVE DownInv'
  BY <1>29 DEF Serve, DownInv, TypeOK
<1>30. ASSUME NEW a \in Asks, Discard(a) PROVE DownInv'
  BY <1>30 DEF Discard, DownInv, TypeOK
<1>31. ASSUME NEW a \in Asks, NoTarget(a) PROVE DownInv'
  <2>1. CASE Halt(FALSE) BY <2>1, HaltIsQuiet
  <2>2. CASE ~Halt(FALSE) BY <1>31, <2>2 DEF NoTarget, GiveUp, DownInv, TypeOK
  <2> QED BY <2>1, <2>2
<1>32. ASSUME NEW a \in Asks, Continue(a) PROVE DownInv'
  <2>1. CASE Halt(FALSE) BY <2>1, HaltIsQuiet
  <2>2. CASE ~Halt(FALSE) BY <1>32, <2>2 DEF Continue, GiveUp, DownInv, TypeOK
  <2> QED BY <2>1, <2>2
<1>33. CASE UNCHANGED vars BY <1>33 DEF vars, plane, asked, stored, DownInv,
     InFlight
<1> QED BY <1>1, <1>2, <1>3, <1>4, <1>5, <1>6, <1>7, <1>8, <1>9, <1>10, <1>11, <1>12,
     <1>13, <1>14, <1>15, <1>16, <1>17, <1>18, <1>19, <1>20, <1>21, <1>22, <1>23,
     <1>24, <1>25, <1>26, <1>27, <1>28, <1>29, <1>30, <1>31, <1>32, <1>33
     DEF Next, CallStep, BridgeStep, Handler, Boot

LEMMA AskStep ==
  ASSUME TypeOK, TypeOK', AskInv, [Next]_vars, PermissionAssumption
  PROVE  AskInv'
<1>1. DownInv BY DEF AskInv
<1>2. DownInv' BY <1>1, DownStep
<1> QED BY <1>2, MoveStep DEF AskInv, MoveInv

-----------------------------------------------------------------------------
(* A rule is saved only for an "always" that the call received. *)

\* No answer reaches the channel of an ask that is gone.
GoneHearsNothing == \A a \in Asks : Gone(a) => verdict'[a] = verdict[a]

LEMMA GoneIsDeaf ==
  ASSUME TypeOK, AskInv, [Next]_vars
  PROVE  GoneHearsNothing
<1> USE PermissionAssumption
<1>1. ASSUME NEW a \in Asks, Call(a) PROVE GoneHearsNothing
  BY <1>1 DEF Call, plane, GoneHearsNothing
<1>2. ASSUME NEW a \in Asks, Check(a) PROVE GoneHearsNothing
  BY <1>2 DEF Check, plane, GoneHearsNothing
<1>3. ASSUME NEW a \in Asks, Ask(a) PROVE GoneHearsNothing
  BY <1>3 DEF Ask, plane, GoneHearsNothing
<1>4. ASSUME NEW a \in Asks, Wake(a) PROVE GoneHearsNothing
  BY <1>4 DEF Wake, plane, GoneHearsNothing
<1>5. ASSUME NEW a \in Asks, Cancel(a) PROVE GoneHearsNothing
  BY <1>5 DEF Cancel, plane, GoneHearsNothing
<1>6. ASSUME NEW a \in Asks, NEW v \in Replies, Intercept(a, v) PROVE GoneHearsNothing
  BY <1>6 DEF Intercept, TypeOK, Gone, Early, GoneHearsNothing
<1>7. ASSUME NEW a \in Asks, Recv(a) PROVE GoneHearsNothing
  BY <1>7 DEF Recv, plane, GoneHearsNothing
<1>8. ASSUME Decide PROVE GoneHearsNothing
  BY <1>8 DEF Decide, Sent, TypeOK, Gone, GoneHearsNothing
<1>9. ASSUME DecideBlind PROVE GoneHearsNothing
  BY <1>9 DEF DecideBlind, plane, GoneHearsNothing
<1>10. ASSUME Keep PROVE GoneHearsNothing
  BY <1>10 DEF Keep, plane, GoneHearsNothing
<1>11. ASSUME KeepFails PROVE GoneHearsNothing
  BY <1>11 DEF KeepFails, Sent, TypeOK, Gone, GoneHearsNothing
<1>12. ASSUME NEW c \in Clients, Look(c) PROVE GoneHearsNothing
  BY <1>12 DEF Look, plane, GoneHearsNothing
<1>13. ASSUME NEW c \in Clients, ReadRows(c) PROVE GoneHearsNothing
  BY <1>13 DEF ReadRows, plane, GoneHearsNothing
<1>14. ASSUME NEW c \in Clients, QueueReply(c) PROVE GoneHearsNothing
  BY <1>14 DEF QueueReply, plane, GoneHearsNothing
<1>15. ASSUME NEW c \in Clients, Take(c) PROVE GoneHearsNothing
  BY <1>15, RelatedTyped DEF Take, Sent, TypeOK, Gone, GoneHearsNothing
<1>16. ASSUME NEW c \in Clients, Taken(c) PROVE GoneHearsNothing
  BY <1>16 DEF Taken, plane, GoneHearsNothing
<1>17. ASSUME NEW c \in Clients, Resolve(c) PROVE GoneHearsNothing
  BY <1>17 DEF Resolve, Finish, Sent, TypeOK, Gone, GoneHearsNothing
<1>18. ASSUME NEW c \in Clients, Remember(c) PROVE GoneHearsNothing
  BY <1>18 DEF Remember, Finish, Sent, TypeOK, Gone, GoneHearsNothing
<1>19. ASSUME NEW c \in Clients, Sweep(c) PROVE GoneHearsNothing
  BY <1>19 DEF Sweep, Sent, TypeOK, Gone, GoneHearsNothing
<1>20. ASSUME NEW c \in Clients, DropRule(c) PROVE GoneHearsNothing
  BY <1>20 DEF DropRule, plane, GoneHearsNothing
<1>21. ASSUME NEW c \in Clients, Revoke(c) PROVE GoneHearsNothing
  BY <1>21 DEF Revoke, plane, GoneHearsNothing
<1>22. ASSUME NEW c \in Clients, Fail(c) PROVE GoneHearsNothing
  BY <1>22 DEF Fail, Sent, TypeOK, Gone, GoneHearsNothing
<1>23. ASSUME NEW c \in Clients, NEW a \in Asks, NEW r \in Replies, Respond(c, a, r)
      PROVE  GoneHearsNothing
  BY <1>23 DEF Respond, plane, GoneHearsNothing
<1>24. ASSUME NEW c \in Clients, NEW r \in Roots, NEW m \in {"manual", "yolo"}, SetMode(c, r, m)
      PROVE  GoneHearsNothing
  BY <1>24 DEF SetMode, plane, GoneHearsNothing
<1>25. ASSUME NEW c \in Clients, NEW a \in Asks, ReadRule(c, a) PROVE GoneHearsNothing
  BY <1>25 DEF ReadRule, plane, GoneHearsNothing
<1>26. ASSUME NEW c \in Clients, NEW a \in Asks, SweepBlind(c, a) PROVE GoneHearsNothing
  BY <1>26 DEF SweepBlind, Sent, TypeOK, Gone, GoneHearsNothing
<1>27. ASSUME NEW successor \in BOOLEAN, Stop(successor) PROVE GoneHearsNothing
  BY <1>27 DEF Stop, plane, GoneHearsNothing
<1>28. ASSUME Start PROVE GoneHearsNothing
  BY <1>28 DEF Start, plane, GoneHearsNothing
<1>29. ASSUME Serve PROVE GoneHearsNothing
  BY <1>29 DEF Serve, plane, GoneHearsNothing
<1>30. ASSUME NEW a \in Asks, Discard(a) PROVE GoneHearsNothing
  BY <1>30 DEF Discard, plane, GoneHearsNothing
<1>31. ASSUME NEW a \in Asks, NoTarget(a) PROVE GoneHearsNothing
  BY <1>31 DEF NoTarget, plane, GiveUp, Halt, GoneHearsNothing
<1>32. ASSUME NEW a \in Asks, Continue(a) PROVE GoneHearsNothing
  BY <1>32 DEF Continue, plane, GiveUp, Halt, GoneHearsNothing
<1>33. CASE UNCHANGED vars BY <1>33 DEF vars, plane, asked, stored, TypeOK,
     Verdicts, Replies, Gone, Early, GoneHearsNothing
<1> QED BY <1>1, <1>2, <1>3, <1>4, <1>5, <1>6, <1>7, <1>8, <1>9, <1>10, <1>11, <1>12,
     <1>13, <1>14, <1>15, <1>16, <1>17, <1>18, <1>19, <1>20, <1>21, <1>22, <1>23,
     <1>24, <1>25, <1>26, <1>27, <1>28, <1>29, <1>30, <1>31, <1>32, <1>33
     DEF Next, CallStep, BridgeStep, Handler, Boot

\* What a request holds, and what is saved, it held or had saved before: but for
\* the answer itself and for the rule that follows it.
LEMMA HoldingStep ==
  ASSUME TypeOK, TypeOK', AskInv, [Next]_vars, PermissionAssumption,
         ~\E c \in Clients : Take(c) \/ Remember(c)
  PROVE  /\ \A c \in Clients : Holding(c)' =>
              /\ client'[c].ask = client[c].ask /\ HoldsOn(c)
         /\ saved' \subseteq saved
<1> DEFINE Goal == /\ \A c \in Clients : Holding(c)' =>
                        /\ client'[c].ask = client[c].ask /\ HoldsOn(c)
                   /\ saved' \subseteq saved
<1>0. MoveInv /\ DownInv
  BY DEF AskInv, MoveInv
<1>1. ASSUME Receding PROVE Goal
  <2>1. ASSUME NEW c \in Clients, Holding(c)' PROVE client'[c].ask = client[c].ask
    BY <1>1, <2>1 DEF Receding, Holding, TypeOK
  <2> QED BY <1>1, <2>1 DEF Receding
<1>2. ASSUME UNCHANGED <<client, saved>> PROVE Goal
  BY <1>2 DEF Holding, HoldsOn
<1>3. ASSUME NEW c \in Clients, NEW a \in Asks, ReadRule(c, a) PROVE Goal
  BY <1>3, Deleting DEF ReadRule, stored, Holding, HoldsOn
<1>4. ASSUME NEW c \in Clients, NEW a \in Asks, NEW r \in Replies, Respond(c, a, r)
      PROVE  Goal
  BY <1>4, Answering DEF Respond, stored, Holding, HoldsOn
<1>5. ASSUME Start \/ Keep \/ \E a \in Asks : Ask(a) \/ Recv(a) PROVE Goal
  BY <1>2, <1>5 DEF stored, Start, Keep, Ask, Recv
<1> HIDE DEF Goal
<1>6. Goal
  BY <1>0, <1>1, <1>3, <1>4, <1>5, RecedesOrMoves DEF Moving
<1> QED BY <1>6 DEF Goal

LEMMA HeardStep ==
  ASSUME TypeOK, TypeOK', AskInv, HeardInv, SavedWasHeard, [Next]_vars, PermissionAssumption
  PROVE  HeardInv' /\ SavedWasHeard'
<1>1. \A a \in Asks : Gone(a) => verdict'[a] = verdict[a]
  BY GoneIsDeaf DEF GoneHearsNothing
<1>2. \A a \in saved : a \in Asks /\ verdict'[a] = "always"
  BY <1>1 DEF AskInv, GoneInv, SavedWasHeard, TypeOK
<1>3. ASSUME NEW c \in Clients, Holding(c), client[c].reply = "always"
      PROVE  client[c].ask \in Asks /\ verdict'[client[c].ask] = "always"
  <2>1. client[c].ask \in Asks BY <1>3 DEF Holding, TypeOK, Request
  <2> QED BY <1>1, <1>3, <2>1 DEF AskInv, GoneInv, HeardInv
<1>4. ASSUME NEW c \in Clients, Take(c) PROVE HeardInv' /\ SavedWasHeard'
  <2>1. saved' = saved
    BY <1>4 DEF Take, stored
  <2>2. CASE ask[client[c].ask] = "wait"
    <3>1. /\ client' = [client EXCEPT ![c].pc = "resolve",
                                     ![c].related = Related(client[c].ask, client[c].reply)]
          /\ verdict' = Sent({client[c].ask}, client[c].reply)
          /\ client[c].pc = "present" /\ client[c].ask \in Asks
      BY <1>4, <2>2 DEF Take, TypeOK
    <3>2. verdict'[client[c].ask] = client[c].reply
      BY <3>1, <2>2 DEF Sent
    <3>3. /\ client'[c].ask = client[c].ask /\ client'[c].reply = client[c].reply
          /\ client'[c].pc = "resolve"
          /\ \A d \in Clients \ {c} : client'[d] = client[d]
      <4> DEFINE S == Related(client[c].ask, client[c].reply)
      <4>1. S \subseteq Asks BY RelatedTyped
      <4>2. client' = [client EXCEPT ![c].pc = "resolve", ![c].related = S] BY <3>1
      <4> HIDE DEF S
      <4> QED BY <3>1, <4>1, <4>2, Took
    <3>4. HeardInv'
      <4>1. ASSUME NEW d \in Clients
            PROVE  /\ Holding(d)' /\ client'[d].reply = "always" =>
                     verdict'[client'[d].ask] = "always"
                   /\ client'[d].pc = "rule" => client'[d].reply = "always"
        BY <1>3, <3>2, <3>3 DEF HeardInv, Holding
      <4> QED BY <4>1 DEF HeardInv, Holding
    <3> QED BY <1>2, <2>1, <3>4 DEF SavedWasHeard
  <2>3. CASE ask[client[c].ask] # "wait"
    <3>1. client'[c] = NoRequest /\ \A d \in Clients \ {c} : client'[d] = client[d]
      BY <1>4, <2>3, Ended DEF Take
    <3>2. HeardInv'
      BY <1>3, <3>1, RequestTyped DEF HeardInv, Holding
    <3> QED BY <1>2, <2>1, <3>2 DEF SavedWasHeard
  <2> QED BY <2>2, <2>3
<1>5. ASSUME NEW c \in Clients, Remember(c) PROVE HeardInv' /\ SavedWasHeard'
  <2>1. Holding(c) /\ saved' \subseteq saved \cup {client[c].ask}
    BY <1>5 DEF Remember, Row, Holding
  <2>2. client'[c] = NoRequest /\ \A d \in Clients \ {c} : client'[d] = client[d]
    BY <1>5, Ended DEF Remember, Finish
  <2>3. HeardInv'
    BY <1>3, <2>2, RequestTyped DEF HeardInv, Holding
  <2>4. client[c].reply = "always"
    BY <1>5 DEF Remember, HeardInv
  <2> QED BY <1>2, <1>3, <2>1, <2>3, <2>4 DEF SavedWasHeard
<1>6. CASE ~\E c \in Clients : Take(c) \/ Remember(c)
  <2>1. /\ \A c \in Clients : Holding(c)' =>
              /\ client'[c].ask = client[c].ask /\ HoldsOn(c)
        /\ saved' \subseteq saved
    BY <1>6, HoldingStep
  <2>2. ASSUME NEW c \in Clients
        PROVE  /\ Holding(c)' /\ client'[c].reply = "always" => verdict'[client'[c].ask] = "always"
               /\ client'[c].pc = "rule" => client'[c].reply = "always"
    <3>1. client'[c].pc = "rule" => Holding(c)' BY DEF Holding
    <3> QED BY <1>3, <2>1, <3>1 DEF HeardInv, HoldsOn
  <2>3. HeardInv' BY <2>2 DEF HeardInv, Holding
  <2> QED BY <1>2, <2>1, <2>3 DEF SavedWasHeard
<1> QED BY <1>4, <1>5, <1>6

-----------------------------------------------------------------------------
(* No ask of a swept tree is pending, and every pending ask has its row. *)

LEMMA YoloStep ==
  ASSUME TypeOK, YoloInv, YoloReleased, [Next]_vars
  PROVE  YoloInv' /\ YoloReleased'
<1> USE PermissionAssumption
<1>1. ASSUME NEW a \in Asks, Call(a) PROVE YoloInv' /\ YoloReleased'
  BY <1>1 DEF Call, plane, asked, YoloInv, YoloReleased
<1>2. ASSUME NEW a \in Asks, Check(a) PROVE YoloInv' /\ YoloReleased'
  BY <1>2 DEF Check, plane, asked, YoloInv, YoloReleased
<1>3. ASSUME NEW a \in Asks, Ask(a) PROVE YoloInv' /\ YoloReleased'
  BY <1>3 DEF Ask, plane, asked, YoloInv, YoloReleased
<1>4. ASSUME NEW a \in Asks, Wake(a) PROVE YoloInv' /\ YoloReleased'
  BY <1>4 DEF Wake, plane, asked, YoloInv, YoloReleased
<1>5. ASSUME NEW a \in Asks, Cancel(a) PROVE YoloInv' /\ YoloReleased'
  BY <1>5 DEF Cancel, plane, asked, YoloInv, YoloReleased
<1>6. ASSUME NEW a \in Asks, NEW v \in Replies, Intercept(a, v)
      PROVE  YoloInv' /\ YoloReleased'
  BY <1>6 DEF Intercept, plane, asked, YoloInv, YoloReleased
<1>7. ASSUME NEW a \in Asks, Recv(a) PROVE YoloInv' /\ YoloReleased'
  BY <1>7 DEF Recv, BridgeGoto, plane, YoloInv, YoloReleased
<1>8. ASSUME Decide PROVE YoloInv' /\ YoloReleased'
  BY <1>8 DEF Decide, BridgeGoto, Yolo, TypeOK, YoloInv, YoloReleased
<1>9. ASSUME DecideBlind PROVE YoloInv' /\ YoloReleased'
  BY <1>9 DEF DecideBlind, BridgeGoto, plane, YoloInv, YoloReleased
<1>10. ASSUME Keep PROVE YoloInv' /\ YoloReleased'
  BY <1>10 DEF Keep, BridgeGoto, plane, YoloInv, YoloReleased
<1>11. ASSUME KeepFails PROVE YoloInv' /\ YoloReleased'
  BY <1>11 DEF KeepFails, BridgeGoto, YoloInv, YoloReleased
<1>12. ASSUME NEW c \in Clients, Look(c) PROVE YoloInv' /\ YoloReleased'
  BY <1>12 DEF Look, plane, asked, YoloInv, YoloReleased
<1>13. ASSUME NEW c \in Clients, ReadRows(c) PROVE YoloInv' /\ YoloReleased'
  BY <1>13 DEF ReadRows, plane, asked, YoloInv, YoloReleased
<1>14. ASSUME NEW c \in Clients, QueueReply(c) PROVE YoloInv' /\ YoloReleased'
  BY <1>14 DEF QueueReply, plane, asked, YoloInv, YoloReleased
<1>15. ASSUME NEW c \in Clients, Take(c) PROVE YoloInv' /\ YoloReleased'
  BY <1>15 DEF Take, YoloInv, YoloReleased
<1>16. ASSUME NEW c \in Clients, Taken(c) PROVE YoloInv' /\ YoloReleased'
  BY <1>16 DEF Taken, plane, asked, YoloInv, YoloReleased
<1>17. ASSUME NEW c \in Clients, Resolve(c) PROVE YoloInv' /\ YoloReleased'
  BY <1>17 DEF Resolve, plane, asked, YoloInv, YoloReleased
<1>18. ASSUME NEW c \in Clients, Remember(c) PROVE YoloInv' /\ YoloReleased'
  BY <1>18 DEF Remember, plane, asked, YoloInv, YoloReleased
<1>19. ASSUME NEW c \in Clients, Sweep(c) PROVE YoloInv' /\ YoloReleased'
  BY <1>19 DEF Sweep, LockFree, InTree, TypeOK, YoloInv, YoloReleased
<1>20. ASSUME NEW c \in Clients, DropRule(c) PROVE YoloInv' /\ YoloReleased'
  BY <1>20 DEF DropRule, plane, asked, YoloInv, YoloReleased
<1>21. ASSUME NEW c \in Clients, Revoke(c) PROVE YoloInv' /\ YoloReleased'
  BY <1>21 DEF Revoke, plane, asked, YoloInv, YoloReleased
<1>22. ASSUME NEW c \in Clients, Fail(c) PROVE YoloInv' /\ YoloReleased'
  BY <1>22 DEF Fail, plane, asked, YoloInv, YoloReleased
<1>23. ASSUME NEW c \in Clients, NEW a \in Asks, NEW r \in Replies, Respond(c, a, r)
      PROVE  YoloInv' /\ YoloReleased'
  BY <1>23 DEF Respond, plane, asked, YoloInv, YoloReleased
<1>24. ASSUME NEW c \in Clients, NEW r \in Roots, NEW m \in {"manual", "yolo"}, SetMode(c, r, m)
      PROVE  YoloInv' /\ YoloReleased'
  BY <1>24 DEF SetMode, asked, TypeOK, YoloInv, YoloReleased
<1>25. ASSUME NEW c \in Clients, NEW a \in Asks, ReadRule(c, a)
      PROVE  YoloInv' /\ YoloReleased'
  BY <1>25 DEF ReadRule, plane, asked, YoloInv, YoloReleased
<1>26. ASSUME NEW c \in Clients, NEW a \in Asks, SweepBlind(c, a)
      PROVE  YoloInv' /\ YoloReleased'
  BY <1>26 DEF SweepBlind, LockFree, YoloInv, YoloReleased
<1>27. ASSUME NEW successor \in BOOLEAN, Stop(successor) PROVE YoloInv' /\ YoloReleased'
  BY <1>27 DEF Stop, Halt, YoloInv, YoloReleased
<1>28. ASSUME Start PROVE YoloInv' /\ YoloReleased'
  BY <1>28 DEF Start, plane, asked, YoloInv, YoloReleased
<1>29. ASSUME Serve PROVE YoloInv' /\ YoloReleased'
  BY <1>29 DEF Serve, plane, asked, YoloInv, YoloReleased
<1>30. ASSUME NEW a \in Asks, Discard(a) PROVE YoloInv' /\ YoloReleased'
  BY <1>30 DEF Discard, plane, asked, YoloInv, YoloReleased
<1>31. ASSUME NEW a \in Asks, NoTarget(a) PROVE YoloInv' /\ YoloReleased'
  BY <1>31 DEF NoTarget, GiveUp, Halt, asked, YoloInv, YoloReleased
<1>32. ASSUME NEW a \in Asks, Continue(a) PROVE YoloInv' /\ YoloReleased'
  BY <1>32 DEF Continue, GiveUp, Halt, asked, YoloInv, YoloReleased
<1>33. CASE UNCHANGED vars BY <1>33 DEF vars, plane, asked, stored, TypeOK,
     YoloInv, YoloReleased
<1> QED BY <1>1, <1>2, <1>3, <1>4, <1>5, <1>6, <1>7, <1>8, <1>9, <1>10, <1>11, <1>12,
     <1>13, <1>14, <1>15, <1>16, <1>17, <1>18, <1>19, <1>20, <1>21, <1>22, <1>23,
     <1>24, <1>25, <1>26, <1>27, <1>28, <1>29, <1>30, <1>31, <1>32, <1>33
     DEF Next, CallStep, BridgeStep, Handler, Boot

LEMMA DurableStep ==
  ASSUME TypeOK, AskInv, PendingIsDurable, [Next]_vars
  PROVE  PendingIsDurable'
<1> USE PermissionAssumption
<1>1. ASSUME NEW a \in Asks, Call(a) PROVE PendingIsDurable'
  BY <1>1 DEF Call, asked, stored, PendingIsDurable
<1>2. ASSUME NEW a \in Asks, Check(a) PROVE PendingIsDurable'
  BY <1>2 DEF Check, asked, stored, PendingIsDurable
<1>3. ASSUME NEW a \in Asks, Ask(a) PROVE PendingIsDurable'
  BY <1>3 DEF Ask, asked, stored, PendingIsDurable
<1>4. ASSUME NEW a \in Asks, Wake(a) PROVE PendingIsDurable'
  BY <1>4 DEF Wake, asked, stored, PendingIsDurable
<1>5. ASSUME NEW a \in Asks, Cancel(a) PROVE PendingIsDurable'
  BY <1>5 DEF Cancel, asked, stored, PendingIsDurable
<1>6. ASSUME NEW a \in Asks, NEW v \in Replies, Intercept(a, v) PROVE PendingIsDurable'
  BY <1>6 DEF Intercept, asked, stored, PendingIsDurable
<1>7. ASSUME NEW a \in Asks, Recv(a) PROVE PendingIsDurable'
  BY <1>7 DEF Recv, asked, stored, PendingIsDurable
<1>8. ASSUME Decide PROVE PendingIsDurable'
  BY <1>8 DEF Decide, asked, stored, PendingIsDurable
<1>9. ASSUME DecideBlind PROVE PendingIsDurable'
  BY <1>9 DEF DecideBlind, asked, stored, PendingIsDurable
<1>10. ASSUME Keep PROVE PendingIsDurable'
  BY <1>10 DEF Keep, asked, stored, PendingIsDurable
<1>11. ASSUME KeepFails PROVE PendingIsDurable'
  BY <1>11 DEF KeepFails, asked, stored, PendingIsDurable
<1>12. ASSUME NEW c \in Clients, Look(c) PROVE PendingIsDurable'
  BY <1>12 DEF Look, asked, stored, PendingIsDurable
<1>13. ASSUME NEW c \in Clients, ReadRows(c) PROVE PendingIsDurable'
  BY <1>13 DEF ReadRows, asked, stored, PendingIsDurable
<1>14. ASSUME NEW c \in Clients, QueueReply(c) PROVE PendingIsDurable'
  BY <1>14 DEF QueueReply, asked, stored, PendingIsDurable
<1>15. ASSUME NEW c \in Clients, Take(c) PROVE PendingIsDurable'
  BY <1>15 DEF Take, asked, stored, PendingIsDurable
<1>16. ASSUME NEW c \in Clients, Taken(c) PROVE PendingIsDurable'
  BY <1>16 DEF Taken, asked, stored, PendingIsDurable
<1>17. ASSUME NEW c \in Clients, Resolve(c) PROVE PendingIsDurable'
  BY <1>17 DEF Resolve, Holding, AskInv, GoneInv, Gone, asked, PendingIsDurable
<1>18. ASSUME NEW c \in Clients, Remember(c) PROVE PendingIsDurable'
  BY <1>18 DEF Remember, asked, stored, PendingIsDurable
<1>19. ASSUME NEW c \in Clients, Sweep(c) PROVE PendingIsDurable'
  BY <1>19 DEF Sweep, asked, stored, PendingIsDurable
<1>20. ASSUME NEW c \in Clients, DropRule(c) PROVE PendingIsDurable'
  BY <1>20 DEF DropRule, asked, stored, PendingIsDurable
<1>21. ASSUME NEW c \in Clients, Revoke(c) PROVE PendingIsDurable'
  BY <1>21 DEF Revoke, asked, stored, PendingIsDurable
<1>22. ASSUME NEW c \in Clients, Fail(c) PROVE PendingIsDurable'
  BY <1>22 DEF Fail, asked, stored, PendingIsDurable
<1>23. ASSUME NEW c \in Clients, NEW a \in Asks, NEW r \in Replies, Respond(c, a, r)
      PROVE  PendingIsDurable'
  BY <1>23 DEF Respond, asked, stored, PendingIsDurable
<1>24. ASSUME NEW c \in Clients, NEW r \in Roots, NEW m \in {"manual", "yolo"}, SetMode(c, r, m)
      PROVE  PendingIsDurable'
  BY <1>24 DEF SetMode, asked, stored, PendingIsDurable
<1>25. ASSUME NEW c \in Clients, NEW a \in Asks, ReadRule(c, a) PROVE PendingIsDurable'
  BY <1>25 DEF ReadRule, asked, stored, PendingIsDurable
<1>26. ASSUME NEW c \in Clients, NEW a \in Asks, SweepBlind(c, a) PROVE PendingIsDurable'
  BY <1>26 DEF SweepBlind, asked, stored, PendingIsDurable
<1>27. ASSUME NEW successor \in BOOLEAN, Stop(successor) PROVE PendingIsDurable'
  BY <1>27 DEF Stop, Halt, stored, PendingIsDurable
<1>28. ASSUME Start PROVE PendingIsDurable'
  BY <1>28 DEF Start, asked, stored, PendingIsDurable
<1>29. ASSUME Serve PROVE PendingIsDurable'
  BY <1>29 DEF Serve, asked, stored, PendingIsDurable
<1>30. ASSUME NEW a \in Asks, Discard(a) PROVE PendingIsDurable'
  BY <1>30 DEF Discard, Claim, AskInv, GoneInv, Gone, asked, PendingIsDurable
<1>31. ASSUME NEW a \in Asks, NoTarget(a) PROVE PendingIsDurable'
  BY <1>31 DEF NoTarget, GiveUp, Halt, asked, stored, PendingIsDurable
<1>32. ASSUME NEW a \in Asks, Continue(a) PROVE PendingIsDurable'
  BY <1>32 DEF Continue, Claim, GiveUp, Halt, AskInv, GoneInv, Gone, asked, PendingIsDurable
<1>33. CASE UNCHANGED vars BY <1>33 DEF vars, plane, asked, stored, PendingIsDurable
<1> QED BY <1>1, <1>2, <1>3, <1>4, <1>5, <1>6, <1>7, <1>8, <1>9, <1>10, <1>11, <1>12,
     <1>13, <1>14, <1>15, <1>16, <1>17, <1>18, <1>19, <1>20, <1>21, <1>22, <1>23,
     <1>24, <1>25, <1>26, <1>27, <1>28, <1>29, <1>30, <1>31, <1>32, <1>33
     DEF Next, CallStep, BridgeStep, Handler, Boot

-----------------------------------------------------------------------------
(* The theorems. *)

LEMMA InvInit == Init => Inv
<1> SUFFICES ASSUME Init PROVE Inv
  OBVIOUS
<1> USE PermissionAssumption
<1>1. TypeOK
  BY TypeInit
<1>2. AskInv
  BY RequestTyped DEF Init, AskInv, PlaceInv, EarlyInv, GoneInv, DownInv, Holding,
       PermissionAssumption
<1>3. HeardInv /\ SavedWasHeard /\ YoloInv /\ YoloReleased /\ PendingIsDurable
  BY RequestTyped DEF Init, HeardInv, SavedWasHeard, YoloInv, YoloReleased,
       PendingIsDurable, Holding
<1> QED BY <1>1, <1>2, <1>3 DEF Inv

LEMMA InvStep == Inv /\ [Next]_vars => Inv'
<1> SUFFICES ASSUME Inv, [Next]_vars PROVE Inv'
  OBVIOUS
<1>1. TypeOK /\ AskInv /\ HeardInv /\ SavedWasHeard /\ YoloInv /\ YoloReleased /\ PendingIsDurable
  BY DEF Inv
<1>2. TypeOK'
  BY <1>1, TypeStep
<1>3. AskInv'
  BY <1>1, <1>2, AskStep, PermissionAssumption
<1>4. HeardInv' /\ SavedWasHeard'
  BY <1>1, <1>2, HeardStep, PermissionAssumption
<1>5. YoloInv' /\ YoloReleased'
  BY <1>1, YoloStep
<1>6. PendingIsDurable'
  BY <1>1, DurableStep
<1> QED BY <1>2, <1>3, <1>4, <1>5, <1>6 DEF Inv

LEMMA InvAlways == Spec => []Inv
BY InvInit, InvStep, PTL DEF Spec

\* The lock that the bridge holds over its reads and its write closes the race of
\* an ask with a switch to yolo: once allow_tree_once ran, and while the tree
\* stays in yolo, none of its asks is pending, however many trees, sessions and
\* clients there are.
THEOREM YoloReleasedAlways == Spec => []YoloReleased
<1>1. Inv => YoloReleased
  BY DEF Inv
<1> QED BY <1>1, InvAlways, PTL

\* Every ask that a client can be shown has an unresolved row, whatever store
\* calls fail and whoever answers: spawn keeps no ask it could not save, and reply
\* resolves the row of an ask that no place holds any more.
THEOREM PendingDurable == Spec => []PendingIsDurable
<1>1. Inv => PendingIsDurable
  BY DEF Inv
<1> QED BY <1>1, InvAlways, PTL

\* A rule is saved only for an "always" that the waiting call received: reply saves
\* it after the send succeeded, and no later answer reaches that call.
THEOREM SavedHeard == Spec => []SavedWasHeard
<1>1. Inv => SavedWasHeard
  BY DEF Inv
<1> QED BY <1>1, InvAlways, PTL

\* An ask is in one place at a time, a call that has not asked is in none, and the
\* ask of a saved rule, of an answer in progress or of a reply that a start works
\* on is in none either: nobody can answer it again.
THEOREM AnsweredOnce == Spec => [](PlaceInv /\ EarlyInv /\ GoneInv)
<1>1. Inv => PlaceInv /\ EarlyInv /\ GoneInv
  BY DEF Inv, AskInv
<1> QED BY <1>1, InvAlways, PTL
================================================================================
