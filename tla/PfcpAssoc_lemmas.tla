-------------------------- MODULE PfcpAssoc_lemmas --------------------------
(***************************************************************************)
(* The handlers of the two state machines of a PFCP peering and the        *)
(* transaction layer that carries them out: types, the inductive invariant *)
(* of NotForgotten, and the steps that carry out a handler, which keep it. *)
(***************************************************************************)
EXTENDS PfcpAssoc, TLAPS

(* The SMT solver is tried twice, then Zenon, where a leaf names neither.  *)
USE SMTT(60), SMTT(61), Zenon

Kinds == {Hb, Setup} \cup [type : {"est", "restore"}, sess : Sess]

Handlers == [node : NodeStates, reqs : SUBSET Kinds, restores : BOOLEAN]

LEMMA SideFacts == "cp" \in Sides /\ "up" \in Sides /\ \A s \in Sides : Peer(s) \in Sides
BY DEF Sides, Peer

LEMMA IdFacts ==
    ASSUME NEW i \in Ids
    PROVE  /\ i.own \in Sides
           /\ i.kind \in Kinds
           /\ i.kind.type \in {"hb", "setup", "est", "restore"}
           /\ i.kind.type = "hb" <=> i.kind = Hb
           /\ i.kind.type = "setup" <=> i.kind = Setup
           /\ i.kind.type \in {"est", "restore"} => i.own = "cp" /\ i.kind.sess \in Sess
<1>1. CASE i \in [own : Sides, kind : {Hb}, num : Numbers]
  <2>1. i.own \in Sides /\ i.kind = Hb
    BY <1>1
  <2>2. i.kind.type = "hb" /\ i.kind # Setup
    BY <2>1 DEF Hb, Setup
  <2> QED
    BY <2>1, <2>2 DEF Kinds
<1>2. CASE i \in [own : Assoc, kind : {Setup}, num : Numbers]
  <2>1. i.own \in Sides /\ i.kind = Setup
    BY Zenon, <1>2, ParameterAssumption DEF Sides
  <2>2. i.kind.type = "setup" /\ i.kind # Hb
    BY <2>1 DEF Hb, Setup
  <2> QED
    BY <2>1, <2>2 DEF Kinds
<1>3. CASE i \in [own : {"cp"}, kind : [type : {"est", "restore"}, sess : Sess], num : Numbers]
  <2>1. i.own = "cp" /\ i.kind \in [type : {"est", "restore"}, sess : Sess]
    BY <1>3
  <2>2. i.kind.type \in {"est", "restore"} /\ i.kind.sess \in Sess
    BY <2>1
  <2> QED
    BY <2>1, <2>2 DEF Kinds, Hb, Setup, Sides
<1> QED
  BY <1>1, <1>2, <1>3 DEF Ids

LEMMA RestoreKind ==
    ASSUME NEW i \in Ids, NEW x \in Sess
    PROVE  /\ i.kind = Restore(x) <=> i.kind.type = "restore" /\ i.kind.sess = x
           /\ i.kind = Est(x) <=> i.kind.type = "est" /\ i.kind.sess = x
BY ParameterAssumption DEF Ids, Hb, Setup, Est, Restore

LEMMA MessageFacts ==
    ASSUME NEW m \in Messages
    PROVE  /\ m.dir \in {"req", "rsp"}
           /\ m.id \in Ids
           /\ m.rts \in Nat \ {0}
           /\ Dest(m) \in Sides
           /\ m.dir = "req" => Dest(m) = Peer(m.id.own)
           /\ m.dir = "rsp" => Dest(m) = m.id.own
BY IdFacts, SideFacts DEF Messages, Boots, Dest

-----------------------------------------------------------------------------
(* The handlers of the state machines.                                     *)
LEMMA StayType ==
    ASSUME NEW n \in NodeStates
    PROVE  /\ Stay(n) \in Handlers
           /\ \A r \in SUBSET Kinds : [Stay(n) EXCEPT !.reqs = r] \in Handlers
BY Zenon DEF Stay, Handlers

LEMMA RestoreReqsType ==
    ASSUME NEW s PROVE RestoreReqs(s) \in SUBSET Kinds
BY DEF RestoreReqs, Restore, Kinds

LEMMA HearRtsType ==
    ASSUME NEW n \in NodeStates, NEW rts \in Boots, NEW s
    PROVE  /\ HearRts(n, rts) \in NodeStates
           /\ HearSetup(s, n, rts) \in NodeStates
BY Zenon DEF HearRts, HearSetup, NodeStates, Boots

LEMMA KindFacts == {} \in SUBSET Kinds /\ {Hb} \in SUBSET Kinds /\ {Setup} \in SUBSET Kinds
BY DEF Kinds

LEMMA ToWillAssociateType ==
    ASSUME NEW n \in NodeStates, NEW s PROVE ToWillAssociate(s, n) \in Handlers
<1> DEFINE n2 == [n EXCEPT !.sm = "will_associate",
                           !.timers = IF s \in Assoc THEN {"association"} ELSE {}]
<1>1. n2 \in NodeStates
  BY Zenon DEF NodeStates
<1> QED
  BY <1>1, StayType, KindFacts DEF ToWillAssociate

LEMMA ToAssociatedType ==
    ASSUME NEW n \in NodeStates, NEW s PROVE ToAssociated(s, n) \in Handlers
<1>1. [n EXCEPT !.sm = "associated", !.timers = {"heartbeat"}, !.restore = FALSE] \in NodeStates
  BY Zenon DEF NodeStates
<1>2. n.restore \in BOOLEAN
  BY DEF NodeStates
<1>3. {Hb} \cup (IF n.restore THEN RestoreReqs(s) ELSE {}) \in SUBSET Kinds
  BY RestoreReqsType, KindFacts
<1> QED
  BY <1>1, <1>2, <1>3 DEF ToAssociated, Handlers

LEMMA RestoreNowType ==
    ASSUME NEW n \in NodeStates, NEW s PROVE RestoreNow(s, n) \in Handlers
<1>1. [n EXCEPT !.restore = FALSE] \in NodeStates
  BY Zenon DEF NodeStates
<1> QED
  BY <1>1, RestoreReqsType DEF RestoreNow, Handlers

LEMMA HandlerTypes ==
    ASSUME NEW n \in NodeStates, NEW s
    PROVE  /\ AfterHeartbeat(s, n) \in Handlers
           /\ AfterSetup(s, n) \in Handlers
           /\ AfterNoHeartbeat(s, n) \in Handlers
           /\ \A e : AfterTimer(s, n, e) \in Handlers
<1>1. AfterHeartbeat(s, n) \in Handlers
  BY ToWillAssociateType, ToAssociatedType, RestoreNowType, StayType DEF AfterHeartbeat
<1>2. AfterSetup(s, n) \in Handlers
  BY ToAssociatedType, StayType DEF AfterSetup
<1>3. AfterNoHeartbeat(s, n) \in Handlers
  <2>1. [n EXCEPT !.timers = @ \cup {"heartbeat"}] \in NodeStates
    BY DEF NodeStates
  <2> QED
    BY Zenon, <2>1, ToWillAssociateType, StayType, KindFacts DEF AfterNoHeartbeat
<1>4. ASSUME NEW e PROVE AfterTimer(s, n, e) \in Handlers
  <2>1. [n EXCEPT !.timers = @ \cup {"association"}] \in NodeStates
    BY DEF NodeStates
  <2>2. [n EXCEPT !.timers = @ \ {"association"}] \in NodeStates
    BY DEF NodeStates
  <2> QED
    BY Zenon, <2>1, <2>2, StayType, KindFacts DEF AfterTimer
<1> QED
  BY <1>1, <1>2, <1>3, <1>4

-----------------------------------------------------------------------------
(* The transaction layer.                                                  *)
Tries == [Ids -> Answered .. N1]
Holdings == [Ids -> {"no", "open", "answered"}]

LEMMA DatagramType ==
    ASSUME TypeOK, NEW i \in Ids
    PROVE  /\ Req(i) \in Messages /\ Req(i).id = i /\ Req(i).dir = "req"
           /\ Req(i).rts = boot[i.own]
           /\ Rsp(i) \in Messages /\ Rsp(i).id = i /\ Rsp(i).dir = "rsp"
           /\ Rsp(i).rts = boot[Peer(i.own)]
<1>1. boot[i.own] \in Boots /\ boot[Peer(i.own)] \in Boots
  BY IdFacts, SideFacts DEF TypeOK
<1> QED
  BY <1>1 DEF Req, Rsp, Messages

(* An id as it was, or one that a new request of side s has taken.         *)
Taken(s, reqs, i) ==
    /\ i.own = s /\ i.kind \in reqs /\ Unused(i)
    /\ local'[i] = N1 /\ held'[i] = "no"

(* What carrying out a handler does to the transactions and the network.   *)
LEMMA DoFacts ==
    ASSUME TypeOK, NEW s \in Sides, NEW h \in Handlers, NEW l \in Tries, NEW q \in Holdings,
           NEW taken, NEW answers \in SUBSET Messages, Do(s, h, l, q, taken, answers)
    PROVE  /\ node' = [node EXCEPT ![s] = h.node]
           /\ node' \in [Sides -> NodeStates]
           /\ local' \in Tries /\ held' \in Holdings
           /\ \A i \in Ids : Taken(s, h.reqs, i) \/ (local'[i] = l[i] /\ held'[i] = q[i])
           /\ \A r \in h.reqs : \E i \in Ids : i.kind = r /\ Taken(s, h.reqs, i)
           /\ net' \subseteq Messages
           /\ \A m \in net' : \/ m \in net \ taken
                              \/ m \in answers
                              \/ m.id \in Ids /\ Taken(s, h.reqs, m.id) /\ m = Req(m.id)
           /\ adrift' = {x \in adrift : Restore(x) \notin h.reqs}
           /\ adrift' \subseteq Sess
           /\ stalled' = IF s = "cp" THEN stalled \ h.node.timers ELSE stalled
<1> DEFINE ids == NewIds(s, h.reqs)
<1>0. /\ \A r \in h.reqs : \E i \in ids : i.kind = r
      /\ node' = [node EXCEPT ![s] = h.node]
      /\ local' = [i \in Ids |-> IF i \in ids THEN N1 ELSE l[i]]
      /\ held' = [i \in Ids |-> IF i \in ids THEN "no" ELSE q[i]]
      /\ net' = (net \ taken) \cup answers \cup {Req(i) : i \in ids}
      /\ adrift' = {x \in adrift : Restore(x) \notin h.reqs}
      /\ stalled' = IF s = "cp" THEN stalled \ h.node.timers ELSE stalled
  BY DEF Do, HoldingTimeouts
<1>1. \A i \in ids : i \in Ids /\ i.own = s /\ i.kind \in h.reqs /\ Unused(i)
  BY DEF NewIds
<1> HIDE DEF ids
<1>2. node' \in [Sides -> NodeStates]
  BY <1>0 DEF TypeOK, Handlers
<1>3. N1 \in Answered .. N1
  BY ParameterAssumption DEF Answered
<1>4. local' \in Tries /\ held' \in Holdings
  BY <1>0, <1>3 DEF Tries, Holdings
<1>5. \A i \in ids : Taken(s, h.reqs, i)
  BY Zenon, <1>0, <1>1 DEF Taken
<1>6. \A i \in Ids : Taken(s, h.reqs, i) \/ (local'[i] = l[i] /\ held'[i] = q[i])
  BY Zenon, <1>0, <1>5
<1>7. net' \subseteq Messages
  BY <1>0, <1>1, DatagramType DEF TypeOK
<1>8. ASSUME NEW m \in net'
      PROVE  \/ m \in net \ taken
             \/ m \in answers
             \/ m.id \in Ids /\ Taken(s, h.reqs, m.id) /\ m = Req(m.id)
  <2>1. CASE \E i \in ids : m = Req(i)
    <3>1. PICK i \in ids : m = Req(i)
      BY <2>1
    <3>2. m.id = i
      BY <3>1, <1>1, DatagramType
    <3> QED
      BY Zenon, <3>1, <3>2, <1>1, <1>5
  <2> QED
    BY Zenon, <2>1, <1>0
<1>9. adrift' \subseteq Sess
  BY <1>0 DEF TypeOK
<1>10. \A r \in h.reqs : \E i \in Ids : i.kind = r /\ Taken(s, h.reqs, i)
  BY Zenon, <1>0, <1>1, <1>5
<1> QED
  BY Zenon, <1>0, <1>2, <1>4, <1>6, <1>7, <1>8, <1>9, <1>10

-----------------------------------------------------------------------------
(* Type correctness.                                                       *)
LEMMA TypeParts ==
    ASSUME TypeOK
    PROVE  /\ local \in Tries /\ held \in Holdings
           /\ \A s \in Sides : node[s] \in NodeStates
           /\ \A i \in Ids : local[i] \in Int
           /\ \A i \in Ids : [local EXCEPT ![i] = 0] \in Tries
           /\ \A i \in Ids : [held EXCEPT ![i] = "answered"] \in Holdings
<1>1. 0 \in Answered .. N1 /\ Answered .. N1 \subseteq Int
  BY ParameterAssumption DEF Answered
<1> QED
  BY <1>1 DEF TypeOK, Tries, Holdings

(* The same for requests that are sent out of the blue.                    *)
LEMMA SendFacts ==
    ASSUME TypeOK, NEW s \in Sides, NEW h \in Handlers, Do(s, h, local, held, {}, {})
    PROVE  /\ node' = [node EXCEPT ![s] = h.node]
           /\ node' \in [Sides -> NodeStates] /\ local' \in Tries /\ held' \in Holdings
           /\ net' \subseteq Messages /\ adrift' \subseteq Sess
           /\ \A i \in Ids : Taken(s, h.reqs, i) \/ (local'[i] = local[i] /\ held'[i] = held[i])
           /\ \A m \in net' : \/ m \in net
                              \/ m.id \in Ids /\ Taken(s, h.reqs, m.id) /\ m = Req(m.id)
           /\ adrift' = {y \in adrift : Restore(y) \notin h.reqs}
           /\ stalled' \subseteq {"association", "heartbeat"}
<1>1. local \in Tries /\ held \in Holdings /\ {} \in SUBSET Messages
  BY TypeParts
<1>2. stalled' \subseteq stalled /\ stalled \subseteq {"association", "heartbeat"}
  BY <1>1, DoFacts DEF TypeOK
<1> QED
  BY <1>1, <1>2, DoFacts

LEMMA KnownType ==
    ASSUME TypeOK, NEW s \in Sides, NEW i
    PROVE  /\ Known(s, i) \in NodeStates
           /\ Known(s, i).remote = node[s].remote
           /\ Known(s, i).restore = node[s].restore
           /\ Known(s, i).timers = node[s].timers
           /\ \/ Known(s, i) = node[s]
              \/ s \notin Assoc /\ Known(s, i).sm = "will_associate"
<1>1. node[s] \in NodeStates
  BY TypeParts
<1> QED
  BY <1>1 DEF Known, NodeStates

LEMMA RestorationType ==
    ASSUME TypeOK, NEW s, NEW h, Restoration(s, h)
    PROVE  usess' \subseteq Boots \X Sess /\ wiped' \subseteq Sess
BY Zenon DEF Restoration, TypeOK

(* The node a heartbeat response leaves, before the state machine.         *)
LEMMA HeartbeatNode ==
    ASSUME NEW n \in NodeStates, NEW rts \in Boots
    PROVE  [HearRts(n, rts) EXCEPT !.timers = @ \cup {"heartbeat"}] \in NodeStates
BY Zenon DEF HearRts, NodeStates, Boots

-----------------------------------------------------------------------------
(* The inductive invariant of NotForgotten.                                *)
ForSession(i) == i.kind.type \in {"est", "restore"}

Sender(m) == IF m.dir = "req" THEN m.id.own ELSE Peer(m.id.own)

(* No datagram carries a time stamp its sender has not had yet, and the    *)
(* requests that still have a transaction carry the present one.           *)
RtsBound == \A m \in net : m.rts <= boot[Sender(m)]
ReqRts == \A m \in net : m.dir = "req" /\ local[m.id] > 0 => m.rts = boot[m.id.own]

(* The control function has heard a time stamp before it has a session.    *)
RemoteBound == node["cp"].remote <= boot["up"]
Knows ==
    /\ node["cp"].sm = "associated" => node["cp"].remote # 0
    /\ \A x \in Sess : csess[x] # "none" => node["cp"].remote # 0
Quiet == \A i \in Ids : ForSession(i) /\ csess[i.kind.sess] = "none" => local[i] <= 0

(* The user plane has answered the transaction; a restoration it has not   *)
(* answered yet.                                                           *)
Replied(i) == local[i] > 0 /\ (held[i] = "answered" \/ \E m \in net : m.id = i /\ m.dir = "rsp")
Waiting(x) == \E i \in Ids : i.kind = Restore(x) /\ local[i] > 0 /\ ~Replied(i)

(* NotForgotten with Waiting for Restoring, and from the moment on that an *)
(* answer can make the control function take the session for installed.    *)
Sound(x) ==
    \/ Holds(x)
    \/ node["cp"].remote # boot["up"]
    \/ node["cp"].restore
    \/ Waiting(x)
    \/ x \in adrift
    \/ x \in wiped

Owes(x) ==
    \/ csess[x] = "up"
    \/ csess[x] = "opening" /\ \E i \in Ids : ForSession(i) /\ i.kind.sess = x /\ Replied(i)

Obligation == \A x \in Sess : Owes(x) => Sound(x)

IInv == TypeOK /\ RtsBound /\ ReqRts /\ RemoteBound /\ Knows /\ Quiet /\ Obligation

LEMMA IInvImplies == IInv => NotForgotten
BY DEF IInv, Obligation, Owes, Sound, Waiting, NotForgotten, Restoring

-----------------------------------------------------------------------------
(* What the proof needs of the node a handler of the control function      *)
(* starts from, and of what the handler leaves and sends.                  *)
Due == node["cp"].remote # boot["up"] \/ node["cp"].restore

GoodNode(n) ==
    /\ n.remote <= boot["up"]
    /\ n.sm = "associated" \/ node["cp"].remote # 0 => n.remote # 0
    /\ node["cp"].remote # 0 /\ n.remote = boot["up"] /\ Due => n.restore

Reinstalls(h) == \A x \in Sess : csess[x] \in {"opening", "up"} => Restore(x) \in h.reqs

GoodHandler(h) ==
    /\ h.node.remote <= boot["up"]
    /\ h.node.sm = "associated" \/ node["cp"].remote # 0 => h.node.remote # 0
    /\ node["cp"].remote # 0 /\ h.node.remote = boot["up"] /\ Due
          => h.node.restore \/ Reinstalls(h)
    /\ \A r \in h.reqs : r.type \in {"est", "restore"} => csess[r.sess] # "none"

LEMMA RestoreReqsGood ==
    /\ \A x \in Sess : csess[x] \in {"opening", "up"} => Restore(x) \in RestoreReqs("cp")
    /\ \A r \in RestoreReqs("cp") : csess[r.sess] # "none"
BY DEF RestoreReqs, Restore

LEMMA StayGood ==
    ASSUME NEW n, GoodNode(n)
    PROVE  /\ GoodHandler(Stay(n))
           /\ \A r \in {{}, {Hb}, {Setup}} : GoodHandler([Stay(n) EXCEPT !.reqs = r])
BY DEF GoodNode, GoodHandler, Stay, Hb, Setup

LEMMA ToWillAssociateGood ==
    ASSUME NEW n \in NodeStates, GoodNode(n) PROVE GoodHandler(ToWillAssociate("cp", n))
<1> DEFINE n2 == [n EXCEPT !.sm = "will_associate",
                           !.timers = IF "cp" \in Assoc THEN {"association"} ELSE {}]
<1>1. GoodNode(n2)
  BY DEF GoodNode, NodeStates
<1> QED
  BY Zenon, <1>1, StayGood DEF ToWillAssociate

LEMMA ToAssociatedGood ==
    ASSUME NEW n \in NodeStates, GoodNode(n), n.remote # 0
    PROVE  GoodHandler(ToAssociated("cp", n))
<1> DEFINE h == ToAssociated("cp", n)
<1>1. /\ h.node.remote = n.remote /\ h.node.restore = FALSE
      /\ h.reqs = {Hb} \cup IF n.restore THEN RestoreReqs("cp") ELSE {}
  BY Zenon DEF ToAssociated, NodeStates
<1>2. \A r \in h.reqs : r.type \in {"est", "restore"} => csess[r.sess] # "none"
  BY <1>1, RestoreReqsGood DEF Hb
<1>3. n.restore => Reinstalls(h)
  BY <1>1, RestoreReqsGood DEF Reinstalls
<1> QED
  BY <1>1, <1>2, <1>3 DEF GoodHandler, GoodNode

LEMMA RestoreNowGood ==
    ASSUME NEW n \in NodeStates, GoodNode(n) PROVE GoodHandler(RestoreNow("cp", n))
<1> DEFINE h == RestoreNow("cp", n)
<1>1. /\ h.node.remote = n.remote /\ h.node.sm = n.sm
      /\ h.reqs = RestoreReqs("cp")
  BY DEF RestoreNow, NodeStates
<1>2. Reinstalls(h)
  BY <1>1, RestoreReqsGood DEF Reinstalls
<1> QED
  BY <1>1, <1>2, RestoreReqsGood DEF GoodHandler, GoodNode

LEMMA HandlersGood ==
    ASSUME NEW n \in NodeStates, GoodNode(n)
    PROVE  /\ n.remote # 0 => GoodHandler(AfterHeartbeat("cp", n))
           /\ n.remote # 0 => GoodHandler(AfterSetup("cp", n))
           /\ GoodHandler(AfterNoHeartbeat("cp", n))
           /\ \A e : GoodHandler(AfterTimer("cp", n, e))
<1>1. n.remote # 0 => GoodHandler(AfterHeartbeat("cp", n))
  BY Zenon, ToWillAssociateGood, ToAssociatedGood, RestoreNowGood, StayGood DEF AfterHeartbeat
<1>2. n.remote # 0 => GoodHandler(AfterSetup("cp", n))
  BY Zenon, ToAssociatedGood, StayGood DEF AfterSetup
<1>3. GoodHandler(AfterNoHeartbeat("cp", n))
  <2>1. GoodNode([n EXCEPT !.timers = @ \cup {"heartbeat"}])
    BY DEF GoodNode, NodeStates
  <2> QED
    BY Zenon, <2>1, ToWillAssociateGood, StayGood DEF AfterNoHeartbeat
<1>4. ASSUME NEW e PROVE GoodHandler(AfterTimer("cp", n, e))
  <2>1. /\ GoodNode([n EXCEPT !.timers = @ \cup {"association"}])
        /\ GoodNode([n EXCEPT !.timers = @ \ {"association"}])
    BY DEF GoodNode, NodeStates
  <2> QED
    BY Zenon, <2>1, StayGood DEF AfterTimer
<1> QED
  BY <1>1, <1>2, <1>3, <1>4

-----------------------------------------------------------------------------
(* A step that carries out a handler and leaves the transactions of the    *)
(* sessions, other than the ones it creates, alone.                        *)
Aside(s, l, q, taken, answers) ==
    /\ \A i \in Ids : ForSession(i) => l[i] = local[i] /\ q[i] = held[i]
    /\ \A i \in Ids : l[i] = local[i] \/ l[i] <= 0
    /\ \A m \in taken : m \in net /\ ~ForSession(m.id)
    /\ \A m \in answers : /\ m.dir = "rsp" /\ ~ForSession(m.id)
                           /\ Peer(m.id.own) = s /\ m.rts = boot[s]

HandlerStep(s, h, l, q, taken, answers) ==
    /\ Do(s, h, l, q, taken, answers)
    /\ Restoration(s, h)
    /\ Aside(s, l, q, taken, answers)
    /\ s = "cp" => GoodHandler(h)
    /\ pend' \in [Sides -> SUBSET Events]
    /\ UNCHANGED <<boot, csess, faults>>

LEMMA RepliedBefore ==
    ASSUME IInv, NEW s \in Sides, NEW h \in Handlers, NEW l \in Tries, NEW q \in Holdings,
           NEW taken, NEW answers \in SUBSET Messages,
           HandlerStep(s, h, l, q, taken, answers),
           NEW i \in Ids, ForSession(i)
    PROVE  /\ Replied(i)' => Replied(i)
           /\ local[i] > 0 => local'[i] = local[i]
           /\ Unused(i) => ~Replied(i)'
<1>1. TypeOK /\ Do(s, h, l, q, taken, answers) /\ Aside(s, l, q, taken, answers)
  BY DEF IInv, HandlerStep
<1>2. l[i] = local[i] /\ q[i] = held[i]
  BY <1>1 DEF Aside
<1>3. Taken(s, h.reqs, i) \/ (local'[i] = local[i] /\ held'[i] = held[i])
  BY <1>1, <1>2, DoFacts
<1>4. local[i] \in Int
  BY <1>1, TypeParts
<1>5. local[i] > 0 => local'[i] = local[i]
  BY <1>3, <1>4 DEF Taken, Unused
<1>6. ASSUME NEW m \in net', m.id = i, m.dir = "rsp" PROVE m \in net
  <2>1. m \notin answers
    BY <1>1, <1>6 DEF Aside
  <2>2. ~(m = Req(m.id))
    BY <1>1, <1>6, DatagramType
  <2> QED
    BY <2>1, <2>2, <1>1, DoFacts
<1>7. Unused(i) => ~Replied(i)'
  <2>1. SUFFICES ASSUME Unused(i), Replied(i)' PROVE FALSE
    OBVIOUS
  <2>2. ~\E m \in net' : m.id = i /\ m.dir = "rsp"
    BY Zenon, <2>1, <1>6 DEF Unused, InFlight
  <2>3. local'[i] > 0 /\ held'[i] = "answered"
    BY Zenon, <2>1, <2>2 DEF Replied
  <2>4. local'[i] = local[i]
    BY Zenon, <2>3, <1>3 DEF Taken
  <2> QED
    BY <2>1, <2>3, <2>4, <1>4 DEF Unused
<1>8. Replied(i)' => Replied(i)
  <2>1. SUFFICES ASSUME Replied(i)' PROVE Replied(i)
    OBVIOUS
  <2>2. local'[i] = local[i] /\ held'[i] = held[i]
    BY Zenon, <2>1, <1>3, <1>7 DEF Taken
  <2> QED
    BY Zenon, <2>1, <2>2, <1>6 DEF Replied
<1> QED
  BY Zenon, <1>5, <1>7, <1>8

LEMMA NewRestore ==
    ASSUME IInv, NEW s \in Sides, NEW h \in Handlers, NEW l \in Tries, NEW q \in Holdings,
           NEW taken, NEW answers \in SUBSET Messages,
           HandlerStep(s, h, l, q, taken, answers),
           NEW x \in Sess, Restore(x) \in h.reqs
    PROVE  Waiting(x)'
<1>1. TypeOK /\ Do(s, h, l, q, taken, answers)
  BY DEF IInv, HandlerStep
<1>2. PICK i \in Ids : i.kind = Restore(x) /\ Unused(i) /\ local'[i] = N1
  BY <1>1, DoFacts DEF Taken
<1>3. ForSession(i)
  BY <1>2, RestoreKind DEF ForSession
<1>4. ~Replied(i)'
  BY <1>2, <1>3, RepliedBefore
<1>5. N1 > 0
  BY ParameterAssumption
<1> QED
  BY <1>2, <1>4, <1>5 DEF Waiting, Restore

-----------------------------------------------------------------------------
(* The steps that carry out a handler keep the inductive invariant.        *)
LEMMA HandlerStepKeeps ==
    ASSUME IInv, NEW s \in Sides, NEW h \in Handlers, NEW l \in Tries, NEW q \in Holdings,
           NEW taken, NEW answers \in SUBSET Messages,
           HandlerStep(s, h, l, q, taken, answers)
    PROVE  IInv'
<1>0. TypeOK /\ RtsBound /\ ReqRts /\ RemoteBound /\ Knows /\ Quiet /\ Obligation
  BY DEF IInv
<1>1. /\ Do(s, h, l, q, taken, answers)
      /\ Restoration(s, h)
      /\ Aside(s, l, q, taken, answers)
      /\ s = "cp" => GoodHandler(h)
      /\ pend' \in [Sides -> SUBSET Events]
      /\ UNCHANGED <<boot, csess, faults>>
  BY ZenonT(60) DEF HandlerStep
<1>2. TypeOK'
  <2>1. /\ node' \in [Sides -> NodeStates] /\ local' \in Tries /\ held' \in Holdings
        /\ net' \subseteq Messages /\ adrift' \subseteq Sess
        /\ stalled' = IF s = "cp" THEN stalled \ h.node.timers ELSE stalled
    BY ZenonT(60), <1>0, <1>1, DoFacts
  <2>2. usess' \subseteq Boots \X Sess /\ wiped' \subseteq Sess
    BY Zenon, <1>0, <1>1, RestorationType
  <2>3. stalled' \subseteq {"association", "heartbeat"}
    BY Zenon, <2>1, <1>0 DEF TypeOK
  <2> QED
    BY Zenon, <1>0, <1>1, <2>1, <2>2, <2>3 DEF TypeOK, Tries, Holdings
<1>3. \A m \in net' : \/ m \in net
                      \/ m \in answers
                      \/ m.id \in Ids /\ m.id.own = s /\ m = Req(m.id)
  BY <1>0, <1>1, DoFacts DEF Taken
<1>4. RtsBound'
  <2>1. SUFFICES ASSUME NEW m \in net' PROVE m.rts <= boot[Sender(m)]
    BY ZenonT(60), <1>1 DEF RtsBound, Sender
  <2>2. CASE m \in net
    BY <2>2, <1>0 DEF RtsBound
  <2>3. boot[s] \in Nat
    BY <1>0 DEF TypeOK, Boots
  <2>4. CASE m \in answers
    BY <2>3, <2>4, <1>1 DEF Aside, Sender
  <2>5. CASE m.id \in Ids /\ m.id.own = s /\ m = Req(m.id)
    BY <2>3, <2>5, <1>0, DatagramType DEF Sender
  <2> QED
    BY ZenonT(60), <1>3, <2>2, <2>4, <2>5
<1>5. ReqRts'
  <2>1. SUFFICES ASSUME NEW m \in net', m.dir = "req", local'[m.id] > 0
                 PROVE  m.rts = boot[m.id.own]
    BY <1>1 DEF ReqRts
  <2>2. CASE m \in net
    <3>1. m.id \in Ids /\ ~Unused(m.id)
      BY Zenon, <2>2, <1>0, MessageFacts DEF Unused, InFlight, TypeOK
    <3>2. local'[m.id] = l[m.id]
      BY <3>1, <1>0, <1>1, DoFacts DEF Taken
    <3>3. l[m.id] \in Int
      BY <3>1, ParameterAssumption DEF Tries, Answered
    <3>4. l[m.id] = local[m.id] \/ l[m.id] <= 0
      BY Zenon, <3>1, <1>1 DEF Aside
    <3>5. local[m.id] > 0
      BY <3>2, <3>3, <3>4, <2>1
    <3> QED
      BY <2>1, <2>2, <3>5, <1>0 DEF ReqRts
  <2>3. CASE m \in answers
    BY <2>1, <2>3, <1>1 DEF Aside
  <2>4. CASE m.id \in Ids /\ m = Req(m.id)
    BY <2>4, <1>0, DatagramType
  <2> QED
    BY <1>3, <2>2, <2>3, <2>4
<1>6. /\ s = "cp" => node'["cp"] = h.node
      /\ s # "cp" => node'["cp"] = node["cp"]
  <2>1. node' = [node EXCEPT ![s] = h.node] /\ node \in [Sides -> NodeStates]
    BY ZenonT(60), <1>0, <1>1, DoFacts DEF TypeOK
  <2> QED
    BY Zenon, <2>1, SideFacts
<1>7. RemoteBound' /\ Knows'
  BY Zenon, <1>0, <1>1, <1>6 DEF RemoteBound, Knows, GoodHandler
<1>8. Quiet'
  <2>1. SUFFICES ASSUME NEW i \in Ids, ForSession(i), csess[i.kind.sess] = "none"
                 PROVE  local'[i] <= 0
    BY Zenon, <1>1 DEF Quiet, ForSession
  <2>2. local[i] <= 0 /\ l[i] = local[i]
    BY <2>1, <1>0, <1>1 DEF Quiet, Aside
  <2>3. i.own = "cp"
    BY <2>1, IdFacts DEF ForSession
  <2>4. ~(i.own = s /\ i.kind \in h.reqs)
    BY Zenon, <2>1, <2>3, <1>1 DEF GoodHandler, ForSession
  <2>5. local'[i] = l[i]
    BY <2>1, <2>4, <1>0, <1>1, DoFacts DEF Taken
  <2> QED
    BY <2>2, <2>5
<1>9. Obligation'
  <2>1. SUFFICES ASSUME NEW x \in Sess, Owes(x)' PROVE Sound(x)'
    BY Zenon DEF Obligation
  <2>2. Owes(x)
    BY <2>1, <1>1, RepliedBefore DEF Owes, ForSession
  <2>3. Sound(x) /\ csess[x] \in {"opening", "up"} /\ node["cp"].remote # 0
    BY <2>2, <1>0 DEF Obligation, Owes, Knows
  <2>4. CASE Holds(x)
    BY <2>4, <1>1 DEF Holds, Restoration, Sound
  <2>5. CASE Due
    <3>1. CASE s = "cp"
      <4>1. h.node.remote # boot["up"] \/ h.node.restore \/ Restore(x) \in h.reqs
        BY <2>3, <2>5, <3>1, <1>1 DEF GoodHandler, Reinstalls
      <4> QED
        BY <4>1, <3>1, <1>1, <1>6, NewRestore DEF Sound
    <3>2. CASE s # "cp"
      BY <2>5, <3>2, <1>1, <1>6 DEF Due, Sound
    <3> QED
      BY Zenon, <3>1, <3>2
  <2>6. CASE Waiting(x)
    <3>1. PICK i \in Ids : i.kind = Restore(x) /\ local[i] > 0 /\ ~Replied(i)
      BY <2>6 DEF Waiting
    <3>2. ForSession(i)
      BY <3>1, RestoreKind DEF ForSession
    <3>3. local'[i] > 0 /\ ~Replied(i)'
      BY Zenon, <3>1, <3>2, RepliedBefore
    <3>4. Waiting(x)'
      BY <3>1, <3>3 DEF Waiting, Restore
    <3> QED
      BY <3>4 DEF Sound
  <2>7. CASE x \in adrift
    <3>1. adrift' = {y \in adrift : Restore(y) \notin h.reqs}
      BY ZenonT(60), <1>0, <1>1, DoFacts
    <3> QED
      BY Zenon, <3>1, <2>7, NewRestore DEF Sound
  <2>8. CASE x \in wiped
    BY Zenon, <2>8, <1>1 DEF Restoration, Sound
  <2> QED
    BY <2>3, <2>4, <2>5, <2>6, <2>7, <2>8 DEF Sound, Due
<1> QED
  BY <1>2, <1>4, <1>5, <1>7, <1>8, <1>9 DEF IInv

-----------------------------------------------------------------------------
(* The actions that carry out a handler.                                   *)
LEMMA NodeIsGood ==
    ASSUME IInv
    PROVE  /\ GoodNode(node["cp"])
           /\ \A m \in net : Dest(m) = "cp" =>
                 /\ GoodNode(HearRts(node["cp"], m.rts))
                 /\ HearRts(node["cp"], m.rts).remote # 0
<1>0. TypeOK /\ RtsBound /\ RemoteBound /\ Knows
  BY DEF IInv
<1>1. node["cp"] \in NodeStates
  BY <1>0, TypeParts, SideFacts
<1>2. GoodNode(node["cp"])
  BY <1>0 DEF GoodNode, RemoteBound, Knows, Due
<1>3. ASSUME NEW m \in net, Dest(m) = "cp"
      PROVE  GoodNode(HearRts(node["cp"], m.rts)) /\ HearRts(node["cp"], m.rts).remote # 0
  <2>1. m \in Messages
    BY <1>0 DEF TypeOK
  <2>2. Sender(m) = "up"
    BY <1>3, <2>1, MessageFacts, IdFacts DEF Dest, Sender, Peer, Sides
  <2>3. m.rts <= boot["up"] /\ m.rts \in Nat /\ m.rts # 0
    BY <2>1, <2>2, <1>0, MessageFacts DEF RtsBound
  <2> DEFINE n == HearRts(node["cp"], m.rts)
  <2>4. /\ n.remote = m.rts
        /\ node["cp"].restore => n.restore
        /\ node["cp"].remote # 0 /\ node["cp"].remote < m.rts => n.restore
    BY Zenon, <1>1 DEF HearRts, NodeStates
  <2> HIDE DEF n
  <2>5. node["cp"].remote \in Nat /\ boot["up"] \in Nat /\ node["cp"].remote <= boot["up"]
    BY <1>0, <1>1, SideFacts DEF NodeStates, TypeOK, Boots, RemoteBound
  <2>6. GoodNode(n) /\ n.remote # 0
    BY <2>3, <2>4, <2>5 DEF GoodNode, Due
  <2> QED
    BY <2>6 DEF n
<1> QED
  BY <1>2, <1>3

LEMMA NoDatagrams ==
    ASSUME IInv, NEW s \in Sides
    PROVE  /\ Aside(s, local, held, {}, {})
           /\ {} \in SUBSET Messages
BY DEF Aside

LEMMA StepOpen ==
    ASSUME IInv, NEW s \in Sides, Open(s) PROVE IInv'
<1> DEFINE n == [node[s] EXCEPT !.sm = "none"]
           h == IF s \in Assoc THEN ToWillAssociate(s, node[s]) ELSE Stay(n)
<1>0. node[s] \in NodeStates
  BY TypeParts DEF IInv
<1>1. n \in NodeStates
  BY <1>0 DEF NodeStates
<1>2. h \in Handlers
  BY <1>0, <1>1, ToWillAssociateType, StayType
<1>3. s = "cp" => GoodNode(n)
  BY <1>0, NodeIsGood DEF GoodNode, NodeStates
<1>4. s = "cp" => GoodHandler(h)
  BY Zenon, <1>0, <1>3, NodeIsGood, ToWillAssociateGood, StayGood
<1>5. Do(s, h, local, held, {}, {}) /\ UNCHANGED <<boot, pend, csess, usess, faults, wiped>>
  BY DEF Open
<1>6. h.restores = FALSE
  BY DEF ToWillAssociate, Stay
<1> HIDE DEF h
<1>7. HandlerStep(s, h, local, held, {}, {})
  BY <1>4, <1>5, <1>6, NoDatagrams DEF HandlerStep, Restoration, IInv, TypeOK
<1> QED
  BY <1>2, <1>7, NoDatagrams, HandlerStepKeeps, TypeParts DEF IInv

LEMMA StepHandle ==
    ASSUME IInv, NEW s \in Sides, NEW e \in Events, Handle(s, e) PROVE IInv'
<1> DEFINE h == IF e = "NO_HEARTBEAT" THEN AfterNoHeartbeat(s, node[s])
                ELSE AfterTimer(s, node[s], e)
<1>0. node[s] \in NodeStates
  BY TypeParts DEF IInv
<1>2. h \in Handlers
  BY <1>0, HandlerTypes
<1>4. s = "cp" => GoodHandler(h)
  BY <1>0, NodeIsGood, HandlersGood
<1>5. /\ Do(s, h, local, held, {}, {})
      /\ UNCHANGED <<boot, csess, usess, faults, wiped>>
      /\ pend' = [pend EXCEPT ![s] = @ \ {e}]
  BY DEF Handle
<1>6. h.restores = FALSE
  BY DEF AfterNoHeartbeat, AfterTimer, ToWillAssociate, Stay
<1> HIDE DEF h
<1>7. pend' \in [Sides -> SUBSET Events]
  BY <1>5 DEF IInv, TypeOK
<1>8. HandlerStep(s, h, local, held, {}, {})
  BY <1>4, <1>5, <1>6, <1>7, NoDatagrams DEF HandlerStep, Restoration
<1> QED
  BY <1>2, <1>8, NoDatagrams, HandlerStepKeeps, TypeParts DEF IInv

(* A heartbeat or setup datagram that is taken, with or without an answer. *)
LEMMA TakenDatagram ==
    ASSUME IInv, NEW m \in net, m.id.kind \in {Hb, Setup}, NEW q \in {held, [held EXCEPT ![m.id] = "answered"]}
    PROVE  /\ m.dir = "req" => /\ Aside(Dest(m), local, q, {m}, {Rsp(m.id)})
                               /\ {Rsp(m.id)} \in SUBSET Messages
           /\ m.dir = "rsp" => Aside(Dest(m), [local EXCEPT ![m.id] = 0], q, {m}, {})
           /\ m \in Messages /\ m.id \in Ids /\ Dest(m) \in Sides /\ m.rts \in Boots
           /\ node[Dest(m)] \in NodeStates
           /\ q \in Holdings
           /\ [local EXCEPT ![m.id] = 0] \in Tries
<1>0. TypeOK
  BY DEF IInv
<1>1. m \in Messages /\ m.id \in Ids /\ Dest(m) \in Sides /\ m.rts \in Boots
  BY <1>0, MessageFacts DEF TypeOK, Boots
<1>2. ~ForSession(m.id)
  BY <1>1, IdFacts DEF ForSession
<1>3. q \in Holdings /\ [local EXCEPT ![m.id] = 0] \in Tries /\ node[Dest(m)] \in NodeStates
  BY <1>0, <1>1, TypeParts
<1>4. local \in Tries /\ held \in Holdings
  BY <1>0, TypeParts
<1>5. \A i \in Ids : ForSession(i) => q[i] = held[i]
  BY <1>1, <1>2, <1>4 DEF Holdings
<1>6. ASSUME m.dir = "req"
      PROVE  Aside(Dest(m), local, q, {m}, {Rsp(m.id)}) /\ {Rsp(m.id)} \in SUBSET Messages
  BY <1>0, <1>1, <1>2, <1>5, <1>6, DatagramType, MessageFacts DEF Aside
<1>7. ASSUME m.dir = "rsp"
      PROVE  Aside(Dest(m), [local EXCEPT ![m.id] = 0], q, {m}, {})
  <2>1. \A i \in Ids : [local EXCEPT ![m.id] = 0][i] = IF i = m.id THEN 0 ELSE local[i]
    BY <1>1, <1>4 DEF Tries
  <2> QED
    BY <2>1, <1>2, <1>5 DEF Aside
<1> QED
  BY <1>1, <1>3, <1>6, <1>7

LEMMA StepHeartbeatRequest ==
    ASSUME IInv, NEW m \in net, m.dir = "req", HeartbeatRequest(m) PROVE IInv'
<1> DEFINE s == Dest(m)
           n == HearRts(node[s], m.rts)
           h == AfterHeartbeat(s, n)
<1>0. m.id.kind \in {Hb, Setup}
  BY DEF HeartbeatRequest
<1>1. /\ s \in Sides /\ n \in NodeStates
      /\ Aside(s, local, held, {m}, {Rsp(m.id)}) /\ {Rsp(m.id)} \in SUBSET Messages
  BY Zenon, <1>0, TakenDatagram, HearRtsType
<1>2. s = "cp" => GoodHandler(h)
  BY <1>1, NodeIsGood, HandlersGood
<1>3. h \in Handlers
  BY Zenon, <1>1, HandlerTypes
<1>4. /\ Do(s, h, local, held, {m}, {Rsp(m.id)})
      /\ Restoration(s, h)
      /\ UNCHANGED <<boot, pend, csess, faults>>
  BY DEF HeartbeatRequest
<1> HIDE DEF h, s, n
<1>5. HandlerStep(s, h, local, held, {m}, {Rsp(m.id)})
  BY <1>1, <1>2, <1>4 DEF HandlerStep, IInv, TypeOK
<1> QED
  BY Zenon, <1>1, <1>3, <1>5, HandlerStepKeeps, TypeParts DEF IInv

LEMMA StepHeartbeatResponse ==
    ASSUME IInv, NEW m \in net, m.dir = "rsp", HeartbeatResponse(m) PROVE IInv'
<1> DEFINE s == Dest(m)
           k == HearRts(node[s], m.rts)
           n == [k EXCEPT !.timers = @ \cup {"heartbeat"}]
           h == AfterHeartbeat(s, n)
           l == [local EXCEPT ![m.id] = 0]
<1>0. m.id.kind \in {Hb, Setup}
  BY DEF HeartbeatResponse
<1>1. /\ s \in Sides /\ k \in NodeStates /\ n \in NodeStates
      /\ Aside(s, l, held, {m}, {}) /\ l \in Tries
  BY Zenon, <1>0, TakenDatagram, HearRtsType, HeartbeatNode
<1>2. s = "cp" => GoodNode(n) /\ n.remote # 0
  <2>1. s = "cp" => GoodNode(k) /\ k.remote # 0
    BY NodeIsGood
  <2> HIDE DEF k
  <2> QED
    BY <1>1, <2>1 DEF GoodNode, NodeStates
<1>3. s = "cp" => GoodHandler(h)
  BY Zenon, <1>1, <1>2, HandlersGood
<1>4. h \in Handlers
  BY <1>1, HandlerTypes
<1>5. /\ Do(s, h, l, held, {m}, {})
      /\ Restoration(s, h)
      /\ UNCHANGED <<boot, pend, csess, faults>>
  BY DEF HeartbeatResponse
<1> HIDE DEF h, s, k, n, l
<1>6. HandlerStep(s, h, l, held, {m}, {})
  BY <1>1, <1>3, <1>5 DEF HandlerStep, IInv, TypeOK
<1> QED
  BY <1>1, <1>4, <1>6, HandlerStepKeeps, TypeParts DEF IInv

LEMMA StepSetupRequest ==
    ASSUME IInv, NEW m \in net, m.dir = "req", SetupRequest(m) PROVE IInv'
<1> DEFINE s == Dest(m)
           k == Known(s, m.id)
           n == HearSetup(s, k, m.rts)
           h == AfterSetup(s, n)
           q == [held EXCEPT ![m.id] = "answered"]
<1>0. m.id.kind \in {Hb, Setup} /\ TypeOK
  BY DEF SetupRequest, IInv
<1>1. /\ s \in Sides /\ k \in NodeStates /\ n \in NodeStates /\ m.rts \in Boots
      /\ Aside(s, local, q, {m}, {Rsp(m.id)}) /\ {Rsp(m.id)} \in SUBSET Messages
      /\ q \in Holdings /\ node[s] \in NodeStates
  BY Zenon, <1>0, TakenDatagram, HearRtsType, KnownType
<1>2. s = "cp" => GoodNode(n) /\ n.remote # 0
  <2>1. SUFFICES ASSUME s = "cp" PROVE GoodNode(n) /\ n.remote # 0
    OBVIOUS
  <2>2. GoodNode(HearRts(node["cp"], m.rts)) /\ HearRts(node["cp"], m.rts).remote # 0
    BY <2>1, NodeIsGood
  <2>3. k.remote = node["cp"].remote /\ k.restore = node["cp"].restore
    BY <2>1, <1>0, KnownType, SideFacts
  <2>4. n = HearRts(k, m.rts)
    BY <2>1 DEF HearSetup
  <2>5. /\ n.remote = HearRts(node["cp"], m.rts).remote
        /\ n.restore = HearRts(node["cp"], m.rts).restore
    BY ZenonT(60), <2>1, <2>3, <2>4, <1>1 DEF HearRts, NodeStates
  <2> HIDE DEF k, n
  <2> QED
    BY <2>2, <2>5 DEF GoodNode
<1>3. s = "cp" => GoodHandler(h)
  BY ZenonT(60), <1>1, <1>2, HandlersGood
<1>4. h \in Handlers
  BY <1>1, HandlerTypes
<1>5. /\ Do(s, h, local, q, {m}, {Rsp(m.id)})
      /\ Restoration(s, h)
      /\ UNCHANGED <<boot, pend, csess, faults>>
  BY DEF SetupRequest
<1> HIDE DEF h, s, n, k, q
<1>6. HandlerStep(s, h, local, q, {m}, {Rsp(m.id)})
  BY <1>1, <1>3, <1>5 DEF HandlerStep, IInv, TypeOK
<1> QED
  BY <1>1, <1>4, <1>6, HandlerStepKeeps, TypeParts DEF IInv

LEMMA StepSetupResponse ==
    ASSUME IInv, NEW m \in net, m.dir = "rsp", SetupResponse(m) PROVE IInv'
<1> DEFINE s == Dest(m)
           n == HearSetup(s, node[s], m.rts)
           h == AfterSetup(s, n)
           l == [local EXCEPT ![m.id] = 0]
<1>0. m.id.kind \in {Hb, Setup}
  BY DEF SetupResponse
<1>1. /\ s \in Sides /\ n \in NodeStates
      /\ Aside(s, l, held, {m}, {}) /\ l \in Tries
  BY Zenon, <1>0, TakenDatagram, HearRtsType
<1>2. s = "cp" => GoodNode(n) /\ n.remote # 0
  BY NodeIsGood DEF HearSetup
<1>3. s = "cp" => GoodHandler(h)
  BY <1>1, <1>2, HandlersGood
<1>4. h \in Handlers
  BY <1>1, HandlerTypes
<1>5. /\ Do(s, h, l, held, {m}, {})
      /\ Restoration(s, h)
      /\ UNCHANGED <<boot, pend, csess, faults>>
  BY DEF SetupResponse
<1> HIDE DEF h, s, n, l
<1>6. HandlerStep(s, h, l, held, {m}, {})
  BY <1>1, <1>3, <1>5 DEF HandlerStep, IInv, TypeOK
<1> QED
  BY <1>1, <1>4, <1>6, HandlerStepKeeps, TypeParts DEF IInv

LEMMA StepEstablish ==
    ASSUME IInv, NEW x \in Sess, Establish(x) PROVE IInv'
<1> DEFINE h == [Stay(node["cp"]) EXCEPT !.reqs = {Est(x)}]
<1>0. TypeOK /\ RtsBound /\ ReqRts /\ RemoteBound /\ Knows /\ Quiet /\ Obligation
  BY DEF IInv
<1>1. h \in Handlers /\ h.node = node["cp"] /\ h.reqs = {Est(x)}
  <2>1. {Est(x)} \in SUBSET Kinds
    BY DEF Est, Kinds
  <2> QED
    BY <2>1, <1>0, StayType, TypeParts, SideFacts DEF Stay
<1>2. /\ Do("cp", h, local, held, {}, {})
      /\ csess[x] = "none" /\ node["cp"].sm = "associated"
      /\ csess' = [csess EXCEPT ![x] = "opening"]
      /\ boot' = boot /\ pend' = pend /\ usess' = usess /\ faults' = faults /\ wiped' = wiped
  BY DEF Establish
<1> HIDE DEF h
<1>3. /\ local \in Tries /\ held \in Holdings /\ "cp" \in Sides
      /\ {} \in SUBSET Messages /\ csess \in [Sess -> {"none", "opening", "up", "gone"}]
  BY Zenon, <1>0, TypeParts, SideFacts DEF TypeOK
<1>4. /\ node' = [node EXCEPT !["cp"] = h.node]
      /\ \A i \in Ids : \/ Taken("cp", h.reqs, i)
                        \/ local'[i] = local[i] /\ held'[i] = held[i]
      /\ \A m \in net' : \/ m \in net
                         \/ m.id \in Ids /\ Taken("cp", h.reqs, m.id) /\ m = Req(m.id)
      /\ adrift' = {y \in adrift : Restore(y) \notin h.reqs}
  BY Zenon, <1>0, <1>1, <1>2, <1>3, SendFacts
<1>5. TypeOK'
  <2>1. csess' \in [Sess -> {"none", "opening", "up", "gone"}]
    BY Zenon, <1>2, <1>3
  <2>2. /\ node' \in [Sides -> NodeStates] /\ local' \in Tries /\ held' \in Holdings
        /\ net' \subseteq Messages /\ adrift' \subseteq Sess
        /\ stalled' \subseteq {"association", "heartbeat"}
    BY Zenon, <1>0, <1>1, <1>2, <1>3, SendFacts
  <2> QED
    BY Zenon, <2>1, <2>2, <1>0, <1>2, <1>3 DEF TypeOK, Tries, Holdings
<1>6. node' = node /\ adrift' = adrift
  <2>1. \A y : Restore(y) # Est(x)
    BY Zenon DEF Restore, Est
  <2>2. node' = [node EXCEPT !["cp"] = node["cp"]] /\ node \in [Sides -> NodeStates]
    BY Zenon, <1>0, <1>1, <1>4 DEF TypeOK
  <2>3. node' = node
    BY Zenon, <2>2
  <2> QED
    BY Zenon, <2>1, <2>3, <1>1, <1>4
<1>7. RtsBound'
  <2>1. SUFFICES ASSUME NEW m \in net' PROVE m.rts <= boot[Sender(m)]
    BY Zenon, <1>2 DEF RtsBound, Sender
  <2>2. boot["cp"] \in Nat
    BY <1>0, SideFacts DEF TypeOK, Boots
  <2>3. CASE m.id \in Ids /\ m.id.own = "cp" /\ m = Req(m.id)
    BY <2>2, <2>3, <1>0, DatagramType DEF Sender
  <2> QED
    BY Zenon, <2>3, <1>0, <1>4 DEF RtsBound, Taken
<1>8. ReqRts'
  <2>1. SUFFICES ASSUME NEW m \in net', m.dir = "req", local'[m.id] > 0
                 PROVE  m.rts = boot[m.id.own]
    BY Zenon, <1>2 DEF ReqRts
  <2>2. CASE m \in net
    <3>1. m.id \in Ids /\ ~Unused(m.id)
      BY <2>2, <1>0, MessageFacts DEF Unused, InFlight, TypeOK
    <3>2. local'[m.id] = local[m.id]
      BY Zenon, <3>1, <1>4 DEF Taken
    <3> QED
      BY <2>1, <2>2, <3>2, <1>0 DEF ReqRts
  <2>3. CASE m.id \in Ids /\ m = Req(m.id)
    BY <2>3, <1>0, DatagramType
  <2> QED
    BY <1>4, <2>2, <2>3
<1>9. RemoteBound' /\ Knows'
  BY <1>0, <1>2, <1>3, <1>6 DEF RemoteBound, Knows
<1>10. Quiet'
  <2>1. SUFFICES ASSUME NEW i \in Ids, ForSession(i), csess'[i.kind.sess] = "none"
                 PROVE  local'[i] <= 0
    BY DEF Quiet, ForSession
  <2>2. i.kind.sess \in Sess
    BY <2>1, IdFacts DEF ForSession
  <2>3. csess[i.kind.sess] = "none" /\ i.kind.sess # x
    BY <2>1, <2>2, <1>2, <1>3
  <2>4. i.kind # Est(x)
    BY <2>3 DEF Est
  <2>5. local[i] <= 0
    BY Zenon, <2>1, <2>3, <1>0 DEF Quiet
  <2>6. local'[i] = local[i]
    BY Zenon, <2>4, <1>1, <1>4 DEF Taken
  <2> QED
    BY Zenon, <2>5, <2>6
<1>11. Obligation'
  <2>1. ASSUME NEW i \in Ids, ForSession(i), Replied(i)'
        PROVE  Replied(i)
    <3>1. local'[i] > 0
      BY Zenon, <2>1 DEF Replied
    <3>2. ASSUME NEW m \in net', m.id = i, m.dir = "rsp" PROVE m \in net
      BY Zenon, <3>2, <1>0, <1>4, DatagramType
    <3>3. ~Taken("cp", h.reqs, i)
      BY Zenon, <2>1, <3>2 DEF Replied, Taken, Unused, InFlight
    <3> QED
      BY Zenon, <2>1, <3>1, <3>2, <3>3, <1>4 DEF Replied
  <2>2. \A i \in Ids : local[i] > 0 => local'[i] = local[i]
    BY <1>0, <1>4, TypeParts DEF Taken, Unused
  <2>3. SUFFICES ASSUME NEW y \in Sess, Owes(y)' PROVE Sound(y)'
    BY Zenon DEF Obligation
  <2>4. y # x
    <3>1. ASSUME NEW i \in Ids, ForSession(i), i.kind.sess = x PROVE ~(local[i] > 0)
      BY <3>1, <1>0, <1>2, <1>3, TypeParts DEF Quiet
    <3> QED
      BY <3>1, <2>1, <2>3, <1>2, <1>3 DEF Owes, ForSession, Replied
  <2>5. Owes(y)
    BY <2>1, <2>3, <2>4, <1>2, <1>3 DEF Owes, ForSession
  <2>6. Waiting(y) => Waiting(y)'
    <3>1. SUFFICES ASSUME NEW i \in Ids, i.kind = Restore(y), local[i] > 0, ~Replied(i)
                   PROVE  Waiting(y)'
      BY DEF Waiting
    <3>2. ForSession(i)
      BY <3>1, RestoreKind DEF ForSession
    <3> QED
      BY <3>1, <3>2, <2>1, <2>2 DEF Waiting, Restore
  <2> QED
    BY <2>5, <2>6, <1>0, <1>2, <1>6 DEF Obligation, Sound, Holds
<1> QED
  BY <1>5, <1>7, <1>8, <1>9, <1>10, <1>11 DEF IInv
=============================================================================
