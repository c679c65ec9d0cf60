----------------------------- MODULE PfcpAssoc -----------------------------
(***************************************************************************)
(* One PFCP peering: a control function (SGW-C or SMF, side "cp") and a    *)
(* user plane function (SGW-U or UPF, side "up") that associate, watch     *)
(* each other with heartbeats, restart, and re-install the sessions that a *)
(* restart of the user plane lost. The association state machines          *)
(* (pfcp-sm.c of the four functions) run over the PFCP transaction layer   *)
(* (lib/pfcp/xact.c) and a network that loses and reorders datagrams.      *)
(*                                                                         *)
(* Requests are of four kinds: Heartbeat ("hb"), Association Setup         *)
(* ("setup"), Session Establishment ("est"), and Session Establishment     *)
(* with the restoration indication ("restore"). Each side's Recovery Time  *)
(* Stamp is the number of its incarnation.                                 *)
(*                                                                         *)
(* A transaction id names its request: its owner, kind and session, and a  *)
(* number that tells apart the ones that exist together. An id is not used *)
(* again while its sender waits or a datagram of its earlier use is left   *)
(* (xact.c starts the sequence numbers at random for that reason).         *)
(***************************************************************************)
EXTENDS Integers

CONSTANTS
    Sess,       \* the sessions the control function may establish
    Assoc,      \* the sides with t_association: they know their peer and ask
    Keeps,      \* TRUE for an SMF: a lost heartbeat keeps the association
    N1,         \* n1_response_rcount
    LongDown,   \* TRUE if a restart may take longer than T1, the time before
                \* a request is sent again (the first start always may)
    LongFlight, \* TRUE if a datagram may be in flight for longer than a
                \* restart takes
    Numbers,    \* bound: ids of one kind that exist together
    FaultSets,  \* bound: the sets of kinds of faults that come together
    MaxFault    \* bound: faults of one kind

ASSUME ParameterAssumption ==
    /\ Assoc \subseteq {"cp", "up"}
    /\ Keeps \in BOOLEAN
    /\ N1 \in Nat \ {0}
    /\ Numbers \subseteq Nat
    /\ LongDown \in BOOLEAN
    /\ LongFlight \in BOOLEAN
    /\ FaultSets # {}
    /\ MaxFault \in Nat

(* A restart, a lost datagram, one that is late, a queue that is full, and *)
(* all the tries of a request of one type lost.                            *)
FaultKinds == {"restart", "loss", "late", "full", "hb", "setup", "est", "restore"}

Sides == {"cp", "up"}
Peer(s) == IF s = "cp" THEN "up" ELSE "cp"

NoSess == "-"
Hb == [type |-> "hb", sess |-> NoSess]
Setup == [type |-> "setup", sess |-> NoSess]
Est(x) == [type |-> "est", sess |-> x]
Restore(x) == [type |-> "restore", sess |-> x]

Ids == [own : Sides, kind : {Hb}, num : Numbers]
         \cup [own : Assoc, kind : {Setup}, num : Numbers]
         \cup [own : {"cp"}, kind : [type : {"est", "restore"}, sess : Sess], num : Numbers]

Boots == Nat \ {0}
Messages == [dir : {"req", "rsp"}, id : Ids, rts : Boots]

Dest(m) == IF m.dir = "req" THEN Peer(m.id.own) ELSE m.id.own

VARIABLES
    boot,       \* local_recovery of each side
    node,       \* ogs_pfcp_node_t of the peer, at each side
    pend,       \* the events in each side's queue
    local,      \* the transactions of the owner of an id: tries left,
                \* 0 for none, Answered for one whose answer has come
    held,       \* the transactions of its peer: "no", "open", "answered"
    net,        \* the datagrams in flight
    csess,      \* the sessions of the control function
    usess,      \* <<incarnation of cp, session>> the user plane holds
    faults      \* faults of each kind so far

(* History: sessions of the running control function whose restoration got *)
(* no answer, and that the user plane's own restoration removed; and the   *)
(* timers of the control function that stand still because a full queue    *)
(* dropped the event whose handler would have started them.                *)
VARIABLES adrift, wiped, stalled

vars == <<boot, node, pend, local, held, net, csess, usess, faults, adrift, wiped, stalled>>

Answered == -1

-----------------------------------------------------------------------------
(* The peer as ogs_pfcp_node_t keeps it: sm is "down" while the process    *)
(* has not opened its socket yet, "none" for a peer that is not in the     *)
(* list; timers are the ones of t_association ("association") and          *)
(* t_no_heartbeat ("heartbeat") that run.                                  *)
NodeStates == [sm : {"down", "none", "will_associate", "associated"}, remote : Nat,
               restore : BOOLEAN, timers : SUBSET {"association", "heartbeat"}]

Events == {"association", "heartbeat", "NO_HEARTBEAT"}

Down == [sm |-> "down", remote |-> 0, restore |-> FALSE, timers |-> {}]

IsUp(s) == node[s].sm # "down"

(* ogs_pfcp_cp_update_recovery_time_stamp.                                 *)
HearRts_Any(n, rts) ==
    [n EXCEPT !.remote = rts]

HearRts(n, rts) ==
    [n EXCEPT !.restore = @ \/ (n.remote # 0 /\ n.remote < rts), !.remote = rts]

(* The setup handlers of the control function take the time stamp, the     *)
(* ones of the user plane do not.                                          *)
HearSetup(s, n, rts) == IF s = "cp" THEN HearRts(n, rts) ELSE n

-----------------------------------------------------------------------------
(* What a handler of the state machine does: the peer it leaves, the       *)
(* requests it sends, and whether it runs pfcp_restoration.                *)
Stay(n) == [node |-> n, reqs |-> {}, restores |-> FALSE]

(* pfcp_restoration: the control function establishes all the sessions it  *)
(* has on this peer again, the user plane removes all it has from it.      *)
RestoreReqs(s) ==
    IF s = "cp" THEN {Restore(x) : x \in {y \in Sess : csess[y] \in {"opening", "up"}}}
    ELSE {}

(* Leaving associated stops t_no_heartbeat; entering will_associate starts *)
(* t_association and asks for the association, if the peer has that timer. *)
ToWillAssociate(s, n) ==
    [Stay([n EXCEPT !.sm = "will_associate",
                    !.timers = IF s \in Assoc THEN {"association"} ELSE {}])
        EXCEPT !.reqs = IF s \in Assoc THEN {Setup} ELSE {}]

ToAssociated_FlagOnly(s, n) ==
    [node |-> [n EXCEPT !.sm = "associated", !.timers = {"heartbeat"}, !.restore = FALSE],
     reqs |-> {Hb},
     restores |-> FALSE]

(* Entering associated stops t_association, starts t_no_heartbeat, sends a *)
(* heartbeat and does the restoration that is due.                         *)
ToAssociated(s, n) ==
    [node |-> [n EXCEPT !.sm = "associated", !.timers = {"heartbeat"}, !.restore = FALSE],
     reqs |-> {Hb} \cup IF n.restore THEN RestoreReqs(s) ELSE {},
     restores |-> n.restore]

(* Restoration on the spot, where the peer performs the association.       *)
RestoreNow(s, n) ==
    [node |-> [n EXCEPT !.restore = FALSE], reqs |-> RestoreReqs(s), restores |-> TRUE]

(* After a heartbeat message has been handled. An SMF takes a heartbeat of *)
(* a peer that has not restarted for proof that the association stands.    *)
AfterHeartbeat(s, n) ==
    IF n.sm = "associated" /\ n.restore
      THEN IF s \in Assoc THEN ToWillAssociate(s, n) ELSE RestoreNow(s, n)
      ELSE IF n.sm = "will_associate" /\ s = "cp" /\ Keeps /\ ~n.restore
             THEN ToAssociated(s, n)
             ELSE Stay(n)

AfterSetup(s, n) == IF n.sm = "will_associate" THEN ToAssociated(s, n) ELSE Stay(n)

AfterNoHeartbeat_Probes(s, n) ==
    IF n.sm # "associated" THEN Stay(n)
    ELSE [Stay([n EXCEPT !.timers = @ \cup {"heartbeat"}]) EXCEPT !.reqs = {Hb}]

(* A lost heartbeat: the association is dropped, or an SMF probes again.   *)
AfterNoHeartbeat(s, n) ==
    IF n.sm # "associated" THEN Stay(n)
    ELSE IF s = "cp" /\ Keeps
           THEN [Stay([n EXCEPT !.timers = @ \cup {"heartbeat"}]) EXCEPT !.reqs = {Hb}]
           ELSE ToWillAssociate(s, n)

AfterTimer_Once(s, n, e) ==
    CASE e = "heartbeat" /\ n.sm = "associated" -> [Stay(n) EXCEPT !.reqs = {Hb}]
      [] e = "association" /\ n.sm = "will_associate" -> [Stay(n) EXCEPT !.reqs = {Setup}]
      [] OTHER -> Stay(n)

(* A timer's event acts in the state it was set for. A retry that was      *)
(* queued when the association came up is ignored.                         *)
AfterTimer(s, n, e) ==
    CASE e = "heartbeat" /\ n.sm = "associated" -> [Stay(n) EXCEPT !.reqs = {Hb}]
      [] e = "association" /\ n.sm = "will_associate" ->
            [Stay([n EXCEPT !.timers = @ \cup {"association"}]) EXCEPT !.reqs = {Setup}]
      [] e = "association" /\ n.sm = "associated" ->
            Stay([n EXCEPT !.timers = @ \ {"association"}])
      [] OTHER -> Stay(n)

-----------------------------------------------------------------------------
(* The transaction layer.                                                  *)
InFlight(i) == \E m \in net : m.id = i

(* The sender of an id is done with it, or has left its transaction        *)
(* without a timer, and nothing of it is under way.                        *)
Unused(i) == local[i] <= 0 /\ ~InFlight(i)

(* xact_next_xid: one unused id for each request.                          *)
NewIds(s, reqs) ==
    {i \in Ids : /\ i.own = s
                 /\ i.kind \in reqs
                 /\ Unused(i)
                 /\ \A n \in Numbers : n < i.num => ~Unused([i EXCEPT !.num = n])}

Req(i) == [dir |-> "req", id |-> i, rts |-> boot[i.own]]
Rsp(i) == [dir |-> "rsp", id |-> i, rts |-> boot[Peer(i.own)]]

(* holding_timeout of the transactions ids.                                *)
HoldingTimeouts(q, ids) == [i \in Ids |-> IF i \in ids THEN "no" ELSE q[i]]

(* A handler h of side s is carried out: its requests are created and sent *)
(* (local_create, update_tx, commit), with the answers it gave, in place   *)
(* of the datagrams it took; l and q are the local and the remote          *)
(* transactions as it leaves them. The peer has forgotten the earlier use  *)
(* of an id by then: T1-HOLDING covers all the tries of the sender.        *)
Do(s, h, l, q, taken, answers) ==
    \E ids \in {NewIds(s, h.reqs)} :
        /\ \A r \in h.reqs : \E i \in ids : i.kind = r
        /\ node' = [node EXCEPT ![s] = h.node]
        /\ local' = [i \in Ids |-> IF i \in ids THEN N1 ELSE l[i]]
        /\ held' = HoldingTimeouts(q, ids)
        /\ net' = (net \ taken) \cup answers \cup {Req(i) : i \in ids}
        /\ adrift' = {x \in adrift : Restore(x) \notin h.reqs}
        /\ stalled' = IF s = "cp" THEN stalled \ h.node.timers ELSE stalled

(* pfcp_restoration of the user plane: sgwu_sess_remove of every session.  *)
Restoration(s, h) ==
    IF s = "up" /\ h.restores
      THEN /\ usess' = {}
           /\ wiped' = wiped \cup {x \in Sess : <<boot["cp"], x>> \in usess}
      ELSE UNCHANGED <<usess, wiped>>

-----------------------------------------------------------------------------
Init ==
    /\ boot = [s \in Sides |-> 1]
    /\ node = [s \in Sides |-> Down]
    /\ pend = [s \in Sides |-> {}]
    /\ local = [i \in Ids |-> 0]
    /\ held = [i \in Ids |-> "no"]
    /\ net = {}
    /\ csess = [x \in Sess |-> "none"]
    /\ usess = {}
    /\ faults = [k \in FaultKinds |-> 0]
    /\ adrift = {}
    /\ wiped = {}
    /\ stalled = {}

(* OGS_SETUP_PFCP_SERVER: the process has started, the socket is open, and *)
(* the state machine of a configured peer starts.                          *)
Open(s) ==
    /\ ~IsUp(s)
    /\ LongFlight \/ net = {} \/ boot[s] = 1
    /\ Do(s, IF s \in Assoc THEN ToWillAssociate(s, node[s])
             ELSE Stay([node[s] EXCEPT !.sm = "none"]),
          local, held, {}, {})
    /\ UNCHANGED <<boot, pend, csess, usess, faults, wiped>>

(* A session is established on an associated peer only.                    *)
Establish(x) ==
    /\ csess[x] = "none"
    /\ node["cp"].sm = "associated"
    /\ csess' = [csess EXCEPT ![x] = "opening"]
    /\ Do("cp", [Stay(node["cp"]) EXCEPT !.reqs = {Est(x)}],
          local, held, {}, {})
    /\ UNCHANGED <<boot, pend, usess, faults, wiped>>

(* pfcp_recv_cb: a request from a peer that is not in the list is dropped, *)
(* unless it is a setup, which adds the peer without t_association. So is  *)
(* what arrives while the process is down.                                 *)
Known(s, i) ==
    IF node[s].sm = "none" /\ s \notin Assoc /\ i.kind = Setup
      THEN [node[s] EXCEPT !.sm = "will_associate"]
      ELSE node[s]

DropRequest(m) ==
    /\ Known(Dest(m), m.id).sm \in {"down", "none"}
    /\ net' = net \ {m}
    /\ UNCHANGED <<boot, node, pend, local, held, csess, usess, faults, adrift, wiped, stalled>>

(* update_rx of a request that is held: the kept answer is sent again, if  *)
(* there is one. The state machine does not see the duplicate.             *)
DuplicateRequest(m) ==
    /\ held[m.id] # "no"
    /\ net' = (net \ {m}) \cup IF held[m.id] = "answered" THEN {Rsp(m.id)} ELSE {}
    /\ UNCHANGED <<boot, node, pend, local, held, csess, usess, faults, adrift, wiped, stalled>>

(* A heartbeat is answered and its transaction deleted at once.            *)
HeartbeatRequest(m) ==
    LET s == Dest(m)
        h == AfterHeartbeat(s, HearRts(node[s], m.rts))
    IN  /\ m.id.kind = Hb
        /\ node[s].sm \in {"will_associate", "associated"}
        /\ held[m.id] = "no"
        /\ Do(s, h, local, held, {m}, {Rsp(m.id)})
        /\ Restoration(s, h)
        /\ UNCHANGED <<boot, pend, csess, faults>>

SetupRequest(m) ==
    LET s == Dest(m)
        h == AfterSetup(s, HearSetup(s, Known(s, m.id), m.rts))
    IN  /\ m.id.kind = Setup
        /\ Known(s, m.id).sm \in {"will_associate", "associated"}
        /\ held[m.id] = "no"
        /\ Do(s, h, local, [held EXCEPT ![m.id] = "answered"], {m}, {Rsp(m.id)})
        /\ Restoration(s, h)
        /\ UNCHANGED <<boot, pend, csess, faults>>

(* The user plane adds the session, or finds the one with this F-SEID, and *)
(* answers. While it is not associated the request stays unanswered.       *)
EstablishmentRequest(m) ==
    LET x == m.id.kind.sess
        up == node["up"].sm = "associated"
    IN  /\ m.id.kind.type \in {"est", "restore"}
        /\ node["up"].sm \in {"will_associate", "associated"}
        /\ held[m.id] = "no"
        /\ held' = [held EXCEPT ![m.id] = IF up THEN "answered" ELSE "open"]
        /\ net' = (net \ {m}) \cup IF up THEN {Rsp(m.id)} ELSE {}
        /\ usess' = usess \cup IF up THEN {<<m.rts, x>>} ELSE {}
        /\ wiped' = IF up /\ m.rts = boot["cp"] THEN wiped \ {x} ELSE wiped
        /\ UNCHANGED <<boot, node, pend, local, csess, faults, adrift, stalled>>

ReceiveRequest(m) ==
    /\ m.dir = "req"
    /\ \/ DropRequest(m)
       \/ DuplicateRequest(m)
       \/ HeartbeatRequest(m)
       \/ SetupRequest(m)
       \/ EstablishmentRequest(m)

(* A response that answers no waiting transaction is dropped; one to a     *)
(* transaction that has its answer deletes that transaction.               *)
StrayResponse(m) ==
    /\ local[m.id] <= 0
    /\ local' = [local EXCEPT ![m.id] = 0]
    /\ net' = net \ {m}
    /\ UNCHANGED <<boot, node, pend, held, csess, usess, faults, adrift, wiped, stalled>>

HeartbeatResponse(m) ==
    LET s == Dest(m)
        n == HearRts(node[s], m.rts)
        h == AfterHeartbeat(s, [n EXCEPT !.timers = @ \cup {"heartbeat"}])
    IN  /\ m.id.kind = Hb
        /\ local[m.id] > 0
        /\ Do(s, h, [local EXCEPT ![m.id] = 0], held, {m}, {})
        /\ Restoration(s, h)
        /\ UNCHANGED <<boot, pend, csess, faults>>

SetupResponse(m) ==
    LET s == Dest(m)
        h == AfterSetup(s, HearSetup(s, node[s], m.rts))
    IN  /\ m.id.kind = Setup
        /\ local[m.id] > 0
        /\ Do(s, h, [local EXCEPT ![m.id] = 0], held, {m}, {})
        /\ Restoration(s, h)
        /\ UNCHANGED <<boot, pend, csess, faults>>

(* The answer to an establishment is committed. The answer to the          *)
(* establishment of a restoration only gives the session its new F-SEID,   *)
(* and one that finds the peer not associated is not handled: in both      *)
(* cases the transaction is left without a timer.                          *)
EstablishmentResponse(m) ==
    LET x == m.id.kind.sess
        done == m.id.kind.type = "est" /\ node["cp"].sm = "associated"
    IN  /\ m.id.kind.type \in {"est", "restore"}
        /\ local[m.id] > 0
        /\ local' = [local EXCEPT ![m.id] = IF done THEN 0 ELSE Answered]
        /\ csess' = IF done /\ csess[x] = "opening" THEN [csess EXCEPT ![x] = "up"] ELSE csess
        /\ net' = net \ {m}
        /\ UNCHANGED <<boot, node, pend, held, usess, faults, adrift, wiped, stalled>>

ReceiveResponse(m) ==
    /\ m.dir = "rsp"
    /\ \/ StrayResponse(m)
       \/ HeartbeatResponse(m)
       \/ SetupResponse(m)
       \/ EstablishmentResponse(m)

-----------------------------------------------------------------------------
(* Faults of the kinds K happen, if they may beside the ones so far.       *)
Faults(K) ==
    /\ \E F \in FaultSets : K \cup {k \in FaultKinds : faults[k] > 0} \subseteq F
    /\ \A k \in K : faults[k] < MaxFault
    /\ faults' = [k \in FaultKinds |-> faults[k] + IF k \in K THEN 1 ELSE 0]

(* T1 ends for a request of which a datagram is still on its way only if   *)
(* that one, or the peer, is late.                                         *)
Late(i) == IF InFlight(i) THEN {"late"} ELSE {}

Full(full) == IF full THEN {"full"} ELSE {}

(* T1 does not end while the peer restarts, unless that takes long.        *)
T1Ends(i) == LongDown \/ IsUp(Peer(i.own)) \/ boot[Peer(i.own)] = 1

(* response_timeout. Equal datagrams that are in flight together are one.  *)
Retransmit(i) ==
    /\ local[i] > 1
    /\ T1Ends(i)
    /\ Faults(Late(i))
    /\ local' = [local EXCEPT ![i] = @ - 1]
    /\ net' = net \cup {Req(i)}
    /\ UNCHANGED <<boot, node, pend, held, csess, usess, adrift, wiped, stalled>>

(* The queue of side s takes event e, or is full. The control functions    *)
(* then drop the event (ogs_queue_trypush), n being the peer as the caller *)
(* leaves it; the queue of a user plane function, which waits for room, is *)
(* taken to have it.                                                       *)
TimerOf(e) == IF e = "association" THEN "association" ELSE "heartbeat"

Push(s, e, n, full) ==
    /\ full => s = "cp"
    /\ pend' = IF full THEN pend ELSE [pend EXCEPT ![s] = @ \cup {e}]
    /\ stalled' = IF full THEN (stalled \cup {TimerOf(e)}) \ n.timers ELSE stalled

(* The last try of a heartbeat: node_timeout queues NO_HEARTBEAT.          *)
GiveUpHeartbeat(i) ==
    /\ i.kind = Hb
    /\ \E full \in BOOLEAN :
          /\ Push(i.own, "NO_HEARTBEAT", node[i.own], full)
          /\ Faults(Late(i) \cup Full(full))
    /\ UNCHANGED <<csess, adrift>>

(* The last try of a request for a session: sess_timeout rejects a session *)
(* that was being established and keeps one that was being restored. An    *)
(* SMF tells the machine of a 5GC session, which rejects in either case if *)
(* it waits for the establishment, and only logs for an EPC session.       *)
GiveUpSession(i) ==
    LET x == i.kind.sess
        waits == csess[x] = "opening"
    IN  /\ i.kind.type \in {"est", "restore"}
        /\ \/ /\ waits /\ (Keeps \/ i.kind.type = "est")
              /\ csess' = [csess EXCEPT ![x] = "gone"]
           \/ /\ waits /\ i.kind.type = "est" => Keeps
              /\ UNCHANGED csess
        /\ adrift' = IF i.kind.type = "restore" THEN adrift \cup {x} ELSE adrift
        /\ Faults(Late(i))
        /\ UNCHANGED <<pend, stalled>>

GiveUpSetup(i) ==
    /\ i.kind = Setup
    /\ Faults(Late(i))
    /\ UNCHANGED <<pend, csess, adrift, stalled>>

GiveUp(i) ==
    /\ local[i] = 1
    /\ T1Ends(i)
    /\ local' = [local EXCEPT ![i] = 0]
    /\ GiveUpHeartbeat(i) \/ GiveUpSession(i) \/ GiveUpSetup(i)
    /\ UNCHANGED <<boot, node, held, net, usess, wiped>>

(* t_association or t_no_heartbeat ends, and its event is queued. Both     *)
(* intervals are longer than all the tries of the request they repeat.     *)
Expire(s, e) ==
    /\ e \in node[s].timers
    /\ \A i \in Ids : i.own = s /\ i.kind = (IF e = "heartbeat" THEN Hb ELSE Setup)
                        => local[i] <= 0
    /\ node' = [node EXCEPT ![s].timers = @ \ {e}]
    /\ \E full \in BOOLEAN :
          Push(s, e, node'[s], full) /\ Faults(Full(full))
    /\ UNCHANGED <<boot, local, held, net, csess, usess, adrift, wiped>>

(* An event of the queue is handled.                                       *)
Handle(s, e) ==
    LET h == IF e = "NO_HEARTBEAT" THEN AfterNoHeartbeat(s, node[s])
             ELSE AfterTimer(s, node[s], e)
    IN  /\ e \in pend[s]
        /\ pend' = [pend EXCEPT ![s] = @ \ {e}]
        /\ Do(s, h, local, held, {}, {})
        /\ UNCHANGED <<boot, csess, usess, faults, wiped>>

-----------------------------------------------------------------------------
(* A side's process ends: all it knew is gone. It will come up with the    *)
(* next time stamp.                                                        *)
Stop(s) ==
    /\ IsUp(s)
    /\ Faults({"restart"})
    /\ boot' = [boot EXCEPT ![s] = @ + 1]
    /\ node' = [node EXCEPT ![s] = Down]
    /\ pend' = [pend EXCEPT ![s] = {}]
    /\ local' = [i \in Ids |-> IF i.own = s THEN 0 ELSE local[i]]
    /\ held' = [i \in Ids |-> IF i.own = s THEN held[i] ELSE "no"]
    /\ csess' = IF s = "cp" THEN [x \in Sess |-> "none"] ELSE csess
    /\ usess' = IF s = "up" THEN {} ELSE usess
    /\ adrift' = IF s = "cp" THEN {} ELSE adrift
    /\ wiped' = IF s = "cp" THEN {} ELSE wiped
    /\ stalled' = IF s = "cp" THEN {} ELSE stalled
    /\ UNCHANGED net

Lose(m) ==
    /\ Faults({"loss"})
    /\ net' = net \ {m}
    /\ UNCHANGED <<boot, node, pend, local, held, csess, usess, adrift, wiped, stalled>>

(* A request is lost with all its retransmissions.                         *)
LoseAll(m) ==
    /\ m.dir = "req"
    /\ local[m.id] > 1
    /\ Faults({m.id.kind.type})
    /\ net' = net \ {m}
    /\ local' = [local EXCEPT ![m.id] = 1]
    /\ UNCHANGED <<boot, node, pend, held, csess, usess, adrift, wiped, stalled>>

Receive(m) == ReceiveRequest(m) \/ ReceiveResponse(m)

Timeout(i) == Retransmit(i) \/ GiveUp(i)

Next ==
    \/ \E x \in Sess : Establish(x)
    \/ \E m \in net : Receive(m) \/ Lose(m) \/ LoseAll(m)
    \/ \E i \in Ids : Timeout(i)
    \/ \E s \in Sides : \E e \in Events : Expire(s, e) \/ Handle(s, e)
    \/ \E s \in Sides : Open(s) \/ Stop(s)

(* The transaction layer serves the transactions I.                        *)
Serve(I) == \E i \in I : Timeout(i) \/ \E m \in net : m.id = i /\ Receive(m)

(* A datagram that is not lost arrives, a timer that runs ends, an event   *)
(* in the queue is handled, a process that is down is started again.       *)
Fairness ==
    /\ \A s \in Sides : WF_vars(Serve({i \in Ids : i.own = s /\ i.kind = Hb}))
    /\ WF_vars(Serve({i \in Ids : i.kind # Hb}))
    /\ \A s \in Sides : WF_vars(\E e \in Events : Expire(s, e) \/ Handle(s, e))
    /\ WF_vars(\E s \in Sides : Open(s))

Spec == Init /\ [][Next]_vars /\ Fairness

-----------------------------------------------------------------------------
TypeOK ==
    /\ boot \in [Sides -> Boots]
    /\ node \in [Sides -> NodeStates]
    /\ pend \in [Sides -> SUBSET Events]
    /\ local \in [Ids -> Answered .. N1]
    /\ held \in [Ids -> {"no", "open", "answered"}]
    /\ net \subseteq Messages
    /\ csess \in [Sess -> {"none", "opening", "up", "gone"}]
    /\ usess \subseteq Boots \X Sess
    /\ faults \in [FaultKinds -> 0 .. MaxFault]
    /\ adrift \subseteq Sess
    /\ wiped \subseteq Sess
    /\ stalled \subseteq {"association", "heartbeat"}

(* The user plane holds the session of the running control function.       *)
Holds(x) == <<boot["cp"], x>> \in usess

Restoring(x) == \E i \in Ids : i.kind = Restore(x) /\ local[i] > 0

(* A session the control function takes for installed is installed, or the *)
(* control function is going to find out: the time stamp it has heard last *)
(* is not the one of the running user plane, or the restoration is due, or *)
(* under way, or was given up as the log said; or the user plane removed   *)
(* the session in its own restoration. "Real restarts are detected         *)
(* authoritatively [...] by the Recovery Time Stamp comparison"            *)
(* (src/sgwc/pfcp-sm.c, NO_HEARTBEAT).                                     *)
NotForgotten ==
    \A x \in Sess : csess[x] = "up" =>
        \/ Holds(x)
        \/ node["cp"].remote # boot["up"]
        \/ node["cp"].restore
        \/ Restoring(x)
        \/ x \in adrift \cup wiped

(* What will make side s go on: the timers that run and the events that    *)
(* are queued. The ones that a full queue stopped are counted in.          *)
Going(s) == node[s].timers \cup pend[s] \cup (IF s = "cp" THEN stalled ELSE {})

(* Neither state machine comes to rest by itself: an associated side has a *)
(* heartbeat outstanding, its timer running or the event of one of the two *)
(* queued; a side that has to ask for the association has the timer        *)
(* running or its event queued. A handler that forgets to start a timer    *)
(* stops the machine for good. So does a queue of the control function     *)
(* that is full when one of these events comes, which is excepted.         *)
KeepsTrying ==
    \A s \in Sides :
        /\ node[s].sm = "associated" =>
              \/ "heartbeat" \in Going(s)
              \/ "NO_HEARTBEAT" \in Going(s)
              \/ \E i \in Ids : i.own = s /\ i.kind = Hb /\ local[i] > 0
        /\ s \in Assoc /\ node[s].sm = "will_associate" => "association" \in Going(s)

(* The user plane has given the association up, does not ask for one, and  *)
(* the control function goes on as associated: its heartbeats are answered *)
(* in will_associate as well.                                              *)
OneSided ==
    /\ "up" \notin Assoc
    /\ node["up"].sm = "will_associate"
    /\ node["cp"].sm = "associated"

(* Whatever restarts and is lost, both sides are associated again and      *)
(* again: the control function notices that the user plane is gone and     *)
(* asks for the association. There are two ways out, from which the code   *)
(* does not come back by itself: a full queue stopped the control function *)
(* and the user plane alone gave the association up.                       *)
Reassociates ==
    []<>(\/ \A s \in Sides : node[s].sm = "associated"
         \/ stalled # {}
         \/ OneSided)

(* A session the control function takes for installed is in the end        *)
(* installed on the user plane, unless the user plane removed it in its    *)
(* restoration, the control function gave its restoration up, or a full    *)
(* queue stopped the control function.                                     *)
Restored ==
    \A x \in Sess :
        csess[x] = "up" ~> \/ Holds(x) \/ csess[x] # "up"
                            \/ x \in adrift \cup wiped
                            \/ stalled # {}

=============================================================================
