------------------------------ MODULE GtpXact ------------------------------
(***************************************************************************)
(* The GTP transaction layer (lib/gtp/xact.c) at both ends of one path:    *)
(* requests, answers and three-way exchanges between two network functions *)
(* over UDP, with retransmission (T3-RESPONSE, N3-REQUESTS), the holding   *)
(* of finished transactions, duplicate detection and give-up.              *)
(*                                                                         *)
(* Message types are abstracted to the roles the layer tells apart:        *)
(*   Req, Rsp   a request and its response                                 *)
(*   Cmd        a message that opens a three-way exchange: a GTPv2         *)
(*              command, or the GTPv1 SGSN Context Request                 *)
(*   TReq       its triggered message: a GTPv2 bearer request that carries *)
(*              the command bit, or the GTPv1 SGSN Context Response        *)
(*   TRsp       the triggered reply: a GTPv2 bearer response that carries  *)
(*              the command bit, or the GTPv1 SGSN Context Acknowledge     *)
(*   Fail       a GTPv2 failure indication, the other answer to a command  *)
(*   Relay      GTPv1 RAN Information Relay, for which there is no answer  *)
(*                                                                         *)
(* A transaction id is not reused while anything of its earlier use is     *)
(* left: GtpXid is about how ids are chosen.                               *)
(***************************************************************************)
EXTENDS Integers

CONSTANTS
    Callers,    \* the sides that make requests
    Xids,       \* transaction ids each side may use for its own requests
    Version,    \* 1 or 2: the GTP version of the path
    N3,         \* n3_response_rcount
    NHolding,   \* n3_holding_rcount
    MaxDefer,   \* OGS_GTP_XACT_LAG_MAX_DEFER; 0 where no lag callback is set
    MaxExec     \* bound: times a side's application is given one request

ASSUME ParameterAssumption ==
    /\ Callers \subseteq {"a", "b"}
    /\ Version \in {1, 2}
    /\ N3 \in Nat \ {0}
    /\ NHolding \in Nat \ {0}
    /\ MaxDefer \in Nat
    /\ MaxExec \in Nat

Nodes == {"a", "b"}
Peer(n) == IF n = "a" THEN "b" ELSE "a"

Local == "local"        \* OGS_GTP_LOCAL_ORIGINATOR
Remote == "remote"      \* OGS_GTP_REMOTE_ORIGINATOR
Orgs == {Local, Remote}

(* A transaction is found by its side, its originator and its id.          *)
Keys == Nodes \X Orgs \X Xids

None == "none"

INITIAL_STAGE == {"Req", "Cmd", "Relay"}
INTERMEDIATE_STAGE == {"TReq"}
FINAL_STAGE == {"Rsp", "TRsp", "Fail"}
Types == INITIAL_STAGE \cup INTERMEDIATE_STAGE \cup FINAL_STAGE

(* What an application may send to open a transaction, and as the answer   *)
(* to what it was sent.                                                    *)
Requests == IF Version = 1 THEN {"Req", "Cmd", "Relay"} ELSE {"Req", "Cmd"}

Answers(type) ==
    CASE type = "Req" -> {"Rsp"}
      [] type = "Cmd" -> IF Version = 1 THEN {"TReq"} ELSE {"TReq", "Fail"}
      [] type = "TReq" -> {"TRsp"}
      [] OTHER -> {}

Messages == [to : Nodes, type : Types, xid : Xids]

VARIABLES
    xact,       \* the transactions, as a function of their key
    net,        \* every datagram handed to the network so far
    out,        \* the datagrams sent by the last step
    call,       \* call[n][x]: what the application of n knows of its request x
    exec,       \* exec[n][x]: times the application of n was given request x
    confirmed   \* <<n, x>>: n received the triggered reply of exchange x

vars == <<xact, net, out, call, exec, confirmed>>

-----------------------------------------------------------------------------
(* ogs_gtp_xact_t. seq[i] is the type of the message of step i, bufs the   *)
(* steps whose packet is kept, timers the timers that are running. A       *)
(* record with step 0 is a free one: a handler that creates a transaction  *)
(* takes its first step too.                                               *)
Slots == 0 .. 2
Timers == {"response", "holding"}

Xact == [step : 0 .. 3, seq : [Slots -> Types \cup {None}], bufs : SUBSET Slots,
         timers : SUBSET Timers, rcount : 0 .. N3, hcount : 0 .. NHolding,
         defer : 0 .. MaxDefer]

Free == [step |-> 0, seq |-> [i \in Slots |-> None], bufs |-> {},
         timers |-> {}, rcount |-> N3, hcount |-> NHolding, defer |-> 0]

Live(k) == xact[k].step > 0

Node(k) == k[1]
Org(k) == k[2]
Xid(k) == k[3]

Msg(k, type) == [to |-> Peer(Node(k)), type |-> type, xid |-> Xid(k)]

-----------------------------------------------------------------------------
(* The steps in which update_tx lets a message be sent.                    *)
TxSteps(org, type) ==
    IF org = Local
      THEN IF type \in INITIAL_STAGE THEN {0}
           ELSE IF type \in INTERMEDIATE_STAGE THEN {}
           ELSE IF Version = 1 THEN {2, 3} ELSE {2}
      ELSE IF type \in INITIAL_STAGE THEN {} ELSE {1}

(* update_tx: the packet and its type are kept, the step advances.         *)
UpdateTx(t, type) ==
    [t EXCEPT !.seq = [@ EXCEPT ![t.step] = type], !.bufs = @ \cup {t.step}, !.step = @ + 1]

(* The steps in which update_rx accepts a message.                         *)
RxSteps(org, type) ==
    IF org = Local
      THEN IF type \in INITIAL_STAGE THEN {} ELSE {1}
      ELSE IF type \in INITIAL_STAGE THEN {0}
           ELSE IF type \in FINAL_STAGE THEN {2} ELSE {}

UpdateRx_NoHolding(t, type) ==
    [t EXCEPT !.seq = [@ EXCEPT ![t.step] = type], !.step = @ + 1, !.timers = @ \ {"response"}]

UpdateRx_ResponseRuns(t, type) ==
    [t EXCEPT !.seq = [@ EXCEPT ![t.step] = type], !.step = @ + 1,
              !.timers = @ \cup IF type \in FINAL_STAGE THEN {} ELSE {"holding"}]

(* update_rx of an expected message: T3-RESPONSE is stopped, and a message *)
(* that asks for an answer starts the holding timer.                       *)
UpdateRx(t, type) ==
    [t EXCEPT !.seq = [@ EXCEPT ![t.step] = type],
              !.step = @ + 1,
              !.timers = (@ \ {"response"}) \cup
                            IF type \in FINAL_STAGE THEN {} ELSE {"holding"}]

(* The slot of the message that update_rx compares with, to tell that a    *)
(* message is a duplicate; the answer is kept in the slot after it.        *)
DupSlot(org) == IF org = Local THEN 1 ELSE 0

IsDuplicate(t, org, type) ==
    /\ type \in (IF org = Local THEN INTERMEDIATE_STAGE ELSE INITIAL_STAGE)
    /\ t.seq[DupSlot(org)] = type
    /\ t.step \in {DupSlot(org) + 1, DupSlot(org) + 2}

(* The list in which ogs_gtp1_xact_receive and ogs_gtp_xact_receive look   *)
(* for the transaction of a message.                                       *)
ListOf(type) ==
    IF type \in INITIAL_STAGE \cup {"TRsp"} THEN Remote ELSE Local

NoLocalMatch_AnyVersion(t, type) ==
    type \in {"TReq", "Rsp"} /\ t.step # 1

(* A GTPv2 answer must match a local transaction at step 1                 *)
(* (ogs_gtp2_xact_is_local_reply, ogs_gtp2_xact_find_local): any other is  *)
(* dropped before update_rx.                                               *)
NoLocalMatch(t, type) ==
    Version = 2 /\ type \in {"TReq", "Rsp"} /\ t.step # 1

(* ogs_gtp_xact_commit, for the message of the last step: T3-RESPONSE is   *)
(* started for a message that asks for an answer.                          *)
AwaitsAnswer(org, t) ==
    LET type == t.seq[t.step - 1]
    IN  \/ org = Local /\ type \in INITIAL_STAGE \ {"Relay"}
        \/ org = Remote /\ type \in INTERMEDIATE_STAGE

Commit(org, t) ==
    IF AwaitsAnswer(org, t)
      THEN [t EXCEPT !.timers = @ \cup {"response"}] ELSE t

-----------------------------------------------------------------------------
Init ==
    /\ xact = [k \in Keys |-> Free]
    /\ net = {}
    /\ out = {}
    /\ call = [n \in Nodes |-> [x \in Xids |-> "idle"]]
    /\ exec = [n \in Nodes |-> [x \in Xids |-> 0]]
    /\ confirmed = {}

Send(msgs) == out' = msgs /\ net' = net \cup msgs

(* An application sends a request: local_create and commit in one handler. *)
(* When the datagram cannot be sent, commit deletes the transaction and    *)
(* the caller is told.                                                     *)
Request(n, x, type, sent) ==
    LET k == <<n, Local, x>>
    IN  /\ call[n][x] = "idle"
        /\ xact' = [xact EXCEPT ![k] = IF sent THEN Commit(Local, UpdateTx(Free, type))
                                               ELSE Free]
        /\ Send(IF sent THEN {Msg(k, type)} ELSE {})
        /\ call' = [call EXCEPT ![n][x] = IF sent THEN "waiting" ELSE "failed"]
        /\ UNCHANGED <<exec, confirmed>>

(* An application answers what it was given: update_tx and commit. The     *)
(* remote transaction of a request is answered at step 1, the local one of *)
(* a three-way exchange at step 2.                                         *)
Answer(k, type, sent) ==
    LET t == xact[k]
    IN  /\ Live(k)
        /\ t.step \in TxSteps(Org(k), type)
        /\ type \in Answers(t.seq[t.step - 1])
        /\ xact' = [xact EXCEPT ![k] = IF sent THEN Commit(Org(k), UpdateTx(t, type))
                                               ELSE Free]
        /\ Send(IF sent THEN {Msg(k, type)} ELSE {})
        /\ call' = IF Org(k) = Local /\ sent
                     THEN [call EXCEPT ![Node(k)][Xid(k)] = "replied"] ELSE call
        /\ UNCHANGED <<exec, confirmed>>

(* A datagram arrives: receive and, when it is passed up, the handler of   *)
(* the application, which commits an exchange that is over.                *)

(* A request that is new to this side.                                     *)
ReceiveRequest(k, type) ==
    /\ Org(k) = Remote /\ type \in INITIAL_STAGE
    /\ ~IsDuplicate(xact[k], Remote, type)
    /\ xact[k].step \in RxSteps(Remote, type)
    /\ exec[Node(k)][Xid(k)] < MaxExec
    /\ xact' = [xact EXCEPT ![k] = UpdateRx(Free, type)]
    /\ exec' = [exec EXCEPT ![Node(k)][Xid(k)] = @ + 1]
    /\ Send({})
    /\ UNCHANGED <<call, confirmed>>

(* A duplicate: the answer is sent again if there is one by now.           *)
ReceiveDuplicate(k, type) ==
    LET t == xact[k]
        answer == DupSlot(Org(k)) + 1
    IN  /\ Live(k)
        /\ ~NoLocalMatch(t, type)
        /\ IsDuplicate(t, Org(k), type)
        /\ IF answer \in t.bufs
             THEN /\ xact' = [xact EXCEPT ![k].timers = @ \cup {"holding"}]
                  /\ Send({Msg(k, t.seq[answer])})
             ELSE /\ Send({})
                  /\ UNCHANGED xact
        /\ UNCHANGED <<call, exec, confirmed>>

(* The answer to a request, or the triggered message of an exchange.       *)
ReceiveAnswer(k, type) ==
    LET t == xact[k]
    IN  /\ Org(k) = Local
        /\ ~NoLocalMatch(t, type)
        /\ ~IsDuplicate(t, Local, type)
        /\ t.step \in RxSteps(Local, type)
        /\ xact' = [xact EXCEPT ![k] = IF type \in FINAL_STAGE THEN Free
                                       ELSE UpdateRx(t, type)]
        /\ call' = [call EXCEPT ![Node(k)][Xid(k)] = "answered"]
        /\ Send({})
        /\ UNCHANGED <<exec, confirmed>>

(* The triggered reply, which ends the exchange.                           *)
ReceiveTriggeredReply(k, type) ==
    LET t == xact[k]
    IN  /\ Org(k) = Remote
        /\ type \in FINAL_STAGE
        /\ t.step \in RxSteps(Remote, type)
        /\ xact' = [xact EXCEPT ![k] = Free]
        /\ confirmed' = confirmed \cup {<<Node(k), Xid(k)>>}
        /\ Send({})
        /\ UNCHANGED <<call, exec>>

(* Anything else is dropped. A transaction that receive created for it is  *)
(* deleted again, one that was found is kept.                              *)
ReceiveDropped(k, type) ==
    LET t == xact[k]
    IN  /\ \/ NoLocalMatch(t, type)
           \/ /\ ~IsDuplicate(t, Org(k), type)
              /\ t.step \notin RxSteps(Org(k), type)
        /\ Send({})
        /\ UNCHANGED <<xact, call, exec, confirmed>>

Receive(m) ==
    LET k == <<m.to, ListOf(m.type), m.xid>>
    IN  \/ ReceiveRequest(k, m.type)
        \/ ReceiveDuplicate(k, m.type)
        \/ ReceiveAnswer(k, m.type)
        \/ ReceiveTriggeredReply(k, m.type)
        \/ ReceiveDropped(k, m.type)

-----------------------------------------------------------------------------
(* response_timeout                                                        *)

(* xact_response_lag_defer: this side's own event queue lags.              *)
ResponseDeferred(k) ==
    /\ "response" \in xact[k].timers
    /\ xact[k].defer < MaxDefer
    /\ xact' = [xact EXCEPT ![k].defer = @ + 1]
    /\ Send({})
    /\ UNCHANGED <<call, exec, confirmed>>

Retransmit_Uncounted(k) ==
    LET t == xact[k]
    IN  /\ "response" \in t.timers
        /\ t.rcount - 1 > 0
        /\ Send({Msg(k, t.seq[t.step - 1])})
        /\ UNCHANGED <<xact, call, exec, confirmed>>

Retransmit(k) ==
    LET t == xact[k]
    IN  /\ "response" \in t.timers
        /\ t.rcount - 1 > 0
        /\ xact' = [xact EXCEPT ![k].rcount = @ - 1]
        /\ Send({Msg(k, t.seq[t.step - 1])})
        /\ UNCHANGED <<call, exec, confirmed>>

GiveUp_KeepsTransaction(k) ==
    /\ "response" \in xact[k].timers
    /\ xact[k].rcount - 1 <= 0
    /\ xact' = [xact EXCEPT ![k].timers = {"holding"}]
    /\ call' = IF Org(k) = Local THEN [call EXCEPT ![Node(k)][Xid(k)] = "timeout"]
                                 ELSE call
    /\ Send({})
    /\ UNCHANGED <<exec, confirmed>>

(* The callback of the application runs, then the transaction is deleted.  *)
(* A remote transaction has no callback.                                   *)
GiveUp(k) ==
    /\ "response" \in xact[k].timers
    /\ xact[k].rcount - 1 <= 0
    /\ xact' = [xact EXCEPT ![k] = Free]
    /\ call' = IF Org(k) = Local THEN [call EXCEPT ![Node(k)][Xid(k)] = "timeout"]
                                 ELSE call
    /\ Send({})
    /\ UNCHANGED <<exec, confirmed>>

ResponseTimeout(k) == ResponseDeferred(k) \/ Retransmit(k) \/ GiveUp(k)

HoldingTimeout_Uncounted(k) ==
    /\ "holding" \in xact[k].timers
    /\ xact' = [xact EXCEPT ![k] = IF @.hcount - 1 > 0 THEN @ ELSE Free]
    /\ Send({})
    /\ UNCHANGED <<call, exec, confirmed>>

(* holding_timeout                                                         *)
HoldingTimeout(k) ==
    LET t == xact[k]
    IN  /\ "holding" \in t.timers
        /\ xact' = [xact EXCEPT ![k] = IF t.hcount - 1 > 0 THEN [t EXCEPT !.hcount = @ - 1]
                                                           ELSE Free]
        /\ Send({})
        /\ UNCHANGED <<call, exec, confirmed>>

(* ogs_gtp_xact_delete_all, when a side drops the peer or restarts: no     *)
(* callback runs.                                                          *)
DeleteAll(n) ==
    /\ \E k \in Keys : Node(k) = n /\ Live(k)
    /\ xact' = [k \in Keys |-> IF Node(k) = n THEN Free ELSE xact[k]]
    /\ call' = [call EXCEPT ![n] = [x \in Xids |->
                    IF call[n][x] = "waiting" THEN "dropped" ELSE call[n][x]]]
    /\ Send({})
    /\ UNCHANGED <<exec, confirmed>>

Next ==
    \/ \E n \in Callers, x \in Xids, type \in Requests, sent \in BOOLEAN :
          Request(n, x, type, sent)
    \/ \E k \in Keys, type \in Types, sent \in BOOLEAN : Answer(k, type, sent)
    \/ \E m \in net : Receive(m)
    \/ \E k \in Keys : ResponseTimeout(k)
    \/ \E k \in Keys : HoldingTimeout(k)
    \/ \E n \in Nodes : DeleteAll(n)

Spec == Init /\ [][Next]_vars

(* A running timer fires some day (the owner's poll loop), whatever the    *)
(* network and the applications do. A duplicate starts the holding timer   *)
(* anew: that it fires all the same takes a network that does not repeat   *)
(* datagrams for ever.                                                     *)
Fairness ==
    \A k \in Keys : WF_vars(ResponseTimeout(k)) /\ WF_vars(HoldingTimeout(k))

FairSpec == Spec /\ Fairness
-----------------------------------------------------------------------------
(* What the applications are promised (see Rpc): one outcome per request,  *)
(* an answer only from a peer that was given the request.                  *)
Promise == INSTANCE Rpc WITH
    given <- {p \in Nodes \X Xids : exec[p[1]][p[2]] > 0}

Implements == Promise!Spec

(* The variables hold what their declarations say.                         *)
TypeOK ==
    /\ xact \in [Keys -> Xact]
    /\ net \subseteq Messages
    /\ out \subseteq net
    /\ call \in [Nodes -> [Xids -> Promise!States]]
    /\ exec \in [Nodes -> [Xids -> 0 .. MaxExec]]
    /\ confirmed \subseteq Nodes \X Xids

(* A transaction that gets no timer that could ever delete it: local_create *)
(* adds no response timer for a RAN Information Relay, which starts none.   *)
Unattended(k) == Org(k) = Local /\ xact[k].seq[0] = "Relay"

(* No transaction is left without a timer that will retransmit, give up or *)
(* delete it, whatever path led to its step: a transaction of which both   *)
(* timers are stopped would stay in the pool for good.                     *)
Attended ==
    \A k \in Keys : Live(k) /\ ~Unattended(k) => xact[k].timers # {}

(* response_timeout finds the packet it sends again (ogs_assert(pkbuf)),   *)
(* and what it sends still is what the peer has to answer: T3-RESPONSE     *)
(* never runs on while a transaction has moved to another step.            *)
RetransmissionReady ==
    \A k \in Keys : "response" \in xact[k].timers =>
        LET last == xact[k].step - 1
        IN  last \in xact[k].bufs /\ AwaitsAnswer(Org(k), xact[k])

(* How a transaction, what its application knows and what is on the wire   *)
(* go together: the inductive invariant behind the properties above.       *)
LocalCoherent(n, x) ==
    LET t == xact[<<n, Local, x>>]
    IN  /\ t.step = 0 => t.timers = {}
        /\ t.step > 0 => t.seq[0] \in INITIAL_STAGE
        /\ t.step = 1 =>
              /\ call[n][x] = "waiting"
              /\ t.bufs = {0} /\ t.seq[1] = None
              /\ t.timers = IF t.seq[0] = "Relay" THEN {} ELSE {"response"}
        /\ t.step = 2 =>
              /\ call[n][x] = "answered"
              /\ t.seq[1] = "TReq" /\ t.bufs = {0}
              /\ t.timers = {"holding"}
        /\ t.step = 3 =>
              /\ call[n][x] = "replied"
              /\ t.seq[1] = "TReq" /\ t.seq[2] = "TRsp" /\ t.bufs = {0, 2}
              /\ t.timers = {"holding"}

RemoteCoherent(n, x) ==
    LET t == xact[<<n, Remote, x>>]
    IN  /\ t.step = 0 => t.timers = {} /\ t.seq[0] = None
        /\ t.step # 3
        /\ t.step > 0 => exec[n][x] > 0 /\ t.seq[0] \in INITIAL_STAGE
        /\ t.step = 1 => t.bufs = {} /\ t.timers = {"holding"}
        /\ t.step = 2 =>
              /\ t.seq[1] \in {"Rsp", "TReq", "Fail"} /\ t.bufs = {1}
              /\ t.timers = {"holding"} \cup
                    IF t.seq[1] = "TReq" THEN {"response"} ELSE {}

WireCoherent(m) ==
    /\ ListOf(m.type) = Local => exec[Peer(m.to)][m.xid] > 0
    /\ m.type \in INITIAL_STAGE => call[Peer(m.to)][m.xid] \notin {"idle", "failed"}
    /\ m.type = "TRsp" => call[Peer(m.to)][m.xid] = "replied"

Coherent ==
    /\ \A n \in Nodes, x \in Xids : LocalCoherent(n, x) /\ RemoteCoherent(n, x)
    /\ \A m \in net : WireCoherent(m)

(* "Request Duplicated. Retransmit!" (update_rx): a peer that repeats a    *)
(* message because it lost the answer is sent the answer again, as long as *)
(* the transaction that has it is held.                                    *)
DuplicateIsAnswered ==
    [][\A m \in net :
        LET k == <<m.to, ListOf(m.type), m.xid>>
            answer == DupSlot(Org(k)) + 1
        IN  Receive(m) /\ IsDuplicate(xact[k], Org(k), m.type) /\ answer \in xact[k].bufs
                => Msg(k, xact[k].seq[answer]) \in out']_vars

(* Every request comes to an outcome, however many datagrams are lost and  *)
(* whatever the peer does.                                                 *)
Resolved ==
    \A n \in Nodes, x \in Xids :
        call[n][x] = "waiting" /\ ~Unattended(<<n, Local, x>>) ~> call[n][x] # "waiting"

(* Every transaction is deleted some day and its pool entry returned.      *)
Reclaimed ==
    \A k \in Keys : Live(k) /\ ~Unattended(k) ~> ~Live(k)
=============================================================================
