--------------------------- MODULE GtpXact_proofs ---------------------------
(***************************************************************************)
(* Proofs about GtpXact, for every set of transaction ids, both versions   *)
(* and every value of the retransmission parameters.  Then about GtpXid,   *)
(* the ids that the shards and the main thread give the transactions, for  *)
(* every number of shards and every width of the id spaces: with shards    *)
(* active, ids of different threads never collide and the answer to an     *)
(* outstanding request reaches it.                                         *)
(***************************************************************************)
EXTENDS GtpXact, GtpXid, TLAPS

(* The SMT solver is tried twice, then Zenon, where a leaf names neither.  *)
USE SMTT(30), SMTT(31), Zenon

(* A free transaction is a transaction record.                             *)
LEMMA FreeIsXact == Free \in Xact
  BY ParameterAssumption DEF Free, Xact, Slots, Timers

(* What update_tx makes of a transaction: only step, seq and bufs change.  *)
LEMMA TxResult ==
  ASSUME NEW t \in Xact, NEW type \in Types, t.step \in Slots
  PROVE  /\ UpdateTx(t, type) \in Xact
         /\ UpdateTx(t, type).step = t.step + 1
         /\ UpdateTx(t, type).seq = [t.seq EXCEPT ![t.step] = type]
         /\ UpdateTx(t, type).bufs = t.bufs \cup {t.step}
         /\ UpdateTx(t, type).timers = t.timers
  <1> DEFINE q == [t.seq EXCEPT ![t.step] = type]
  <1>1. q \in [Slots -> Types \cup {None}]
    BY DEF Xact
  <1>2. t.bufs \cup {t.step} \in SUBSET Slots /\ t.step + 1 \in 0 .. 3
    BY DEF Xact, Slots
  <1> HIDE DEF q
  <1>3. UpdateTx(t, type) = [t EXCEPT !.seq = q, !.bufs = t.bufs \cup {t.step},
                                      !.step = t.step + 1]
    BY DEF UpdateTx, q, Xact
  <1> QED
    BY ZenonT(40), <1>1, <1>2, <1>3 DEF Xact, q

(* What update_rx makes of a transaction: only step, seq and timers change. *)
LEMMA RxResult ==
  ASSUME NEW t \in Xact, NEW type \in Types, t.step \in Slots
  PROVE  /\ UpdateRx(t, type) \in Xact
         /\ UpdateRx(t, type).step = t.step + 1
         /\ UpdateRx(t, type).seq = [t.seq EXCEPT ![t.step] = type]
         /\ UpdateRx(t, type).bufs = t.bufs
         /\ UpdateRx(t, type).timers = (t.timers \ {"response"}) \cup
                (IF type \in FINAL_STAGE THEN {} ELSE {"holding"})
  <1> DEFINE q == [t.seq EXCEPT ![t.step] = type]
             w == (t.timers \ {"response"}) \cup
                    (IF type \in FINAL_STAGE THEN {} ELSE {"holding"})
  <1>1. q \in [Slots -> Types \cup {None}]
    BY DEF Xact
  <1>2. w \in SUBSET Timers /\ t.step + 1 \in 0 .. 3
    BY DEF Xact, Slots, Timers
  <1> HIDE DEF q, w
  <1>3. UpdateRx(t, type) = [t EXCEPT !.seq = q, !.step = t.step + 1, !.timers = w]
    BY DEF UpdateRx, q, w, Xact
  <1> QED
    BY ZenonT(40), <1>1, <1>2, <1>3 DEF Xact, q, w

(* What commit makes of a transaction: only timers can change.             *)
LEMMA CommitResult ==
  ASSUME NEW t \in Xact, NEW org
  PROVE  /\ Commit(org, t) \in Xact
         /\ Commit(org, t).step = t.step
         /\ Commit(org, t).seq = t.seq
         /\ Commit(org, t).bufs = t.bufs
         /\ Commit(org, t).timers = t.timers \cup
                (IF AwaitsAnswer(org, t) THEN {"response"} ELSE {})
  BY DEF Commit, Xact, Timers

-----------------------------------------------------------------------------
(* Every transaction, and what the application of a side knows, is where   *)
(* the type invariant says it is.                                          *)
LEMMA KeyFacts ==
  ASSUME NEW k \in Keys
  PROVE  /\ Node(k) \in Nodes /\ Org(k) \in Orgs /\ Xid(k) \in Xids
         /\ k = <<Node(k), Org(k), Xid(k)>>
         /\ Peer(Node(k)) \in Nodes /\ Peer(Peer(Node(k))) = Node(k)
  BY DEF Keys, Node, Org, Xid, Nodes, Peer

IInv == TypeOK /\ Coherent

(* The fields of a free transaction.                                       *)
LEMMA FreeFields ==
  /\ Free \in Xact /\ Free.step = 0 /\ Free.step \in Slots
  /\ Free.seq = [i \in Slots |-> None] /\ Free.seq[0] = None /\ Free.seq[1] = None
  /\ Free.bufs = {} /\ Free.timers = {}
  BY FreeIsXact DEF Free, Slots

LEMMA InitInv == Init => IInv
  <1> SUFFICES ASSUME Init PROVE IInv
    OBVIOUS
  <1>1. TypeOK
    BY FreeIsXact, ParameterAssumption
       DEF Init, TypeOK, Promise!States, Promise!Outcomes
  <1>2. \A k \in Keys : xact[k].step = 0 /\ xact[k].timers = {} /\ xact[k].seq[0] = None
    BY FreeFields DEF Init
  <1>3. \A n \in Nodes, x \in Xids : LocalCoherent(n, x) /\ RemoteCoherent(n, x)
    BY <1>2 DEF LocalCoherent, RemoteCoherent, Keys, Orgs
  <1> QED
    BY <1>1, <1>3 DEF IInv, Coherent, Init

(* A step lets what is known of requests only grow, and changes it only    *)
(* for the request whose transaction is k.                                 *)
Monotone(k) ==
    \A n \in Nodes, x \in Xids :
        /\ <<n, Local, x>> # k => call'[n][x] = call[n][x]
        /\ exec'[n][x] \in Nat /\ exec'[n][x] >= exec[n][x]
        /\ call[n][x] \notin {"idle", "failed"} => call'[n][x] \notin {"idle", "failed"}
        /\ call[n][x] = "replied" => call'[n][x] = "replied"

(* A transaction of this side stays coherent while neither it nor what the *)
(* application knows of its request changes.                               *)
LEMMA LocalKept ==
  ASSUME NEW n, NEW x, LocalCoherent(n, x),
         xact'[<<n, Local, x>>] = xact[<<n, Local, x>>], call'[n][x] = call[n][x]
  PROVE  LocalCoherent(n, x)'
  BY DEF LocalCoherent

LEMMA RemoteKept ==
  ASSUME NEW n, NEW x, RemoteCoherent(n, x),
         xact'[<<n, Remote, x>>] = xact[<<n, Remote, x>>],
         exec[n][x] > 0 => exec'[n][x] > 0
  PROVE  RemoteCoherent(n, x)'
  BY DEF RemoteCoherent

(* A transaction of the peer has been given to the application.            *)
LEMMA RemoteExecuted ==
  ASSUME NEW n, NEW x, RemoteCoherent(n, x), xact[<<n, Remote, x>>].step = 2
  PROVE  exec[n][x] > 0
  BY DEF RemoteCoherent

(* A step that changes one transaction, lets counts and knowledge only     *)
(* grow and sends some messages keeps what it does not touch coherent.     *)
LEMMA OneChanged ==
  ASSUME IInv, NEW k \in Keys, NEW u \in Xact, NEW msgs \in SUBSET Messages,
         xact' = [xact EXCEPT ![k] = u],
         net' = net \cup msgs,
         Monotone(k),
         Org(k) = Local => LocalCoherent(Node(k), Xid(k))',
         Org(k) = Remote => RemoteCoherent(Node(k), Xid(k))',
         \A m \in msgs : WireCoherent(m)'
  PROVE  Coherent'
  <1>0. TypeOK /\ Coherent
    BY DEF IInv
  <1>1. ASSUME NEW n \in Nodes, NEW x \in Xids
        PROVE  LocalCoherent(n, x)'
    <2>1. CASE k = <<n, Local, x>>
      BY <2>1 DEF Node, Org, Xid
    <2>2. CASE k # <<n, Local, x>>
      <3>1. xact'[<<n, Local, x>>] = xact[<<n, Local, x>>]
        BY <1>0, <2>2 DEF TypeOK, Keys, Orgs
      <3>2. LocalCoherent(n, x) /\ call'[n][x] = call[n][x]
        BY <1>0, <2>2 DEF Coherent, Monotone
      <3> QED
        BY <3>1, <3>2, LocalKept
    <2> QED
      BY <2>1, <2>2
  <1>2. ASSUME NEW n \in Nodes, NEW x \in Xids
        PROVE  RemoteCoherent(n, x)'
    <2>1. CASE k = <<n, Remote, x>>
      BY <2>1 DEF Node, Org, Xid
    <2>2. CASE k # <<n, Remote, x>>
      <3>1. xact'[<<n, Remote, x>>] = xact[<<n, Remote, x>>]
        BY <1>0, <2>2 DEF TypeOK, Keys, Orgs
      <3>2. RemoteCoherent(n, x) /\ (exec[n][x] > 0 => exec'[n][x] > 0)
        BY <1>0 DEF TypeOK, Coherent, Monotone
      <3> QED
        BY <3>1, <3>2, RemoteKept
    <2> QED
      BY <2>1, <2>2
  <1>3. ASSUME NEW m \in net
        PROVE  WireCoherent(m)'
    <2>1. m \in Messages /\ m.to \in Nodes /\ Peer(m.to) \in Nodes /\ m.xid \in Xids
      BY <1>0 DEF TypeOK, Messages, Peer, Nodes
    <2>2. WireCoherent(m) /\ exec[Peer(m.to)][m.xid] \in Nat
      BY <1>0, <2>1 DEF TypeOK, Coherent
    <2> QED
      BY <2>1, <2>2 DEF WireCoherent, Monotone
  <1> QED
    BY <1>1, <1>2, <1>3 DEF Coherent

LEMMA RequestInv ==
  ASSUME IInv, NEW n \in Nodes, NEW x \in Xids, NEW type \in Requests, NEW sent \in BOOLEAN,
         Request(n, x, type, sent)
  PROVE  IInv'
  <1> DEFINE k == <<n, Local, x>>
             u == IF sent THEN Commit(Local, UpdateTx(Free, type)) ELSE Free
             msgs == IF sent THEN {Msg(k, type)} ELSE {}
  <1>1. k \in Keys /\ type \in INITIAL_STAGE /\ type \in Types
    BY DEF Keys, Orgs, Requests, Types, INITIAL_STAGE
  <1>2. /\ u \in Xact
        /\ ~sent => u = Free
        /\ sent => /\ u.step = 1 /\ u.seq[0] = type /\ u.seq[1] = None /\ u.bufs = {0}
                   /\ u.timers = IF type = "Relay" THEN {} ELSE {"response"}
    <2>1. CASE sent
      <3> DEFINE v == UpdateTx(Free, type)
      <3>1. /\ v \in Xact
            /\ v.step = Free.step + 1
            /\ v.seq = [Free.seq EXCEPT ![Free.step] = type]
            /\ v.bufs = Free.bufs \cup {Free.step}
            /\ v.timers = Free.timers
        BY FreeFields, TxResult, <1>1
      <3>2. v.step = 1 /\ v.seq[0] = type /\ v.seq[1] = None /\ v.bufs = {0} /\ v.timers = {}
        BY <3>1, FreeFields DEF Slots
      <3> HIDE DEF v
      <3>3. AwaitsAnswer(Local, v) <=> type # "Relay"
        BY <3>2, <1>1 DEF AwaitsAnswer, Local, Remote
      <3>4. u = Commit(Local, v)
        BY <2>1 DEF v
      <3> HIDE DEF u
      <3> QED
        BY ZenonT(40), <2>1, <3>1, <3>2, <3>3, <3>4, CommitResult
    <2>2. CASE ~sent
      BY <2>2, FreeIsXact
    <2> QED
      BY <2>1, <2>2
  <1> HIDE DEF u
  <1>3. msgs \in SUBSET Messages /\ \A m \in msgs : sent /\ m = Msg(k, type)
    BY <1>1 DEF Messages, Msg, Node, Xid, Peer, Nodes
  <1>4. /\ xact' = [xact EXCEPT ![k] = u] /\ out' = msgs /\ net' = net \cup msgs
        /\ call' = [call EXCEPT ![n][x] = IF sent THEN "waiting" ELSE "failed"]
        /\ call[n][x] = "idle" /\ exec' = exec /\ confirmed' = confirmed
    BY DEF Request, Send, u
  <1>5. TypeOK'
    BY ZenonT(40), <1>1, <1>2, <1>3, <1>4 DEF IInv, TypeOK, Promise!States, Promise!Outcomes
  <1>6. LocalCoherent(n, x)'
    BY <1>1, <1>2, <1>4, FreeFields DEF LocalCoherent, IInv, TypeOK
  <1>7. \A m \in msgs : WireCoherent(m)'
    BY <1>1, <1>3, <1>4
       DEF WireCoherent, Msg, Node, Xid, Peer, Nodes, ListOf, INITIAL_STAGE, IInv, TypeOK, Local, Remote
  <1> HIDE DEF msgs
  <1>8. Coherent'
    <2>1. Monotone(k)
      BY <1>4 DEF IInv, TypeOK, Monotone
    <2>2. Node(k) = n /\ Xid(k) = x /\ Org(k) = Local
      BY DEF Node, Xid, Org
    <2>3. /\ Org(k) = Local => LocalCoherent(Node(k), Xid(k))'
          /\ Org(k) = Remote => RemoteCoherent(Node(k), Xid(k))'
      BY <1>6, <2>2 DEF Local, Remote
    <2> HIDE DEF k
    <2> QED
      BY ZenonT(40), <1>1, <1>2, <1>3, <1>4, <1>7, <2>1, <2>3, OneChanged
  <1> QED
    BY <1>5, <1>8 DEF IInv

(* What is known of the transaction of a key.                              *)
LEMMA XactFacts ==
  ASSUME IInv, NEW k \in Keys
  PROVE  /\ xact[k] \in Xact
         /\ Org(k) = Local => LocalCoherent(Node(k), Xid(k)) /\ k = <<Node(k), Local, Xid(k)>>
         /\ Org(k) = Remote => RemoteCoherent(Node(k), Xid(k)) /\ k = <<Node(k), Remote, Xid(k)>>
  BY KeyFacts DEF IInv, TypeOK, Coherent

(* An answer goes out at step 2 of an own exchange, as its triggered reply, *)
(* or at step 1 of a transaction of the peer.                              *)
LEMMA AnswerShape ==
  ASSUME IInv, NEW k \in Keys, NEW type \in Types, NEW sent \in BOOLEAN, Answer(k, type, sent)
  PROVE  \/ /\ Org(k) = Local /\ xact[k].step = 2 /\ type = "TRsp"
         \/ /\ Org(k) = Remote /\ xact[k].step = 1 /\ type \in {"Rsp", "TReq", "Fail"}
  <1> DEFINE t == xact[k]
  <1>1. t.step > 0 /\ t.step \in TxSteps(Org(k), type) /\ type \in Answers(t.seq[t.step - 1])
    BY DEF Answer, Live
  <1>2. CASE Org(k) = Local
    <2>1. LocalCoherent(Node(k), Xid(k)) /\ k = <<Node(k), Local, Xid(k)>>
      BY <1>2, XactFacts
    <2>2. t.step \in {2, 3}
      BY <1>1, <1>2 DEF TxSteps
    <2>3. t.step = 2 => t.seq[1] = "TReq"
      BY <2>1 DEF LocalCoherent
    <2>4. t.step = 3 => t.seq[2] = "TRsp"
      BY <2>1 DEF LocalCoherent
    <2> QED
      BY <1>1, <1>2, <2>2, <2>3, <2>4 DEF Answers
  <1>3. CASE Org(k) = Remote
    <2>1. RemoteCoherent(Node(k), Xid(k)) /\ k = <<Node(k), Remote, Xid(k)>>
      BY <1>3, XactFacts
    <2>2. t.step = 1
      BY <1>1, <1>3 DEF TxSteps, Local, Remote
    <2>3. t.seq[0] \in INITIAL_STAGE
      BY <2>1, <2>2 DEF RemoteCoherent
    <2> QED
      BY <1>1, <1>3, <2>2, <2>3 DEF Answers, INITIAL_STAGE
  <1> QED
    BY <1>2, <1>3, KeyFacts DEF Orgs

LEMMA AnswerInv ==
  ASSUME IInv, NEW k \in Keys, NEW type \in Types, NEW sent \in BOOLEAN, Answer(k, type, sent)
  PROVE  IInv'
  <1> DEFINE t == xact[k]
             v == UpdateTx(t, type)
             u == IF sent THEN Commit(Org(k), v) ELSE Free
             msgs == IF sent THEN {Msg(k, type)} ELSE {}
  <1>1. t \in Xact /\ t.step \in Slots
    BY XactFacts, AnswerShape DEF Slots
  <1>2. /\ v \in Xact /\ v.step = t.step + 1 /\ v.seq = [t.seq EXCEPT ![t.step] = type]
        /\ v.bufs = t.bufs \cup {t.step} /\ v.timers = t.timers
    BY Zenon, <1>1, TxResult
  <1>3. AwaitsAnswer(Org(k), v) <=> Org(k) = Remote /\ type = "TReq"
    BY <1>1, <1>2, AnswerShape
       DEF AwaitsAnswer, Xact, Slots, INITIAL_STAGE, INTERMEDIATE_STAGE, Local, Remote
  <1> HIDE DEF v
  <1>4. /\ u \in Xact
        /\ ~sent => u = Free
        /\ sent => /\ u.step = t.step + 1 /\ u.seq = [t.seq EXCEPT ![t.step] = type]
                   /\ u.bufs = t.bufs \cup {t.step}
                   /\ u.timers = t.timers \cup
                        IF Org(k) = Remote /\ type = "TReq" THEN {"response"} ELSE {}
    BY <1>2, <1>3, CommitResult, FreeIsXact
  <1> HIDE DEF u
  <1>5. msgs \in SUBSET Messages /\ \A m \in msgs : sent /\ m = Msg(k, type)
    BY KeyFacts DEF Messages, Msg
  <1>6. /\ xact' = [xact EXCEPT ![k] = u] /\ out' = msgs /\ net' = net \cup msgs
        /\ call' = IF Org(k) = Local /\ sent
                     THEN [call EXCEPT ![Node(k)][Xid(k)] = "replied"] ELSE call
        /\ exec' = exec /\ confirmed' = confirmed
    BY Zenon DEF Answer, Send, u, v
  <1>7. TypeOK'
    BY <1>4, <1>5, <1>6, KeyFacts DEF IInv, TypeOK, Promise!States, Promise!Outcomes
  <1>8. xact'[k] = u
    BY <1>6 DEF IInv, TypeOK
  <1>9. Org(k) = Local => LocalCoherent(Node(k), Xid(k))'
    <2> SUFFICES ASSUME Org(k) = Local
                 PROVE  LocalCoherent(Node(k), Xid(k))'
      OBVIOUS
    <2>1. LocalCoherent(Node(k), Xid(k)) /\ k = <<Node(k), Local, Xid(k)>>
      BY Zenon, XactFacts
    <2>2. /\ t.step = 2 /\ type = "TRsp" /\ t.seq[1] = "TReq" /\ t.bufs = {0}
          /\ t.timers = {"holding"} /\ t.seq[0] \in INITIAL_STAGE
      BY <2>1, AnswerShape DEF LocalCoherent, Local, Remote
    <2>3. CASE sent
      <3>1. /\ u.step = 3 /\ u.seq[1] = "TReq" /\ u.seq[2] = "TRsp" /\ u.bufs = {0, 2}
            /\ u.timers = {"holding"} /\ u.seq[0] \in INITIAL_STAGE
        BY <1>1, <1>4, <2>2, <2>3 DEF Xact, Slots, Local, Remote
      <3>2. call'[Node(k)][Xid(k)] = "replied"
        BY ZenonT(60), <1>6, <2>3, KeyFacts DEF IInv, TypeOK
      <3> QED
        BY <3>1, <3>2, <2>1, <1>8 DEF LocalCoherent
    <2>4. CASE ~sent
      BY <2>4, <1>4, <1>8, <2>1, FreeFields DEF LocalCoherent
    <2> QED
      BY <2>3, <2>4
  <1>10. Org(k) = Remote => RemoteCoherent(Node(k), Xid(k))'
    <2> SUFFICES ASSUME Org(k) = Remote
                 PROVE  RemoteCoherent(Node(k), Xid(k))'
      OBVIOUS
    <2>1. RemoteCoherent(Node(k), Xid(k)) /\ k = <<Node(k), Remote, Xid(k)>>
      BY Zenon, XactFacts
    <2>2. /\ t.step = 1 /\ type \in {"Rsp", "TReq", "Fail"} /\ t.seq[0] \in INITIAL_STAGE
          /\ t.bufs = {} /\ t.timers = {"holding"} /\ exec[Node(k)][Xid(k)] > 0
      BY <2>1, AnswerShape DEF RemoteCoherent, Local, Remote
    <2>3. CASE sent
      <3>1. u.step = 2 /\ u.seq[0] \in INITIAL_STAGE /\ u.seq[1] = type /\ u.bufs = {1}
            /\ u.timers = {"holding"} \cup IF type = "TReq" THEN {"response"} ELSE {}
        <4>1. u.step = 2 /\ u.bufs = {1}
          BY <1>1, <1>4, <2>2, <2>3 DEF Xact, Slots
        <4>2. u.seq[0] \in INITIAL_STAGE /\ u.seq[1] = type
          BY <1>1, <1>4, <2>2, <2>3 DEF Xact, Slots
        <4>3. u.timers = {"holding"} \cup IF type = "TReq" THEN {"response"} ELSE {}
          BY <1>1, <1>4, <2>2, <2>3
        <4> QED
          BY Zenon, <4>1, <4>2, <4>3
      <3> QED
        BY <3>1, <2>1, <2>2, <1>6, <1>8 DEF RemoteCoherent
    <2>4. CASE ~sent
      BY <2>4, <1>4, <1>8, <2>1, FreeFields DEF RemoteCoherent
    <2> QED
      BY <2>3, <2>4
  <1>11. \A m \in msgs : WireCoherent(m)'
    <2> SUFFICES ASSUME sent
                 PROVE  WireCoherent(Msg(k, type))'
      BY ZenonT(60), <1>5
    <2>1. CASE Org(k) = Local
      <3>1. type = "TRsp" /\ call'[Node(k)][Xid(k)] = "replied"
        BY ZenonT(40), <2>1, AnswerShape, <1>6, KeyFacts DEF IInv, TypeOK, Local, Remote
      <3> QED
        BY <3>1, KeyFacts DEF WireCoherent, Msg, ListOf, INITIAL_STAGE, Local, Remote
    <2>2. CASE Org(k) = Remote
      <3>1. type \in {"Rsp", "TReq", "Fail"} /\ exec'[Node(k)][Xid(k)] > 0
        <4>1. xact[k].step = 1 /\ type \in {"Rsp", "TReq", "Fail"}
          BY ZenonT(40), <2>2, AnswerShape DEF Local, Remote
        <4>2. RemoteCoherent(Node(k), Xid(k)) /\ k = <<Node(k), Remote, Xid(k)>>
          BY <2>2, XactFacts
        <4> QED
          BY <4>1, <4>2, <1>6 DEF RemoteCoherent
      <3> QED
        BY <3>1, KeyFacts DEF WireCoherent, Msg, INITIAL_STAGE
    <2> QED
      BY <2>1, <2>2, KeyFacts DEF Orgs
  <1> HIDE DEF msgs
  <1>12. Monotone(k)
    <2>1. CASE Org(k) = Local
      <3>1. call[Node(k)][Xid(k)] = "answered" /\ k = <<Node(k), Local, Xid(k)>>
        BY ZenonT(40), <2>1, XactFacts, AnswerShape DEF LocalCoherent, Local, Remote
      <3> QED
        BY <3>1, <1>6, KeyFacts DEF Monotone, IInv, TypeOK
    <2>2. CASE Org(k) = Remote
      BY <2>2, <1>6 DEF Monotone, IInv, TypeOK, Local, Remote
    <2> QED
      BY <2>1, <2>2, KeyFacts DEF Orgs
  <1>13. Coherent'
    BY ZenonT(40), <1>4, <1>5, <1>6, <1>9, <1>10, <1>11, <1>12, OneChanged
  <1> QED
    BY <1>7, <1>13 DEF IInv

(* A deleted transaction is coherent with anything.                        *)
LEMMA Freed ==
  ASSUME NEW k \in Keys, xact'[k] = Free
  PROVE  /\ Org(k) = Local => LocalCoherent(Node(k), Xid(k))'
         /\ Org(k) = Remote => RemoteCoherent(Node(k), Xid(k))'
  BY KeyFacts, FreeFields DEF LocalCoherent, RemoteCoherent

(* A step that changes one transaction and, at most, confirms an exchange. *)
LEMMA OneChangedQuietly ==
  ASSUME IInv, NEW k \in Keys, NEW u \in Xact, NEW msgs \in SUBSET Messages,
         xact' = [xact EXCEPT ![k] = u],
         net' = net \cup msgs, out' = msgs, call' = call, exec' = exec,
         confirmed' \subseteq Nodes \X Xids,
         Org(k) = Local => LocalCoherent(Node(k), Xid(k))',
         Org(k) = Remote => RemoteCoherent(Node(k), Xid(k))',
         \A m \in msgs : WireCoherent(m)'
  PROVE  IInv'
  <1>1. TypeOK'
    BY DEF IInv, TypeOK
  <1>2. Monotone(k)
    BY DEF IInv, TypeOK, Monotone
  <1>3. Coherent'
    BY ZenonT(40), <1>2, OneChanged
  <1> QED
    BY <1>1, <1>3 DEF IInv

(* What a message kept in a transaction is, when it is sent (again): the   *)
(* request or the triggered reply of this side, or its answer to the peer. *)
LEMMA KeptMessage ==
  ASSUME IInv, NEW k \in Keys, NEW i \in xact[k].bufs, NEW type, type = xact[k].seq[i],
         xact[k].step > 0, call' = call, exec' = exec
  PROVE  Msg(k, type) \in Messages /\ WireCoherent(Msg(k, type))'
  <1> DEFINE t == xact[k]
  <1>1. t \in Xact /\ i \in Slots /\ t.step \in {1, 2, 3} /\ type \in Types \cup {None}
    BY XactFacts DEF Xact, Slots
  <1>2. CASE Org(k) = Local
    <2>1. LocalCoherent(Node(k), Xid(k)) /\ k = <<Node(k), Local, Xid(k)>>
      BY Zenon, <1>2, XactFacts
    <2>2. \/ type \in INITIAL_STAGE /\ call[Node(k)][Xid(k)] \in {"waiting", "answered", "replied"}
          \/ type = "TRsp" /\ call[Node(k)][Xid(k)] = "replied"
      BY ZenonT(60), <1>1, <2>1 DEF LocalCoherent
    <2> QED
      BY <2>2, KeyFacts DEF WireCoherent, Msg, Messages, Types, ListOf, Local, Remote,
                            INITIAL_STAGE, FINAL_STAGE, INTERMEDIATE_STAGE
  <1>3. CASE Org(k) = Remote
    <2>1. RemoteCoherent(Node(k), Xid(k)) /\ k = <<Node(k), Remote, Xid(k)>>
      BY ZenonT(60), <1>3, XactFacts
    <2>2. type \in {"Rsp", "TReq", "Fail"} /\ exec[Node(k)][Xid(k)] > 0
      BY <1>1, <2>1 DEF RemoteCoherent
    <2> QED
      BY <2>2, KeyFacts DEF WireCoherent, Msg, Messages, Types,
                            INITIAL_STAGE, FINAL_STAGE, INTERMEDIATE_STAGE
  <1> QED
    BY Zenon, <1>2, <1>3, KeyFacts DEF Orgs

(* Changing only the counters of a transaction keeps it coherent.          *)
LEMMA SameShape ==
  ASSUME IInv, NEW k \in Keys, NEW u \in Xact, xact'[k] = u, call' = call, exec' = exec,
         u.step = xact[k].step, u.seq = xact[k].seq, u.bufs = xact[k].bufs,
         u.timers = xact[k].timers
  PROVE  /\ Org(k) = Local => LocalCoherent(Node(k), Xid(k))'
         /\ Org(k) = Remote => RemoteCoherent(Node(k), Xid(k))'
  <1> DEFINE t == xact[k]
  <1>1. ASSUME Org(k) = Local
        PROVE  LocalCoherent(Node(k), Xid(k))'
    <2>1. LocalCoherent(Node(k), Xid(k)) /\ k = <<Node(k), Local, Xid(k)>>
      BY Zenon, <1>1, XactFacts
    <2> QED
      BY <2>1 DEF LocalCoherent
  <1>2. ASSUME Org(k) = Remote
        PROVE  RemoteCoherent(Node(k), Xid(k))'
    <2>1. RemoteCoherent(Node(k), Xid(k)) /\ k = <<Node(k), Remote, Xid(k)>>
      BY <1>2, XactFacts
    <2> QED
      BY ZenonT(60), <2>1 DEF RemoteCoherent
  <1> QED
    BY ZenonT(60), <1>1, <1>2

LEMMA DeferredInv ==
  ASSUME IInv, NEW k \in Keys, ResponseDeferred(k)
  PROVE  IInv'
  <1> DEFINE u == [xact[k] EXCEPT !.defer = @ + 1]
             msgs == {}
  <1>1. /\ u \in Xact /\ u.step = xact[k].step /\ u.seq = xact[k].seq
        /\ u.bufs = xact[k].bufs /\ u.timers = xact[k].timers
    BY XactFacts, ParameterAssumption DEF Xact, ResponseDeferred
  <1>2. /\ xact' = [xact EXCEPT ![k] = u] /\ xact'[k] = u /\ out' = msgs /\ net' = net \cup msgs
        /\ call' = call /\ exec' = exec /\ confirmed' = confirmed
    BY DEF ResponseDeferred, Send, IInv, TypeOK
  <1> HIDE DEF u
  <1>3. confirmed' \subseteq Nodes \X Xids
    BY <1>2 DEF IInv, TypeOK
  <1>4. /\ Org(k) = Local => LocalCoherent(Node(k), Xid(k))'
        /\ Org(k) = Remote => RemoteCoherent(Node(k), Xid(k))'
    BY <1>1, <1>2, SameShape
  <1>5. msgs \in SUBSET Messages /\ \A m \in msgs : WireCoherent(m)'
    OBVIOUS
  <1> HIDE DEF msgs
  <1> QED
    BY ZenonT(40), <1>1, <1>2, <1>3, <1>4, <1>5, OneChangedQuietly

LEMMA RetransmitInv ==
  ASSUME IInv, NEW k \in Keys, Retransmit(k)
  PROVE  IInv'
  <1> SUFFICES ASSUME NEW type, type = xact[k].seq[xact[k].step - 1]
               PROVE  IInv'
    OBVIOUS
  <1> DEFINE t == xact[k]
             u == [t EXCEPT !.rcount = @ - 1]
             msgs == {Msg(k, type)}
  <1>1. /\ u \in Xact /\ u.step = t.step /\ u.seq = t.seq
        /\ u.bufs = t.bufs /\ u.timers = t.timers
    BY XactFacts, ParameterAssumption DEF Xact, Retransmit
  <1>2. /\ xact' = [xact EXCEPT ![k] = u] /\ xact'[k] = u
        /\ out' = msgs /\ net' = net \cup msgs
        /\ call' = call /\ exec' = exec /\ confirmed' = confirmed
    BY DEF Retransmit, Send, IInv, TypeOK
  <1>3. "response" \in t.timers /\ t \in Xact
    BY XactFacts DEF Retransmit
  <1>4. t.step - 1 \in t.bufs /\ t.step > 0
    <2>1. CASE Org(k) = Local
      <3>1. LocalCoherent(Node(k), Xid(k)) /\ k = <<Node(k), Local, Xid(k)>>
        BY ZenonT(60), <2>1, XactFacts
      <3> QED
        BY <1>3, <3>1 DEF LocalCoherent, Xact
    <2>2. CASE Org(k) = Remote
      <3>1. RemoteCoherent(Node(k), Xid(k)) /\ k = <<Node(k), Remote, Xid(k)>>
        BY <2>2, XactFacts
      <3> QED
        BY <1>3, <3>1 DEF RemoteCoherent, Xact
    <2> QED
      BY ZenonT(60), <2>1, <2>2, KeyFacts DEF Orgs
  <1>5. msgs \in SUBSET Messages /\ \A m \in msgs : WireCoherent(m)'
    BY <1>2, <1>4, KeptMessage
  <1>6. confirmed' \subseteq Nodes \X Xids
    BY ZenonT(60), <1>2 DEF IInv, TypeOK
  <1> HIDE DEF u, msgs
  <1>7. /\ Org(k) = Local => LocalCoherent(Node(k), Xid(k))'
        /\ Org(k) = Remote => RemoteCoherent(Node(k), Xid(k))'
    BY <1>1, <1>2, SameShape
  <1> QED
    BY ZenonT(40), <1>1, <1>2, <1>5, <1>6, <1>7, OneChangedQuietly

(* A step that changes one transaction and sends nothing.                  *)
LEMMA OneChangedSilently ==
  ASSUME IInv, NEW k \in Keys, NEW u \in Xact,
         xact' = [xact EXCEPT ![k] = u], Send({}), exec' = exec, Monotone(k),
         call' \in [Nodes -> [Xids -> Promise!States]],
         confirmed' \subseteq Nodes \X Xids,
         Org(k) = Local => LocalCoherent(Node(k), Xid(k))',
         Org(k) = Remote => RemoteCoherent(Node(k), Xid(k))'
  PROVE  IInv'
  <1> DEFINE msgs == {}
  <1>1. net' = net \cup msgs /\ msgs \in SUBSET Messages /\ \A m \in msgs : WireCoherent(m)'
    BY DEF Send
  <1>2. TypeOK'
    BY DEF IInv, TypeOK, Send
  <1> HIDE DEF msgs
  <1>3. Coherent'
    BY ZenonT(40), <1>1, OneChanged
  <1> QED
    BY <1>2, <1>3 DEF IInv

LEMMA UnchangedIsMonotone ==
  ASSUME IInv, NEW k \in Keys, call' = call, exec' = exec
  PROVE  Monotone(k) /\ call' \in [Nodes -> [Xids -> Promise!States]]
  BY DEF Monotone, IInv, TypeOK

(* What T3-RESPONSE running says of a transaction.                         *)
LEMMA AwaitingFacts ==
  ASSUME IInv, NEW k \in Keys, "response" \in xact[k].timers
  PROVE  \/ /\ Org(k) = Local /\ xact[k].step = 1 /\ call[Node(k)][Xid(k)] = "waiting"
            /\ xact[k].seq[0] \in INITIAL_STAGE \ {"Relay"} /\ xact[k].bufs = {0}
         \/ /\ Org(k) = Remote /\ xact[k].step = 2 /\ xact[k].seq[1] = "TReq"
            /\ xact[k].bufs = {1}
  <1>0. xact[k] \in Xact
    BY ZenonT(60), XactFacts
  <1>1. CASE Org(k) = Local
    <2>1. LocalCoherent(Node(k), Xid(k)) /\ k = <<Node(k), Local, Xid(k)>>
      BY ZenonT(60), <1>1, XactFacts
    <2> QED
      BY <1>0, <1>1, <2>1 DEF LocalCoherent, Xact
  <1>2. CASE Org(k) = Remote
    <2>1. RemoteCoherent(Node(k), Xid(k)) /\ k = <<Node(k), Remote, Xid(k)>>
      BY <1>2, XactFacts
    <2> QED
      BY <1>0, <1>2, <2>1 DEF RemoteCoherent, Xact
  <1> QED
    BY <1>1, <1>2, KeyFacts DEF Orgs

LEMMA GiveUpInv ==
  ASSUME IInv, NEW k \in Keys, GiveUp(k)
  PROVE  IInv'
  <1>1. /\ xact' = [xact EXCEPT ![k] = Free] /\ Send({}) /\ exec' = exec
        /\ call' = IF Org(k) = Local THEN [call EXCEPT ![Node(k)][Xid(k)] = "timeout"] ELSE call
        /\ confirmed' = confirmed /\ "response" \in xact[k].timers
    BY DEF GiveUp
  <1>2. xact'[k] = Free /\ confirmed' \subseteq Nodes \X Xids
    BY <1>1 DEF IInv, TypeOK
  <1>3. Monotone(k) /\ call' \in [Nodes -> [Xids -> Promise!States]]
    <2>1. CASE Org(k) = Local
      <3>1. call[Node(k)][Xid(k)] = "waiting" /\ k = <<Node(k), Local, Xid(k)>>
        BY <1>1, <2>1, AwaitingFacts, KeyFacts DEF Local, Remote
      <3> QED
        BY <1>1, <2>1, <3>1, KeyFacts
           DEF Monotone, IInv, TypeOK, Promise!States, Promise!Outcomes
    <2>2. CASE Org(k) # Local
      BY <1>1, <2>2, UnchangedIsMonotone
    <2> QED
      BY ZenonT(60), <2>1, <2>2
  <1> QED
    BY ZenonT(40), <1>1, <1>2, <1>3, Freed, FreeIsXact, OneChangedSilently

LEMMA HoldingInv ==
  ASSUME IInv, NEW k \in Keys, HoldingTimeout(k)
  PROVE  IInv'
  <1> DEFINE t == xact[k]
             v == [t EXCEPT !.hcount = @ - 1]
             u == IF t.hcount - 1 > 0 THEN v ELSE Free
  <1>1. xact' = [xact EXCEPT ![k] = u] /\ Send({}) /\ UNCHANGED <<call, exec, confirmed>>
    BY DEF HoldingTimeout
  <1>2. xact'[k] = u /\ confirmed' \subseteq Nodes \X Xids
    BY ZenonT(60), <1>1 DEF IInv, TypeOK
  <1>3. t \in Xact
    BY XactFacts
  <1>4. u \in Xact /\ (/\ Org(k) = Local => LocalCoherent(Node(k), Xid(k))'
                       /\ Org(k) = Remote => RemoteCoherent(Node(k), Xid(k))')
    <2>1. CASE t.hcount - 1 > 0
      <3>1. /\ v \in Xact /\ v.step = t.step /\ v.seq = t.seq
            /\ v.bufs = t.bufs /\ v.timers = t.timers
        BY <2>1, <1>3, ParameterAssumption DEF Xact
      <3>2. u = v
        BY <2>1
      <3> HIDE DEF u, v
      <3> QED
        BY <3>1, <3>2, <1>1, <1>2, SameShape
    <2>2. CASE ~(t.hcount - 1 > 0)
      BY <2>2, <1>2, Freed, FreeIsXact
    <2> QED
      BY <2>1, <2>2
  <1>5. Monotone(k) /\ call' \in [Nodes -> [Xids -> Promise!States]]
    BY <1>1, UnchangedIsMonotone
  <1> HIDE DEF u
  <1> QED
    BY ZenonT(40), <1>1, <1>2, <1>4, <1>5, OneChangedSilently

LEMMA ReceiveRequestInv ==
  ASSUME IInv, NEW k \in Keys, NEW type \in Types, ReceiveRequest(k, type)
  PROVE  IInv'
  <1> DEFINE u == UpdateRx(Free, type)
             msgs == {}
  <1>1. /\ xact' = [xact EXCEPT ![k] = u] /\ out' = msgs /\ net' = net \cup msgs
        /\ exec' = [exec EXCEPT ![Node(k)][Xid(k)] = @ + 1] /\ call' = call
        /\ confirmed' = confirmed /\ Org(k) = Remote /\ type \in INITIAL_STAGE
        /\ exec[Node(k)][Xid(k)] < MaxExec
    BY DEF ReceiveRequest, Send
  <1>2. /\ u \in Xact /\ u.step = 1 /\ u.seq[0] = type /\ u.bufs = {} /\ u.timers = {"holding"}
    <2>1. /\ u \in Xact /\ u.step = Free.step + 1
          /\ u.seq = [Free.seq EXCEPT ![Free.step] = type] /\ u.bufs = Free.bufs
          /\ u.timers = (Free.timers \ {"response"}) \cup
                          (IF type \in FINAL_STAGE THEN {} ELSE {"holding"})
      BY ZenonT(40), FreeFields, RxResult
    <2> HIDE DEF u
    <2> QED
      BY <2>1, <1>1, FreeFields DEF Slots, INITIAL_STAGE, FINAL_STAGE
  <1> HIDE DEF u
  <1>3. /\ xact'[k] = u /\ exec' \in [Nodes -> [Xids -> 0 .. MaxExec]]
        /\ exec'[Node(k)][Xid(k)] > 0
    BY <1>1, KeyFacts, ParameterAssumption DEF IInv, TypeOK
  <1>4. TypeOK'
    BY Zenon, <1>1, <1>2, <1>3 DEF IInv, TypeOK
  <1>5. Monotone(k)
    BY <1>1, <1>3, KeyFacts, ParameterAssumption DEF Monotone, IInv, TypeOK
  <1>6. /\ Org(k) = Local => LocalCoherent(Node(k), Xid(k))'
        /\ Org(k) = Remote => RemoteCoherent(Node(k), Xid(k))'
    <2>1. k = <<Node(k), Remote, Xid(k)>>
      BY <1>1, XactFacts
    <2> QED
      BY <1>1, <1>2, <1>3, <2>1 DEF RemoteCoherent, Local, Remote
  <1>7. msgs \in SUBSET Messages /\ \A m \in msgs : WireCoherent(m)'
    OBVIOUS
  <1> HIDE DEF msgs
  <1>8. Coherent'
    BY ZenonT(40), <1>1, <1>2, <1>5, <1>6, <1>7, OneChanged
  <1> QED
    BY <1>4, <1>8 DEF IInv

LEMMA ReceiveAnswerInv ==
  ASSUME IInv, NEW k \in Keys, NEW type \in Types, ReceiveAnswer(k, type)
  PROVE  IInv'
  <1> DEFINE t == xact[k]
             v == UpdateRx(t, type)
             u == IF type \in FINAL_STAGE THEN Free ELSE v
  <1>1. /\ xact' = [xact EXCEPT ![k] = u] /\ Send({}) /\ exec' = exec
        /\ call' = [call EXCEPT ![Node(k)][Xid(k)] = "answered"] /\ confirmed' = confirmed
        /\ Org(k) = Local /\ t.step = 1 /\ type \notin INITIAL_STAGE
    BY DEF ReceiveAnswer, RxSteps
  <1>2. LocalCoherent(Node(k), Xid(k)) /\ k = <<Node(k), Local, Xid(k)>> /\ t \in Xact
    BY ZenonT(60), <1>1, XactFacts
  <1>3. /\ call[Node(k)][Xid(k)] = "waiting" /\ t.bufs = {0} /\ t.seq[0] \in INITIAL_STAGE
        /\ t.timers \subseteq {"response"}
    BY <1>1, <1>2 DEF LocalCoherent
  <1>4. /\ xact'[k] = u /\ confirmed' \subseteq Nodes \X Xids
        /\ call' \in [Nodes -> [Xids -> Promise!States]] /\ call'[Node(k)][Xid(k)] = "answered"
    BY ZenonT(60), <1>1, KeyFacts DEF IInv, TypeOK, Promise!States, Promise!Outcomes
  <1>5. Monotone(k)
    BY <1>1, <1>2, <1>3, KeyFacts DEF Monotone, IInv, TypeOK
  <1>6. u \in Xact /\ LocalCoherent(Node(k), Xid(k))'
    <2>1. CASE type \in FINAL_STAGE
      BY Zenon, <2>1, <1>1, <1>4, Freed, FreeIsXact
    <2>2. CASE type \notin FINAL_STAGE
      <3>1. /\ v \in Xact /\ v.step = t.step + 1 /\ v.seq = [t.seq EXCEPT ![t.step] = type]
            /\ v.bufs = t.bufs /\ v.timers = (t.timers \ {"response"}) \cup {"holding"}
        BY <1>1, <1>2, <2>2, RxResult DEF Slots
      <3>2. u = v /\ type = "TReq"
        BY Zenon, <1>1, <2>2 DEF Types, INTERMEDIATE_STAGE
      <3> HIDE DEF u, v
      <3>3. /\ v.step = 2 /\ v.seq[0] \in INITIAL_STAGE /\ v.seq[1] = "TReq" /\ v.bufs = {0}
            /\ v.timers = {"holding"}
        BY <1>1, <1>2, <1>3, <3>1, <3>2 DEF Xact, Slots
      <3>4. xact'[<<Node(k), Local, Xid(k)>>] = v /\ call'[Node(k)][Xid(k)] = "answered"
        BY ZenonT(60), <3>2, <1>2, <1>4
      <3>5. LocalCoherent(Node(k), Xid(k))'
        BY <3>3, <3>4 DEF LocalCoherent
      <3> QED
        BY Zenon, <3>1, <3>2, <3>5
    <2> QED
      BY <2>1, <2>2
  <1> HIDE DEF u
  <1> QED
    BY ZenonT(40), <1>1, <1>4, <1>5, <1>6, OneChangedSilently DEF Local, Remote

LEMMA TriggeredReplyInv ==
  ASSUME IInv, NEW k \in Keys, NEW type \in Types, ReceiveTriggeredReply(k, type)
  PROVE  IInv'
  <1>1. xact' = [xact EXCEPT ![k] = Free] /\ Send({}) /\ call' = call /\ exec' = exec
    BY DEF ReceiveTriggeredReply
  <1>2. xact'[k] = Free /\ confirmed' \subseteq Nodes \X Xids
    BY <1>1, KeyFacts DEF ReceiveTriggeredReply, IInv, TypeOK
  <1> QED
    BY ZenonT(40), <1>1, <1>2, Freed, FreeIsXact, UnchangedIsMonotone, OneChangedSilently

LEMMA UnchangedInv ==
  ASSUME IInv, UNCHANGED <<xact, call, exec, confirmed>>, net' = net, out' \subseteq net
  PROVE  IInv'
  <1>1. TypeOK'
    BY DEF IInv, TypeOK
  <1>2. ASSUME NEW n \in Nodes, NEW x \in Xids
        PROVE  LocalCoherent(n, x)' /\ RemoteCoherent(n, x)'
    <2>1. LocalCoherent(n, x) /\ RemoteCoherent(n, x)
      BY Zenon DEF IInv, Coherent
    <2>2. LocalCoherent(n, x)'
      BY Zenon, <2>1 DEF LocalCoherent
    <2>3. RemoteCoherent(n, x)'
      BY ZenonT(60), <2>1 DEF RemoteCoherent
    <2> QED
      BY <2>2, <2>3
  <1>3. \A m \in net' : WireCoherent(m)'
    BY DEF IInv, Coherent, WireCoherent
  <1> QED
    BY <1>1, <1>2, <1>3 DEF IInv, Coherent

(* The answer that a duplicate makes a side send again is one it has.      *)
LEMMA DuplicateFacts ==
  ASSUME IInv, NEW k \in Keys, xact[k].step > 0, DupSlot(Org(k)) + 1 \in xact[k].bufs
  PROVE  "holding" \in xact[k].timers
  <1>0. xact[k] \in Xact
    BY ZenonT(60), XactFacts
  <1>1. CASE Org(k) = Local
    <2>1. LocalCoherent(Node(k), Xid(k)) /\ k = <<Node(k), Local, Xid(k)>>
      BY ZenonT(60), <1>1, XactFacts
    <2>2. xact[k].step = 1 \/ xact[k].step = 2 \/ xact[k].step = 3
      BY <1>0 DEF Xact
    <2>3. /\ xact[k].step = 1 => xact[k].bufs = {0}
          /\ xact[k].step = 2 => xact[k].bufs = {0}
          /\ xact[k].step = 3 => xact[k].timers = {"holding"}
      BY Zenon, <2>1 DEF LocalCoherent
    <2>4. DupSlot(Org(k)) + 1 = 2
      BY <1>1 DEF DupSlot
    <2>5. 2 \in xact[k].bufs /\ 2 \notin {0}
      BY <2>4
    <2> QED BY Zenon, <2>2, <2>3, <2>5
  <1>2. CASE Org(k) = Remote
    <2>1. RemoteCoherent(Node(k), Xid(k)) /\ k = <<Node(k), Remote, Xid(k)>>
      BY <1>2, XactFacts
    <2> QED
      BY <1>0, <1>2, <2>1 DEF RemoteCoherent, DupSlot, Xact
  <1> QED
    BY <1>1, <1>2, KeyFacts DEF Orgs

LEMMA ReceiveDuplicateInv ==
  ASSUME IInv, NEW k \in Keys, NEW mtype \in Types, ReceiveDuplicate(k, mtype)
  PROVE  IInv'
  <1> DEFINE t == xact[k]
             answer == DupSlot(Org(k)) + 1
  <1>1. CASE answer \in t.bufs
    <2> SUFFICES ASSUME NEW type, type = t.seq[answer]
                 PROVE  IInv'
      OBVIOUS
    <2> DEFINE msgs == {Msg(k, type)}
               u == [t EXCEPT !.timers = @ \cup {"holding"}]
    <2>1. /\ xact' = [xact EXCEPT ![k] = u] /\ t.step > 0
          /\ out' = msgs /\ net' = net \cup msgs
          /\ call' = call /\ exec' = exec /\ confirmed' = confirmed
      BY <1>1 DEF ReceiveDuplicate, Send, Live
    <2>2. t \in Xact /\ "holding" \in t.timers
      BY <1>1, <2>1, XactFacts, DuplicateFacts
    <2>3. u = t
      BY ZenonT(40), <2>2 DEF Xact
    <2> HIDE DEF u
    <2>4. xact' = [xact EXCEPT ![k] = t] /\ xact'[k] = t /\ confirmed' \subseteq Nodes \X Xids
      BY Zenon, <2>1, <2>3 DEF IInv, TypeOK
    <2>5. /\ Org(k) = Local => LocalCoherent(Node(k), Xid(k))'
          /\ Org(k) = Remote => RemoteCoherent(Node(k), Xid(k))'
      BY Zenon, <2>1, <2>2, <2>4, SameShape
    <2>6. msgs \in SUBSET Messages /\ \A m \in msgs : WireCoherent(m)'
      BY <1>1, <2>1, KeptMessage
    <2> HIDE DEF msgs
    <2> QED
      BY ZenonT(40), <2>1, <2>2, <2>4, <2>5, <2>6, OneChangedQuietly
  <1>2. CASE answer \notin t.bufs
    BY <1>2, UnchangedInv DEF ReceiveDuplicate, Send
  <1> QED
    BY <1>1, <1>2

LEMMA DeleteAllInv ==
  ASSUME IInv, NEW d \in Nodes, DeleteAll(d)
  PROVE  IInv'
  <1>1. /\ xact' = [k \in Keys |-> IF Node(k) = d THEN Free ELSE xact[k]]
        /\ call' = [call EXCEPT ![d] = [x \in Xids |->
                        IF call[d][x] = "waiting" THEN "dropped" ELSE call[d][x]]]
        /\ Send({}) /\ exec' = exec /\ confirmed' = confirmed
    BY DEF DeleteAll
  <1>2. \A k \in Keys : xact'[k] = IF Node(k) = d THEN Free ELSE xact[k]
    BY Zenon, <1>1
  <1>3. TypeOK'
    BY <1>1, FreeIsXact DEF IInv, TypeOK, Send, Promise!States, Promise!Outcomes
  <1>4. ASSUME NEW n \in Nodes, NEW x \in Xids
        PROVE  LocalCoherent(n, x)' /\ RemoteCoherent(n, x)'
    <2> DEFINE kl == <<n, Local, x>>
               kr == <<n, Remote, x>>
    <2>1. kl \in Keys /\ kr \in Keys /\ Node(kl) = n /\ Node(kr) = n
      BY ZenonT(60) DEF Keys, Orgs, Node
    <2>2. CASE n = d
      <3>1. xact'[kl] = Free /\ xact'[kr] = Free
        BY <1>2, <2>1, <2>2
      <3> QED
        BY <3>1, FreeFields DEF LocalCoherent, RemoteCoherent
    <2>3. CASE n # d
      <3>1. xact'[kl] = xact[kl] /\ xact'[kr] = xact[kr] /\ call'[n][x] = call[n][x]
        BY <1>1, <1>2, <2>1, <2>3 DEF IInv, TypeOK
      <3>2. LocalCoherent(n, x) /\ RemoteCoherent(n, x)
        BY Zenon DEF IInv, Coherent
      <3>3. LocalCoherent(n, x)'
        BY Zenon, <3>1, <3>2, LocalKept
      <3>4. RemoteCoherent(n, x)'
        BY Zenon, <1>1, <3>1, <3>2, RemoteKept
      <3> QED
        BY Zenon, <3>3, <3>4
    <2> QED
      BY <2>2, <2>3
  <1>5. ASSUME NEW m \in net'
        PROVE  WireCoherent(m)'
    <2>1. m \in net /\ m \in Messages /\ m.to \in Nodes /\ Peer(m.to) \in Nodes /\ m.xid \in Xids
      BY <1>1 DEF IInv, TypeOK, Send, Messages, Peer, Nodes
    <2>2. WireCoherent(m)
      BY ZenonT(60), <2>1 DEF IInv, Coherent
    <2>3. \/ call'[Peer(m.to)][m.xid] = call[Peer(m.to)][m.xid]
          \/ call[Peer(m.to)][m.xid] = "waiting" /\ call'[Peer(m.to)][m.xid] = "dropped"
      BY <1>1, <2>1 DEF IInv, TypeOK
    <2> QED
      BY Zenon, <1>1, <2>2, <2>3 DEF WireCoherent
  <1> QED
    BY <1>3, <1>4, <1>5 DEF IInv, Coherent

LEMMA ReceiveInv ==
  ASSUME IInv, NEW m \in net, Receive(m)
  PROVE  IInv'
  <1> DEFINE k == <<m.to, ListOf(m.type), m.xid>>
  <1>1. m \in Messages /\ k \in Keys /\ m.type \in Types
    BY Zenon DEF IInv, TypeOK, Messages, Keys, Orgs, ListOf
  <1>2. \/ ReceiveRequest(k, m.type)
        \/ ReceiveDuplicate(k, m.type)
        \/ ReceiveAnswer(k, m.type)
        \/ ReceiveTriggeredReply(k, m.type)
        \/ ReceiveDropped(k, m.type)
    BY DEF Receive
  <1> HIDE DEF k
  <1>3. CASE ReceiveRequest(k, m.type)
    BY <1>1, <1>3, ReceiveRequestInv
  <1>4. CASE ReceiveDuplicate(k, m.type)
    BY Zenon, <1>1, <1>4, ReceiveDuplicateInv
  <1>5. CASE ReceiveAnswer(k, m.type)
    BY <1>1, <1>5, ReceiveAnswerInv
  <1>6. CASE ReceiveTriggeredReply(k, m.type)
    BY <1>1, <1>6, TriggeredReplyInv
  <1>7. CASE ReceiveDropped(k, m.type)
    BY <1>7, UnchangedInv DEF ReceiveDropped, Send
  <1> QED
    BY <1>2, <1>3, <1>4, <1>5, <1>6, <1>7

(* The invariant is inductive: every operation of either side keeps it.    *)
LEMMA NextInv == IInv /\ [Next]_vars => IInv'
  <1> SUFFICES ASSUME IInv, [Next]_vars
               PROVE  IInv'
    OBVIOUS
  <1>1. ASSUME NEW n \in Callers, NEW x \in Xids, NEW type \in Requests, NEW sent \in BOOLEAN,
               Request(n, x, type, sent)
        PROVE  IInv'
    <2>1. n \in Nodes
      BY ParameterAssumption DEF Nodes
    <2> QED
      BY <1>1, <2>1, RequestInv
  <1>2. ASSUME NEW k \in Keys, NEW type \in Types, NEW sent \in BOOLEAN, Answer(k, type, sent)
        PROVE  IInv'
    BY <1>2, AnswerInv
  <1>3. ASSUME NEW m \in net, Receive(m)
        PROVE  IInv'
    BY <1>3, ReceiveInv
  <1>4. ASSUME NEW k \in Keys, ResponseTimeout(k)
        PROVE  IInv'
    BY <1>4, DeferredInv, RetransmitInv, GiveUpInv DEF ResponseTimeout
  <1>5. ASSUME NEW k \in Keys, HoldingTimeout(k)
        PROVE  IInv'
    BY <1>5, HoldingInv
  <1>6. ASSUME NEW n \in Nodes, DeleteAll(n)
        PROVE  IInv'
    BY <1>6, DeleteAllInv
  <1>7. CASE UNCHANGED vars
    <2>1. UNCHANGED <<xact, call, exec, confirmed>> /\ net' = net /\ out' \subseteq net
      BY <1>7 DEF vars, IInv, TypeOK
    <2> QED
      BY <2>1, UnchangedInv
  <1> QED
    BY <1>1, <1>2, <1>3, <1>4, <1>5, <1>6, <1>7 DEF Next

(* The invariant holds in every reachable state.                           *)
THEOREM Invariance == Spec => []IInv
  BY InitInv, NextInv, PTL DEF Spec

(* The variables of both sides stay within their types; the steps never    *)
(* leave the slots of seq, and the retransmission counters never go below  *)
(* zero.                                                                   *)
THEOREM TypeCorrect == Spec => []TypeOK
  <1>1. IInv => TypeOK
    BY DEF IInv
  <1> QED
    BY <1>1, Invariance, PTL

(* Transactions, applications and wire stay coherent.                      *)
THEOREM Coherence == Spec => []Coherent
  <1>1. IInv => Coherent
    BY Zenon DEF IInv
  <1> QED
    BY <1>1, Invariance, PTL

(* Every live transaction but a Relay has a timer that will end it.        *)
THEOREM AlwaysAttended == Spec => []Attended
  <1>1. IInv => Attended
    <2> SUFFICES ASSUME IInv, NEW k \in Keys, Live(k), ~Unattended(k)
                 PROVE  xact[k].timers # {}
      BY Zenon DEF Attended
    <2>0. xact[k] \in Xact /\ xact[k].step \in {1, 2, 3}
      BY XactFacts DEF Live, Xact
    <2>1. CASE Org(k) = Local
      <3>1. LocalCoherent(Node(k), Xid(k)) /\ k = <<Node(k), Local, Xid(k)>>
        BY Zenon, <2>1, XactFacts
      <3>2. xact[k].seq[0] # "Relay"
        BY Zenon, <2>1 DEF Unattended
      <3> QED
        BY Zenon, <2>0, <3>1, <3>2 DEF LocalCoherent
    <2>2. CASE Org(k) = Remote
      <3>1. RemoteCoherent(Node(k), Xid(k)) /\ k = <<Node(k), Remote, Xid(k)>>
        BY ZenonT(60), <2>2, XactFacts
      <3> QED
        BY Zenon, <2>0, <3>1 DEF RemoteCoherent
    <2> QED
      BY Zenon, <2>1, <2>2, KeyFacts DEF Orgs
  <1> QED
    BY <1>1, Invariance, PTL

(* T3-RESPONSE runs only while the last message sent is kept and awaits an *)
(* answer: response_timeout never meets a missing packet.                  *)
THEOREM AlwaysReady == Spec => []RetransmissionReady
  <1>1. IInv => RetransmissionReady
    <2> SUFFICES ASSUME IInv, NEW k \in Keys, "response" \in xact[k].timers
                 PROVE  xact[k].step - 1 \in xact[k].bufs /\ AwaitsAnswer(Org(k), xact[k])
      BY Zenon DEF RetransmissionReady
    <2> QED
      BY AwaitingFacts DEF AwaitsAnswer, INTERMEDIATE_STAGE
  <1> QED
    BY <1>1, Invariance, PTL

-----------------------------------------------------------------------------
(* The layer keeps the promise of Rpc.                                     *)
Given == {p \in Nodes \X Xids : exec[p[1]][p[2]] > 0}

(* What the wire says when a datagram is received.                         *)
LEMMA ReceiveFacts ==
  ASSUME IInv, NEW m \in net, NEW k, k = <<m.to, ListOf(m.type), m.xid>>
  PROVE  /\ k \in Keys /\ m.type \in Types /\ Org(k) = ListOf(m.type)
         /\ Org(k) = Local => exec[Peer(Node(k))][Xid(k)] > 0
         /\ m.type \in INITIAL_STAGE => call[Peer(Node(k))][Xid(k)] \notin {"idle", "failed"}
         /\ m.type = "TRsp" => call[Peer(Node(k))][Xid(k)] = "replied"
  <1>1. m \in Messages /\ WireCoherent(m)
    BY DEF IInv, TypeOK, Coherent
  <1>2. Node(k) = m.to /\ Xid(k) = m.xid /\ Org(k) = ListOf(m.type)
    BY DEF Node, Xid, Org
  <1> QED
    BY Zenon, <1>1, <1>2 DEF Messages, Keys, Orgs, ListOf, WireCoherent

LEMMA GivenFacts ==
  ASSUME NEW n \in Nodes, NEW x \in Xids
  PROVE  <<n, x>> \in Given <=> exec[n][x] > 0
  BY Zenon DEF Given

LEMMA ReceiveRefines ==
  ASSUME IInv, NEW m \in net, Receive(m)
  PROVE  Promise!Next \/ UNCHANGED <<call, Given, confirmed>>
  <1> SUFFICES ASSUME NEW k, k = <<m.to, ListOf(m.type), m.xid>>
               PROVE  Promise!Next \/ UNCHANGED <<call, Given, confirmed>>
    BY ZenonT(40)
  <1> DEFINE n == Node(k)
             x == Xid(k)
  <1>0. /\ k \in Keys /\ n \in Nodes /\ x \in Xids /\ Peer(n) \in Nodes
        /\ Promise!Peer(n) = Peer(n) /\ Nodes = Promise!Nodes
    BY Zenon, ReceiveFacts, KeyFacts DEF Peer, Promise!Peer, Nodes, Promise!Nodes
  <1>1. CASE ReceiveRequest(k, m.type)
    <2>1. call[Peer(n)][x] \notin {"idle", "failed"}
      BY Zenon, <1>1, ReceiveFacts DEF ReceiveRequest
    <2>2. Given' = Given \cup {<<n, x>>}
      <3>1. exec' = [exec EXCEPT ![n][x] = @ + 1] /\ exec \in [Nodes -> [Xids -> 0 .. MaxExec]]
        BY Zenon, <1>1 DEF ReceiveRequest, IInv, TypeOK
      <3>2. \A a \in Nodes, b \in Xids :
              exec'[a][b] > 0 <=> exec[a][b] > 0 \/ (a = n /\ b = x)
        BY <1>0, <3>1, ParameterAssumption
      <3> HIDE DEF n, x
      <3> QED
        BY <1>0, <3>2 DEF Given
    <2>3. call' = call /\ confirmed' = confirmed
      BY Zenon, <1>1 DEF ReceiveRequest
    <2>4. Promise!Serve(n, x)
      BY Zenon, <1>0, <2>1, <2>2, <2>3 DEF Promise!Serve, Given
    <2> QED
      BY Zenon, <1>0, <2>4 DEF Promise!Next
  <1>2. CASE ReceiveDuplicate(k, m.type)
    BY Zenon, <1>2 DEF ReceiveDuplicate, Given
  <1>3. CASE ReceiveAnswer(k, m.type)
    <2>1. /\ Org(k) = Local /\ xact[k].step = 1 /\ exec' = exec /\ confirmed' = confirmed
          /\ call' = [call EXCEPT ![n][x] = "answered"]
      BY Zenon, <1>3 DEF ReceiveAnswer, RxSteps
    <2>2. LocalCoherent(n, x) /\ k = <<n, Local, x>>
      BY Zenon, <1>0, <2>1, XactFacts
    <2>3. call[n][x] = "waiting"
      BY Zenon, <2>1, <2>2 DEF LocalCoherent
    <2>4. <<Peer(n), x>> \in Given
      BY Zenon, <1>0, <2>1, ReceiveFacts, GivenFacts
    <2>5. Promise!Answered(n, x)
      BY Zenon, <1>0, <2>1, <2>3, <2>4 DEF Promise!Answered, Promise!Become, Given
    <2> QED
      BY Zenon, <1>0, <2>5 DEF Promise!Next
  <1>4. CASE ReceiveTriggeredReply(k, m.type)
    <2>1. /\ Org(k) = Remote /\ m.type \in FINAL_STAGE /\ xact[k].step = 2
          /\ call' = call /\ exec' = exec /\ confirmed' = confirmed \cup {<<n, x>>}
      BY ZenonT(60), <1>4 DEF ReceiveTriggeredReply, RxSteps, Local, Remote, INITIAL_STAGE, FINAL_STAGE
    <2>2. m.type = "TRsp"
      BY <2>1, ReceiveFacts DEF ListOf, FINAL_STAGE, INITIAL_STAGE, Local, Remote
    <2>3. RemoteCoherent(n, x) /\ k = <<n, Remote, x>>
      BY ZenonT(40), <1>0, <2>1, XactFacts
    <2>4. exec[n][x] > 0
      BY Zenon, <2>1, <2>3, RemoteExecuted
    <2>5. <<n, x>> \in Given /\ call[Peer(n)][x] = "replied"
      BY Zenon, <1>0, <2>2, <2>4, ReceiveFacts, GivenFacts
    <2>6. Promise!Confirm(n, x)
      BY Zenon, <1>0, <2>1, <2>5 DEF Promise!Confirm, Given
    <2> QED
      BY Zenon, <1>0, <2>6 DEF Promise!Next
  <1>5. CASE ReceiveDropped(k, m.type)
    BY Zenon, <1>5 DEF ReceiveDropped, Given
  <1> QED
    BY <1>1, <1>2, <1>3, <1>4, <1>5 DEF Receive

(* Every step of the layer is a step of the promise or changes nothing of  *)
(* what the applications know.                                             *)
LEMMA StepRefines == IInv /\ [Next]_vars => [Promise!Next]_(Promise!vars)
  <1> SUFFICES ASSUME IInv, [Next]_vars
               PROVE  Promise!Next \/ UNCHANGED <<call, Given, confirmed>>
    BY DEF Promise!vars, Given
  <1>0. Nodes = Promise!Nodes /\ Callers \subseteq Nodes
    BY ParameterAssumption DEF Nodes, Promise!Nodes
  <1>1. ASSUME NEW n \in Callers, NEW x \in Xids, NEW type \in Requests, NEW sent \in BOOLEAN,
               Request(n, x, type, sent)
        PROVE  Promise!Next
    <2>1. Promise!Call(n, x)
      BY ZenonT(40), <1>1 DEF Request, Promise!Call, Promise!Become
    <2> QED
      BY <2>1 DEF Promise!Next
  <1>2. ASSUME NEW k \in Keys, NEW type \in Types, NEW sent \in BOOLEAN, Answer(k, type, sent)
        PROVE  Promise!Next \/ UNCHANGED <<call, Given, confirmed>>
    <2>1. CASE Org(k) = Local /\ sent
      <3>1. LocalCoherent(Node(k), Xid(k)) /\ k = <<Node(k), Local, Xid(k)>> /\ xact[k].step = 2
        BY ZenonT(40), <1>2, <2>1, XactFacts, AnswerShape DEF Local, Remote
      <3>2. call[Node(k)][Xid(k)] = "answered"
        BY Zenon, <3>1 DEF LocalCoherent
      <3>3. Promise!Reply(Node(k), Xid(k))
        BY Zenon, <1>2, <2>1, <3>2 DEF Answer, Promise!Reply, Promise!Become
      <3> QED
        BY <1>0, <3>3, KeyFacts DEF Promise!Next
    <2>2. CASE ~(Org(k) = Local /\ sent)
      BY <1>2, <2>2 DEF Answer, Given
    <2> QED
      BY Zenon, <2>1, <2>2
  <1>3. ASSUME NEW m \in net, Receive(m)
        PROVE  Promise!Next \/ UNCHANGED <<call, Given, confirmed>>
    BY <1>3, ReceiveRefines
  <1>4. ASSUME NEW k \in Keys, ResponseTimeout(k)
        PROVE  Promise!Next \/ UNCHANGED <<call, Given, confirmed>>
    <2>1. CASE GiveUp(k) /\ Org(k) = Local
      <3>1. call[Node(k)][Xid(k)] = "waiting"
        BY Zenon, <2>1, AwaitingFacts DEF GiveUp, Local, Remote
      <3>2. Promise!TimedOut(Node(k), Xid(k))
        BY Zenon, <2>1, <3>1 DEF GiveUp, Promise!TimedOut, Promise!Become
      <3> QED
        BY Zenon, <1>0, <3>2, KeyFacts DEF Promise!Next
    <2>2. CASE ~(GiveUp(k) /\ Org(k) = Local)
      BY <1>4, <2>2 DEF ResponseTimeout, ResponseDeferred, Retransmit, GiveUp, Given
    <2> QED
      BY Zenon, <2>1, <2>2
  <1>5. ASSUME NEW k \in Keys, HoldingTimeout(k)
        PROVE  UNCHANGED <<call, Given, confirmed>>
    BY <1>5 DEF HoldingTimeout, Given
  <1>6. ASSUME NEW n \in Nodes, DeleteAll(n)
        PROVE  Promise!Next
    <2>1. Promise!Drop(n)
      BY Zenon, <1>6 DEF DeleteAll, Promise!Drop
    <2> QED
      BY Zenon, <1>0, <2>1 DEF Promise!Next
  <1>7. CASE UNCHANGED vars
    BY <1>7 DEF vars, Given
  <1> QED
    BY Zenon, <1>1, <1>2, <1>3, <1>4, <1>5, <1>6, <1>7 DEF Next

(* Whatever is lost, repeated, reordered or late, and whenever a side      *)
(* drops its peer, each request has one outcome, an answer is reported     *)
(* only for a request the peer's application was given, and a confirmation *)
(* only for an answer that was confirmed.                                  *)
THEOREM KeepsPromise == Spec => Implements
  <1>1. Init => Promise!Init
    BY DEF Init, Promise!Init, Nodes, Promise!Nodes
  <1> QED
    BY <1>1, Invariance, StepRefines, PTL DEF Spec, Implements, Promise!Spec
-----------------------------------------------------------------------------
(* A GTPv1 message that repeats one whose answer is kept is never taken    *)
(* for anything else: of the ways to receive it only the one that sends    *)
(* the answer again is left.                                               *)
LEMMA OnlyAsDuplicate ==
  ASSUME Version = 1, NEW k, NEW m, k = <<m.to, ListOf(m.type), m.xid>>, Receive(m),
         IsDuplicate(xact[k], Org(k), m.type)
  PROVE  ReceiveDuplicate(k, m.type)
  <1>1. ~NoLocalMatch(xact[k], m.type)
    BY DEF NoLocalMatch
  <1>2. ~ReceiveRequest(k, m.type) /\ ~ReceiveAnswer(k, m.type)
    BY Zenon DEF ReceiveRequest, ReceiveAnswer
  <1>3. ~ReceiveTriggeredReply(k, m.type)
    <2>1. Local # Remote /\ INITIAL_STAGE \cap FINAL_STAGE = {}
      BY Zenon DEF Local, Remote, INITIAL_STAGE, FINAL_STAGE
    <2>2. Org(k) = Remote => m.type \in INITIAL_STAGE
      BY <2>1 DEF IsDuplicate
    <2> QED
      BY Zenon, <2>1, <2>2 DEF ReceiveTriggeredReply
  <1>4. ~ReceiveDropped(k, m.type)
    BY Zenon, <1>1 DEF ReceiveDropped
  <1> QED
    BY Zenon, <1>2, <1>3, <1>4 DEF Receive

(* With GTPv1 a peer that repeats a request, or the SGSN Context Response, *)
(* is sent the kept answer again whenever the transaction still has it.    *)
(* With GTPv2 this fails for the triggered request, which is dropped       *)
(* before update_rx.                                                       *)
THEOREM RepeatsAreAnswered == ASSUME Version = 1 PROVE Spec => DuplicateIsAnswered
  <1> DEFINE Answered ==
        \A m \in net :
            LET k == <<m.to, ListOf(m.type), m.xid>>
                answer == DupSlot(Org(k)) + 1
            IN  Receive(m) /\ IsDuplicate(xact[k], Org(k), m.type) /\ answer \in xact[k].bufs
                    => Msg(k, xact[k].seq[answer]) \in out'
  <1>1. Answered
    <2> SUFFICES ASSUME NEW m \in net, NEW k, k = <<m.to, ListOf(m.type), m.xid>>, Receive(m),
                        IsDuplicate(xact[k], Org(k), m.type),
                        DupSlot(Org(k)) + 1 \in xact[k].bufs
                 PROVE  Msg(k, xact[k].seq[DupSlot(Org(k)) + 1]) \in out'
      BY Zenon
    <2>1. ReceiveDuplicate(k, m.type)
      BY Zenon, OnlyAsDuplicate
    <2> QED
      BY <2>1 DEF ReceiveDuplicate, Send
  <1> HIDE DEF Answered
  <1>2. [Next]_vars => [Answered]_vars
    BY <1>1
  <1>3. Spec => [][Answered]_vars
    BY <1>2, PTL DEF Spec
  <1> QED
    BY <1>3 DEF Answered, DuplicateIsAnswered

-----------------------------------------------------------------------------
(* Division: the quotient and the remainder are the only ones.             *)
LEMMA DivModUnique ==
    ASSUME NEW a \in Int, NEW b \in Nat \ {0}, NEW q \in Int, NEW r \in 0 .. b - 1,
           a = q * b + r
    PROVE  a \div b = q /\ a % b = r
  BY SMT

(* A window starts where the one before it ends.                           *)
LEMMA WindowsOrdered ==
    ASSUME NEW t \in Nat, NEW n \in Nat, t < n, NEW s \in Nat
    PROVE  t * s + s <= n * s
  BY SMT

(* The shift of xact_next_xid cuts both id spaces into windows of the      *)
(* expected size ("span below is exact").                                  *)
LEMMA SpanIsExact ==
    /\ SpanOf(OGS_GTP1_MIN_XACT_ID, OGS_GTP1_MAX_XACT_ID) = Span1
    /\ SpanOf(OGS_GTP_MIN_XACT_ID, OGS_GTP_CMD_XACT_ID) = Span2
<1>1. Span1 * NShards \in Int /\ Span2 * NShards \in Int
  BY WidthAssumption
<1>2. 0 \in 0 .. NShards - 1
  BY WidthAssumption
<1>3. (Span1 * NShards) \div NShards = Span1
  BY <1>1, <1>2, DivModUnique, WidthAssumption, SMT
<1>4. (Span2 * NShards) \div NShards = Span2
  BY <1>1, <1>2, DivModUnique, WidthAssumption, SMT
<1>5. OGS_GTP1_MAX_XACT_ID - OGS_GTP1_MIN_XACT_ID + 1 = Span1 * NShards
  BY WidthAssumption DEF OGS_GTP1_MAX_XACT_ID, OGS_GTP1_MIN_XACT_ID
<1>6. OGS_GTP_CMD_XACT_ID - OGS_GTP_MIN_XACT_ID + 1 = Span2 * NShards
  BY WidthAssumption DEF OGS_GTP_CMD_XACT_ID, OGS_GTP_MIN_XACT_ID
<1> QED
  BY <1>3, <1>4, <1>5, <1>6 DEF SpanOf

-----------------------------------------------------------------------------
(* A counter step of xact_next_xid stays within the window of the thread.  *)
LEMMA CounterInWindow ==
    ASSUME Sharded, NEW t \in Threads, NEW c \in Nat
    PROVE  /\ NextCounter(t, c, OGS_GTP1_MIN_XACT_ID, OGS_GTP1_MAX_XACT_ID) \in 0 .. Span1 - 1
           /\ NextCounter(t, c, OGS_GTP_MIN_XACT_ID, OGS_GTP_CMD_XACT_ID) \in 0 .. Span2 - 1
<1>1. t \in Nat
  BY WidthAssumption DEF Threads
<1>2. (c + 1) % Span1 \in 0 .. Span1 - 1 /\ (c + 1) % Span2 \in 0 .. Span2 - 1
  BY WidthAssumption
<1>3. t * Span1 \in Nat /\ t * Span2 \in Nat
  BY <1>1, WidthAssumption
<1>4. NextCounter(t, c, OGS_GTP1_MIN_XACT_ID, OGS_GTP1_MAX_XACT_ID) = (c + 1) % Span1
  BY <1>2, <1>3, SpanIsExact DEF NextCounter, OGS_GTP1_MIN_XACT_ID
<1>5. NextCounter(t, c, OGS_GTP_MIN_XACT_ID, OGS_GTP_CMD_XACT_ID) =
        IF t * Span2 + ((c + 1) % Span2) < 1 THEN 1 - t * Span2 ELSE (c + 1) % Span2
  BY Zenon, SpanIsExact DEF NextCounter, OGS_GTP_MIN_XACT_ID
<1> QED
  BY <1>2, <1>3, <1>4, <1>5, WidthAssumption

(* So the id it returns is in the window of the thread.                    *)
LEMMA XidInWindow ==
    ASSUME Sharded, NEW t \in Threads, NEW c \in Nat,
           NEW span \in Nat, NEW min, NEW max, SpanOf(min, max) = span,
           NextCounter(t, c, min, max) \in 0 .. span - 1
    PROVE  /\ t \in Nat /\ t * span \in Nat
           /\ XidOf(t, NextCounter(t, c, min, max), min, max) \in
                t * span .. t * span + span - 1
           /\ XidOf(t, NextCounter(t, c, min, max), min, max) \in Nat
<1>1. t \in Nat
  BY WidthAssumption DEF Threads
<1>2. t * span \in Nat
  BY <1>1
<1> QED
  BY <1>1, <1>2 DEF XidOf

(* The sums behind HasCmdBit, the wire format and the shift of the reply   *)
(* router, for an id of thread t with sequence part r.                     *)
LEMMA WindowArithmetic ==
    ASSUME NEW n \in Nat \ {0}, NEW s \in Nat \ {0}, NEW t \in 0 .. n - 1,
           NEW r \in 0 .. s - 1
    PROVE  /\ t * s + r \in 0 .. n * s - 1
           /\ (t * s + r) \div s = t
           /\ (n * s + (t * s + r)) \div s = n + t
<1>1. t \in Nat /\ t < n
  OBVIOUS
<1>2. t * s + s <= n * s
  BY Zenon, <1>1, WindowsOrdered
<1>3. t * s \in Nat /\ n * s \in Nat
  BY <1>1
<1>4. t * s + r \in 0 .. n * s - 1
  BY <1>2, <1>3
<1>5. (t * s + r) \div s = t
  BY <1>1, <1>3, DivModUnique
<1>6. n * s + (t * s + r) = (n + t) * s + r
  BY <1>1, SMT
<1>7. (n * s + (t * s + r)) \div s = n + t
  BY <1>1, <1>3, <1>6, DivModUnique
<1> QED
  BY <1>4, <1>5, <1>7

-----------------------------------------------------------------------------
(* The counters are naturals and the live set holds transactions, whether  *)
(* or not protocol shards are active (xact_next_xid).                      *)
THEOREM XidTypeCorrect == XidSpec => []XidTypeOK
<1>1. XidInit => XidTypeOK
  BY WidthAssumption DEF XidInit, XidTypeOK, OGS_GTP1_MAX_XACT_ID
<1>2. XidTypeOK /\ [XidNext]_xidVars => XidTypeOK'
  <2> SUFFICES ASSUME XidTypeOK, [XidNext]_xidVars PROVE XidTypeOK'
    OBVIOUS
  <2> USE DEF XidTypeOK
  <2>1. ASSUME NEW t \in Threads, Create1(t) PROVE XidTypeOK'
    <3> DEFINE c == NextCounter(t, xactId[t], OGS_GTP1_MIN_XACT_ID, OGS_GTP1_MAX_XACT_ID)
               x == XidOf(t, c, OGS_GTP1_MIN_XACT_ID, OGS_GTP1_MAX_XACT_ID)
    <3>1. c \in Nat /\ x \in Nat
      <4>1. CASE Sharded
        BY <4>1, CounterInWindow, XidInWindow, SpanIsExact, WidthAssumption
      <4>2. CASE ~Sharded
        BY <4>2, WidthAssumption DEF NextCounter, NextId, XidOf, OGS_GTP1_MIN_XACT_ID
      <4> QED BY Zenon, <4>1, <4>2
    <3>2. xactId' = [xactId EXCEPT ![t] = c]
      BY Zenon, <2>1 DEF Create1
    <3>3. live' = live \cup {[shard |-> t, version |-> 1, cmd |-> FALSE, xid |-> x]}
      BY <2>1 DEF Create1
    <3> HIDE DEF c, x
    <3>4. [shard |-> t, version |-> 1, cmd |-> FALSE, xid |-> x] \in LiveXid
      BY <3>1, Zenon DEF LiveXid
    <3> QED BY Zenon, <3>1, <3>2, <3>3, <3>4
  <2>2. ASSUME NEW t \in Threads, NEW cmd \in BOOLEAN, Create2(t, cmd) PROVE XidTypeOK'
    <3> DEFINE c == NextCounter(t, xactId[t], OGS_GTP_MIN_XACT_ID, OGS_GTP_CMD_XACT_ID)
               x == XidOf(t, c, OGS_GTP_MIN_XACT_ID, OGS_GTP_CMD_XACT_ID)
    <3>1. c \in Nat /\ x \in Nat
      <4>1. CASE Sharded
        BY <4>1, CounterInWindow, XidInWindow, SpanIsExact, WidthAssumption
      <4>2. CASE ~Sharded
        BY <4>2, WidthAssumption DEF NextCounter, NextId, XidOf, OGS_GTP_MIN_XACT_ID
      <4> QED BY Zenon, <4>1, <4>2
    <3>2. xactId' = [xactId EXCEPT ![t] = c]
      BY ZenonT(60), <2>2 DEF Create2
    <3>3. live' = live \cup {[shard |-> t, version |-> 2, cmd |-> cmd,
                               xid |-> IF cmd THEN WithCmdBit(x) ELSE x]}
      BY <2>2 DEF Create2
    <3> HIDE DEF c, x
    <3>4. (IF cmd THEN WithCmdBit(x) ELSE x) \in Nat
      BY <3>1, WidthAssumption DEF WithCmdBit, OGS_GTP_CMD_XACT_ID
    <3> QED BY <3>1, <3>2, <3>3, <3>4 DEF LiveXid
  <2>3. ASSUME NEW x \in live, Delete(x) PROVE XidTypeOK'
    BY <2>3 DEF Delete
  <2>4. CASE UNCHANGED xidVars
    BY <2>4 DEF xidVars
  <2> QED BY <2>1, <2>2, <2>3, <2>4 DEF XidNext
<1> QED BY <1>1, <1>2, PTL DEF XidSpec
-----------------------------------------------------------------------------
(* With protocol shards, an outstanding id never leaves the window of the  *)
(* thread that allocated it (xact_next_xid).                               *)
THEOREM WindowsKept == ASSUME Sharded PROVE XidSpec => []InWindow
<1>1. XidInit => InWindow
  BY DEF XidInit, InWindow
<1>2. XidTypeOK /\ InWindow /\ [XidNext]_xidVars => InWindow'
  <2> SUFFICES ASSUME XidTypeOK, InWindow, [XidNext]_xidVars PROVE InWindow'
    BY Zenon
  <2> USE DEF XidTypeOK
  <2>1. ASSUME NEW t \in Threads, Create1(t) PROVE InWindow'
    <3> DEFINE c == NextCounter(t, xactId[t], OGS_GTP1_MIN_XACT_ID, OGS_GTP1_MAX_XACT_ID)
               x == XidOf(t, c, OGS_GTP1_MIN_XACT_ID, OGS_GTP1_MAX_XACT_ID)
               new == [shard |-> t, version |-> 1, cmd |-> FALSE, xid |-> x]
    <3>1. x \in t * Span1 .. t * Span1 + Span1 - 1
      BY Zenon, CounterInWindow, XidInWindow, SpanIsExact, WidthAssumption
    <3>2. live' = live \cup {new}
      BY Zenon, <2>1 DEF Create1
    <3>3. new.shard = t /\ new.version = 1 /\ ~new.cmd /\ new.xid = x
      BY Zenon
    <3> HIDE DEF x, c, new
    <3>4. Window(new) /\ (new.version = 1 => ~new.cmd)
      BY Zenon, <3>1, <3>3 DEF Window
    <3> QED BY Zenon, <3>2, <3>4 DEF InWindow, Window
  <2>2. ASSUME NEW t \in Threads, NEW cmd \in BOOLEAN, Create2(t, cmd) PROVE InWindow'
    <3> DEFINE c == NextCounter(t, xactId[t], OGS_GTP_MIN_XACT_ID, OGS_GTP_CMD_XACT_ID)
               x == XidOf(t, c, OGS_GTP_MIN_XACT_ID, OGS_GTP_CMD_XACT_ID)
               new == [shard |-> t, version |-> 2, cmd |-> cmd,
                       xid |-> IF cmd THEN WithCmdBit(x) ELSE x]
    <3>1. t * Span2 \in Nat /\ x \in t * Span2 .. t * Span2 + Span2 - 1
      BY ZenonT(60), CounterInWindow, XidInWindow, SpanIsExact, WidthAssumption
    <3>2. live' = live \cup {new}
      BY Zenon, <2>2 DEF Create2
    <3>3. new.shard = t /\ new.version = 2 /\ new.cmd = cmd
          /\ new.xid = IF cmd THEN WithCmdBit(x) ELSE x
      OBVIOUS
    <3> HIDE DEF x, c, new
    <3>4. t \in Nat /\ t < NShards
      BY WidthAssumption DEF Threads
    <3>5. x \in 0 .. NShards * Span2 - 1
      BY <3>1, <3>4, WindowsOrdered, WidthAssumption
    <3>6. WithCmdBit(x) = x + NShards * Span2
      <4>1. NShards * Span2 \in Nat \ {0}
        BY WidthAssumption
      <4>2. x \div (NShards * Span2) = 0
        BY <3>5, <4>1, DivModUnique
      <4> QED BY <4>2 DEF WithCmdBit, HasCmdBit, OGS_GTP_CMD_XACT_ID
    <3>7. Window(new)
      <4>1. CASE cmd
        BY <3>1, <3>3, <3>6, <4>1, WidthAssumption DEF Window, OGS_GTP_CMD_XACT_ID
      <4>2. CASE ~cmd
        BY <3>1, <3>3, <4>2 DEF Window
      <4> QED BY Zenon, <4>1, <4>2
    <3> QED BY <3>2, <3>3, <3>7 DEF InWindow, Window
  <2>3. ASSUME NEW x \in live, Delete(x) PROVE InWindow'
    BY Zenon, <2>3 DEF Delete, InWindow, Window
  <2>4. CASE UNCHANGED xidVars
    BY Zenon, <2>4 DEF xidVars, InWindow, Window
  <2> QED BY <2>1, <2>2, <2>3, <2>4 DEF XidNext
<1> QED BY <1>1, <1>2, XidTypeCorrect, PTL DEF XidSpec

(* What the echo of an id in its window decodes to: the wire format keeps  *)
(* it and the shift of the reply router names its thread.                  *)
LEMMA EchoOfWindow ==
    ASSUME Sharded, NEW x \in LiveXid, Window(x), x.version = 1 => ~x.cmd
    PROVE  /\ OnTheWire(x.version, x.xid) = x.xid
           /\ (x.xid \div (IF x.version = 1 THEN Span1 ELSE Span2)) % NShards = x.shard
           /\ x.version = 2 => (HasCmdBit(x.xid) <=> x.cmd)
<1> DEFINE n == NShards
           t == x.shard
           s == IF x.version = 1 THEN Span1 ELSE Span2
           q == IF x.cmd THEN x.xid - OGS_GTP_CMD_XACT_ID ELSE x.xid
           r == q - t * s
<1>1. n \in Nat \ {0} /\ s \in Nat \ {0} /\ t \in 0 .. n - 1
  BY WidthAssumption DEF LiveXid, Threads
<1>2. x.xid \in Nat /\ x.version \in {1, 2} /\ x.cmd \in BOOLEAN
  BY Zenon DEF LiveXid
<1>3. t * s \in Nat /\ n * s \in Nat \ {0} /\ q \in Int
  BY <1>1, <1>2, WidthAssumption DEF OGS_GTP_CMD_XACT_ID
<1>4. r \in 0 .. s - 1 /\ q = t * s + r
  <2>1. q \in t * s .. t * s + s - 1
    BY Zenon DEF Window
  <2> QED BY <2>1, <1>1, <1>3
<1> HIDE DEF n, t, s, q, r
<1>5. /\ q \in 0 .. n * s - 1
      /\ q \div s = t
      /\ (n * s + q) \div s = n + t
  BY <1>1, <1>4, WindowArithmetic
<1>6. t % n = t /\ (n + t) % n = t
  <2>1. t = 0 * n + t /\ n + t = 1 * n + t
    BY <1>1
  <2> QED BY <1>1, <2>1, DivModUnique
<1>7. q % (n * s) = q /\ q \div (n * s) = 0
  BY <1>3, <1>5, DivModUnique
<1>8. /\ (n * s + q) \div (n * s) = 1
      /\ q % (2 * (n * s)) = q
      /\ (n * s + q) % (2 * (n * s)) = n * s + q
  <2> DEFINE w == n * s
  <2>1. w \in Nat \ {0} /\ 2 * w \in Nat \ {0} /\ q \in 0 .. w - 1
    BY <1>3, <1>5
  <2> HIDE DEF w
  <2>2. w + q = 1 * w + q /\ q = 0 * (2 * w) + q /\ w + q = 0 * (2 * w) + (w + q)
    BY <2>1
  <2>3. (w + q) \div w = 1
    BY <2>1, <2>2, DivModUnique
  <2>4. q % (2 * w) = q /\ (w + q) % (2 * w) = w + q
    BY <2>1, <2>2, DivModUnique
  <2> QED BY <2>3, <2>4 DEF w
<1>9. CASE x.version = 1
  <2>1. ~x.cmd /\ q = x.xid /\ s = Span1
    BY Zenon, <1>9 DEF q, s
  <2>2. OnTheWire(x.version, x.xid) = q % (n * s)
    BY <1>3, <1>9, <2>1, WidthAssumption DEF OnTheWire, OGS_GTP1_MAX_XACT_ID, n
  <2>3. (x.xid \div (IF x.version = 1 THEN Span1 ELSE Span2)) % NShards = (q \div s) % n
    BY Zenon, <1>9, <2>1 DEF n
  <2> QED BY <1>5, <1>6, <1>7, <1>9, <2>1, <2>2, <2>3 DEF t
<1>10. CASE x.version = 2
  <2>1. s = Span2 /\ OGS_GTP_CMD_XACT_ID = n * s
    BY <1>10 DEF s, n, OGS_GTP_CMD_XACT_ID
  <2>2. x.xid = IF x.cmd THEN n * s + q ELSE q
    BY <1>2, <1>3, <2>1 DEF q
  <2>3. OnTheWire(x.version, x.xid) = x.xid
    BY <1>8, <1>10, <2>1, <2>2 DEF OnTheWire
  <2>4. (x.xid \div (IF x.version = 1 THEN Span1 ELSE Span2)) % NShards = x.shard
    BY <1>5, <1>6, <1>10, <2>1, <2>2 DEF n, t
  <2>5. HasCmdBit(x.xid) <=> x.cmd
    BY <1>7, <1>8, <2>1, <2>2 DEF HasCmdBit
  <2> QED BY <2>3, <2>4, <2>5
<1> QED BY Zenon, <1>2, <1>9, <1>10

(* With protocol shards, two threads never have the same sequence number   *)
(* outstanding: "concurrent workers can never allocate colliding sequence  *)
(* numbers" (xact_next_xid).                                               *)
THEOREM ShardsNeverCollide == ASSUME Sharded PROVE XidSpec => []ShardsDisjoint
<1>1. XidTypeOK /\ InWindow => ShardsDisjoint
  <2> SUFFICES ASSUME XidTypeOK, InWindow, NEW x \in live, NEW y \in live,
                      x.version = y.version,
                      OnTheWire(x.version, x.xid) = OnTheWire(y.version, y.xid)
               PROVE  x.shard = y.shard
    BY DEF ShardsDisjoint
  <2>1. x \in LiveXid /\ y \in LiveXid
    BY DEF XidTypeOK
  <2>2. x.xid = y.xid
    BY <2>1, EchoOfWindow DEF InWindow
  <2> QED BY <2>1, <2>2, EchoOfWindow DEF InWindow
<1> QED BY <1>1, XidTypeCorrect, WindowsKept, PTL

(* With protocol shards, every answer to an outstanding request reads back *)
(* as its id and is looked for among the local transactions, and is routed *)
(* by its number to the thread that holds the transaction, except for a    *)
(* Failure Indication, which its number does not route                     *)
(* (ogs_gtp1_rx_reply_shard, ogs_gtp2_rx_reply_shard,                      *)
(* ogs_gtp_xact_receive).                                                  *)
THEOREM RepliesReachRequests == ASSUME Sharded PROVE XidSpec => []ReplyReachesRequest
<1>1. XidTypeOK /\ InWindow => ReplyReachesRequest
  <2> SUFFICES ASSUME XidTypeOK, InWindow, NEW x \in live, NEW type \in AnswersTo(x)
               PROVE  /\ OnTheWire(x.version, x.xid) = x.xid
                      /\ ReplyList(x.version, type, x.xid) = "local"
                      /\ ReplyShard(x.version, type, x.xid) =
                            IF Sharded /\ type # "failure" THEN x.shard ELSE NotSteered
    BY DEF ReplyReachesRequest
  <2>1. /\ x \in LiveXid /\ x.version \in {1, 2} /\ x.cmd \in BOOLEAN
        /\ Window(x) /\ (x.version = 1 => ~x.cmd)
    BY Zenon DEF XidTypeOK, LiveXid, InWindow
  <2>2. /\ OnTheWire(x.version, x.xid) = x.xid
        /\ (x.xid \div (IF x.version = 1 THEN Span1 ELSE Span2)) % NShards = x.shard
        /\ x.version = 2 => (HasCmdBit(x.xid) <=> x.cmd)
    BY Zenon, <2>1, EchoOfWindow
  <2>3. CASE x.cmd
    <3>1. x.version = 2 /\ HasCmdBit(x.xid) /\ type \in {"triggered", "failure"}
      BY Zenon, <2>1, <2>2, <2>3 DEF AnswersTo
    <3>2. CASE type = "triggered"
      BY <2>2, <3>1, <3>2 DEF ReplyList, ReplyShard, IsLocalReply, IsIntermediate, IsFinal
    <3>3. CASE type = "failure"
      BY <2>2, <3>1, <3>3 DEF ReplyList, ReplyShard, IsLocalReply, IsIntermediate, IsFinal
    <3> QED BY <3>1, <3>2, <3>3
  <2>4. CASE ~x.cmd
    <3>1. type = "response" /\ (x.version = 2 => ~HasCmdBit(x.xid))
      BY Zenon, <2>1, <2>2, <2>4 DEF AnswersTo
    <3> QED BY <2>2, <3>1 DEF ReplyList, ReplyShard, IsLocalReply, IsIntermediate, IsFinal
  <2> QED BY Zenon, <2>1, <2>3, <2>4
<1> QED BY <1>1, XidTypeCorrect, WindowsKept, PTL
=============================================================================
