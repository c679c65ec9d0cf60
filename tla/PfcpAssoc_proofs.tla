-------------------------- MODULE PfcpAssoc_proofs --------------------------
(***************************************************************************)
(* What holds of a PFCP peering for any number of sessions, restarts and   *)
(* losses, whoever asks for the association, and with no assumption on how *)
(* long a restart or the flight of a datagram takes: no restart of the     *)
(* user plane is forgotten (NotForgotten), and neither state machine comes *)
(* to rest by itself (KeepsTrying).                                        *)
(***************************************************************************)
EXTENDS PfcpAssoc_lemmas

(* The SMT solver is tried twice, then Zenon, where a leaf names neither.  *)
USE SMTT(60), SMTT(61), Zenon

(* The actions of the transaction layer. A step that neither adds a        *)
(* datagram nor starts or answers a transaction keeps all but the types.   *)
Idle ==
    /\ net' \subseteq net
    /\ \A i \in Ids : (local'[i] > 0 <=> local[i] > 0) /\ (local[i] <= 0 => local'[i] <= 0)
    /\ \A i \in Ids : local[i] > 0 => held'[i] = held[i]
    /\ /\ node'["cp"].remote = node["cp"].remote
       /\ node'["cp"].restore = node["cp"].restore
       /\ node'["cp"].sm = node["cp"].sm
    /\ UNCHANGED <<boot, csess, usess, adrift, wiped>>

LEMMA IdleKeeps ==
    ASSUME IInv, Idle, TypeOK' PROVE IInv'
<1>0. TypeOK /\ RtsBound /\ ReqRts /\ RemoteBound /\ Knows /\ Quiet /\ Obligation
  BY DEF IInv
<1>1. RtsBound'
  BY <1>0 DEF RtsBound, Idle, Sender
<1>2. \A i \in Ids : local'[i] > 0 <=> local[i] > 0
  BY DEF Idle
<1>3. ReqRts'
  <2>1. \A m \in net : m.id \in Ids
    BY <1>0, MessageFacts DEF TypeOK
  <2> QED
    BY <2>1, <1>0, <1>2 DEF ReqRts, Idle
<1>4. RemoteBound' /\ Knows'
  BY <1>0 DEF RemoteBound, Knows, Idle
<1>5. Quiet'
  BY <1>0 DEF Quiet, Idle, ForSession
<1>6. ASSUME NEW i \in Ids, Replied(i)' PROVE Replied(i)
  <2>1. local[i] > 0
    BY Zenon, <1>2, <1>6 DEF Replied
  <2> QED
    BY Zenon, <2>1, <1>6 DEF Replied, Idle
<1>8. \A x \in Sess : Waiting(x) => Waiting(x)'
  BY Zenon, <1>2, <1>6 DEF Waiting, Restore
<1>9. \A x \in Sess : Owes(x)' => Owes(x)
  BY <1>6 DEF Owes, Idle, ForSession
<1>10. Obligation'
  BY <1>0, <1>8, <1>9 DEF Obligation, Sound, Idle, Holds
<1> QED
  BY <1>1, <1>3, <1>4, <1>5, <1>10 DEF IInv

(* What a fault, and an event that comes to a queue, leave of the types.   *)
LEMMA FaultsType ==
    ASSUME TypeOK, NEW K, Faults(K) PROVE faults' \in [FaultKinds -> 0 .. MaxFault]
<1>1. ASSUME NEW k \in FaultKinds
      PROVE  faults[k] + (IF k \in K THEN 1 ELSE 0) \in 0 .. MaxFault
  BY ParameterAssumption DEF Faults, TypeOK
<1> QED
  BY Zenon, <1>1 DEF Faults

LEMMA PushType ==
    ASSUME TypeOK, NEW s \in Sides, NEW e \in Events, NEW n, NEW full \in BOOLEAN, Push(s, e, n, full)
    PROVE  /\ pend' \in [Sides -> SUBSET Events]
           /\ stalled' \subseteq {"association", "heartbeat"}
<1>1. TimerOf(e) \in {"association", "heartbeat"}
  BY DEF TimerOf
<1>2. pend \in [Sides -> SUBSET Events] /\ pend[s] \cup {e} \in SUBSET Events
  BY DEF TypeOK
<1>3. pend' = pend \/ pend' = [pend EXCEPT ![s] = pend[s] \cup {e}]
  BY Zenon DEF Push
<1>4. pend' \in [Sides -> SUBSET Events]
  BY Zenon, <1>2, <1>3
<1> QED
  BY Zenon, <1>1, <1>4 DEF TypeOK, Push

LEMMA StepIdle ==
    ASSUME IInv,
           \/ \E m \in net : m.dir = "req" /\ DropRequest(m)
           \/ \E m \in net : m.dir = "rsp" /\ StrayResponse(m)
           \/ \E m \in net : Lose(m) \/ LoseAll(m)
           \/ \E s \in Sides : \E e \in Events : Expire(s, e)
    PROVE  IInv'
<1>0. TypeOK /\ local \in Tries /\ held \in Holdings
  BY TypeParts DEF IInv
<1>1. ASSUME NEW m \in net, DropRequest(m) PROVE IInv'
  BY <1>0, <1>1, IdleKeeps DEF DropRequest, Idle, TypeOK
<1>2. ASSUME NEW m \in net, StrayResponse(m) PROVE IInv'
  <2>1. m.id \in Ids
    BY <1>0, MessageFacts DEF TypeOK
  <2>2. local' \in Tries
    BY Zenon, <2>1, <1>0, <1>2, TypeParts DEF StrayResponse
  <2>3. \A i \in Ids : (local'[i] > 0 <=> local[i] > 0) /\ (local[i] <= 0 => local'[i] <= 0)
    BY <2>1, <1>0, <1>2, TypeParts DEF StrayResponse, Tries
  <2> QED
    BY <2>2, <2>3, <1>0, <1>2, IdleKeeps DEF StrayResponse, Idle, TypeOK, Tries
<1>3. ASSUME NEW m \in net, Lose(m) PROVE IInv'
  <2>1. faults' \in [FaultKinds -> 0 .. MaxFault]
    BY Zenon, <1>0, <1>3, FaultsType DEF Lose
  <2> QED
    BY <2>1, <1>0, <1>3, IdleKeeps DEF Lose, Idle, TypeOK
<1>4. ASSUME NEW m \in net, LoseAll(m) PROVE IInv'
  <2>1. faults' \in [FaultKinds -> 0 .. MaxFault]
    BY Zenon, <1>0, <1>4, FaultsType DEF LoseAll
  <2>2. m.id \in Ids /\ 1 \in Answered .. N1
    BY <1>0, MessageFacts, ParameterAssumption DEF TypeOK, Answered
  <2>3. local' = [local EXCEPT ![m.id] = 1] /\ local[m.id] > 1
    BY Zenon, <1>4 DEF LoseAll
  <2>4. local' \in Tries
    BY <2>2, <2>3, <1>0 DEF Tries
  <2>5. \A i \in Ids : (local'[i] > 0 <=> local[i] > 0) /\ (local[i] <= 0 => local'[i] <= 0)
    BY <2>2, <2>3, <1>0, TypeParts DEF Tries
  <2> QED
    BY <2>1, <2>4, <2>5, <1>0, <1>4, IdleKeeps DEF LoseAll, Idle, TypeOK, Tries
<1>5. ASSUME NEW s \in Sides, NEW e \in Events, Expire(s, e) PROVE IInv'
  <2>1. /\ node' = [node EXCEPT ![s] = [node[s] EXCEPT !.timers = @ \ {e}]]
        /\ node \in [Sides -> NodeStates] /\ node[s] \in NodeStates
    BY <1>0, <1>5, TypeParts DEF Expire, TypeOK
  <2>2. [node[s] EXCEPT !.timers = @ \ {e}] \in NodeStates
    BY <2>1 DEF NodeStates
  <2>3. node' \in [Sides -> NodeStates]
    BY <2>1, <2>2
  <2>4. PICK full \in BOOLEAN : Push(s, e, node'[s], full) /\ Faults(Full(full))
    BY Zenon, <1>5 DEF Expire
  <2>5. /\ pend' \in [Sides -> SUBSET Events]
        /\ stalled' \subseteq {"association", "heartbeat"}
    BY Zenon, <2>4, <1>0, PushType
  <2>6. faults' \in [FaultKinds -> 0 .. MaxFault]
    BY Zenon, <2>4, <1>0, FaultsType
  <2>7. /\ node'["cp"].remote = node["cp"].remote
        /\ node'["cp"].restore = node["cp"].restore
        /\ node'["cp"].sm = node["cp"].sm
    BY <2>1, SideFacts DEF NodeStates
  <2>8. UNCHANGED <<boot, local, held, net, csess, usess, adrift, wiped>>
    BY Zenon, <1>5 DEF Expire
  <2> QED
    BY <2>3, <2>5, <2>6, <2>7, <2>8, <1>0, IdleKeeps DEF Idle, TypeOK
<1> QED
  BY <1>1, <1>2, <1>3, <1>4, <1>5

LEMMA StepDuplicateRequest ==
    ASSUME IInv, NEW m \in net, m.dir = "req", DuplicateRequest(m) PROVE IInv'
<1>0. TypeOK /\ RtsBound /\ ReqRts /\ RemoteBound /\ Knows /\ Quiet /\ Obligation
  BY DEF IInv
<1>1. m.id \in Ids /\ Rsp(m.id) \in Messages /\ Peer(m.id.own) \in Sides
  BY <1>0, MessageFacts, DatagramType, IdFacts, SideFacts DEF TypeOK
<1>2. /\ \A d \in net' : d \in net \/ (held[m.id] = "answered" /\ d = Rsp(m.id))
      /\ UNCHANGED <<boot, node, pend, local, held, csess, usess, faults, adrift, wiped, stalled>>
  BY DEF DuplicateRequest
<1>3. TypeOK'
  BY <1>0, <1>1, <1>2 DEF TypeOK
<1>4. boot[Peer(m.id.own)] \in Nat
  BY <1>0, <1>1 DEF TypeOK, Boots
<1>5. /\ Rsp(m.id).id = m.id /\ Rsp(m.id).dir = "rsp"
      /\ Rsp(m.id).rts = boot[Peer(m.id.own)]
  BY <1>0, <1>1, DatagramType
<1>6. RtsBound'
  BY <1>0, <1>2, <1>4, <1>5 DEF RtsBound, Sender
<1>7. ReqRts'
  BY <1>0, <1>2, <1>5 DEF ReqRts
<1>8. RemoteBound' /\ Knows' /\ Quiet'
  BY <1>0, <1>2 DEF RemoteBound, Knows, Quiet, ForSession
<1>9. \A i \in Ids : Replied(i)' => Replied(i)
  BY <1>2, <1>5 DEF Replied
<1>10. \A x \in Sess : (Waiting(x) => Waiting(x)') /\ (Owes(x)' => Owes(x))
  BY <1>2, <1>9 DEF Waiting, Restore, Owes, ForSession
<1>11. Obligation'
  BY Zenon, <1>0, <1>2, <1>10 DEF Obligation, Sound, Holds
<1> QED
  BY <1>3, <1>6, <1>7, <1>8, <1>11 DEF IInv

LEMMA StepEstablishmentRequest ==
    ASSUME IInv, NEW m \in net, m.dir = "req", EstablishmentRequest(m) PROVE IInv'
<1> DEFINE x == m.id.kind.sess
           up == node["up"].sm = "associated"
<1>0. TypeOK /\ RtsBound /\ ReqRts /\ RemoteBound /\ Knows /\ Quiet /\ Obligation
  BY DEF IInv
<1>1. /\ m.id \in Ids /\ Rsp(m.id) \in Messages /\ m.rts \in Boots
      /\ m.id.own = "cp" /\ x \in Sess
  BY <1>0, MessageFacts, DatagramType, IdFacts DEF TypeOK, EstablishmentRequest, Boots
<1>2. /\ held' = [held EXCEPT ![m.id] = IF up THEN "answered" ELSE "open"]
      /\ net' = (net \ {m}) \cup IF up THEN {Rsp(m.id)} ELSE {}
      /\ usess' = usess \cup IF up THEN {<<m.rts, x>>} ELSE {}
      /\ wiped' = IF up /\ m.rts = boot["cp"] THEN wiped \ {x} ELSE wiped
      /\ UNCHANGED <<boot, node, pend, local, csess, faults, adrift, stalled>>
      /\ held[m.id] = "no"
  BY DEF EstablishmentRequest
<1> HIDE DEF up, x
<1>3. TypeOK'
  <2>1. held' \in Holdings
    BY <1>0, <1>1, <1>2, TypeParts DEF Holdings
  <2>2. usess' \subseteq Boots \X Sess /\ wiped' \subseteq Sess /\ net' \subseteq Messages
    BY <1>0, <1>1, <1>2 DEF TypeOK
  <2> QED
    BY <2>1, <2>2, <1>0, <1>2 DEF TypeOK, Holdings
<1>4. /\ Rsp(m.id).id = m.id /\ Rsp(m.id).dir = "rsp"
      /\ Rsp(m.id).rts = boot["up"] /\ boot["up"] \in Nat /\ Peer(m.id.own) = "up"
  <2>1. Peer(m.id.own) = "up"
    BY Zenon, <1>1 DEF Peer
  <2>2. boot["up"] \in Nat
    BY <1>0, SideFacts DEF TypeOK, Boots
  <2> QED
    BY Zenon, <2>1, <2>2, <1>0, <1>1, DatagramType
<1>5. RtsBound'
  BY <1>0, <1>2, <1>4 DEF RtsBound, Sender
<1>6. ReqRts'
  BY ZenonT(60), <1>0, <1>2, <1>4 DEF ReqRts
<1>7. RemoteBound' /\ Knows' /\ Quiet'
  BY <1>0, <1>2 DEF RemoteBound, Knows, Quiet, ForSession
<1>8. ASSUME NEW i \in Ids, Replied(i)'
      PROVE  Replied(i) \/ (i = m.id /\ up)
  <2>1. i # m.id => held'[i] = held[i]
    BY <1>0, <1>1, <1>2, TypeParts DEF Holdings
  <2>2. i = m.id => held'[i] = IF up THEN "answered" ELSE "open"
    BY <1>0, <1>1, <1>2, TypeParts DEF Holdings
  <2> QED
    BY <2>1, <2>2, <1>2, <1>4, <1>8 DEF Replied
<1>9. local[m.id] > 0 /\ up => Holds(x)'
  BY <1>0, <1>1, <1>2 DEF ReqRts, Holds
<1>10. ASSUME NEW y \in Sess, Owes(y)' PROVE Owes(y) \/ Holds(y)'
  <2>1. CASE csess[y] = "up"
    BY <2>1 DEF Owes
  <2>2. CASE csess[y] # "up"
    <3>1. csess[y] = "opening"
      BY <2>2, <1>2, <1>10 DEF Owes
    <3>2. PICK i \in Ids : ForSession(i) /\ i.kind.sess = y /\ Replied(i)'
      BY <2>2, <1>2, <1>10 DEF Owes, ForSession
    <3>3. CASE Replied(i)
      BY <3>1, <3>2, <3>3 DEF Owes
    <3>4. CASE i = m.id /\ up
      <4>1. local[m.id] > 0 /\ y = x
        BY <3>2, <3>4, <1>2 DEF Replied, x
      <4> QED
        BY <4>1, <3>4, <1>9
    <3> QED
      BY <3>2, <3>3, <3>4, <1>8
  <2> QED
    BY <2>1, <2>2
<1>11. ASSUME NEW y \in Sess, Waiting(y) PROVE Waiting(y)' \/ Holds(y)'
  <2>1. PICK i \in Ids : i.kind = Restore(y) /\ local[i] > 0 /\ ~Replied(i)
    BY <1>11 DEF Waiting
  <2>2. CASE i = m.id /\ up
    <3>1. y = x
      BY <2>1, <2>2, RestoreKind DEF x
    <3> QED
      BY <3>1, <2>1, <2>2, <1>9
  <2>3. CASE ~(i = m.id /\ up)
    BY <2>1, <2>3, <1>2, <1>8 DEF Waiting, Restore
  <2> QED
    BY <2>2, <2>3
<1>12. \A y \in Sess : (Holds(y) => Holds(y)') /\ (y \in wiped => y \in wiped' \/ Holds(y)')
  BY Zenon, <1>2 DEF Holds
<1>13. Obligation'
  BY <1>0, <1>2, <1>10, <1>11, <1>12 DEF Obligation, Sound
<1> QED
  BY <1>3, <1>5, <1>6, <1>7, <1>13 DEF IInv

LEMMA StepEstablishmentResponse ==
    ASSUME IInv, NEW m \in net, m.dir = "rsp", EstablishmentResponse(m) PROVE IInv'
<1> DEFINE x == m.id.kind.sess
           done == m.id.kind.type = "est" /\ node["cp"].sm = "associated"
<1>0. TypeOK /\ RtsBound /\ ReqRts /\ RemoteBound /\ Knows /\ Quiet /\ Obligation
  BY Zenon DEF IInv
<1>1. m.id \in Ids /\ ForSession(m.id) /\ x \in Sess
  BY <1>0, MessageFacts, IdFacts DEF TypeOK, EstablishmentResponse, ForSession
<1>2. /\ local' = [local EXCEPT ![m.id] = IF done THEN 0 ELSE Answered]
      /\ csess' = IF done /\ csess[x] = "opening" THEN [csess EXCEPT ![x] = "up"] ELSE csess
      /\ net' = net \ {m}
      /\ UNCHANGED <<boot, node, pend, held, usess, faults, adrift, wiped, stalled>>
      /\ local[m.id] > 0
  BY DEF EstablishmentResponse
<1>3. csess[x] = "opening" => Owes(x)
  BY <1>1, <1>2 DEF Owes, Replied
<1>4. Replied(m.id)
  BY <1>2 DEF Replied
<1> HIDE DEF done, x
<1>5. TypeOK'
  <2>1. local' \in Tries
    <3>1. 0 \in Answered .. N1 /\ Answered \in Answered .. N1
      BY ParameterAssumption DEF Answered
    <3> QED
      BY <3>1, <1>0, <1>1, <1>2, TypeParts DEF Tries
  <2>2. csess' \in [Sess -> {"none", "opening", "up", "gone"}]
    BY <1>0, <1>1, <1>2 DEF TypeOK
  <2> QED
    BY <2>1, <2>2, <1>0, <1>2 DEF TypeOK, Tries
<1>6. /\ \A i \in Ids : i # m.id => local'[i] = local[i]
      /\ ~(local'[m.id] > 0) /\ local'[m.id] <= 0
  BY <1>0, <1>1, <1>2, TypeParts DEF Tries, Answered
<1>7. /\ \A y \in Sess : y # x => csess'[y] = csess[y]
      /\ csess'[x] = csess[x] \/ (csess'[x] = "up" /\ csess[x] = "opening")
  BY <1>0, <1>1, <1>2 DEF TypeOK
<1>8. RtsBound'
  BY Zenon, <1>0, <1>2 DEF RtsBound, Sender
<1>9. ReqRts'
  <2>1. \A d \in net : d.id \in Ids
    BY <1>0, MessageFacts DEF TypeOK
  <2> QED
    BY <2>1, <1>0, <1>2, <1>6 DEF ReqRts
<1>10. RemoteBound' /\ Knows'
  BY <1>0, <1>1, <1>2, <1>7 DEF RemoteBound, Knows
<1>11. Quiet'
  <2>1. SUFFICES ASSUME NEW i \in Ids, ForSession(i), csess'[i.kind.sess] = "none"
                 PROVE  local'[i] <= 0
    BY DEF Quiet, ForSession
  <2>2. i.kind.sess \in Sess
    BY <2>1, IdFacts DEF ForSession
  <2> QED
    BY <2>1, <2>2, <1>0, <1>6, <1>7 DEF Quiet
<1>12. \A i \in Ids : Replied(i)' => Replied(i)
  BY <1>2, <1>6 DEF Replied
<1>13. \A y \in Sess : Owes(y)' => Owes(y)
  BY <1>1, <1>3, <1>7, <1>12 DEF Owes, ForSession
<1>14. \A y \in Sess : Waiting(y) => Waiting(y)'
  BY Zenon, <1>4, <1>6, <1>12 DEF Waiting, Restore
<1>15. Obligation'
  BY <1>0, <1>2, <1>13, <1>14 DEF Obligation, Sound, Holds
<1> QED
  BY <1>5, <1>8, <1>9, <1>10, <1>11, <1>15 DEF IInv

LEMMA StepRetransmit ==
    ASSUME IInv, NEW i \in Ids, Retransmit(i) PROVE IInv'
<1>0. TypeOK /\ RtsBound /\ ReqRts /\ RemoteBound /\ Knows /\ Quiet /\ Obligation
  BY DEF IInv
<1>1. /\ local' = [local EXCEPT ![i] = local[i] - 1] /\ local[i] > 1
      /\ net' = net \cup {Req(i)}
      /\ Faults(Late(i))
      /\ UNCHANGED <<boot, node, pend, held, csess, usess, adrift, wiped, stalled>>
  BY DEF Retransmit
<1>2. /\ local' \in Tries
      /\ \A j \in Ids : (local'[j] > 0 <=> local[j] > 0) /\ (local[j] <= 0 => local'[j] <= 0)
  <2>1. local[i] \in Answered .. N1 /\ local[i] \in Int
    BY <1>0, TypeParts DEF Tries
  <2>2. local[i] - 1 \in Answered .. N1 /\ local[i] - 1 > 0
    BY <2>1, <1>1, ParameterAssumption DEF Answered
  <2> QED
    BY <2>1, <2>2, <1>0, <1>1, TypeParts DEF Tries
<1>3. /\ Req(i) \in Messages /\ Req(i).id = i /\ Req(i).dir = "req"
      /\ Req(i).rts = boot[i.own] /\ boot[i.own] \in Nat
  BY ZenonT(60), <1>0, DatagramType, IdFacts DEF TypeOK, Boots
<1>4. TypeOK'
  <2>1. faults' \in [FaultKinds -> 0 .. MaxFault]
    BY Zenon, <1>0, <1>1, FaultsType
  <2> QED
    BY <2>1, <1>0, <1>1, <1>2, <1>3 DEF TypeOK, Tries
<1>5. RtsBound'
  <2>1. Req(i).rts <= boot[Sender(Req(i))]
    BY <1>3 DEF Sender
  <2>2. net' \subseteq net \cup {Req(i)} /\ boot' = boot
    BY Zenon, <1>1
  <2> QED
    BY Zenon, <1>0, <2>1, <2>2 DEF RtsBound, Sender
<1>6. ReqRts'
  <2>1. \A m \in net : m.id \in Ids
    BY <1>0, MessageFacts DEF TypeOK
  <2>2. \A m \in net' : m \in net \/ (m.id = i /\ m.rts = boot[i.own])
    BY Zenon, <1>1, <1>3
  <2> QED
    BY Zenon, <2>1, <2>2, <1>0, <1>1, <1>2 DEF ReqRts
<1>7. RemoteBound' /\ Knows' /\ Quiet'
  BY Zenon, <1>0, <1>1, <1>2 DEF RemoteBound, Knows, Quiet, ForSession
<1>8. \A j \in Ids : Replied(j)' <=> Replied(j)
  BY Zenon, <1>1, <1>2, <1>3 DEF Replied
<1>9. \A x \in Sess : (Waiting(x) => Waiting(x)') /\ (Owes(x)' => Owes(x))
  BY <1>1, <1>2, <1>8 DEF Waiting, Restore, Owes, ForSession
<1>10. Obligation'
  BY Zenon, <1>0, <1>1, <1>9 DEF Obligation, Sound, Holds
<1> QED
  BY <1>4, <1>5, <1>6, <1>7, <1>10 DEF IInv

(* What giving a request up does, of whichever kind it is.                 *)
LEMMA GiveUpFacts ==
    ASSUME TypeOK, NEW i \in Ids, GiveUp(i)
    PROVE  /\ local' = [local EXCEPT ![i] = 0]
           /\ UNCHANGED <<boot, node, held, net, usess, wiped>>
           /\ pend' \in [Sides -> SUBSET Events]
           /\ stalled' \subseteq {"association", "heartbeat"}
           /\ faults' \in [FaultKinds -> 0 .. MaxFault]
           /\ csess' \in [Sess -> {"none", "opening", "up", "gone"}]
           /\ \A y \in Sess : csess'[y] # csess[y] => csess[y] = "opening" /\ csess'[y] = "gone"
           /\ adrift' = IF i.kind.type = "restore" THEN adrift \cup {i.kind.sess} ELSE adrift
           /\ adrift' \subseteq Sess
           /\ i.kind # Hb => UNCHANGED <<pend, stalled>>
<1>1. /\ local' = [local EXCEPT ![i] = 0]
      /\ UNCHANGED <<boot, node, held, net, usess, wiped>>
      /\ GiveUpHeartbeat(i) \/ GiveUpSession(i) \/ GiveUpSetup(i)
  BY Zenon DEF GiveUp
<1>2. /\ i.own \in Sides /\ "NO_HEARTBEAT" \in Events
      /\ i.kind.type \in {"est", "restore"} => i.kind.sess \in Sess
      /\ i.kind.type = "hb" <=> i.kind = Hb
      /\ i.kind.type = "setup" <=> i.kind = Setup
  BY IdFacts DEF Events
<1>3. /\ pend \in [Sides -> SUBSET Events] /\ stalled \subseteq {"association", "heartbeat"}
      /\ csess \in [Sess -> {"none", "opening", "up", "gone"}] /\ adrift \subseteq Sess
  BY Zenon DEF TypeOK
<1>4. CASE GiveUpHeartbeat(i)
  <2>1. PICK full \in BOOLEAN : /\ Push(i.own, "NO_HEARTBEAT", node[i.own], full)
                                /\ Faults(Late(i) \cup Full(full))
    BY Zenon, <1>4 DEF GiveUpHeartbeat
  <2>2. /\ pend' \in [Sides -> SUBSET Events]
        /\ stalled' \subseteq {"association", "heartbeat"}
        /\ faults' \in [FaultKinds -> 0 .. MaxFault]
    BY Zenon, <2>1, <1>2, PushType, FaultsType
  <2>3. i.kind = Hb /\ i.kind.type # "restore" /\ csess' = csess /\ adrift' = adrift
    BY <1>2, <1>4 DEF GiveUpHeartbeat
  <2> QED
    BY Zenon, <2>2, <2>3, <1>1, <1>3
<1>5. CASE GiveUpSession(i)
  <2> DEFINE x == i.kind.sess
  <2>1. /\ i.kind.type \in {"est", "restore"} /\ Faults(Late(i))
        /\ \/ csess[x] = "opening" /\ csess' = [csess EXCEPT ![x] = "gone"]
           \/ csess' = csess
        /\ adrift' = IF i.kind.type = "restore" THEN adrift \cup {x} ELSE adrift
        /\ pend' = pend /\ stalled' = stalled
    BY Zenon, <1>5 DEF GiveUpSession
  <2>2. x \in Sess /\ faults' \in [FaultKinds -> 0 .. MaxFault]
    BY Zenon, <2>1, <1>2, FaultsType
  <2> HIDE DEF x
  <2>3. /\ csess' \in [Sess -> {"none", "opening", "up", "gone"}]
        /\ \A y \in Sess : csess'[y] # csess[y] => csess[y] = "opening" /\ csess'[y] = "gone"
    BY Zenon, <2>1, <2>2, <1>3
  <2>4. adrift' \subseteq Sess
    BY Zenon, <2>1, <2>2, <1>3
  <2> QED
    BY Zenon, <2>1, <2>2, <2>3, <2>4, <1>1, <1>3 DEF x
<1>6. CASE GiveUpSetup(i)
  <2>1. /\ i.kind.type # "restore" /\ Faults(Late(i))
        /\ csess' = csess /\ adrift' = adrift /\ pend' = pend /\ stalled' = stalled
    BY <1>2, <1>6 DEF GiveUpSetup
  <2>2. faults' \in [FaultKinds -> 0 .. MaxFault]
    BY Zenon, <2>1, FaultsType
  <2> QED
    BY Zenon, <2>1, <2>2, <1>1, <1>3
<1> QED
  BY Zenon, <1>1, <1>4, <1>5, <1>6

LEMMA StepGiveUp ==
    ASSUME IInv, NEW i \in Ids, GiveUp(i) PROVE IInv'
<1>0. TypeOK /\ RtsBound /\ ReqRts /\ RemoteBound /\ Knows /\ Quiet /\ Obligation
  BY DEF IInv
<1>1. /\ local' = [local EXCEPT ![i] = 0]
      /\ adrift' = IF i.kind.type = "restore" THEN adrift \cup {i.kind.sess} ELSE adrift
      /\ UNCHANGED <<boot, node, held, net, usess, wiped>>
  BY Zenon, <1>0, GiveUpFacts
<1>3. /\ \A y \in Sess : csess'[y] # csess[y] => csess[y] = "opening" /\ csess'[y] = "gone"
      /\ csess' \in [Sess -> {"none", "opening", "up", "gone"}]
  BY Zenon, <1>0, GiveUpFacts
<1>4. TypeOK'
  <2>1. local' \in Tries
    BY ZenonT(60), <1>0, <1>1, TypeParts
  <2>2. /\ pend' \in [Sides -> SUBSET Events] /\ adrift' \subseteq Sess
        /\ stalled' \subseteq {"association", "heartbeat"}
        /\ faults' \in [FaultKinds -> 0 .. MaxFault]
    BY Zenon, <1>0, GiveUpFacts
  <2> QED
    BY <2>1, <2>2, <1>0, <1>1, <1>3 DEF TypeOK, Tries
<1>5. \A j \in Ids : local'[j] = IF j = i THEN 0 ELSE local[j]
  BY <1>0, <1>1, TypeParts DEF Tries
<1>6. RtsBound'
  BY <1>0, <1>1 DEF RtsBound, Sender
<1>7. ReqRts'
  <2>1. \A m \in net : m.id \in Ids
    BY <1>0, MessageFacts DEF TypeOK
  <2> QED
    BY <2>1, <1>0, <1>1, <1>5 DEF ReqRts
<1>8. RemoteBound' /\ Knows'
  BY <1>0, <1>1, <1>3 DEF RemoteBound, Knows
<1>9. Quiet'
  <2>1. SUFFICES ASSUME NEW j \in Ids, ForSession(j), csess'[j.kind.sess] = "none"
                 PROVE  local'[j] <= 0
    BY DEF Quiet, ForSession
  <2>2. j.kind.sess \in Sess
    BY <2>1, IdFacts DEF ForSession
  <2>3. csess[j.kind.sess] = "none"
    BY Zenon, <2>1, <2>2, <1>3
  <2> QED
    BY <2>1, <2>3, <1>0, <1>5 DEF Quiet
<1>10. \A j \in Ids : (Replied(j)' => Replied(j)) /\ (j # i /\ Replied(j) => Replied(j)')
  BY <1>1, <1>5 DEF Replied
<1>11. \A y \in Sess : Owes(y)' => Owes(y)
  BY <1>3, <1>10 DEF Owes, ForSession
<1>12. ASSUME NEW y \in Sess, Waiting(y) PROVE Waiting(y)' \/ y \in adrift'
  <2>1. PICK j \in Ids : j.kind = Restore(y) /\ local[j] > 0 /\ ~Replied(j)
    BY Zenon, <1>12 DEF Waiting
  <2>2. CASE j = i
    BY Zenon, <2>1, <2>2, <1>1, RestoreKind
  <2>3. CASE j # i
    BY Zenon, <2>1, <2>3, <1>5, <1>10 DEF Waiting, Restore
  <2> QED
    BY <2>2, <2>3
<1>13. Obligation'
  BY <1>0, <1>1, <1>11, <1>12 DEF Obligation, Sound, Holds
<1> QED
  BY Zenon, <1>4, <1>6, <1>7, <1>8, <1>9, <1>13 DEF IInv

LEMMA StepStop ==
    ASSUME IInv, NEW s \in Sides, Stop(s) PROVE IInv'
<1>0. TypeOK /\ RtsBound /\ ReqRts /\ RemoteBound /\ Knows /\ Quiet /\ Obligation
  BY DEF IInv
<1>1. /\ boot' = [boot EXCEPT ![s] = boot[s] + 1]
      /\ node' = [node EXCEPT ![s] = Down]
      /\ local' = [i \in Ids |-> IF i.own = s THEN 0 ELSE local[i]]
      /\ net' = net
  BY DEF Stop
<1>2. \A t \in Sides : boot[t] \in Nat /\ boot'[t] = IF t = s THEN boot[t] + 1 ELSE boot[t]
  BY <1>0, <1>1 DEF TypeOK, Boots
<1>3. Down \in NodeStates /\ Down.remote = 0 /\ Down.sm = "down"
  BY DEF Down, NodeStates
<1>4. TypeOK'
  <2>1. boot' \in [Sides -> Boots]
    BY <1>0, <1>1 DEF TypeOK, Boots
  <2>2. node' \in [Sides -> NodeStates]
    BY <1>0, <1>1, <1>3 DEF TypeOK
  <2>3. pend' \in [Sides -> SUBSET Events]
    BY <1>0 DEF TypeOK, Stop
  <2>4. local' \in [Ids -> Answered .. N1]
    <3>1. 0 \in Answered .. N1
      BY ParameterAssumption DEF Answered
    <3> QED
      BY <3>1, <1>0, <1>1 DEF TypeOK
  <2>5. held' \in [Ids -> {"no", "open", "answered"}]
    BY <1>0 DEF TypeOK, Stop
  <2>6. csess' \in [Sess -> {"none", "opening", "up", "gone"}]
    BY <1>0 DEF TypeOK, Stop
  <2>7. usess' \subseteq Boots \X Sess /\ adrift' \subseteq Sess /\ wiped' \subseteq Sess
    BY Zenon, <1>0 DEF TypeOK, Stop
  <2>8. faults' \in [FaultKinds -> 0 .. MaxFault]
    BY Zenon, <1>0, FaultsType DEF Stop
  <2>10. stalled' \subseteq {"association", "heartbeat"}
    BY Zenon, <1>0 DEF TypeOK, Stop
  <2>9. net' \subseteq Messages
    BY <1>0, <1>1 DEF TypeOK
  <2> QED
    BY Zenon, <2>1, <2>2, <2>3, <2>4, <2>5, <2>6, <2>7, <2>8, <2>9, <2>10 DEF TypeOK
<1>5. \A m \in net : m.id \in Ids /\ m.id.own \in Sides /\ Sender(m) \in Sides /\ m.rts \in Nat
  BY ZenonT(60), <1>0, MessageFacts, IdFacts, SideFacts DEF TypeOK, Sender
<1>6. RtsBound'
  <2>1. SUFFICES ASSUME NEW m \in net PROVE m.rts <= boot'[Sender(m)]
    BY Zenon, <1>1 DEF RtsBound, Sender
  <2> QED
    BY <1>0, <1>2, <1>5 DEF RtsBound
<1>7. ReqRts'
  <2>1. SUFFICES ASSUME NEW m \in net, m.dir = "req", local'[m.id] > 0
                 PROVE  m.rts = boot'[m.id.own]
    BY Zenon, <1>1 DEF ReqRts
  <2>2. m.id.own # s /\ local'[m.id] = local[m.id]
    BY <2>1, <1>1, <1>5
  <2> QED
    BY <2>1, <2>2, <1>0, <1>2, <1>5 DEF ReqRts
<1>8. CASE s = "cp"
  <2>1. /\ node'["cp"] = Down
        /\ \A x \in Sess : csess'[x] = "none"
        /\ boot'["up"] = boot["up"] /\ boot["up"] \in Nat
    BY <1>0, <1>1, <1>2, <1>8, SideFacts DEF Stop, TypeOK
  <2>2. RemoteBound' /\ Knows'
    BY <2>1, <1>3 DEF RemoteBound, Knows
  <2>3. Quiet'
    <3>1. SUFFICES ASSUME NEW i \in Ids, ForSession(i) PROVE local'[i] <= 0
      BY DEF Quiet, ForSession
    <3> QED
      BY <3>1, <1>1, <1>8, IdFacts DEF ForSession
  <2>4. Obligation'
    BY ZenonT(60), <2>1 DEF Obligation, Owes
  <2> QED
    BY Zenon, <2>2, <2>3, <2>4, <1>4, <1>6, <1>7 DEF IInv
<1>9. CASE s = "up"
  <2>1. /\ node'["cp"] = node["cp"] /\ csess' = csess
        /\ boot'["up"] = boot["up"] + 1 /\ boot["up"] \in Nat
        /\ node["cp"].remote \in Nat /\ node["cp"].remote <= boot["up"]
    BY Zenon, <1>0, <1>1, <1>2, <1>9, SideFacts, TypeParts
       DEF Stop, TypeOK, NodeStates, RemoteBound
  <2>2. RemoteBound' /\ Knows'
    BY <2>1, <1>0 DEF RemoteBound, Knows
  <2>3. Quiet'
    BY <2>1, <1>0, <1>1 DEF Quiet, ForSession
  <2>4. node'["cp"].remote # boot'["up"]
    BY <2>1
  <2>5. Obligation'
    BY <2>4 DEF Obligation, Sound
  <2> QED
    BY <2>2, <2>3, <2>5, <1>4, <1>6, <1>7 DEF IInv
<1> QED
  BY Zenon, <1>8, <1>9 DEF Sides

LEMMA InitIInv == Init => IInv
<1> SUFFICES ASSUME Init PROVE IInv
  OBVIOUS
<1>1. Down \in NodeStates /\ Down.remote = 0 /\ Down.sm = "down"
  BY DEF Down, NodeStates
<1>2. TypeOK
  <2>1. 0 \in Answered .. N1 /\ 0 \in 0 .. MaxFault /\ 1 \in Boots
    BY ParameterAssumption DEF Answered, Boots
  <2> QED
    BY <2>1, <1>1 DEF Init, TypeOK
<1>3. RtsBound /\ ReqRts /\ RemoteBound /\ Knows
  BY <1>1, SideFacts DEF Init, RtsBound, ReqRts, RemoteBound, Knows
<1>4. Quiet /\ Obligation
  BY DEF Init, Quiet, Obligation, Owes
<1> QED
  BY <1>2, <1>3, <1>4 DEF IInv

LEMMA NextIInv == IInv /\ [Next]_vars => IInv'
<1> SUFFICES ASSUME IInv, [Next]_vars PROVE IInv'
  OBVIOUS
<1>1. ASSUME NEW m \in net, Receive(m) PROVE IInv'
  <2>1. CASE ReceiveRequest(m)
    BY <2>1, StepIdle, StepDuplicateRequest, StepHeartbeatRequest, StepSetupRequest,
       StepEstablishmentRequest DEF ReceiveRequest
  <2>2. CASE ReceiveResponse(m)
    BY <2>2, StepIdle, StepHeartbeatResponse, StepSetupResponse,
       StepEstablishmentResponse DEF ReceiveResponse
  <2> QED
    BY <1>1, <2>1, <2>2 DEF Receive
<1>2. ASSUME NEW i \in Ids, Timeout(i) PROVE IInv'
  BY <1>2, StepRetransmit, StepGiveUp DEF Timeout
<1>3. CASE UNCHANGED vars
  <2>1. TypeOK' /\ Idle
    BY <1>3 DEF vars, IInv, TypeOK, Idle
  <2> QED
    BY Zenon, <2>1, IdleKeeps
<1> QED
  BY <1>1, <1>2, <1>3, StepEstablish, StepIdle, StepHandle, StepOpen, StepStop DEF Next

(* No restart of the user plane is forgotten: the time stamp, the flag, or *)
(* an outstanding restoration stands for every session it has lost.        *)
THEOREM Remembered == Spec => []NotForgotten
<1>1. IInv /\ [Next]_vars => IInv'
  BY NextIInv
<1> QED
  BY <1>1, InitIInv, IInvImplies, PTL DEF Spec

(* Type correctness, for every value of the constants.                     *)
THEOREM TypeCorrect == Spec => []TypeOK
<1>1. IInv => TypeOK
  BY DEF IInv
<1>2. IInv /\ [Next]_vars => IInv'
  BY NextIInv
<1> QED
  BY <1>1, <1>2, InitIInv, PTL DEF Spec

-----------------------------------------------------------------------------
(* KeepsTrying, one side at a time: n is its node, p what its queue holds  *)
(* or has dropped, and beats tells whether a heartbeat is outstanding.     *)
Trying(s, n, p, beats) ==
    /\ n.sm = "associated" => \/ "heartbeat" \in n.timers \/ "heartbeat" \in p
                             \/ "NO_HEARTBEAT" \in p
                             \/ beats
    /\ s \in Assoc /\ n.sm = "will_associate" =>
          "association" \in n.timers \/ "association" \in p

Beats(s, l) == \E i \in Ids : i.own = s /\ i.kind = Hb /\ l[i] > 0

Queued(s) == pend[s] \cup (IF s = "cp" THEN stalled ELSE {})

LEMMA TryingSides ==
    ASSUME TypeOK PROVE
    KeepsTrying <=> \A s \in Sides : Trying(s, node[s], Queued(s), Beats(s, local))
<1>1. \A s, e : e \in Going(s) <=> e \in node[s].timers \/ e \in Queued(s)
  BY Zenon DEF Going, Queued
<1>2. ASSUME NEW s \in Sides
      PROVE  Trying(s, node[s], Queued(s), Beats(s, local)) <=>
                /\ node[s].sm = "associated" =>
                      \/ "heartbeat" \in Going(s)
                      \/ "NO_HEARTBEAT" \in Going(s)
                      \/ Beats(s, local)
                /\ s \in Assoc /\ node[s].sm = "will_associate" => "association" \in Going(s)
  <2>1. /\ "heartbeat" \in Going(s) <=> "heartbeat" \in node[s].timers \/ "heartbeat" \in Queued(s)
        /\ "association" \in Going(s)
              <=> "association" \in node[s].timers \/ "association" \in Queued(s)
        /\ "NO_HEARTBEAT" \in Going(s) <=> "NO_HEARTBEAT" \in Queued(s)
    BY Zenon, <1>1, <1>2, TypeParts DEF NodeStates
  <2> QED
    BY <2>1 DEF Trying
<1> QED
  BY ZenonT(60), <1>2 DEF KeepsTrying, Beats

LEMMA TryingSidesNext ==
    (\A s \in Sides : Trying(s, node'[s], Queued(s)', Beats(s, local'))) => KeepsTrying'
BY Zenon DEF KeepsTrying, Trying, Beats, Going, Queued

(* A handler leaves the state and the timers as they are, or comes to      *)
(* associated and sends a heartbeat, or comes to will_associate.           *)
Onward(s, n, h) ==
    \/ h.node.sm = n.sm /\ h.node.timers = n.timers
    \/ h.node.sm = "associated" /\ Hb \in h.reqs
    \/ h.node.sm = "will_associate" /\ (s \in Assoc => "association" \in h.node.timers)

LEMMA HandlersOnward ==
    ASSUME NEW n \in NodeStates, NEW s
    PROVE  /\ Onward(s, n, ToWillAssociate(s, n))
           /\ Onward(s, n, AfterHeartbeat(s, n))
           /\ Onward(s, n, AfterSetup(s, n))
<1>1. Onward(s, n, ToWillAssociate(s, n))
  BY Zenon DEF Onward, ToWillAssociate, Stay, NodeStates
<1>2. Onward(s, n, ToAssociated(s, n))
  BY ZenonT(60) DEF Onward, ToAssociated, NodeStates
<1>3. Onward(s, n, RestoreNow(s, n))
  BY Zenon DEF Onward, RestoreNow, NodeStates
<1>4. Onward(s, n, Stay(n))
  BY DEF Onward, Stay
<1>5. Onward(s, n, AfterHeartbeat(s, n))
  BY <1>1, <1>2, <1>3, <1>4 DEF AfterHeartbeat
<1>6. Onward(s, n, AfterSetup(s, n))
  BY ZenonT(60), <1>2, <1>4 DEF AfterSetup
<1> QED
  BY <1>1, <1>5, <1>6

(* What a handler makes of the node, and the requests it sends.            *)
Sends(s, h, l) ==
    /\ node' = [node EXCEPT ![s] = h.node]
    /\ \A i \in Ids : local'[i] = l[i] \/ (local'[i] = N1 /\ i.own = s)
    /\ \A r \in h.reqs : \E i \in Ids : i.own = s /\ i.kind = r /\ local'[i] = N1
    /\ stalled' = IF s = "cp" THEN stalled \ h.node.timers ELSE stalled

LEMMA HandlerSends ==
    ASSUME TypeOK, NEW s \in Sides, NEW h \in Handlers, NEW l \in Tries,
           NEW q \in Holdings, NEW taken, NEW answers \in SUBSET Messages,
           Do(s, h, l, q, taken, answers)
    PROVE  Sends(s, h, l)
BY DoFacts DEF Sends, Taken

(* The other side is untouched by a handler; its own side is as the        *)
(* handler leaves it.                                                      *)
LEMMA HandlerKeepsTrying ==
    ASSUME TypeOK, KeepsTrying, NEW s \in Sides, NEW h \in Handlers, NEW l \in Tries,
           NEW q \in Holdings, NEW taken, NEW answers \in SUBSET Messages,
           Do(s, h, l, q, taken, answers),
           \A i \in Ids : i.own # s => l[i] = local[i],
           \A t \in Sides : t # s => pend'[t] = pend[t],
           NEW p, p \subseteq pend'[s] \cup (IF s = "cp" THEN stalled ELSE {}),
           Trying(s, h.node, p, Hb \in h.reqs \/ Beats(s, l))
    PROVE  KeepsTrying'
<1>1. /\ node' = [node EXCEPT ![s] = h.node] /\ node \in [Sides -> NodeStates]
      /\ \A i \in Ids : local'[i] = l[i] \/ (local'[i] = N1 /\ i.own = s)
      /\ \A r \in h.reqs : \E i \in Ids : i.own = s /\ i.kind = r /\ local'[i] = N1
      /\ stalled' = IF s = "cp" THEN stalled \ h.node.timers ELSE stalled
  <2>1. node \in [Sides -> NodeStates]
    BY Zenon DEF TypeOK
  <2>2. Sends(s, h, l)
    BY Zenon, HandlerSends
  <2> QED
    BY Zenon, <2>1, <2>2 DEF Sends
<1>2. N1 > 0
  BY ParameterAssumption
<1>3. Hb \in h.reqs \/ Beats(s, l) => Beats(s, local')
  BY ZenonT(60), <1>1, <1>2 DEF Beats
<1>4. Trying(s, node'[s], Queued(s)', Beats(s, local'))
  <2>1. node'[s] = h.node
    BY Zenon, <1>1
  <2>2. p \subseteq Queued(s)' \cup h.node.timers
    BY Zenon, <1>1 DEF Queued
  <2>3. "NO_HEARTBEAT" \notin h.node.timers
    BY DEF Handlers, NodeStates
  <2> QED
    BY ZenonT(60), <2>1, <2>2, <2>3, <1>3 DEF Trying
<1>5. ASSUME NEW t \in Sides, t # s PROVE Trying(t, node'[t], Queued(t)', Beats(t, local'))
  <2>1. node'[t] = node[t] /\ pend'[t] = pend[t]
    BY ZenonT(60), <1>1, <1>5
  <2>2. Queued(t)' = Queued(t)
    BY Zenon, <2>1, <1>1, <1>5 DEF Queued
  <2>3. Beats(t, local) => Beats(t, local')
    BY ZenonT(60), <1>1, <1>5 DEF Beats
  <2> QED
    BY ZenonT(60), <2>1, <2>2, <2>3, TryingSides DEF Trying
<1> QED
  BY ZenonT(60), <1>4, <1>5, TryingSidesNext

(* A handler that goes onward from a node that is trying is trying.        *)
LEMMA OnwardTries ==
    ASSUME NEW s, NEW n, NEW h, NEW p, NEW l, Onward(s, n, h), Trying(s, n, p, Beats(s, l))
    PROVE  Trying(s, h.node, p, Hb \in h.reqs \/ Beats(s, l))
BY DEF Onward, Trying

(* What the handler of a timer or of a lost heartbeat makes of a node.     *)
AfterEvent(s, n, e) ==
    IF e = "NO_HEARTBEAT" THEN AfterNoHeartbeat(s, n) ELSE AfterTimer(s, n, e)

LEMMA EventTries ==
    ASSUME NEW s, NEW n \in NodeStates, NEW e \in Events, NEW p, NEW l,
           Trying(s, n, p, Beats(s, l))
    PROVE  LET h == AfterEvent(s, n, e)
           IN  Trying(s, h.node, p \ {e}, Hb \in h.reqs \/ Beats(s, l))
<1> DEFINE b == Beats(s, l)
<1> HIDE DEF b
<1>0. Trying(s, n, p, b)
  BY DEF b
<1> SUFFICES LET h == AfterEvent(s, n, e) IN Trying(s, h.node, p \ {e}, Hb \in h.reqs \/ b)
  BY DEF b
<1>1. CASE e = "NO_HEARTBEAT"
  <2> DEFINE h == AfterNoHeartbeat(s, n)
  <2>1. CASE n.sm # "associated"
    <3>1. h.node = n
      BY Zenon, <2>1 DEF AfterNoHeartbeat, Stay
    <3> QED
      BY Zenon, <1>0, <1>1, <2>1, <3>1 DEF Trying, AfterEvent
  <2>2. CASE n.sm = "associated" /\ s = "cp" /\ Keeps
    <3>1. h.node.sm = "associated" /\ h.reqs = {Hb}
      BY Zenon, <2>2 DEF AfterNoHeartbeat, Stay, NodeStates
    <3> QED
      BY ZenonT(60), <1>0, <1>1, <3>1 DEF Trying, AfterEvent
  <2>3. CASE n.sm = "associated" /\ ~(s = "cp" /\ Keeps)
    <3>1. h.node.sm = "will_associate" /\ (s \in Assoc => "association" \in h.node.timers)
      BY Zenon, <2>3 DEF AfterNoHeartbeat, ToWillAssociate, Stay, NodeStates
    <3> QED
      BY ZenonT(60), <1>0, <1>1, <3>1 DEF Trying, AfterEvent
  <2> QED
    BY ZenonT(60), <2>1, <2>2, <2>3
<1>2. CASE e = "heartbeat"
  <2> DEFINE h == AfterTimer(s, n, e)
  <2>1. /\ h.node = n
        /\ n.sm = "associated" => Hb \in h.reqs
    BY <1>2 DEF AfterTimer, Stay
  <2> QED
    BY ZenonT(60), <1>0, <1>2, <2>1 DEF Trying, AfterEvent
<1>3. CASE e = "association"
  <2> DEFINE h == AfterTimer(s, n, e)
  <2>1. CASE n.sm = "will_associate"
    <3>1. h.node.sm = n.sm /\ "association" \in h.node.timers
      BY Zenon, <1>3, <2>1 DEF AfterTimer, Stay, NodeStates
    <3> QED
      BY Zenon, <1>0, <1>3, <2>1, <3>1 DEF Trying, AfterEvent
  <2>2. CASE n.sm = "associated"
    <3>1. h.node.sm = n.sm /\ h.node.timers = n.timers \ {"association"}
      BY Zenon, <1>3, <2>2 DEF AfterTimer, Stay, NodeStates
    <3> QED
      BY ZenonT(60), <1>0, <1>3, <2>2, <3>1 DEF Trying, AfterEvent
  <2>3. CASE n.sm \notin {"will_associate", "associated"}
    <3>1. h.node = n
      BY <1>3, <2>3 DEF AfterTimer, Stay
    <3> QED
      BY ZenonT(60), <1>0, <1>3, <2>3, <3>1 DEF Trying, AfterEvent
  <2> QED
    BY ZenonT(60), <2>1, <2>2, <2>3
<1> QED
  BY ZenonT(60), <1>1, <1>2, <1>3 DEF Events

LEMMA TryHandle ==
    ASSUME IInv, KeepsTrying, NEW s \in Sides, NEW e \in Events, Handle(s, e)
    PROVE  KeepsTrying'
<1> DEFINE h == AfterEvent(s, node[s], e)
<1>0. TypeOK /\ node[s] \in NodeStates /\ local \in Tries /\ held \in Holdings
  BY TypeParts DEF IInv
<1>1. h \in Handlers
  BY <1>0, HandlerTypes DEF AfterEvent
<1>2. Trying(s, node[s], Queued(s), Beats(s, local))
  BY ZenonT(60), <1>0, TryingSides
<1>3. Trying(s, h.node, Queued(s) \ {e}, Hb \in h.reqs \/ Beats(s, local))
  BY Zenon, <1>0, <1>2, EventTries
<1>4. Do(s, h, local, held, {}, {}) /\ pend' = [pend EXCEPT ![s] = @ \ {e}]
  BY Zenon DEF Handle, AfterEvent
<1> HIDE DEF h
<1>5. pend'[s] = pend[s] \ {e} /\ \A t \in Sides : t # s => pend'[t] = pend[t]
  BY <1>0, <1>4 DEF TypeOK
<1>6. Queued(s) \ {e} \subseteq pend'[s] \cup (IF s = "cp" THEN stalled ELSE {})
  BY Zenon, <1>5 DEF Queued
<1>7. Do(s, h, local, held, {}, {}) /\ {} \in SUBSET Messages
  BY <1>4
<1>8. /\ \A t \in Sides : t # s => pend'[t] = pend[t]
      /\ \A i \in Ids : i.own # s => local[i] = local[i]
  BY Zenon, <1>5
<1> QED
  BY Zenon, <1>0, <1>1, <1>3, <1>6, <1>7, <1>8, HandlerKeepsTrying

(* The queue stays as it is and nothing of it is taken.                    *)
LEMMA QueueStays ==
    ASSUME NEW s \in Sides, pend' = pend
    PROVE  /\ Queued(s) \subseteq pend'[s] \cup (IF s = "cp" THEN stalled ELSE {})
           /\ \A t \in Sides : t # s => pend'[t] = pend[t]
           /\ {} \in SUBSET Messages
           /\ \A i \in Ids : i.own # s => local[i] = local[i]
BY Zenon DEF Queued

LEMMA TryOpen ==
    ASSUME IInv, KeepsTrying, NEW s \in Sides, Open(s) PROVE KeepsTrying'
<1> DEFINE n == [node[s] EXCEPT !.sm = "none"]
           h == IF s \in Assoc THEN ToWillAssociate(s, node[s]) ELSE Stay(n)
<1>0. TypeOK /\ node[s] \in NodeStates /\ local \in Tries /\ held \in Holdings
  BY TypeParts DEF IInv
<1>1. n \in NodeStates
  BY <1>0 DEF NodeStates
<1>2. h \in Handlers
  BY <1>0, <1>1, ToWillAssociateType, StayType
<1>3. Trying(s, h.node, Queued(s), Hb \in h.reqs \/ Beats(s, local))
  <2>1. CASE s \in Assoc
    <3>1. h.node.sm = "will_associate" /\ "association" \in h.node.timers
      BY Zenon, <2>1, <1>0 DEF ToWillAssociate, Stay, NodeStates
    <3> QED
      BY <3>1 DEF Trying
  <2>2. CASE s \notin Assoc
    <3>1. h.node.sm = "none"
      BY <2>2, <1>0 DEF Stay, NodeStates
    <3> QED
      BY <3>1 DEF Trying
  <2> QED
    BY <2>1, <2>2
<1>4. Do(s, h, local, held, {}, {}) /\ pend' = pend
  BY Zenon DEF Open
<1> HIDE DEF h
<1> QED
  BY Zenon, <1>0, <1>2, <1>3, <1>4, QueueStays, HandlerKeepsTrying

LEMMA TryEstablish ==
    ASSUME IInv, KeepsTrying, NEW x \in Sess, Establish(x) PROVE KeepsTrying'
<1> DEFINE h == [Stay(node["cp"]) EXCEPT !.reqs = {Est(x)}]
<1>0. TypeOK /\ node["cp"] \in NodeStates /\ local \in Tries /\ held \in Holdings
  BY TypeParts, SideFacts DEF IInv
<1>1. h \in Handlers /\ h.node = node["cp"]
  <2>1. {Est(x)} \in SUBSET Kinds
    BY DEF Est, Kinds
  <2> QED
    BY <2>1, <1>0, StayType DEF Stay
<1>2. Do("cp", h, local, held, {}, {}) /\ pend' = pend
  BY Zenon DEF Establish
<1> HIDE DEF h
<1>3. Trying("cp", h.node, Queued("cp"), Hb \in h.reqs \/ Beats("cp", local))
  BY Zenon, <1>1, <1>0, TryingSides, SideFacts DEF Trying
<1> QED
  BY Zenon, <1>0, <1>1, <1>2, <1>3, QueueStays, HandlerKeepsTrying, SideFacts

(* The datagrams that reach a state machine.                               *)
LEMMA TryHeartbeatRequest ==
    ASSUME IInv, KeepsTrying, NEW m \in net, m.dir = "req", HeartbeatRequest(m)
    PROVE  KeepsTrying'
<1> DEFINE s == Dest(m)
           n == HearRts(node[s], m.rts)
           h == AfterHeartbeat(s, n)
<1>0. m.id.kind \in {Hb, Setup}
  BY Zenon DEF HeartbeatRequest
<1>1. /\ TypeOK /\ local \in Tries /\ held \in Holdings
      /\ s \in Sides /\ node[s] \in NodeStates /\ n \in NodeStates
      /\ {Rsp(m.id)} \in SUBSET Messages
  BY Zenon, <1>0, TakenDatagram, HearRtsType, TypeParts DEF IInv
<1>2. n.sm = node[s].sm /\ n.timers = node[s].timers
  BY <1>1 DEF HearRts, NodeStates
<1>3. Do(s, h, local, held, {m}, {Rsp(m.id)}) /\ pend' = pend
  BY Zenon DEF HeartbeatRequest
<1>4. h \in Handlers /\ Onward(s, n, h)
  BY <1>1, HandlerTypes, HandlersOnward
<1> HIDE DEF h, n, s
<1>5. Trying(s, n, Queued(s), Beats(s, local))
  BY ZenonT(60), <1>1, <1>2, TryingSides DEF Trying
<1>6. Trying(s, h.node, Queued(s), Hb \in h.reqs \/ Beats(s, local))
  BY ZenonT(60), <1>3, <1>4, <1>5, OnwardTries
<1> QED
  BY Zenon, <1>1, <1>3, <1>4, <1>6, QueueStays, HandlerKeepsTrying

LEMMA TrySetupRequest ==
    ASSUME IInv, KeepsTrying, NEW m \in net, m.dir = "req", SetupRequest(m)
    PROVE  KeepsTrying'
<1> DEFINE s == Dest(m)
           k == Known(s, m.id)
           n == HearSetup(s, k, m.rts)
           h == AfterSetup(s, n)
           q == [held EXCEPT ![m.id] = "answered"]
<1>0. m.id.kind \in {Hb, Setup} /\ TypeOK
  BY DEF SetupRequest, IInv
<1>1. /\ local \in Tries /\ q \in Holdings
      /\ s \in Sides /\ node[s] \in NodeStates /\ k \in NodeStates /\ n \in NodeStates
      /\ {Rsp(m.id)} \in SUBSET Messages
  BY Zenon, <1>0, TakenDatagram, HearRtsType, KnownType, TypeParts
<1>2. n.sm = k.sm /\ n.timers = k.timers
  BY <1>1 DEF HearSetup, HearRts, NodeStates
<1>3. k = node[s] \/ (s \notin Assoc /\ k.sm = "will_associate")
  BY Zenon, <1>0, <1>1, KnownType
<1>4. Do(s, h, local, q, {m}, {Rsp(m.id)}) /\ pend' = pend
  BY DEF SetupRequest
<1>5. h \in Handlers /\ Onward(s, n, h)
  BY ZenonT(60), <1>1, HandlerTypes, HandlersOnward
<1> HIDE DEF h, n, k, s, q
<1>6. Trying(s, n, Queued(s), Beats(s, local))
  BY ZenonT(60), <1>1, <1>2, <1>3, <1>0, TryingSides DEF Trying
<1>7. Trying(s, h.node, Queued(s), Hb \in h.reqs \/ Beats(s, local))
  BY ZenonT(60), <1>4, <1>5, <1>6, OnwardTries
<1> QED
  BY Zenon, <1>0, <1>1, <1>4, <1>5, <1>7, QueueStays, HandlerKeepsTrying

LEMMA TryHeartbeatResponse ==
    ASSUME IInv, KeepsTrying, NEW m \in net, m.dir = "rsp", HeartbeatResponse(m)
    PROVE  KeepsTrying'
<1> DEFINE s == Dest(m)
           k == HearRts(node[s], m.rts)
           n == [k EXCEPT !.timers = @ \cup {"heartbeat"}]
           h == AfterHeartbeat(s, n)
           l == [local EXCEPT ![m.id] = 0]
<1>0. m.id.kind \in {Hb, Setup}
  BY DEF HeartbeatResponse
<1>1. /\ TypeOK /\ local \in Tries /\ held \in Holdings /\ l \in Tries
      /\ s \in Sides /\ node[s] \in NodeStates /\ k \in NodeStates /\ n \in NodeStates
      /\ m.id \in Ids /\ m.id.own = s
  BY Zenon, <1>0, TakenDatagram, HearRtsType, HeartbeatNode, TypeParts, MessageFacts DEF IInv
<1>2. n.sm = node[s].sm /\ n.timers = node[s].timers \cup {"heartbeat"}
  BY <1>1 DEF HearRts, NodeStates
<1>3. Do(s, h, l, held, {m}, {}) /\ pend' = pend
  BY DEF HeartbeatResponse
<1>4. h \in Handlers /\ Onward(s, n, h)
  BY <1>1, HandlerTypes, HandlersOnward
<1>5. \A i \in Ids : i.own # s => l[i] = local[i]
  BY Zenon, <1>1 DEF Tries
<1> HIDE DEF h, n, k, s, l
<1>6. Trying(s, n, Queued(s), Beats(s, l))
  BY <1>1, <1>2, TryingSides DEF Trying
<1>7. Trying(s, h.node, Queued(s), Hb \in h.reqs \/ Beats(s, l))
  BY ZenonT(60), <1>3, <1>4, <1>6, OnwardTries
<1> QED
  BY ZenonT(60), <1>1, <1>3, <1>4, <1>5, <1>7, QueueStays, HandlerKeepsTrying

LEMMA TrySetupResponse ==
    ASSUME IInv, KeepsTrying, NEW m \in net, m.dir = "rsp", SetupResponse(m)
    PROVE  KeepsTrying'
<1> DEFINE s == Dest(m)
           n == HearSetup(s, node[s], m.rts)
           h == AfterSetup(s, n)
           l == [local EXCEPT ![m.id] = 0]
<1>0. m.id.kind \in {Hb, Setup} /\ m.id.kind # Hb
  BY DEF SetupResponse, Hb, Setup
<1>1. /\ TypeOK /\ local \in Tries /\ held \in Holdings /\ l \in Tries
      /\ s \in Sides /\ node[s] \in NodeStates /\ n \in NodeStates
      /\ m.id \in Ids /\ m.id.own = s
  BY Zenon, <1>0, TakenDatagram, HearRtsType, TypeParts, MessageFacts DEF IInv
<1>2. n.sm = node[s].sm /\ n.timers = node[s].timers
  BY Zenon, <1>1 DEF HearSetup, HearRts, NodeStates
<1>3. Do(s, h, l, held, {m}, {}) /\ pend' = pend
  BY DEF SetupResponse
<1>4. h \in Handlers /\ Onward(s, n, h)
  BY ZenonT(60), <1>1, HandlerTypes, HandlersOnward
<1>5. \A i \in Ids : i # m.id => l[i] = local[i]
  BY Zenon, <1>1 DEF Tries
<1> HIDE DEF h, n, s, l
<1>6. Beats(s, local) => Beats(s, l)
  BY Zenon, <1>0, <1>5 DEF Beats
<1>7. Trying(s, n, Queued(s), Beats(s, l))
  BY ZenonT(60), <1>1, <1>2, <1>6, TryingSides DEF Trying
<1>8. Trying(s, h.node, Queued(s), Hb \in h.reqs \/ Beats(s, l))
  BY ZenonT(60), <1>3, <1>4, <1>7, OnwardTries
<1>9. \A i \in Ids : i.own # s => l[i] = local[i]
  BY Zenon, <1>1, <1>5
<1> QED
  BY ZenonT(60), <1>1, <1>3, <1>4, <1>8, <1>9, QueueStays, HandlerKeepsTrying

(* The steps that do not change a state machine.                           *)
LEMMA TryIdle ==
    ASSUME IInv, KeepsTrying, node' = node, pend' = pend, stalled' = stalled,
           \A i \in Ids : i.kind = Hb /\ local[i] > 0 => local'[i] > 0
    PROVE  KeepsTrying'
BY Zenon DEF KeepsTrying, Going

LEMMA TryReceive ==
    ASSUME IInv, KeepsTrying, NEW m \in net, Receive(m) PROVE KeepsTrying'
<1>0. m.id \in Ids /\ local \in Tries
  BY TypeParts, MessageFacts DEF IInv, TypeOK
<1>1. CASE DropRequest(m) \/ DuplicateRequest(m) \/ EstablishmentRequest(m)
  BY Zenon, <1>1, TryIdle DEF DropRequest, DuplicateRequest, EstablishmentRequest
<1>2. CASE StrayResponse(m)
  <2>1. \A i \in Ids : local[i] > 0 => local'[i] > 0
    BY <1>0, <1>2, TypeParts DEF StrayResponse, Tries, IInv
  <2> QED
    BY <2>1, <1>2, TryIdle DEF StrayResponse
<1>3. CASE EstablishmentResponse(m)
  <2>1. m.id.kind # Hb
    BY <1>3 DEF EstablishmentResponse, Hb
  <2>2. \A i \in Ids : i.kind = Hb /\ local[i] > 0 => local'[i] > 0
    BY Zenon, <2>1, <1>0, <1>3 DEF EstablishmentResponse, Tries
  <2> QED
    BY Zenon, <2>2, <1>3, TryIdle DEF EstablishmentResponse
<1>4. CASE ReceiveRequest(m)
  BY <1>1, <1>4, TryHeartbeatRequest, TrySetupRequest DEF ReceiveRequest
<1>5. CASE ReceiveResponse(m)
  BY <1>2, <1>3, <1>5, TryHeartbeatResponse, TrySetupResponse DEF ReceiveResponse
<1> QED
  BY Zenon, <1>4, <1>5 DEF Receive

LEMMA TryTimeout ==
    ASSUME IInv, KeepsTrying, NEW i \in Ids, Timeout(i) PROVE KeepsTrying'
<1>0. local \in Tries /\ TypeOK /\ i.own \in Sides
  BY TypeParts, IdFacts DEF IInv
<1>1. CASE Retransmit(i)
  <2>1. \A j \in Ids : local[j] > 0 => local'[j] > 0
    BY <1>0, <1>1, TypeParts DEF Retransmit, Tries
  <2> QED
    BY Zenon, <2>1, <1>1, TryIdle DEF Retransmit
<1>2. CASE GiveUp(i) /\ i.kind # Hb
  <2>1. node' = node /\ pend' = pend /\ stalled' = stalled /\ local' = [local EXCEPT ![i] = 0]
    BY Zenon, <1>0, <1>2, GiveUpFacts
  <2>2. \A j \in Ids : j.kind = Hb => local'[j] = local[j]
    BY Zenon, <2>1, <1>0, <1>2 DEF Tries
  <2> QED
    BY Zenon, <2>1, <2>2, TryIdle
<1>3. CASE GiveUp(i) /\ i.kind = Hb
  <2>1. PICK full \in BOOLEAN : Push(i.own, "NO_HEARTBEAT", node[i.own], full)
    <3>1. GiveUpHeartbeat(i)
      BY <1>3 DEF GiveUp, GiveUpSession, GiveUpSetup, Hb, Setup
    <3> QED
      BY Zenon, <3>1 DEF GiveUpHeartbeat
  <2>2. /\ node' = node /\ local' = [local EXCEPT ![i] = 0]
        /\ pend \in [Sides -> SUBSET Events]
    BY Zenon, <1>0, <1>3, GiveUpFacts DEF TypeOK
  <2>3. ASSUME NEW s \in Sides, s # i.own
        PROVE  Trying(s, node'[s], Queued(s)', Beats(s, local'))
    <3>1. pend'[s] = pend[s] /\ (s = "cp" => stalled' = stalled)
      BY Zenon, <2>1, <2>2, <2>3 DEF Push
    <3>2. Queued(s)' = Queued(s)
      BY Zenon, <3>1 DEF Queued
    <3>3. \A j \in Ids : j.own = s => local'[j] = local[j]
      BY Zenon, <2>2, <2>3, <1>0 DEF Tries
    <3>4. Beats(s, local) => Beats(s, local')
      BY Zenon, <3>3 DEF Beats
    <3> QED
      BY Zenon, <2>2, <3>2, <3>4, <1>0, TryingSides DEF Trying
  <2>4. Trying(i.own, node'[i.own], Queued(i.own)', Beats(i.own, local'))
    <3>1. Going(i.own) \ {"heartbeat"} \subseteq node'[i.own].timers \cup Queued(i.own)'
      BY Zenon, <2>1, <2>2, <1>0 DEF Push, Going, Queued
    <3>2. \/ "NO_HEARTBEAT" \in Queued(i.own)'
          \/ "heartbeat" \in node'[i.own].timers \cup Queued(i.own)'
      BY <2>1, <2>2, <1>0 DEF Push, Queued, TimerOf
    <3> QED
      BY Zenon, <3>1, <3>2, <2>2, <1>0 DEF Trying, KeepsTrying
  <2> QED
    BY Zenon, <2>3, <2>4, TryingSidesNext
<1> QED
  BY Zenon, <1>1, <1>2, <1>3 DEF Timeout

LEMMA TryExpire ==
    ASSUME IInv, KeepsTrying, NEW s \in Sides, NEW e \in Events, Expire(s, e)
    PROVE  KeepsTrying'
<1>0. TypeOK /\ node[s] \in NodeStates
  BY TypeParts DEF IInv
<1>1. /\ node' = [node EXCEPT ![s] = [node[s] EXCEPT !.timers = @ \ {e}]]
      /\ e \in node[s].timers
      /\ local' = local
      /\ node \in [Sides -> NodeStates] /\ pend \in [Sides -> SUBSET Events]
  BY <1>0 DEF Expire, TypeOK
<1>2. PICK full \in BOOLEAN : Push(s, e, node'[s], full)
  BY Zenon DEF Expire
<1>3. e = TimerOf(e)
  BY <1>0, <1>1 DEF NodeStates, TimerOf
<1>4. node'[s].sm = node[s].sm /\ node'[s].timers = node[s].timers \ {e}
  BY <1>0, <1>1 DEF NodeStates
<1>5. ASSUME NEW t \in Sides
      PROVE  /\ node'[t].sm = node[t].sm
             /\ Going(t) \subseteq Going(t)'
  <2>1. CASE t = s
    BY Zenon, <2>1, <1>1, <1>2, <1>3, <1>4 DEF Push, Going
  <2>2. CASE t # s
    <3>1. node'[t] = node[t] /\ pend'[t] = pend[t] /\ (t = "cp" => stalled' = stalled)
      BY Zenon, <2>2, <1>1, <1>2 DEF Push
    <3> QED
      BY Zenon, <3>1 DEF Going
  <2> QED
    BY Zenon, <2>1, <2>2
<1> QED
  BY Zenon, <1>1, <1>5 DEF KeepsTrying

LEMMA TryStop ==
    ASSUME IInv, KeepsTrying, NEW s \in Sides, Stop(s) PROVE KeepsTrying'
<1>0. TypeOK
  BY DEF IInv
<1>1. /\ node' = [node EXCEPT ![s] = Down]
      /\ pend' = [pend EXCEPT ![s] = {}]
      /\ stalled' = IF s = "cp" THEN {} ELSE stalled
      /\ local' = [i \in Ids |-> IF i.own = s THEN 0 ELSE local[i]]
      /\ node \in [Sides -> NodeStates] /\ pend \in [Sides -> SUBSET Events]
  BY <1>0 DEF Stop, TypeOK
<1>2. node'[s].sm = "down"
  BY <1>1 DEF Down
<1>3. \A t \in Sides : t # s => node'[t] = node[t] /\ Going(t)' = Going(t)
  BY Zenon, <1>1 DEF Going
<1>4. \A i \in Ids : i.own # s => local'[i] = local[i]
  BY <1>1
<1>5. ASSUME NEW t \in Sides, t # s, Beats(t, local) PROVE Beats(t, local')
  BY Zenon, <1>4, <1>5 DEF Beats
<1>6. ASSUME NEW t \in Sides PROVE Trying(t, node'[t], Queued(t)', Beats(t, local'))
  <2>1. CASE t = s
    BY Zenon, <2>1, <1>2 DEF Trying
  <2>2. CASE t # s
    <3>1. Queued(t)' = Queued(t) /\ node'[t] = node[t]
      BY Zenon, <2>2, <1>1, <1>3 DEF Queued
    <3> QED
      BY ZenonT(60), <2>2, <3>1, <1>5, <1>0, TryingSides DEF Trying
  <2> QED
    BY Zenon, <2>1, <2>2
<1> QED
  BY Zenon, <1>6, TryingSidesNext

(* No state machine comes to rest by itself: an associated side has a      *)
(* heartbeat or its timer under way, and a side that has t_association     *)
(* keeps asking, through every restart, loss and late datagram, unless a   *)
(* full queue of the control function dropped the event that it waits for. *)
THEOREM NeverAtRest == Spec => []KeepsTrying
<1>1. Init => KeepsTrying
  BY DEF Init, KeepsTrying, Down
<1>2. IInv /\ KeepsTrying /\ [Next]_vars => KeepsTrying'
  <2>1. SUFFICES ASSUME IInv, KeepsTrying, [Next]_vars PROVE KeepsTrying'
    OBVIOUS
  <2>2. CASE \E m \in net : Lose(m)
    BY <2>1, <2>2, TryIdle DEF Lose
  <2>4. ASSUME NEW m \in net, LoseAll(m) PROVE KeepsTrying'
    <3>1. local' = [local EXCEPT ![m.id] = 1] /\ local \in Tries
      BY Zenon, <2>1, <2>4, TypeParts DEF LoseAll, IInv
    <3>2. \A i \in Ids : local[i] > 0 => local'[i] > 0
      BY <3>1 DEF Tries
    <3> QED
      BY Zenon, <3>2, <2>1, <2>4, TryIdle DEF LoseAll
  <2>3. CASE UNCHANGED vars
    BY <2>1, <2>3, TryIdle DEF vars
  <2> QED
    BY <2>1, <2>2, <2>3, <2>4, TryEstablish, TryReceive, TryTimeout, TryExpire, TryHandle,
       TryOpen, TryStop DEF Next
<1>3. IInv /\ [Next]_vars => IInv'
  BY NextIInv
<1> QED
  BY <1>1, <1>2, <1>3, InitIInv, PTL DEF Spec
=============================================================================
