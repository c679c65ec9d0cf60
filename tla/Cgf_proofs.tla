----------------------------- MODULE Cgf_proofs -----------------------------
(***************************************************************************)
(* What holds of the charging gateway for any spool, any number of peers,  *)
(* any windows and limits, and any number of faults.                       *)
(***************************************************************************)
EXTENDS Cgf_lemmas

(* The SMT solver is tried twice, then Zenon, where a leaf names neither.  *)
USE SMTT(60), SMTT(61), Zenon

LEMMA Fresh ==
    ASSUME NEW q \in PeerStates, IsFiniteSet({x.seq : x \in q.xacts})
    PROVE  NextSeq(q) \in Nat /\ \A x \in q.xacts : x.seq # NextSeq(q)
<1>1. Seqs(q) \in SUBSET Nat /\ IsFiniteSet(Seqs(q))
  BY DEF PeerStates, Requests, Seqs
<1>2. \E n \in 0..(0 + Cardinality(Seqs(q))) : n \notin Seqs(q)
  BY <1>1, Beyond
<1>3. Cardinality(Seqs(q)) \in Nat
  BY <1>1, FS_CardinalityType
<1>4. NextSeq(q) \in 0..Cardinality(Seqs(q)) /\ NextSeq(q) \notin Seqs(q)
  BY <1>2, <1>3 DEF NextSeq
<1> QED
  BY <1>3, <1>4 DEF Seqs

(* A request that is sent.                                                  *)
LEMMA SendFacts ==
    ASSUME NEW q \in PeerStates, Distinct(q.xacts), NEW f \in Files \cup {None},
           NEW b \in Nat, NEW ptc \in Commands, ptc = "release" <=> f = None
    PROVE  /\ SendRequest(q, f, b, ptc) \in PeerStates
           /\ Distinct(SendRequest(q, f, b, ptc).xacts)
           /\ \E t : /\ t \notin q.xacts /\ t.file = f /\ t.batch = b
                    /\ SendRequest(q, f, b, ptc).xacts = q.xacts \cup {t}
<1> DEFINE n == NextSeq(q)
           t == Transfer(n, f, b, ptc)
           S == q.xacts \cup {t}
<1>1. n \in Nat /\ \A x \in q.xacts : x.seq # n
  BY Fresh DEF Distinct
<1> HIDE DEF n
<1>2. t \in Requests /\ t.seq = n /\ t.file = f /\ t.batch = b /\ t.ptc = ptc
  BY <1>1, ConstantsAssumption DEF Transfer, Requests
<1>3. SendRequest(q, f, b, ptc) = [q EXCEPT !.xacts = S]
  BY Zenon DEF SendRequest, n
<1> HIDE DEF t
<1>4. S \in SUBSET Requests
  BY <1>2 DEF PeerStates
<1>5. SendRequest(q, f, b, ptc) \in PeerStates /\ SendRequest(q, f, b, ptc).xacts = S
  BY ZenonT(60), <1>3, <1>4, XactOps
<1>6. Distinct(S)
  <2>1. {x.seq : x \in S} = {x.seq : x \in q.xacts} \cup {n}
    BY <1>2
  <2>2. IsFiniteSet({x.seq : x \in S})
    <3>1. IsFiniteSet({x.seq : x \in q.xacts})
      BY Zenon DEF Distinct
    <3>2. IsFiniteSet({x.seq : x \in q.xacts} \cup {n})
      BY Zenon, <3>1, FS_AddElement
    <3> QED
      BY Zenon, <2>1, <3>2
  <2> QED
    BY <1>1, <1>2, <2>2 DEF Distinct
<1>7. t \notin q.xacts
  BY <1>1, <1>2
<1> QED
  BY Zenon, <1>2, <1>5, <1>6, <1>7

(* The batch that is sent.                                                  *)
LEMMA DrainSendFacts ==
    ASSUME CInv, DrainSend
    PROVE  \E f \in Range(open), p \in Range(order), r \in PeerStates : \E t :
              /\ SelectPeer(f, p) /\ file[f].send < Whole[f]
              /\ r.xacts = peer[p].xacts \cup {t} /\ Distinct(r.xacts)
              /\ t \notin peer[p].xacts /\ t.file = f /\ t.batch = file[f].send
              /\ peer' = [peer EXCEPT ![p] = r]
              /\ file' = [file EXCEPT ![f] = CommitSend(file[f])]
              /\ active' = CursorAfter(f, p)
<1>1. PICK f \in Range(open), p \in Range(order) :
        /\ Picked(f, p) /\ file[f].send < Whole[f]
        /\ LET ptc == IF file[f].dup THEN "possibly_dup" ELSE "send"
           IN  peer' = [peer EXCEPT ![p] = SendRequest(peer[p], f, file[f].send, ptc)]
        /\ file' = [file EXCEPT ![f] = CommitSend(file[f])]
        /\ active' = CursorAfter(f, p)
  BY Zenon DEF DrainSend
<1> DEFINE ptc == IF file[f].dup THEN "possibly_dup" ELSE "send"
           r == SendRequest(peer[p], f, file[f].send, ptc)
<1>2. f \in Files \cup {None} /\ f # None /\ p \in Peers /\ file[f].send \in Nat
  BY OrderFacts, ConstantsAssumption DEF CInv, TypeOK, FileStates
<1>3. ptc \in Commands /\ (ptc = "release" <=> f = None)
  BY <1>2 DEF Commands
<1>4. peer[p] \in PeerStates /\ Distinct(peer[p].xacts)
  BY <1>2, PeerFacts DEF CInv
<1>5. peer' = [peer EXCEPT ![p] = r]
  BY Zenon, <1>1
<1> HIDE DEF ptc
<1>6. /\ r \in PeerStates /\ Distinct(r.xacts)
      /\ \E t : /\ t \notin peer[p].xacts /\ t.file = f /\ t.batch = file[f].send
               /\ r.xacts = peer[p].xacts \cup {t}
  BY <1>2, <1>3, <1>4, SendFacts
<1> HIDE DEF r
<1> QED
  BY Zenon, <1>1, <1>5, <1>6 DEF Picked

LEMMA DrainSendCInv ==
    ASSUME CInv, DrainSend PROVE CInv'
<1>1. PICK f \in Range(open), p \in Range(order), r \in PeerStates :
              /\ Distinct(r.xacts) /\ peer' = [peer EXCEPT ![p] = r]
              /\ file' = [file EXCEPT ![f] = CommitSend(file[f])]
              /\ active' = CursorAfter(f, p)
  BY Zenon, DrainSendFacts
<1>2. /\ mode' = mode /\ order' = order /\ open' = open /\ pc' = pc /\ late' = late
      /\ accepted' = accepted /\ faults' = faults
  BY Zenon DEF DrainSend
<1>3. TypeOK /\ f \in Files /\ p \in Peers /\ file[f] \in FileStates
  BY OrderFacts, CInvParts
<1>4. CommitSend(file[f]) \in FileStates /\ "open" \in Wheres
  BY <1>3, FileOps DEF Wheres
<1>5. file' \in [Files -> FileStates] /\ peer' \in [Peers -> PeerStates]
  BY Zenon, <1>1, <1>3, <1>4 DEF TypeOK
<1>6. active' \in 0..(Len(order) - 1)
  BY <1>1, <1>3, CursorType
<1>7. TypeOK'
  <2>1. Around
    BY Zenon, <1>2, <1>3, <1>5, <1>6 DEF Around, TypeOK, Pcs
  <2> QED
    BY Zenon, <1>3, <1>5, <2>1, AroundType
<1>8. \A q \in Peers : late'[q] = {} /\ Distinct(peer'[q].xacts)
  BY Zenon, <1>1, <1>2, <1>3, CInvParts DEF TypeOK
<1>9. \A g \in Files : /\ file'[g].where = file[g].where /\ file'[g].next = file[g].next
                        /\ file'[g].acks = file[g].acks
  BY <1>1, <1>3, <1>4, FileOps DEF TypeOK
<1>10. \A g \in Files : FileConfirmed(g)'
  BY Zenon, <1>2, <1>9, CInvParts, FileConfirmedKept
<1> QED
  BY Zenon, <1>7, <1>8, <1>10, CInvAssembles

LEMMA DrainSendFInv ==
    ASSUME CInv, FInv, DrainSend PROVE FInv'
<1>0. PICK f \in Range(open), p \in Range(order), r \in PeerStates : \E t :
              /\ SelectPeer(f, p) /\ file[f].send < Whole[f]
              /\ r.xacts = peer[p].xacts \cup {t}
              /\ t \notin peer[p].xacts /\ t.file = f /\ t.batch = file[f].send
              /\ peer' = [peer EXCEPT ![p] = r]
              /\ file' = [file EXCEPT ![f] = CommitSend(file[f])]
              /\ active' = CursorAfter(f, p)
  BY Zenon, DrainSendFacts
<1>1. PICK t :
        /\ SelectPeer(f, p) /\ file[f].send < Whole[f]
        /\ r.xacts = peer[p].xacts \cup {t}
        /\ t \notin peer[p].xacts /\ t.file = f /\ t.batch = file[f].send
        /\ peer' = [peer EXCEPT ![p] = r]
        /\ file' = [file EXCEPT ![f] = CommitSend(file[f])]
        /\ active' = CursorAfter(f, p)
  BY Zenon, <1>0
<1>2. mode' = mode /\ order' = order /\ open' = open
  BY Zenon DEF DrainSend
<1>3. /\ Range(open)' = Range(open) /\ Range(order)' = Range(order) /\ Failover' = Failover
      /\ IsInjective(open)' = IsInjective(open) /\ \A i : PeerAt(i)' = PeerAt(i)
  BY Zenon, <1>2 DEF Failover, PeerAt
<1>4. /\ TypeOK /\ f \in Files /\ f # None /\ p \in Peers
      /\ Range(open) \subseteq Files /\ \A g \in Files : file[g] \in FileStates
  BY Zenon, OrderFacts, CInvParts, ConstantsAssumption
<1>5. /\ file'[f].where = file[f].where /\ file'[f].next = file[f].next
      /\ file'[f].send = file[f].send + 1 /\ file'[f].inflight = file[f].inflight + 1
      /\ file'[f].acks = file[f].acks
      /\ \A g \in Files \ {f} : file'[g] = file[g]
  <2>1. file'[f] = CommitSend(file[f]) /\ \A g \in Files \ {f} : file'[g] = file[g]
    BY Zenon, <1>1, <1>4 DEF TypeOK
  <2> QED
    BY ZenonT(60), <1>4, <2>1, FileOps DEF Wheres
<1>6. /\ peer'[p].xacts = peer[p].xacts \cup {t}
      /\ \A q \in Peers \ {p} : peer'[q].xacts = peer[q].xacts
  BY Zenon, <1>1, <1>4 DEF TypeOK
<1>7. \A q \in Peers \ {p} : ~Carries(peer[q], f)
  BY Zenon, <1>1, <1>4, PickAlone
<1>8. OpenList' /\ Cursors'
  <2>1. \A g \in Range(open) : file'[g].where = "open"
    BY <1>4, <1>5 DEF FInv, OpenList
  <2>2. file[f].send \in Nat /\ file[f].next \in Nat /\ Whole[f] \in Nat
    BY Zenon, <1>4, ConstantsAssumption DEF FileStates
  <2>3. \A g \in Range(open) : file'[g].next <= file'[g].send /\ file'[g].send <= Whole[g]
    BY <1>1, <1>4, <1>5, <2>2 DEF FInv, Cursors
  <2> QED
    BY Zenon, <1>3, <2>1, <2>3 DEF FInv, OpenList, Cursors
<1>9. Aside'
  <2>1. Failover => active' = active /\ p = PeerAt(active)
    BY Zenon, <1>1 DEF CursorAfter, SelectPeer
  <2>2. \A q \in Peers \ {p} : FilesOf(peer'[q]) = FilesOf(peer[q])
    BY <1>6 DEF FilesOf
  <2>3. ASSUME NEW q \in Peers, q \notin Range(order) PROVE peer'[q].xacts = {}
    BY Zenon, <1>6, <2>3 DEF FInv, Aside
  <2>4. ASSUME NEW q \in Peers, Failover, FilesOf(peer'[q]) # {} PROVE q = PeerAt(active)'
    BY Zenon, <1>3, <2>1, <2>2, <2>4 DEF FInv, Aside, PeerAt
  <2> QED
    BY Zenon, <1>3, <2>3, <2>4 DEF Aside
<1>10. Pinned'
  BY <1>1, <1>4, <1>6, <1>7 DEF FInv, Pinned, Carries
<1>11. TransfersHaveFiles'
  <2>1. \A q \in Peers : \A g \in FilesOf(peer'[q]) : g = f \/ g \in FilesOf(peer[q])
    BY Zenon, <1>1, <1>6 DEF FilesOf
  <2>2. \A q \in Peers : FilesOf(peer[q]) \subseteq Files
    BY Zenon, PeerFacts
  <2> QED BY Zenon, <1>3, <1>5, <2>1, <2>2 DEF FInv, TransfersHaveFiles
<1>12. FileKept(f)'
  <2> DEFINE n == file[f].next
             e == file[f].send
  <2>1. n \in Nat /\ e \in Nat /\ n <= e /\ FileKept(f)
    BY Zenon, <1>4 DEF FInv, Cursors, NothingForgotten, FileKept, FileStates
  <2>2. Carried(f) \cup file[f].acks = n..(e - 1) /\ Carried(f) \cap file[f].acks = {}
    BY <2>1 DEF FileKept
  <2>3. Carried(f)' = Carried(f) \cup {e}
    <3>1. \A b : b \in Carried(f)' <=> b \in Carried(f) \/ b = e
      BY <1>1, <1>4, <1>6, CarriedDef
    <3> QED
      BY Zenon, <3>1
  <2>4. Carried(f)' \cup file'[f].acks = file'[f].next..(file'[f].send - 1)
    BY <1>5, <2>1, <2>2, <2>3
  <2>5. Carried(f)' \cap file'[f].acks = {}
    BY <1>5, <2>1, <2>2, <2>3
  <2>6. file'[f].inflight = Cardinality(Carried(f)')
    <3>1. IsFiniteSet(Carried(f)) /\ e \notin Carried(f)
      BY Zenon, <2>1, <2>2, FiniteWindow
    <3>2. Cardinality(Carried(f) \cup {e}) = Cardinality(Carried(f)) + 1
      BY Zenon, <3>1, FS_AddElement
    <3> QED
      BY Zenon, <1>5, <2>1, <2>3, <3>2 DEF FileKept
  <2>7. \A q \in Peers : \A x \in peer[q].xacts : x.file = f => x.batch # e
    BY <2>1, <2>2, CarriedDef
  <2>8. \A q \in Peers : \A x \in peer'[q].xacts : (q = p /\ x = t) \/ x \in peer[q].xacts
    BY Zenon, <1>6
  <2>9. \A q, u \in Peers : \A x \in peer'[q].xacts, y \in peer'[u].xacts :
            x.file = f /\ y.file = f /\ x.batch = y.batch => q = u /\ x = y
    BY <1>1, <2>1, <2>7, <2>8 DEF FileKept
  <2> QED
    BY Zenon, <2>4, <2>5, <2>6, <2>9 DEF FileKept
<1>13. \A g \in Range(open) \ {f} : FileKept(g)'
  <2>1. \A g \in Range(open) : FileKept(g)
    BY Zenon DEF FInv, NothingForgotten, FileKept
  <2>2. ASSUME NEW g \in Range(open) \ {f}
        PROVE  \A q \in Peers : \A x : x.file = g => (x \in peer'[q].xacts <=> x \in peer[q].xacts)
    BY Zenon, <1>1, <1>6
  <2> QED
    BY Zenon, <1>4, <1>5, <2>1, <2>2, FileSame
<1>14. NothingForgotten'
  BY Zenon, <1>3, <1>12, <1>13, AllFilesKept
<1> QED
  BY Zenon, <1>8, <1>9, <1>10, <1>11, <1>14 DEF FInv

-----------------------------------------------------------------------------
LEMMA NewPeerOps ==
    ASSUME NEW b \in BOOLEAN PROVE NewPeer(b) \in PeerStates /\ NewPeer(b).xacts = {}
BY ConstantsAssumption DEF PeerStates, NewPeer, States

(* The process starts, starts again, or takes over a new configuration.     *)
LEMMA StartingFacts ==
    ASSUME NEW q \in StartingPeers
    PROVE  q \in [Peers -> PeerStates] /\ \A p \in Peers : q[p].xacts = {}
<1>1. ASSUME NEW b \in BOOLEAN
      PROVE  /\ NewPeer(b) \in PeerStates /\ NewPeer(b).xacts = {}
             /\ SendEcho(NewPeer(b)) \in PeerStates /\ SendEcho(NewPeer(b)).xacts = {}
  BY Zenon, NewPeerOps, PeerOps
<1>2. "probing" \in States
  BY DEF States
<1>3. /\ [SendEcho(NewPeer(TRUE)) EXCEPT !.state = "probing"] \in PeerStates
      /\ [SendEcho(NewPeer(TRUE)) EXCEPT !.state = "probing"].xacts = {}
  BY Zenon, <1>1, <1>2, StateOps
<1>4. \A p \in Peers : \A s \in Starting(p) : s \in PeerStates /\ s.xacts = {}
  <2>1. \A p \in Peers : Starting(p) \subseteq
          {NewPeer(FALSE), SendEcho(NewPeer(TRUE)),
           [SendEcho(NewPeer(TRUE)) EXCEPT !.state = "probing"]}
    BY Zenon DEF Starting
  <2>2. TRUE \in BOOLEAN /\ FALSE \in BOOLEAN
    OBVIOUS
  <2> QED
    BY Zenon, <1>1, <1>3, <2>1, <2>2
<1>5. /\ q \in [Peers -> UNION {Starting(p) : p \in Peers}]
      /\ \A p \in Peers : q[p] \in Starting(p)
  BY Zenon DEF StartingPeers
<1> QED
  BY Zenon, <1>4, <1>5

LEMMA EmptyFacts ==
    /\ open = << >> /\ (\A p \in Peers : peer[p].xacts = {}) => FInv
    /\ open' = << >> /\ (\A p \in Peers : peer'[p].xacts = {}) => FInv'
<1>1. Range(<< >>) = {} /\ IsInjective(<< >>)
  BY DEF Range, IsInjective
<1>2. ASSUME open = << >>, \A p \in Peers : peer[p].xacts = {} PROVE FInv
  BY Zenon, <1>1, <1>2 DEF FInv, OpenList, Cursors, Aside, Pinned, Carries, FilesOf,
                    TransfersHaveFiles, NothingForgotten
<1>3. ASSUME open' = << >>, \A p \in Peers : peer'[p].xacts = {} PROVE FInv'
  BY Zenon, <1>1, <1>3 DEF FInv, OpenList, Cursors, Aside, Pinned, Carries, FilesOf,
                    TransfersHaveFiles, NothingForgotten
<1> QED
  BY <1>2, <1>3

LEMMA DistinctEmpty == Distinct({})
<1>1. {x.seq : x \in {}} = {}
  OBVIOUS
<1> QED
  BY <1>1, FS_EmptySet DEF Distinct

LEMMA InitInv == Init => CInv /\ FInv
<1> SUFFICES ASSUME Init PROVE CInv /\ FInv
  OBVIOUS
<1>1. peer \in [Peers -> PeerStates] /\ \A p \in Peers : peer[p].xacts = {}
  BY Zenon, StartingFacts DEF Init
<1>2. /\ mode \in Modes /\ order \in Configs /\ active \in 0..(Len(order) - 1) /\ faults = 0
      /\ open = << >> /\ pc = Idle /\ late = [p \in Peers |-> {}] /\ accepted = {}
  BY Zenon DEF Init
<1>3. PICK spool \in Spools :
        file = [f \in Files |-> FileAt(IF f \in spool THEN "ready" ELSE "absent")]
  BY Zenon DEF Init
<1>4. /\ file \in [Files -> FileStates]
      /\ \A f \in Files : /\ file[f].where # "done" /\ file[f].next = 0 /\ file[f].acks = {}
  BY <1>3 DEF FileAt, FileStates, Wheres
<1>5. Len(order) \in Nat \ {0}
  <2>1. order \in Seq(Peers) /\ order # << >>
    BY Zenon, <1>2, ConstantsAssumption
  <2> QED
    BY <2>1
<1>6. TypeOK
  BY <1>1, <1>2, <1>4, <1>5, ConstantsAssumption DEF TypeOK, Idle
<1>7. \A p \in Peers : late[p] = {} /\ Distinct(peer[p].xacts)
  <2>1. \A p \in Peers : late[p] = {}
    BY <1>2
  <2> QED
    BY Zenon, <1>1, <2>1, DistinctEmpty
<1>8. CInv
  <2>1. \A f \in Files : IsFiniteSet(file[f].acks)
    BY Zenon, <1>4, FS_EmptySet
  <2>2. Confirmed
    BY <1>4 DEF Confirmed
  <2> QED
    BY Zenon, <1>6, <1>7, <2>1, <2>2 DEF CInv
<1> QED
  BY Zenon, <1>1, <1>2, <1>8, EmptyFacts

LEMMA CrashKeeps ==
    ASSUME CInv, Crash PROVE CInv' /\ FInv'
<1>1. TypeOK
  BY CInvParts
<1>2. peer' \in [Peers -> PeerStates] /\ \A p \in Peers : peer'[p].xacts = {}
  BY Zenon, StartingFacts DEF Crash
<1>3. /\ mode' = mode /\ order' = order /\ accepted' = accepted /\ open' = << >>
      /\ active' \in 0..(Len(order) - 1) /\ pc' = Idle /\ late' = [p \in Peers |-> {}]
      /\ file' = [f \in Files |-> IF file[f].where = "open" THEN FileAt("ready") ELSE file[f]]
  BY Zenon DEF Crash
<1>4. faults' \in 0..MaxFaults /\ pc' \in Pcs
  BY Zenon, <1>1, <1>3, FaultType, PcTypes DEF Crash
<1>5. /\ FileAt("ready") \in FileStates /\ FileAt("ready").where # "done"
      /\ FileAt("ready").next = 0 /\ FileAt("ready").acks = {}
  BY DEF FileAt, FileStates, Wheres
<1>6. /\ file' \in [Files -> FileStates]
      /\ \A f \in Files : file'[f] = file[f] \/ file'[f] = FileAt("ready")
  BY Zenon, <1>1, <1>3, <1>5 DEF TypeOK
<1>7. TypeOK'
  BY <1>1, <1>2, <1>3, <1>4, <1>6 DEF TypeOK, Pcs
<1>8. \A p \in Peers : late'[p] = {} /\ Distinct(peer'[p].xacts)
  <2>1. \A p \in Peers : late'[p] = {}
    BY <1>3
  <2> QED
    BY Zenon, <1>2, <2>1, DistinctEmpty
<1>9. \A f \in Files : FileConfirmed(f)'
  <2>1. \A f \in Files : FileConfirmed(f) /\ accepted \subseteq accepted'
    BY <1>3, CInvParts
  <2>2. \A f \in Files :
          \/ /\ file'[f].where = file[f].where /\ file'[f].next = file[f].next
             /\ file'[f].acks = file[f].acks
          \/ file'[f].where # "done" /\ file'[f].next = 0 /\ file'[f].acks = {}
    BY Zenon, <1>5, <1>6
  <2> QED
    BY Zenon, <2>1, <2>2, FileConfirmedKept
<1> QED
  BY Zenon, <1>2, <1>3, <1>7, <1>8, <1>9, CInvAssembles, EmptyFacts

LEMMA ReloadKeeps ==
    ASSUME CInv, Reload PROVE CInv' /\ (~BusyReload /\ FInv => FInv')
<1>1. PICK new \in Configs :
        /\ order' = new
        /\ peer' = [p \in Peers |->
               IF p \in Range(new) \cap Range(order) THEN peer[p] ELSE NewPeer(p \in Range(new))]
        /\ late' = [p \in Peers |-> IF p \in Range(new) \cap Range(order) THEN late[p] ELSE {}]
        /\ active' \in IF active < Len(new) THEN {active} ELSE 0..(Len(new) - 1)
  BY Zenon DEF Reload
<1>2. /\ mode' = mode /\ file' = file /\ open' = open /\ pc' = pc /\ accepted' = accepted
      /\ pc = Idle /\ (BusyReload \/ \A p \in Peers : peer[p].xacts = {})
  BY Zenon DEF Reload
<1>3. TypeOK /\ faults' \in 0..MaxFaults
  BY Zenon, CInvParts, FaultType DEF Reload
<1>4. \A p \in Peers : NewPeer(p \in Range(new)) \in PeerStates /\ NewPeer(p \in Range(new)).xacts = {}
  <2> TAKE p \in Peers
  <2> DEFINE b == p \in Range(new)
  <2>1. b \in BOOLEAN
    OBVIOUS
  <2> HIDE DEF b
  <2>2. NewPeer(b) \in PeerStates /\ NewPeer(b).xacts = {}
    BY Zenon, <2>1, NewPeerOps
  <2> QED
    BY Zenon, <2>2 DEF b
<1>5. \A p \in Peers : /\ peer'[p] = peer[p] \/ peer'[p] = NewPeer(p \in Range(new))
                       /\ late'[p] = late[p] \/ late'[p] = {}
  BY Zenon, <1>1
<1>6. \A p \in Peers : /\ peer'[p] \in PeerStates /\ late'[p] = {}
                       /\ peer'[p].xacts = peer[p].xacts \/ peer'[p].xacts = {}
  BY <1>3, <1>4, <1>5, CInvParts DEF TypeOK
<1>7. peer' \in [Peers -> PeerStates] /\ late' \in [Peers -> SUBSET Requests]
  <2>1. peer' = [p \in Peers |-> peer'[p]] /\ late' = [p \in Peers |-> late'[p]]
    BY Zenon, <1>1
  <2> QED
    BY <1>6, <2>1
<1>8. active' \in 0..(Len(order') - 1) /\ Len(order') \in Nat \ {0}
  <2>1. new \in Seq(Peers) /\ new # << >>
    BY Zenon, ConstantsAssumption
  <2> QED
    BY <1>1, <1>3, <2>1, OrderFacts DEF TypeOK
<1>9. TypeOK'
  BY <1>1, <1>2, <1>3, <1>7, <1>8 DEF TypeOK, Idle
<1>10. \A p \in Peers : late'[p] = {} /\ Distinct(peer'[p].xacts)
  BY Zenon, <1>6, CInvParts, DistinctEmpty
<1>11. \A f \in Files : FileConfirmed(f)'
  BY Zenon, <1>2, CInvParts, FileConfirmedKept
<1>12. CInv'
  BY Zenon, <1>9, <1>10, <1>11, CInvAssembles
<1>13. ASSUME ~BusyReload, FInv PROVE FInv'
  <2>1. \A p \in Peers : peer[p].xacts = {} /\ peer'[p].xacts = {}
    BY Zenon, <1>2, <1>6, <1>13
  <2>2. Range(open)' = Range(open) /\ OpenList' /\ Cursors'
    BY Zenon, <1>2, <1>13 DEF FInv, OpenList, Cursors
  <2>3. Aside' /\ Pinned' /\ TransfersHaveFiles'
    BY <2>1 DEF Aside, Pinned, TransfersHaveFiles, FilesOf, Carries
  <2>4. \A f \in Range(open)' : FileKept(f)'
    BY Zenon, <1>2, <1>13, <2>1, <2>2, AllFilesKept, FileSame DEF FInv
  <2> QED
    BY Zenon, <2>2, <2>3, <2>4, AllFilesKept DEF FInv
<1> QED
  BY <1>12, <1>13

-----------------------------------------------------------------------------
LEMMA KeptDistinct ==
    ASSUME NEW S, NEW T, Distinct(S), Kept(S, T) PROVE Distinct(T)
<1>1. {y.seq : y \in T} \subseteq {x.seq : x \in S}
  BY DEF Kept, Same
<1>2. IsFiniteSet({y.seq : y \in T})
  BY <1>1, FS_Subset DEF Distinct
<1> QED
  BY <1>2 DEF Kept, Same, Distinct

(* A step that gives up on transfers keeps the invariant.                   *)
LEMMA RewoundKeeps ==
    ASSUME CInv, TypeOK', NEW F, Rewound(F), accepted \subseteq accepted',
           \A p \in Peers : late'[p] = {} /\ Kept(peer[p].xacts, peer'[p].xacts)
    PROVE  CInv'
<1>1. \A p \in Peers : Distinct(peer'[p].xacts)
  BY Zenon, KeptDistinct DEF CInv
<1>2. ASSUME NEW f \in Files PROVE FileConfirmed(f)'
  <2>1. FileConfirmed(f)
    BY Zenon, CInvParts
  <2>2. CASE f \notin F
    BY Zenon, <2>1, <2>2, FileConfirmedKept DEF Rewound
  <2>3. CASE f \in F
    <3>1. /\ file'[f].where = file[f].where /\ file'[f].next = file[f].next
          /\ file'[f].acks = {}
      BY Zenon, <2>3 DEF Rewound
    <3> QED
      BY Zenon, <2>1, <3>1, FS_EmptySet DEF FileConfirmed
  <2> QED
    BY Zenon, <2>2, <2>3
<1> QED
  BY Zenon, <1>1, <1>2, CInvAssembles

LEMMA DropsKeep ==
    ASSUME CInv, FInv, NEW F, Drops(F), Complete(F) PROVE FInv'
<1>1. /\ Range(open) \subseteq Files /\ Range(open)' = Range(open) /\ None \notin Files
      /\ \A f \in Files : file[f].next \in Nat /\ file[f].send \in Nat
      /\ Range(order)' = Range(order) /\ Failover' = Failover
  <2>1. Range(open) \subseteq Files /\ None \notin Files
    BY Zenon, OrderFacts, ConstantsAssumption DEF CInv
  <2>2. \A f \in Files : file[f].next \in Nat /\ file[f].send \in Nat
    BY Zenon DEF CInv, TypeOK, FileStates
  <2>3. Range(open)' = Range(open) /\ Range(order)' = Range(order) /\ Failover' = Failover
    BY Zenon DEF Drops, Failover
  <2> QED
    BY Zenon, <2>1, <2>2, <2>3
<1>2. \A p \in Peers : \A y \in peer'[p].xacts : \E x \in peer[p].xacts : Same(x, y)
  BY DEF Drops, Kept
<1>3. OpenList' /\ Cursors'
  <2>1. IsInjective(open)'
    BY Zenon DEF FInv, OpenList, Drops
  <2>2. \A f \in Range(open) : file'[f].where = "open"
    BY Zenon, <1>1 DEF FInv, OpenList, Drops, Rewound
  <2>3. \A f \in Range(open) : file'[f].next <= file'[f].send /\ file'[f].send <= Whole[f]
    BY <1>1, ConstantsAssumption DEF FInv, Cursors, Drops, Rewound
  <2> QED
    BY Zenon, <1>1, <2>1, <2>2, <2>3 DEF OpenList, Cursors
<1>4. \A p \in Peers : FilesOf(peer'[p]) \subseteq FilesOf(peer[p])
  BY <1>2 DEF FilesOf, Same
<1>5. Aside'
  <2>1. ASSUME NEW p \in Peers, p \notin Range(order) PROVE peer'[p].xacts = {}
    BY Zenon, <1>2, <2>1 DEF FInv, Aside
  <2>2. ASSUME NEW p \in Peers, Failover, FilesOf(peer'[p]) # {} PROVE p = PeerAt(active)'
    BY Zenon, <1>4, <2>2 DEF FInv, Aside, Complete, Steady, Drops, PeerAt
  <2> QED
    BY Zenon, <1>1, <2>1, <2>2 DEF Aside
<1>6. Pinned'
  BY <1>2 DEF FInv, Pinned, Carries, Same
<1>7. TransfersHaveFiles'
  <2>1. \A p \in Peers : FilesOf(peer[p]) \subseteq Files
    BY Zenon, PeerFacts
  <2>2. \A f \in Files : file'[f].where = file[f].where
    BY Zenon DEF Drops, Rewound
  <2> QED BY Zenon, <1>1, <1>4, <2>1, <2>2 DEF FInv, TransfersHaveFiles
<1>8. ASSUME NEW f \in Range(open)
      PROVE  /\ f \in F => Carried(f)' = {}
             /\ f \notin F => Carried(f)' = Carried(f)
  <2>1. CASE f \in F
    BY <2>1, CarriedDef DEF Complete
  <2>2. CASE f \notin F
    <3>1. f # None
      BY Zenon, <1>1
    <3>2. \A b : b \in Carried(f)' => b \in Carried(f)
      BY <1>2, CarriedDef DEF Same
    <3>3. \A b : b \in Carried(f) => b \in Carried(f)'
      BY <2>2, <3>1, CarriedDef DEF Complete, Same
    <3> QED
      BY Zenon, <3>2, <3>3, <2>2
  <2> QED
    BY Zenon, <2>1, <2>2
<1>9. ASSUME NEW f \in Range(open), NEW p \in Peers, NEW q \in Peers,
             NEW x \in peer'[p].xacts, NEW y \in peer'[q].xacts,
             x.file = f, y.file = f, x.batch = y.batch
      PROVE  p = q /\ x = y
  <2>1. PICK v \in peer[p].xacts : Same(v, x)
    BY <1>2
  <2>2. PICK w \in peer[q].xacts : Same(w, y)
    BY Zenon, <1>2
  <2>3. p = q /\ v = w
    <3>1. v.file = f /\ w.file = f /\ v.batch = w.batch
      BY Zenon, <1>9, <2>1, <2>2 DEF Same
    <3>2. FileKept(f)
      BY Zenon, AllFilesKept DEF FInv
    <3> QED
      BY Zenon, <2>1, <2>2, <3>1, <3>2 DEF FileKept
  <2> QED
    BY <2>1, <2>2, <2>3 DEF Drops, Kept, Same
<1>10. NothingForgotten'
  <2>1. ASSUME NEW f \in Range(open), f \in F
        PROVE  /\ Carried(f)' \cup file'[f].acks = file'[f].next..(file'[f].send - 1)
               /\ Carried(f)' \cap file'[f].acks = {}
               /\ file'[f].inflight = Cardinality(Carried(f)')
    <3>1. f \in Files /\ Carried(f)' = {}
      BY Zenon, <1>1, <1>8, <2>1
    <3>2. /\ file'[f].acks = {} /\ file'[f].next = file[f].next
          /\ file'[f].send = file[f].next /\ file'[f].inflight = 0
      BY Zenon, <2>1, <3>1 DEF Drops, Rewound
    <3>3. file[f].next \in Nat
      BY Zenon, <1>1, <3>1
    <3> QED
      BY <3>1, <3>2, <3>3, FS_EmptySet
  <2>2. ASSUME NEW f \in Range(open), f \notin F
        PROVE  /\ Carried(f)' \cup file'[f].acks = file'[f].next..(file'[f].send - 1)
               /\ Carried(f)' \cap file'[f].acks = {}
               /\ file'[f].inflight = Cardinality(Carried(f)')
    BY ZenonT(60), <1>1, <1>8, <2>2 DEF Drops, Rewound, FInv, NothingForgotten
  <2>3. \A f \in Range(open) : FileKept(f)'
    <3>1. ASSUME NEW f \in Range(open)
          PROVE  \A p, q \in Peers : \A x \in peer'[p].xacts, y \in peer'[q].xacts :
                    x.file = f /\ y.file = f /\ x.batch = y.batch => p = q /\ x = y
      BY <1>9
    <3> QED
      BY Zenon, <2>1, <2>2, <3>1 DEF FileKept
  <2> QED
    BY ZenonT(60), <1>1, <2>3, AllFilesKept
<1> QED
  BY Zenon, <1>3, <1>5, <1>6, <1>7, <1>10 DEF FInv

(* Every step.                                                              *)
LEMMA GivesUpKeeps ==
    ASSUME CInv, GivesUp PROVE CInv' /\ (Reliable /\ FInv => FInv')
<1>1. PICK F : Drops(F) /\ (FInv /\ Reliable => Complete(F))
  BY Zenon DEF GivesUp
<1>2. CInv'
  BY Zenon, <1>1, RewoundKeeps DEF Drops
<1> QED
  BY Zenon, <1>1, <1>2, DropsKeep

-----------------------------------------------------------------------------
LEMMA FileNew ==
    ASSUME NEW f, file'[f].next = 0, file'[f].send = 0, file'[f].inflight = 0,
           file'[f].acks = {}, \A p \in Peers : ~Carries(peer'[p], f)
    PROVE  FileKept(f)'
<1>1. Carried(f)' = {}
  BY CarriedDef DEF Carries
<1> QED
  BY <1>1, FS_EmptySet DEF FileKept, Carries

(* A step that leaves the peers and the answers alone, and of the files      *)
(* only opens, closes or quarantines some.                                   *)
LEMMA SpoolStepCInv ==
    ASSUME CInv, mode' = mode, order' = order, peer' = peer, late' = late, faults' = faults,
           accepted' = accepted, active' \in 0..(Len(order) - 1), pc' \in Pcs,
           open' \in Seq(Files), file' \in [Files -> FileStates],
           \A f \in Files : \/ file'[f] = file[f]
                            \/ /\ file'[f].where # "done" /\ file'[f].next = 0
                               /\ file'[f].acks = {}
    PROVE  CInv'
<1>1. TypeOK'
  BY Zenon, CInvParts DEF TypeOK, Pcs
<1>2. \A f \in Files : FileConfirmed(f)'
  BY Zenon, CInvParts, FileConfirmedKept
<1> QED
  BY Zenon, <1>1, <1>2, CInvParts, CInvAssembles

LEMMA SpoolStepFInv ==
    ASSUME CInv, FInv, mode' = mode, order' = order, peer' = peer,
           active' = active \/ ~Failover,
           IsInjective(open)', NEW F,
           \A f \in F : \/ \A p \in Peers : ~Carries(peer[p], f)
                        \/ f \notin Range(open)' /\ file'[f].where = "failed",
           Range(open)' \subseteq Files, Range(open) \subseteq Range(open)' \cup F,
           \A f \in Range(open)' : f \in Range(open) \/ f \in F,
           \A f \in Files \ F : file'[f] = file[f],
           \A f \in F : f \in Range(open)' =>
              /\ file'[f].where = "open" /\ file'[f].next = 0 /\ file'[f].send = 0
              /\ file'[f].inflight = 0 /\ file'[f].acks = {}
    PROVE  FInv'
<1>1. OpenList' /\ Cursors'
  <2>1. \A f \in Range(open)' : file'[f].where = "open"
    BY Zenon DEF FInv, OpenList
  <2>2. \A f \in Range(open)' : file'[f].next <= file'[f].send /\ file'[f].send <= Whole[f]
    BY ConstantsAssumption DEF FInv, Cursors
  <2> QED
    BY Zenon, <2>1, <2>2 DEF OpenList, Cursors
<1>2. Range(order)' = Range(order) /\ Failover' = Failover
  BY Zenon DEF Failover
<1>3. Aside'
  <2>1. Failover => PeerAt(active)' = PeerAt(active)
    BY Zenon DEF PeerAt
  <2> QED
    BY Zenon, <1>2, <2>1 DEF FInv, Aside
<1>4. Pinned'
  BY Zenon DEF FInv, Pinned
<1>5. TransfersHaveFiles'
  <2>1. \A p \in Peers : \A f \in FilesOf(peer[p]) : f \in Files /\ Carries(peer[p], f)
    <3>1. \A p \in Peers : FilesOf(peer[p]) \subseteq Files
      BY Zenon, PeerFacts
    <3> QED BY <3>1 DEF Carries, FilesOf
  <2>2. ASSUME NEW p \in Peers, NEW f \in FilesOf(peer[p])
        PROVE  f \in Range(open)' \/ file'[f].where = "failed"
    <3>1. CASE f \in F
      BY Zenon, <2>1, <3>1
    <3>2. CASE f \notin F
      <4>1. f \in Range(open) \/ file[f].where = "failed"
        BY Zenon DEF FInv, TransfersHaveFiles
      <4> QED BY <2>1, <3>2, <4>1
    <3> QED BY <3>1, <3>2
  <2> QED BY Zenon, <2>2 DEF TransfersHaveFiles
<1>6. NothingForgotten'
  <2>1. ASSUME NEW f \in Range(open)', f \in F PROVE FileKept(f)'
    BY Zenon, <2>1, FileNew
  <2>2. ASSUME NEW f \in Range(open)', f \notin F PROVE FileKept(f)'
    <3>1. FileKept(f) /\ file'[f] = file[f]
      BY Zenon, <2>2, AllFilesKept DEF FInv
    <3> QED
      BY Zenon, <3>1, FileSame
  <2> QED
    BY Zenon, <2>1, <2>2, AllFilesKept
<1> QED
  BY Zenon, <1>1, <1>3, <1>4, <1>5, <1>6 DEF FInv

LEMMA DrainQuarantineKeeps ==
    ASSUME CInv, DrainQuarantine PROVE CInv' /\ (FInv => FInv')
<1>1. PICK f \in Range(open), p \in Range(order) :
        /\ Picked(f, p) /\ file[f].send >= Whole[f]
        /\ file' = [file EXCEPT ![f] = FileAt("failed")]
        /\ open' = Closed(f) /\ active' = CursorAfter(f, p)
  BY Zenon DEF DrainQuarantine
<1>2. /\ mode' = mode /\ order' = order /\ peer' = peer /\ pc' = pc /\ late' = late
      /\ accepted' = accepted /\ faults' = faults
  BY Zenon DEF DrainQuarantine
<1>3. TypeOK /\ f \in Files /\ file[f] \in FileStates /\ Range(open) \subseteq Files
  BY Zenon, OrderFacts, CInvParts
<1>4. /\ FileAt("failed") \in FileStates /\ FileAt("failed").where # "done"
      /\ FileAt("failed").next = 0 /\ FileAt("failed").acks = {}
  BY Zenon, <1>3, FileOps DEF Wheres
<1>5. /\ file' \in [Files -> FileStates] /\ file'[f] = FileAt("failed")
      /\ \A g \in Files \ {f} : file'[g] = file[g]
  BY Zenon, <1>1, <1>3, <1>4 DEF TypeOK
<1>6. open' \in Seq(Files) /\ active' \in 0..(Len(order) - 1) /\ pc' \in Pcs
  BY Zenon, <1>1, <1>2, <1>3, CursorType, ClosedFacts DEF TypeOK, Pcs
<1>7. CInv'
  BY Zenon, <1>2, <1>4, <1>5, <1>6, SpoolStepCInv
<1>8. ASSUME FInv PROVE FInv'
  <2>1. Range(open)' = Range(open) \ {f} /\ IsInjective(open)'
    BY Zenon, <1>1, <1>3, <1>8, ClosedFacts DEF TypeOK, FInv, OpenList
  <2>2. FileAt("failed").where = "failed"
    BY Zenon DEF FileAt
  <2>4. active' = active \/ ~Failover
    BY Zenon, <1>1 DEF CursorAfter
  <2>5. /\ \A g \in {f} : g \notin Range(open)' /\ file'[g].where = "failed"
        /\ Range(open)' \subseteq Files /\ Range(open) \subseteq Range(open)' \cup {f}
        /\ \A g \in Range(open)' : g \in Range(open) \/ g \in {f}
        /\ \A g \in {f} : g \notin Range(open)'
    BY Zenon, <1>3, <1>5, <2>1, <2>2
  <2>6. \A g \in {f} : g \in Range(open)' =>
              /\ file'[g].where = "open" /\ file'[g].next = 0 /\ file'[g].send = 0
              /\ file'[g].inflight = 0 /\ file'[g].acks = {}
    BY Zenon, <2>5
  <2> QED
    BY Zenon, <1>2, <1>5, <1>8, <2>1, <2>4, <2>5, <2>6, SpoolStepFInv
<1> QED
  BY Zenon, <1>7, <1>8

(* The files claimed from ready/ are not open yet.                          *)
LEMMA OpenKeeps ==
    ASSUME CInv, TryOpenMore, pc' \in Pcs,
           UNCHANGED <<mode, order, active, peer, late, accepted, faults>>
    PROVE  CInv' /\ (FInv => FInv')
<1>0. PICK seen \in SUBSET {f \in Files : file[f].where = "ready"} :
        \E taken \in Orders(seen \ BadHeader) :
          /\ open' = open \o taken
          /\ file' = [f \in Files |->
                         IF f \notin seen THEN file[f]
                         ELSE FileAt(IF f \in BadHeader THEN "failed" ELSE "open")]
  BY Zenon DEF TryOpenMore
<1>1. PICK taken \in Orders(seen \ BadHeader) :
        /\ open' = open \o taken
        /\ file' = [f \in Files |->
                       IF f \notin seen THEN file[f]
                       ELSE FileAt(IF f \in BadHeader THEN "failed" ELSE "open")]
  BY Zenon, <1>0
<1>2. TypeOK /\ open \in Seq(Files) /\ Range(open) \subseteq Files
  BY ZenonT(60), OrderFacts, CInvParts DEF TypeOK
<1>3. taken \in Seq(Files) /\ IsInjective(taken) /\ Range(taken) \subseteq seen \ BadHeader
  <2> DEFINE S == seen \ BadHeader
  <2>1. S \subseteq Files /\ IsFiniteSet(Files)
    BY Zenon, ConstantsAssumption
  <2>2. Cardinality(S) \in Nat
    BY ZenonT(60), <2>1, FS_Subset, FS_CardinalityType
  <2>3. taken \in [1..Cardinality(S) -> S] /\ IsInjective(taken)
    BY DEF Orders
  <2> HIDE DEF S
  <2>4. taken \in Seq(S) /\ Range(taken) \subseteq S
    BY <2>2, <2>3 DEF Range
  <2> QED
    BY <2>1, <2>3, <2>4 DEF S
<1>4. \A w \in {"failed", "open"} :
          /\ FileAt(w) \in FileStates /\ FileAt(w).where = w /\ FileAt(w).next = 0
          /\ FileAt(w).send = 0 /\ FileAt(w).inflight = 0 /\ FileAt(w).acks = {}
  BY DEF FileAt, FileStates, Wheres
<1>5. ASSUME NEW f \in Files
      PROVE  /\ f \notin seen => file'[f] = file[f]
             /\ f \in seen => file'[f] = FileAt(IF f \in BadHeader THEN "failed" ELSE "open")
  BY Zenon, <1>1
<1>6. file' \in [Files -> FileStates]
  BY Zenon, <1>1, <1>2, <1>4 DEF TypeOK
<1>7. open' \in Seq(Files) /\ Range(open)' = Range(open) \cup Range(taken)
  BY Zenon, <1>1, <1>2, <1>3, ConcatFacts
<1>8. CInv'
  <2>1. active' \in 0..(Len(order) - 1)
    BY Zenon, <1>2 DEF TypeOK
  <2>2. \A f \in Files : \/ file'[f] = file[f]
                         \/ /\ file'[f].where # "done" /\ file'[f].next = 0
                            /\ file'[f].acks = {}
    BY Zenon, <1>4, <1>5
  <2> QED
    BY Zenon, <1>6, <1>7, <2>1, <2>2, SpoolStepCInv
<1>9. ASSUME FInv PROVE FInv'
  <2>1. seen \cap Range(open) = {}
    BY Zenon, <1>9 DEF FInv, OpenList
  <2>2. IsInjective(open)'
    BY Zenon, <1>1, <1>2, <1>3, <1>9, <2>1, ConcatFacts DEF FInv, OpenList
  <2>3. \A f \in seen : \A p \in Peers : ~Carries(peer[p], f)
    BY <1>9, <2>1, ConstantsAssumption DEF FInv, TransfersHaveFiles, FilesOf, Carries
  <2>4. /\ Range(open)' \subseteq Files /\ Range(open) \subseteq Range(open)' \cup seen
        /\ \A f \in Range(open)' : f \in Range(open) \/ f \in seen
        /\ \A f \in seen : f \in Range(open)' => f \notin BadHeader
    BY Zenon, <1>2, <1>3, <1>7, <2>1
  <2>5. \A f \in seen : f \in Range(open)' =>
              /\ file'[f].where = "open" /\ file'[f].next = 0 /\ file'[f].send = 0
              /\ file'[f].inflight = 0 /\ file'[f].acks = {}
    BY Zenon, <1>4, <1>5, <2>4
  <2>6. \A f \in Files \ seen : file'[f] = file[f]
    BY <1>5
  <2>7. \A f \in seen : \/ \A p \in Peers : ~Carries(peer[p], f)
                        \/ f \notin Range(open)' /\ file'[f].where = "failed"
    BY Zenon, <2>3
  <2> QED
    BY ZenonT(60), <1>9, <2>2, <2>4, <2>5, <2>6, <2>7, SpoolStepFInv
<1> QED
  BY Zenon, <1>8, <1>9

-----------------------------------------------------------------------------
LEMMA ReleaseFacts ==
    ASSUME NEW q \in PeerStates, Distinct(q.xacts)
    PROVE  /\ SendRequest(q, None, 0, "release") \in PeerStates
           /\ Distinct(SendRequest(q, None, 0, "release").xacts)
           /\ \E t : /\ t.file = None
                    /\ SendRequest(q, None, 0, "release").xacts = q.xacts \cup {t}
<1>1. None \in Files \cup {None} /\ 0 \in Nat /\ "release" \in Commands
  BY DEF Commands
<1>2. PICK f \in Files \cup {None}, b \in Nat, ptc \in Commands : f = None /\ b = 0 /\ ptc = "release"
  BY Zenon, <1>1
<1>3. /\ SendRequest(q, f, b, ptc) \in PeerStates
      /\ Distinct(SendRequest(q, f, b, ptc).xacts)
      /\ \E t : /\ t \notin q.xacts /\ t.file = f /\ t.batch = b
               /\ SendRequest(q, f, b, ptc).xacts = q.xacts \cup {t}
  BY <1>2, SendFacts
<1> QED
  BY Zenon, <1>2, <1>3

(* The requests of a peer that has accepted the batch of x.                 *)
LEMMA AnsweredFacts ==
    ASSUME CInv, NEW p \in Peers, NEW x \in peer[p].xacts, NEW sent
    PROVE  /\ Answered(peer[p], x, sent) \in PeerStates
           /\ Distinct(Answered(peer[p], x, sent).xacts)
           /\ \A y : y.file # None =>
                 (y \in Answered(peer[p], x, sent).xacts <=> y \in peer[p].xacts /\ y # x)
<1>1. peer[p] \in PeerStates /\ Distinct(peer[p].xacts)
  BY Zenon, PeerFacts, CInvParts
<1> DEFINE freed == FreeXact(NoteRx(peer[p]), x)
<1>2. freed \in PeerStates /\ freed.xacts = peer[p].xacts \ {x}
  <2>1. NoteRx(peer[p]) \in PeerStates /\ NoteRx(peer[p]).xacts = peer[p].xacts
    BY Zenon, <1>1, PeerOps
  <2> QED
    BY Zenon, <2>1, FreeFacts
<1>3. Distinct(freed.xacts)
  BY <1>1, <1>2, SubsetKept, KeptDistinct
<1> DEFINE s == SendRequest(freed, None, 0, "release")
<1>4. /\ s \in PeerStates /\ Distinct(s.xacts)
      /\ \E t : t.file = None /\ s.xacts = freed.xacts \cup {t}
  <2> HIDE DEF freed
  <2> QED
    BY Zenon, <1>2, <1>3, ReleaseFacts
<1>5. \A r \in {freed, s} : \A y : y.file # None => (y \in r.xacts <=> y \in peer[p].xacts /\ y # x)
  <2> HIDE DEF freed, s
  <2> QED
    BY Zenon, <1>2, <1>4
<1>6. PICK r \in {freed, s} : Answered(peer[p], x, sent) = r
  BY Zenon DEF Answered
<1> HIDE DEF freed, s
<1> QED
  BY Zenon, <1>2, <1>3, <1>4, <1>5, <1>6

LEMMA BatchAcceptedFacts ==
    ASSUME CInv, NEW p \in Peers, NEW m, BatchAccepted(p, m)
    PROVE  AnswerFrame /\ \E x \in peer[p].xacts, r \in PeerStates : Acks(p, x, r)
<1>1. PICK x \in Found(p, m), sent \in Outcomes :
        /\ x.ptc # "release" /\ file[x.file].where = "open" /\ Fault(~sent)
        /\ file' = [file EXCEPT ![x.file] = MaybeFinish(x.file, AckBatch(file[x.file], x.batch))]
        /\ open' = IF MaybeFinish(x.file, AckBatch(file[x.file], x.batch)).where = "done"
                   THEN Closed(x.file) ELSE open
        /\ peer' = [peer EXCEPT ![p] = Answered(peer[p], x, sent)]
  BY Zenon DEF BatchAccepted
<1>2. Answers(p, m, TRUE) /\ pc' = Drain
  BY Zenon DEF BatchAccepted
<1>3. /\ x \in peer[p].xacts /\ mode' = mode /\ order' = order /\ active' = active
      /\ late' = late /\ accepted \subseteq accepted' /\ accepted' \subseteq Files \X Nat
      /\ x.file # None => <<x.file, x.batch>> \in accepted'
  BY Zenon, <1>2, AnswerFacts
<1>4. x.file # None
  BY Zenon, <1>1, <1>3, BatchFile
<1>5. AnswerFrame
  BY Zenon, <1>1, <1>2, <1>3, CInvParts, FaultType, PcTypes DEF AnswerFrame
<1>6. PICK r \in PeerStates : /\ peer' = [peer EXCEPT ![p] = r] /\ Distinct(r.xacts)
                              /\ \A y : y.file # None => (y \in r.xacts <=> y \in peer[p].xacts /\ y # x)
  <2>1. peer' = [peer EXCEPT ![p] = Answered(peer[p], x, sent)] /\ x \in peer[p].xacts
    BY Zenon, <1>1, <1>3
  <2> QED
    BY Zenon, <2>1, AnsweredFacts
<1>7. Acks(p, x, r)
  BY Zenon, <1>1, <1>3, <1>4, <1>6 DEF Acks
<1> QED
  BY Zenon, <1>3, <1>5, <1>7

(* The acceptance of a batch of a quarantined file ends its transfer.       *)
LEMMA FreedAcceptedKeeps ==
    ASSUME CInv, NEW p \in Peers, NEW m, FreedAccepted(p, m)
    PROVE  CInv' /\ (FInv => FInv')
<1>1. PICK x \in Found(p, m), sent \in Outcomes :
        /\ x.ptc # "release" /\ file[x.file].where # "open" /\ Fault(~sent)
        /\ peer' = [peer EXCEPT ![p] = Answered(peer[p], x, sent)]
  BY Zenon DEF FreedAccepted
<1>2. Answers(p, m, TRUE) /\ pc' = Drain /\ file' = file /\ open' = open
  BY Zenon DEF FreedAccepted
<1>3. /\ x \in peer[p].xacts /\ mode' = mode /\ order' = order /\ active' = active
      /\ late' = late /\ accepted \subseteq accepted' /\ accepted' \subseteq Files \X Nat
      /\ p \in Range(order)
  BY Zenon, <1>2, AnswerFacts
<1>4. TypeOK /\ faults' \in 0..MaxFaults /\ pc' \in Pcs
  BY Zenon, <1>1, <1>2, CInvParts, FaultType, PcTypes
<1>5. PICK r \in PeerStates : /\ peer' = [peer EXCEPT ![p] = r] /\ Distinct(r.xacts)
                              /\ \A y : y.file # None => (y \in r.xacts <=> y \in peer[p].xacts /\ y # x)
  BY Zenon, <1>1, <1>3, AnsweredFacts
<1>6. peer'[p] = r /\ \A q \in Peers \ {p} : peer'[q] = peer[q]
  BY Zenon, <1>4, <1>5 DEF TypeOK
<1>7. CInv'
  <2>1. TypeOK'
    BY Zenon, <1>2, <1>3, <1>4, <1>5 DEF TypeOK, Pcs
  <2>2. \A f \in Files : FileConfirmed(f)'
    BY Zenon, <1>2, <1>3, CInvParts, FileConfirmedKept
  <2>3. \A q \in Peers : late'[q] = {} /\ Distinct(peer'[q].xacts)
    BY Zenon, <1>3, <1>5, <1>6, CInvParts
  <2> QED
    BY Zenon, <2>1, <2>2, <2>3, CInvAssembles
<1>8. ASSUME FInv PROVE FInv'
  <2>1. \A q \in Peers : \A y : y.file # None =>
           (y \in peer'[q].xacts <=> y \in peer[q].xacts /\ ~(q = p /\ y = x))
    BY Zenon, <1>5, <1>6
  <2>2. \A q \in Peers : FilesOf(peer'[q]) \subseteq FilesOf(peer[q])
    BY <2>1 DEF FilesOf
  <2>3. \A q \in Peers : \A f \in Files : Carries(peer'[q], f) => Carries(peer[q], f)
    BY <2>1, ConstantsAssumption DEF Carries
  <2>4. OpenList' /\ Cursors'
    BY Zenon, <1>2, <1>8 DEF FInv, OpenList, Cursors
  <2>5. Aside'
    <3>1. \A q \in Peers : q \notin Range(order) => peer'[q].xacts = {}
      BY Zenon, <1>3, <1>6, <1>8 DEF FInv, Aside
    <3>2. Failover' = Failover /\ PeerAt(active)' = PeerAt(active) /\ Range(order)' = Range(order)
      BY Zenon, <1>3 DEF Failover, PeerAt
    <3>3. \A q \in Peers : Failover /\ FilesOf(peer'[q]) # {} => q = PeerAt(active)
      BY <1>8, <2>2 DEF FInv, Aside
    <3> QED
      BY Zenon, <3>1, <3>2, <3>3 DEF Aside
  <2>6. Pinned'
    BY Zenon, <1>8, <2>3 DEF FInv, Pinned
  <2>7. TransfersHaveFiles'
    BY Zenon, <1>2, <1>8, <2>2 DEF FInv, TransfersHaveFiles
  <2>8. NothingForgotten'
    <3>1. ASSUME NEW f \in Range(open) PROVE FileKept(f)'
      <4>1. FileKept(f) /\ f # x.file /\ f \in Files
        BY Zenon, <1>1, <1>8, AllFilesKept, OrderFacts, CInvParts DEF FInv, OpenList
      <4>2. f # None
        BY Zenon, <4>1, ConstantsAssumption
      <4>3. \A q \in Peers : \A y : y.file = f => (y \in peer'[q].xacts <=> y \in peer[q].xacts)
        BY Zenon, <2>1, <4>1, <4>2
      <4> QED
        BY Zenon, <1>2, <4>1, <4>3, FileSame
    <3>2. Range(open)' = Range(open)
      BY Zenon, <1>2
    <3> QED
      BY Zenon, <3>1, <3>2, AllFilesKept
  <2> QED
    BY Zenon, <2>4, <2>5, <2>6, <2>7, <2>8 DEF FInv
<1> QED
  BY Zenon, <1>7, <1>8

LEMMA NothingHappens ==
    ASSUME CInv, UNCHANGED <<mode, order, active, peer, file, open, late, accepted, faults>>,
           pc' \in Pcs
    PROVE  CInv' /\ (FInv => FInv')
<1>1. /\ TypeOK /\ active' \in 0..(Len(order) - 1) /\ open' \in Seq(Files)
      /\ file' \in [Files -> FileStates] /\ Range(open) \subseteq Files
  BY Zenon, CInvParts, OrderFacts DEF TypeOK
<1>2. CInv'
  BY Zenon, <1>1, SpoolStepCInv
<1>3. Range(open)' = Range(open) /\ (FInv => IsInjective(open)')
  BY Zenon DEF FInv, OpenList
<1>4. ASSUME FInv PROVE FInv'
  <2>1. PICK F : F = {}
    BY Zenon
  <2>2. /\ \A f \in F : \A p \in Peers : ~Carries(peer[p], f)
        /\ Range(open)' \subseteq Files /\ Range(open) \subseteq Range(open)' \cup F
        /\ \A f \in Range(open)' : f \in Range(open) \/ f \in F
        /\ \A f \in Files \ F : file'[f] = file[f]
        /\ \A f \in F : f \in Range(open)' =>
              /\ file'[f].where = "open" /\ file'[f].next = 0 /\ file'[f].send = 0
              /\ file'[f].inflight = 0 /\ file'[f].acks = {}
    BY Zenon, <1>1, <1>3, <2>1
  <2> QED
    BY Zenon, <1>3, <1>4, <2>2, SpoolStepFInv
<1> QED
  BY ZenonT(60), <1>2, <1>4

LEMMA NextKeeps ==
    ASSUME ~LateAnswers, CInv, [Next]_vars PROVE CInv' /\ (Reliable /\ FInv => FInv')
<1>1. /\ TypeOK /\ Idle \in Pcs /\ Drain \in Pcs /\ pc \in Pcs
      /\ \A p \in Peers : late[p] = {}
  BY Zenon, CInvParts, PcTypes DEF TypeOK, Pcs
<1>2. CASE DrainSend
  BY Zenon, <1>2, DrainSendCInv, DrainSendFInv
<1>3. CASE DrainSendFails
  BY Zenon, <1>3, DrainSendFailsGivesUp, GivesUpKeeps
<1>4. CASE DrainQuarantine
  BY Zenon, <1>4, DrainQuarantineKeeps
<1>5. CASE DrainOpen \/ SpoolTick
  <2>1. /\ TryOpenMore /\ pc' \in Pcs
        /\ UNCHANGED <<mode, order, active, peer, late, accepted, faults>>
    BY Zenon, <1>1, <1>5 DEF DrainOpen, SpoolTick
  <2> QED
    BY Zenon, <2>1, OpenKeeps
<1>6. CASE DrainStop \/ UNCHANGED vars
  <2>1. /\ pc' \in Pcs
        /\ UNCHANGED <<mode, order, active, peer, file, open, late, accepted, faults>>
    BY Zenon, <1>1, <1>6 DEF DrainStop, vars
  <2> QED
    BY Zenon, <2>1, NothingHappens
<1>7. CASE EchoTick
  BY Zenon, <1>7, EchoTickGivesUp, GivesUpKeeps
<1>8. CASE RtoTick
  BY Zenon, <1>8, RtoTickGivesUp, GivesUpKeeps
<1>9. ASSUME NEW p \in Peers, EchoResponse(p) \/ StaleResponse(p) \/ ReceiverRestarts(p)
      PROVE  CInv' /\ (Reliable /\ FInv => FInv')
  BY Zenon, <1>9, EchoGivesUp, StaleGivesUp, GivesUpKeeps
<1>10. ASSUME NEW p \in Peers, NEW m, Rejected(p, m) \/ ReleaseAccepted(p, m) \/ AckLost(p, m)
       PROVE  CInv' /\ (Reliable /\ FInv => FInv')
  BY Zenon, <1>10, AnswerGivesUp, GivesUpKeeps
<1>11. ASSUME NEW p \in Peers, NEW m, BatchAccepted(p, m)
       PROVE  CInv' /\ (Reliable /\ FInv => FInv')
  BY Zenon, <1>11, BatchAcceptedFacts, BatchAcceptedCInv, BatchAcceptedFInv
<1>12. ASSUME NEW p \in Peers, NEW m, FreedAccepted(p, m)
       PROVE  CInv' /\ (Reliable /\ FInv => FInv')
  BY Zenon, <1>12, FreedAcceptedKeeps
<1>13. CASE Reload
  BY Zenon, <1>13, ReloadKeeps DEF Reliable
<1>14. CASE Crash
  BY Zenon, <1>14, CrashKeeps
<1> QED
  BY Zenon, <1>2, <1>3, <1>4, <1>5, <1>6, <1>7, <1>8, <1>9, <1>10, <1>11, <1>12, <1>13, <1>14 DEF Next

(* The types of the peers, files and handlers are kept, if no answer to a   *)
(* request of before a receiver's restart arrives after it.                 *)
THEOREM TypeCorrect ==
    ASSUME ~LateAnswers PROVE Spec => []TypeOK
<1>1. CInv => TypeOK
  BY DEF CInv
<1>2. Init => CInv
  BY InitInv
<1>3. CInv /\ [Next]_vars => CInv'
  BY Zenon, NextKeeps
<1> QED
  BY <1>1, <1>2, <1>3, PTL DEF Spec

(* No charging record is dropped undelivered: cgf_spool_ack_batch_ex moves  *)
(* the confirmed cursor only over batches a receiver has accepted, whatever *)
(* the order of the answers, and maybe_finish_file finishes only files that *)
(* were accepted whole.  This holds in both send modes, with any windows    *)
(* and limits, through socket errors, receivers that restart, reloads at    *)
(* any time and crashes at any point; the numbering of requests that a      *)
(* restarted receiver resets is the one thing it rests on.                  *)
THEOREM NothingDropped ==
    ASSUME ~LateAnswers PROVE Spec => []Confirmed
<1>1. CInv => Confirmed
  BY DEF CInv
<1>2. Init => CInv
  BY InitInv
<1>3. CInv /\ [Next]_vars => CInv'
  BY NextKeeps
<1> QED
  BY <1>1, <1>2, <1>3, PTL DEF Spec

LEMMA BothKept ==
    ASSUME Reliable PROVE Spec => [](CInv /\ FInv)
<1>1. Init => CInv /\ FInv
  BY Zenon, InitInv
<1>2. CInv /\ FInv /\ [Next]_vars => CInv' /\ FInv'
  BY NextKeeps DEF Reliable
<1> QED
  BY <1>1, <1>2, PTL DEF Spec

(* Every batch between the cursors of an open file is carried by exactly    *)
(* one transfer or has its ack buffered, and inflight_batches counts them,  *)
(* whatever the interleaving of answers, retransmissions, echo timeouts and *)
(* restarts: each record that was sent is confirmed or sent again.  The     *)
(* configuration changes while nothing is in flight, and sockets fail in    *)
(* round-robin mode only.                                                   *)
THEOREM EveryBatchAccounted ==
    ASSUME Reliable PROVE Spec => []NothingForgotten
<1>1. FInv => NothingForgotten
  BY Zenon DEF FInv
<1> QED
  BY <1>1, BothKept, PTL

(* maybe_finish_file frees a file only after the last of its transfers is   *)
(* gone, and no file is claimed while one refers to it: the only transfers  *)
(* without an open file are those of a file that was quarantined while they *)
(* were in flight.                                                          *)
THEOREM NoTransferOfFinishedFile ==
    ASSUME Reliable PROVE Spec => []TransfersHaveFiles
<1>1. FInv => TransfersHaveFiles
  BY Zenon DEF FInv
<1> QED
  BY <1>1, BothKept, PTL

(* The transfers of a file are all with one peer, on which                  *)
(* abort_file_pipeline relies when it frees the window of a file on one     *)
(* peer only.                                                               *)
THEOREM FilesStayPinned ==
    ASSUME Reliable PROVE Spec => []Pinned
<1>1. FInv => Pinned
  BY Zenon DEF FInv
<1> QED
  BY <1>1, BothKept, PTL
=============================================================================
