----------------------------- MODULE Cgf_lemmas -----------------------------
(***************************************************************************)
(* Facts about the operations of the charging gateway, the invariants that *)
(* Cgf_proofs proves, and the steps that give up on transfers.             *)
(***************************************************************************)
EXTENDS Cgf, FiniteSetTheorems, WellFoundedInduction, TLAPS

(* The SMT solver is tried twice, then Zenon, where a leaf names neither.  *)
USE SMTT(60), SMTT(61), Zenon

(* The least number of a set.                                               *)
LEMMA Least ==
    ASSUME NEW S \in SUBSET Nat, S # {} PROVE \E i \in S : \A j \in S : i <= j
<1> DEFINE R == OpToRel(<, Nat)
<1>1. IsWellFoundedOn(R, Nat)
  BY Zenon, NatLessThanWellFounded
<1>2. \A i, j \in Nat : j < i => <<j, i>> \in R
  BY Zenon DEF OpToRel
<1> HIDE DEF R
<1>3. PICK i \in S : \A j \in S : ~(<<j, i>> \in R)
  BY Zenon, <1>1, WFMin
<1>4. i \in Nat /\ \A j \in S : j \in Nat /\ ~(j < i)
  BY Zenon, <1>2, <1>3
<1> QED
  BY <1>4

LEMMA OrderFacts ==
    ASSUME TypeOK
    PROVE  /\ order \in Seq(Peers) /\ Len(order) \in Nat \ {0} /\ Range(order) \subseteq Peers
           /\ \A i \in 0..(Len(order) - 1) : PeerAt(i) \in Range(order)
           /\ Range(open) \subseteq Files
<1>1. order \in Seq(Peers) /\ order # << >>
  BY ConstantsAssumption DEF TypeOK
<1>2. Len(order) \in Nat \ {0} /\ Range(order) \subseteq Peers
  BY <1>1 DEF Range
<1>3. \A i \in 0..(Len(order) - 1) : PeerAt(i) \in Range(order)
  BY <1>1 DEF PeerAt, Range
<1>4. Range(open) \subseteq Files
  BY DEF TypeOK, Range
<1> QED
  BY Zenon, <1>1, <1>2, <1>3, <1>4

LEMMA FileOps ==
    ASSUME NEW r \in FileStates, NEW w \in Wheres
    PROVE  /\ FileAt(w) \in FileStates
           /\ FileAt(w).where = w /\ FileAt(w).next = 0 /\ FileAt(w).acks = {}
           /\ FileAt(w).send = 0 /\ FileAt(w).inflight = 0
           /\ CommitSend(r) \in FileStates
           /\ CommitSend(r).where = r.where /\ CommitSend(r).next = r.next
           /\ CommitSend(r).acks = r.acks /\ CommitSend(r).send = r.send + 1
           /\ CommitSend(r).inflight = r.inflight + 1
<1>1. /\ FileAt(w) \in FileStates
      /\ FileAt(w).where = w /\ FileAt(w).next = 0 /\ FileAt(w).acks = {}
      /\ FileAt(w).send = 0 /\ FileAt(w).inflight = 0
  BY DEF FileStates, FileAt
<1>2. r.send + 1 \in Nat /\ r.inflight + 1 \in Nat
  BY DEF FileStates
<1>3. CommitSend(r) \in FileStates
  BY Zenon, <1>2 DEF FileStates, CommitSend
<1>4. /\ CommitSend(r).where = r.where /\ CommitSend(r).next = r.next
      /\ CommitSend(r).acks = r.acks /\ CommitSend(r).send = r.send + 1
      /\ CommitSend(r).inflight = r.inflight + 1
  BY DEF FileStates, CommitSend
<1> QED
  BY <1>1, <1>3, <1>4

(* The list of open files, extended and cut.                                *)
LEMMA ConcatFacts ==
    ASSUME NEW s \in Seq(Files), NEW t \in Seq(Files)
    PROVE  /\ s \o t \in Seq(Files) /\ Range(s \o t) = Range(s) \cup Range(t)
           /\ IsInjective(s) /\ IsInjective(t) /\ Range(s) \cap Range(t) = {}
                 => IsInjective(s \o t)
<1> DEFINE c == s \o t
<1>1. /\ c \in Seq(Files) /\ Len(c) = Len(s) + Len(t)
      /\ DOMAIN c = 1..(Len(s) + Len(t)) /\ DOMAIN s = 1..Len(s) /\ DOMAIN t = 1..Len(t)
      /\ \A i \in 1..(Len(s) + Len(t)) : c[i] = IF i <= Len(s) THEN s[i] ELSE t[i - Len(s)]
      /\ Len(s) \in Nat /\ Len(t) \in Nat
  OBVIOUS
<1> HIDE DEF c
<1>2. \A i \in 1..Len(s) : i \in DOMAIN c /\ c[i] = s[i]
  BY <1>1
<1>3. \A i \in 1..Len(t) : Len(s) + i \in DOMAIN c /\ c[Len(s) + i] = t[i]
  BY <1>1
<1>4. \A i \in DOMAIN c : \/ (i \in 1..Len(s) /\ c[i] = s[i])
                          \/ (i - Len(s) \in 1..Len(t) /\ c[i] = t[i - Len(s)])
  BY <1>1
<1>5. Range(c) = Range(s) \cup Range(t)
  <2>1. \A i \in DOMAIN s : s[i] \in Range(c)
    BY <1>1, <1>2 DEF Range
  <2>2. \A i \in DOMAIN t : t[i] \in Range(c)
    BY Zenon, <1>1, <1>3 DEF Range
  <2>3. \A i \in DOMAIN c : c[i] \in Range(s) \cup Range(t)
    BY <1>1, <1>4 DEF Range
  <2> QED
    BY Zenon, <2>1, <2>2, <2>3 DEF Range
<1>6. ASSUME IsInjective(s), IsInjective(t), Range(s) \cap Range(t) = {} PROVE IsInjective(c)
  <2>1. \A i \in DOMAIN s, j \in DOMAIN t : s[i] # t[j]
    BY Zenon, <1>6 DEF Range
  <2>2. SUFFICES ASSUME NEW i \in DOMAIN c, NEW j \in DOMAIN c, c[i] = c[j] PROVE i = j
    BY DEF IsInjective
  <2>3. i \in Int /\ j \in Int
    BY <1>1
  <2> QED
    BY <1>1, <1>4, <1>6, <2>1, <2>2, <2>3 DEF IsInjective
<1> QED
  BY <1>1, <1>5, <1>6 DEF c

LEMMA ClosedFacts ==
    ASSUME open \in Seq(Files), NEW f
    PROVE  /\ Closed(f) \in Seq(Files)
           /\ IsInjective(open) => /\ Range(Closed(f)) = Range(open) \ {f}
                                   /\ IsInjective(Closed(f))
<1>1. CASE f \notin Range(open)
  BY <1>1 DEF Closed
<1>2. CASE f \in Range(open)
  <2> DEFINE i == CHOOSE i \in 1..Len(open) : open[i] = f
             s == SubSeq(open, 1, i - 1)
             t == SubSeq(open, i + 1, Len(open))
  <2>1. DOMAIN open = 1..Len(open) /\ Len(open) \in Nat
    OBVIOUS
  <2>2. i \in 1..Len(open) /\ open[i] = f
    BY <1>2, <2>1 DEF Range
  <2>3. Closed(f) = s \o t
    BY Zenon, <1>2 DEF Closed
  <2> HIDE DEF i
  <2>4. /\ s \in Seq(Files) /\ DOMAIN s = 1..(i - 1) /\ \A k \in 1..(i - 1) : s[k] = open[k]
        /\ t \in Seq(Files) /\ DOMAIN t = 1..(Len(open) - i)
        /\ \A k \in 1..(Len(open) - i) : t[k] = open[i + k]
    BY <2>1, <2>2
  <2> HIDE DEF s, t
  <2>5. ASSUME IsInjective(open)
        PROVE  /\ IsInjective(s) /\ IsInjective(t) /\ Range(s) \cap Range(t) = {}
               /\ Range(s) \cup Range(t) = Range(open) \ {f}
    <3>1. \A k \in 1..(i - 1) : k \in 1..Len(open) /\ k # i
      BY <2>1, <2>2
    <3>2. \A k \in 1..(Len(open) - i) : i + k \in 1..Len(open) /\ i + k # i /\ k \in Int
      BY <2>1, <2>2
    <3>3. IsInjective(s)
      BY Zenon, <2>1, <2>4, <2>5, <3>1 DEF IsInjective
    <3>4. IsInjective(t)
      <4>1. SUFFICES ASSUME NEW k \in 1..(Len(open) - i), NEW l \in 1..(Len(open) - i), t[k] = t[l]
                     PROVE  k = l
        BY <2>4 DEF IsInjective
      <4>2. i + k = i + l
        BY <2>1, <2>4, <2>5, <3>2, <4>1 DEF IsInjective
      <4> QED
        BY <2>2, <3>2, <4>2
    <3>5. Range(s) \cap Range(t) = {}
      <4>1. \A k \in 1..(i - 1), l \in 1..(Len(open) - i) : k # i + l
        BY <2>1, <2>2
      <4> QED
        BY <2>1, <2>4, <2>5, <3>1, <3>2, <4>1 DEF IsInjective, Range
    <3>6. \A k \in 1..Len(open) : k = i \/ k \in 1..(i - 1) \/ (k - i \in 1..(Len(open) - i) /\ i + (k - i) = k)
      BY <2>1, <2>2
    <3>7. \A k \in 1..Len(open) : k # i => open[k] # f
      BY Zenon, <2>1, <2>2, <2>5 DEF IsInjective
    <3>8. Range(open) \ {f} \subseteq Range(s) \cup Range(t)
      <4>1. ASSUME NEW k \in 1..Len(open), open[k] # f PROVE open[k] \in Range(s) \cup Range(t)
        <5>1. CASE k \in 1..(i - 1)
          <6>1. k \in DOMAIN s /\ s[k] = open[k]
            BY <2>4, <5>1
          <6> QED
            BY Zenon, <6>1 DEF Range
        <5>2. CASE k - i \in 1..(Len(open) - i) /\ i + (k - i) = k
          <6>1. k - i \in DOMAIN t /\ t[k - i] = open[k]
            BY <2>4, <5>2
          <6> QED
            BY Zenon, <6>1 DEF Range
        <5> QED
          BY Zenon, <2>2, <3>6, <4>1, <5>1, <5>2
      <4> QED
        BY <2>1, <4>1 DEF Range
    <3>9. Range(s) \cup Range(t) \subseteq Range(open) \ {f}
      BY <2>1, <2>4, <3>1, <3>2, <3>7 DEF Range
    <3> QED
      BY Zenon, <3>3, <3>4, <3>5, <3>8, <3>9
  <2> QED
    BY <2>3, <2>4, <2>5, ConcatFacts
<1> QED
  BY <1>1, <1>2

Pcs == [at : {"idle", "drain", "echo"}, idx : 0..(Len(order) - 1), drain : BOOLEAN]

(* Confirmed.  A request carries a batch, or is a Release; the numbers of    *)
(* the requests of a peer are distinct, and finitely many.                   *)
Distinct(S) ==
    /\ IsFiniteSet({x.seq : x \in S})
    /\ \A x, y \in S : x.seq = y.seq => x = y
    /\ \A x \in S : x.ptc = "release" <=> x.file = None

CInv ==
    /\ TypeOK
    /\ \A p \in Peers : late[p] = {} /\ Distinct(peer[p].xacts)
    /\ \A f \in Files : IsFiniteSet(file[f].acks)
    /\ Confirmed

OpenList == IsInjective(open) /\ \A f \in Range(open) : file[f].where = "open"

Cursors == \A f \in Range(open) : file[f].next <= file[f].send /\ file[f].send <= Whole[f]

Aside ==
    \A p \in Peers :
        /\ p \notin Range(order) => peer[p].xacts = {}
        /\ Failover /\ FilesOf(peer[p]) # {} => p = PeerAt(active)

FInv == OpenList /\ Cursors /\ Aside /\ Pinned /\ TransfersHaveFiles /\ NothingForgotten

LEMMA PeerFacts ==
    ASSUME CInv, NEW p \in Peers
    PROVE  /\ peer[p] \in PeerStates /\ peer[p].xacts \in SUBSET Requests
           /\ \A x \in peer[p].xacts : /\ x.file \in Files \cup {None} /\ x.batch \in Nat
                                       /\ x.ptc \in Commands
           /\ FilesOf(peer[p]) \subseteq Files /\ late[p] = {}
           /\ FInv => \A q \in Peers \ {p}, f \in FilesOf(peer[p]) : ~Carries(peer[q], f)
<1>1. peer[p] \in PeerStates /\ late[p] = {}
  BY DEF CInv, TypeOK
<1>2. peer[p].xacts \in SUBSET Requests
  BY <1>1 DEF PeerStates
<1>3. \A x \in peer[p].xacts : x.file \in Files \cup {None} /\ x.batch \in Nat /\ x.ptc \in Commands
  BY <1>2 DEF Requests
<1>4. FilesOf(peer[p]) \subseteq Files
  BY <1>3 DEF FilesOf
<1>5. ASSUME FInv, NEW q \in Peers \ {p}, NEW f \in FilesOf(peer[p]) PROVE ~Carries(peer[q], f)
  BY <1>4, <1>5 DEF FInv, Pinned, Carries, FilesOf
<1> QED
  BY <1>1, <1>2, <1>3, <1>4, <1>5

(* Numbers beyond a finite set.                                             *)
LEMMA Beyond ==
    ASSUME NEW S \in SUBSET Nat, IsFiniteSet(S), NEW a \in Nat
    PROVE  \E n \in a..(a + Cardinality(S)) : n \notin S
<1>1. Cardinality(S) \in Nat
  BY FS_CardinalityType
<1>2. Cardinality(a..(a + Cardinality(S))) = Cardinality(S) + 1
  BY <1>1, FS_Interval
<1>3. ~(a..(a + Cardinality(S)) \subseteq S)
  BY <1>1, <1>2, FS_Subset
<1> QED
  BY <1>3

(* An answer moves the confirmed cursor over what the buffered acks continue. *)
LEMMA DrainFacts ==
    ASSUME NEW r \in FileStates, IsFiniteSet(r.acks), NEW b \in Nat,
           NEW to, to = DrainPendingAcks(r, b)
    PROVE  to \in Nat /\ to > b /\ to \notin r.acks /\ \A d \in (b + 1)..(to - 1) : d \in r.acks
<1> DEFINE C == {n \in (b + 1)..(b + 1 + Cardinality(r.acks)) : n \notin r.acks}
<1>1. r.acks \in SUBSET Nat /\ Cardinality(r.acks) \in Nat
  BY FS_CardinalityType DEF FileStates
<1>2. C \in SUBSET Nat /\ C # {}
  <2>1. \E n \in (b + 1)..(b + 1 + Cardinality(r.acks)) : n \notin r.acks
    BY <1>1, Beyond
  <2> QED
    BY <1>1, <2>1
<1>3. PICK c \in C : \A d \in C : c <= d
  BY Zenon, <1>2, Least
<1>4. \E k \in (b + 1)..(b + 1 + Cardinality(r.acks)) :
          k \notin r.acks /\ \A d \in (b + 1)..(k - 1) : d \in r.acks
  BY <1>1, <1>3
<1>5. /\ to \in (b + 1)..(b + 1 + Cardinality(r.acks))
      /\ to \notin r.acks /\ \A d \in (b + 1)..(to - 1) : d \in r.acks
  BY Zenon, <1>4 DEF DrainPendingAcks
<1> QED
  BY <1>1, <1>5

LEMMA AckFacts ==
    ASSUME NEW r \in FileStates, IsFiniteSet(r.acks), NEW b \in Nat, NEW k, k = AckBatch(r, b)
    PROVE  /\ k \in FileStates /\ k.where = r.where /\ k.send = r.send
           /\ k.inflight = IF r.inflight > 0 THEN r.inflight - 1 ELSE 0
           /\ b < r.next => k.next = r.next /\ k.acks = r.acks
           /\ b = r.next => /\ k.next > b /\ k.next \notin r.acks
                            /\ \A d \in (b + 1)..(k.next - 1) : d \in r.acks
                            /\ k.acks = {a \in r.acks : a > k.next}
           /\ b > r.next => k.next = r.next /\ k.acks = r.acks \cup {b}
<1> DEFINE left == IF r.inflight > 0 THEN r.inflight - 1 ELSE 0
           still == r.dup /\ left # 0
           to == DrainPendingAcks(r, b)
<1>1. /\ left \in Nat /\ still \in BOOLEAN /\ r.next \in Nat
      /\ r.acks \cup {b} \in SUBSET Nat /\ {a \in r.acks : a > to} \in SUBSET Nat
  BY DEF FileStates
<1>2. /\ to \in Nat /\ to > b /\ to \notin r.acks
      /\ \A d \in (b + 1)..(to - 1) : d \in r.acks
  BY DrainFacts
<1>3. b < r.next \/ b = r.next \/ b > r.next
  BY <1>1
<1> HIDE DEF left, still, to
<1>4. CASE b < r.next
  <2>1. k = [r EXCEPT !.inflight = left, !.dup = still]
    BY <1>4 DEF AckBatch, left, still
  <2>2. /\ k \in FileStates /\ k.where = r.where /\ k.send = r.send /\ k.inflight = left
        /\ k.next = r.next /\ k.acks = r.acks
    BY Zenon, <1>1, <2>1 DEF FileStates
  <2> QED
    BY <1>1, <1>4, <2>2 DEF left
<1>5. CASE b = r.next
  <2>1. k = [r EXCEPT !.inflight = left, !.dup = still, !.next = to, !.acks = {a \in r.acks : a > to}]
    BY <1>1, <1>5 DEF AckBatch, left, still, to
  <2>2. /\ k \in FileStates /\ k.where = r.where /\ k.send = r.send /\ k.inflight = left
        /\ k.next = to /\ k.acks = {a \in r.acks : a > to}
    BY Zenon, <1>1, <1>2, <2>1 DEF FileStates
  <2> QED
    BY <1>1, <1>2, <1>5, <2>2 DEF left
<1>6. CASE b > r.next
  <2>1. k = [r EXCEPT !.inflight = left, !.acks = r.acks \cup {b}]
    BY <1>1, <1>6 DEF AckBatch, left
  <2>2. /\ k \in FileStates /\ k.where = r.where /\ k.send = r.send /\ k.inflight = left
        /\ k.next = r.next /\ k.acks = r.acks \cup {b}
    BY Zenon, <1>1, <2>1 DEF FileStates
  <2> QED
    BY <1>1, <1>6, <2>2 DEF left
<1> QED
  BY <1>3, <1>4, <1>5, <1>6

(* The batches of a file in flight, before and after a step.                *)
LEMMA CarriedDef ==
    /\ \A f, b : b \in Carried(f) <=>
          \E p \in Peers : \E x \in peer[p].xacts : x.file = f /\ x.batch = b
    /\ \A f, b : b \in Carried(f)' <=>
          \E p \in Peers : \E x \in peer'[p].xacts : x.file = f /\ x.batch = b
BY DEF Carried

(* What NothingForgotten says of one file, and that it keeps while nothing  *)
(* that concerns the file changes; it holds of a file just opened.          *)
FileKept(f) ==
    /\ Carried(f) \cup file[f].acks = file[f].next..(file[f].send - 1)
    /\ Carried(f) \cap file[f].acks = {}
    /\ \A p, q \in Peers : \A x \in peer[p].xacts, y \in peer[q].xacts :
          x.file = f /\ y.file = f /\ x.batch = y.batch => p = q /\ x = y
    /\ file[f].inflight = Cardinality(Carried(f))

LEMMA AllFilesKept ==
    /\ NothingForgotten <=> \A f \in Range(open) : FileKept(f)
    /\ NothingForgotten' <=> \A f \in Range(open)' : FileKept(f)'
BY Zenon DEF NothingForgotten, FileKept

LEMMA FileSame ==
    ASSUME NEW f, FileKept(f), file'[f] = file[f],
           \A p \in Peers : \A x : x.file = f => (x \in peer'[p].xacts <=> x \in peer[p].xacts)
    PROVE  FileKept(f)'
<1>1. Carried(f)' = Carried(f)
  <2>1. \A b : b \in Carried(f)' <=> b \in Carried(f)
    BY CarriedDef
  <2> QED
    BY Zenon, <2>1
<1>2. \A p, q \in Peers : \A x \in peer'[p].xacts, y \in peer'[q].xacts :
          x.file = f /\ y.file = f /\ x.batch = y.batch => p = q /\ x = y
  BY DEF FileKept
<1> QED
  BY <1>1, <1>2 DEF FileKept

(* The transfers of a window are finitely many.                             *)
LEMMA FiniteWindow ==
    ASSUME NEW n \in Nat, NEW e \in Nat, NEW S, NEW T, S \cup T = n..(e - 1)
    PROVE  IsFiniteSet(S) /\ e \notin S
<1>1. n \in Int /\ e - 1 \in Int
  OBVIOUS
<1>2. IsFiniteSet(n..(e - 1))
  BY <1>1, FS_Interval
<1>3. S \subseteq n..(e - 1)
  OBVIOUS
<1>4. IsFiniteSet(S)
  BY <1>2, <1>3, FS_Subset
<1> QED
  BY <1>3, <1>4

(* CInv of a step, file by file.                                            *)
FileConfirmed(f) ==
    /\ IsFiniteSet(file[f].acks)
    /\ \A b \in 0..(file[f].next - 1) \cup file[f].acks : <<f, b>> \in accepted
    /\ file[f].where = "done" => \A b \in 0..(Batches[f] - 1) : <<f, b>> \in accepted

LEMMA CInvAssembles ==
    ASSUME TypeOK', \A p \in Peers : late'[p] = {} /\ Distinct(peer'[p].xacts),
           \A f \in Files : FileConfirmed(f)'
    PROVE  CInv'
BY Zenon DEF CInv, Confirmed, FileConfirmed

LEMMA CInvParts ==
    ASSUME CInv
    PROVE  /\ TypeOK /\ late \in [Peers -> SUBSET Requests]
           /\ \A p \in Peers : late[p] = {} /\ Distinct(peer[p].xacts)
           /\ \A f \in Files : FileConfirmed(f) /\ file[f] \in FileStates
BY Zenon DEF CInv, Confirmed, FileConfirmed, TypeOK

(* A file whose cursors start again, or stay, remains confirmed.            *)
LEMMA FileConfirmedKept ==
    ASSUME NEW f, FileConfirmed(f), accepted \subseteq accepted',
           \/ /\ file'[f].where = file[f].where /\ file'[f].next = file[f].next
              /\ file'[f].acks = file[f].acks
           \/ file'[f].where # "done" /\ file'[f].next = 0 /\ file'[f].acks = {}
    PROVE  FileConfirmed(f)'
BY FS_EmptySet DEF FileConfirmed

LEMMA BatchFile ==
    ASSUME CInv, NEW p \in Peers, NEW x \in peer[p].xacts, x.ptc # "release"
    PROVE  x.file \in Files /\ x.file # None /\ x.batch \in Nat
<1>1. x.file # None
  BY Zenon DEF CInv, Distinct
<1>2. x.file \in Files \cup {None} /\ x.batch \in Nat
  BY Zenon, PeerFacts
<1> QED
  BY <1>1, <1>2

(* The window of a file after the ack of batch b, one of those carried.     *)
InWindow(C, A, n, e, b) ==
    /\ A \in SUBSET Nat /\ n \in Nat /\ e \in Nat /\ b \in C
    /\ C \cup A = n..(e - 1) /\ C \cap A = {}

MovesTo(A, n, b, m, B) ==
    /\ m \in Nat
    /\ b = n => /\ m > b /\ m \notin A /\ \A d \in (b + 1)..(m - 1) : d \in A
                /\ B = {a \in A : a > m}
    /\ b > n => m = n /\ B = A \cup {b}

WindowAfter(C, e, b, m, B) ==
    /\ (C \ {b}) \cup B = m..(e - 1) /\ (C \ {b}) \cap B = {} /\ m <= e
    /\ Cardinality(C) > 0 /\ Cardinality(C) \in Nat
    /\ Cardinality(C \ {b}) = Cardinality(C) - 1
    /\ Cardinality(C \ {b}) = 0 => C \ {b} = {}

LEMMA AckWindow ==
    ASSUME NEW C, NEW A, NEW n, NEW e, NEW b, NEW m, NEW B,
           InWindow(C, A, n, e, b), MovesTo(A, n, b, m, B)
    PROVE  WindowAfter(C, e, b, m, B)
<1> USE DEF InWindow, MovesTo, WindowAfter
<1>1. b \in n..(e - 1) /\ b \notin A
  OBVIOUS
<1>2. /\ IsFiniteSet(C) /\ IsFiniteSet(C \ {b})
      /\ Cardinality(C \ {b}) = Cardinality(C) - 1
      /\ Cardinality(C) \in Nat /\ Cardinality(C \ {b}) \in Nat
  <2>1. IsFiniteSet(C)
    BY Zenon, FiniteWindow
  <2>2. IsFiniteSet(C \ {b}) /\ Cardinality(C \ {b}) = Cardinality(C) - 1
    BY Zenon, <2>1, FS_RemoveElement
  <2> QED
    BY Zenon, <2>1, <2>2, FS_CardinalityType
<1>3. CASE b = n
  <2>1. m <= e
    <3>1. SUFFICES ASSUME m > e PROVE FALSE
      OBVIOUS
    <3>2. e \in (b + 1)..(m - 1)
      BY <1>1, <3>1
    <3> QED
      BY <1>3, <3>2
  <2>2. \A d \in C \ {b} : d \in m..(e - 1) /\ d \notin B
    BY <1>1, <1>3
  <2>3. \A d \in B : d \in m..(e - 1)
    BY <1>1, <1>3
  <2>4. \A d \in m..(e - 1) : d \in C \ {b} \/ d \in B
    BY <1>1, <1>3
  <2> QED
    BY <1>2, <2>1, <2>2, <2>3, <2>4, FS_EmptySet
<1>4. CASE b > n
  BY <1>1, <1>2, <1>4, FS_EmptySet
<1> QED
  BY <1>1, <1>3, <1>4

(* The batch x is accepted.                                                 *)
Acks(p, x, r) ==
    /\ x.ptc # "release" /\ file[x.file].where = "open"
    /\ <<x.file, x.batch>> \in accepted'
    /\ file' = [file EXCEPT ![x.file] = MaybeFinish(x.file, AckBatch(file[x.file], x.batch))]
    /\ open' = IF MaybeFinish(x.file, AckBatch(file[x.file], x.batch)).where = "done"
               THEN Closed(x.file) ELSE open
    /\ peer' = [peer EXCEPT ![p] = r] /\ Distinct(r.xacts)
    /\ \A y : y.file # None => (y \in r.xacts <=> y \in peer[p].xacts /\ y # x)

AnswerFrame ==
    /\ mode' = mode /\ order' = order /\ active' = active /\ late' = late
    /\ accepted \subseteq accepted' /\ accepted' \subseteq Files \X Nat
    /\ pc' \in Pcs /\ faults' \in 0..MaxFaults

LEMMA BatchAcceptedCInv ==
    ASSUME CInv, NEW p \in Peers, NEW x \in peer[p].xacts, NEW r \in PeerStates,
           Acks(p, x, r), AnswerFrame
    PROVE  CInv'
<1>0. PICK f, b : f = x.file /\ b = x.batch
  BY Zenon
<1> DEFINE k == AckBatch(file[f], b)
<1>1. /\ TypeOK /\ f \in Files /\ b \in Nat /\ file[f] \in FileStates
      /\ FileConfirmed(f) /\ IsFiniteSet(file[f].acks)
  <2>1. f \in Files /\ b \in Nat
    BY Zenon, <1>0, BatchFile DEF Acks
  <2> QED
    BY <2>1, CInvParts DEF FileConfirmed
<1>2. file' = [file EXCEPT ![f] = MaybeFinish(f, k)] /\ <<f, b>> \in accepted'
  BY Zenon, <1>0 DEF Acks
<1> HIDE DEF k
<1>3. /\ k \in FileStates /\ k.where = file[f].where
      /\ b < file[f].next => k.next = file[f].next /\ k.acks = file[f].acks
      /\ b = file[f].next => /\ k.next > b /\ k.next \notin file[f].acks
                             /\ \A d \in (b + 1)..(k.next - 1) : d \in file[f].acks
                             /\ k.acks = {a \in file[f].acks : a > k.next}
      /\ b > file[f].next => k.next = file[f].next /\ k.acks = file[f].acks \cup {b}
  BY <1>1, AckFacts DEF k
<1>4. file[f].next \in Nat /\ file[f].acks \subseteq Nat /\ k.next \in Nat
  BY Zenon, <1>1, <1>3 DEF FileStates
<1>5. IsFiniteSet(k.acks)
  <2>1. IsFiniteSet(file[f].acks \cup {b})
    BY Zenon, <1>1, FS_AddElement
  <2>2. k.acks \subseteq file[f].acks \cup {b}
    BY <1>1, <1>3, <1>4
  <2> QED
    BY Zenon, <2>1, <2>2, FS_Subset
<1>6. \A d \in 0..(k.next - 1) \cup k.acks : <<f, d>> \in accepted'
  <2>1. \A d \in 0..(file[f].next - 1) \cup file[f].acks \cup {b} : <<f, d>> \in accepted'
    BY Zenon, <1>1, <1>2 DEF FileConfirmed, AnswerFrame
  <2>2. 0..(k.next - 1) \cup k.acks \subseteq 0..(file[f].next - 1) \cup file[f].acks \cup {b}
    BY <1>1, <1>3, <1>4
  <2> QED
    BY Zenon, <2>1, <2>2
<1>7. /\ FileAt("done") \in FileStates /\ FileAt("done").next = 0 /\ FileAt("done").acks = {}
      /\ FileAt("done").where = "done" /\ Batches[f] \in Nat
  <2>1. "done" \in Wheres /\ Batches[f] \in Nat
    BY Zenon, <1>1, ConstantsAssumption DEF Wheres
  <2> QED
    BY Zenon, <1>1, <2>1, FileOps
<1>8. /\ file' \in [Files -> FileStates] /\ file'[f] = MaybeFinish(f, k)
      /\ \A g \in Files \ {f} : file'[g] = file[g]
  BY Zenon, <1>1, <1>2, <1>3, <1>7 DEF MaybeFinish, TypeOK
<1>9. FileConfirmed(f)'
  <2>1. CASE k.next >= Batches[f] /\ k.inflight = 0
    <3>1. file'[f] = FileAt("done")
      BY Zenon, <1>8, <2>1 DEF MaybeFinish
    <3>2. /\ IsFiniteSet(file'[f].acks)
          /\ \A d \in 0..(file'[f].next - 1) \cup file'[f].acks : <<f, d>> \in accepted'
      <4>1. file'[f].next = 0 /\ file'[f].acks = {}
        BY Zenon, <1>7, <3>1
      <4> QED
        BY <4>1, FS_EmptySet
    <3>3. \A d \in 0..(Batches[f] - 1) : <<f, d>> \in accepted'
      BY <1>4, <1>6, <1>7, <2>1
    <3> QED
      BY Zenon, <3>2, <3>3 DEF FileConfirmed
  <2>2. CASE ~(k.next >= Batches[f] /\ k.inflight = 0)
    <3>1. file'[f] = k /\ k.where # "done"
      BY Zenon, <1>0, <1>3, <1>8, <2>2 DEF MaybeFinish, Acks
    <3> QED
      BY Zenon, <1>5, <1>6, <3>1 DEF FileConfirmed
  <2> QED
    BY <2>1, <2>2
<1>10. \A g \in Files : FileConfirmed(g)'
  BY Zenon, <1>8, <1>9, CInvParts, FileConfirmedKept DEF AnswerFrame
<1>11. open' \in Seq(Files) /\ peer' \in [Peers -> PeerStates]
  <2>1. open \in Seq(Files) /\ open' \in {open, Closed(f)}
    BY Zenon, <1>0, <1>1 DEF Acks, TypeOK
  <2>2. peer' \in [Peers -> PeerStates]
    BY <1>1 DEF Acks, TypeOK
  <2> QED
    BY Zenon, <2>1, <2>2, ClosedFacts
<1>12. TypeOK'
  BY Zenon, <1>1, <1>8, <1>11 DEF TypeOK, AnswerFrame, Pcs
<1>13. \A q \in Peers : late'[q] = {} /\ Distinct(peer'[q].xacts)
  BY <1>1, CInvParts DEF AnswerFrame, Acks, TypeOK
<1> QED
  BY Zenon, <1>10, <1>12, <1>13, CInvAssembles

LEMMA BatchAcceptedFInv ==
    ASSUME CInv, FInv, NEW p \in Peers, NEW x \in peer[p].xacts, NEW r \in PeerStates,
           Acks(p, x, r), AnswerFrame
    PROVE  FInv'
<1>0. PICK f, b, k : f = x.file /\ b = x.batch /\ k = AckBatch(file[f], b)
  BY Zenon
<1>1. /\ TypeOK /\ f \in Files /\ f # None /\ b \in Nat /\ f \in Range(open)
      /\ file[f] \in FileStates /\ IsFiniteSet(file[f].acks) /\ FileKept(f)
      /\ file[f].where = "open" /\ Range(open) \subseteq Files
  <2>1. f \in Files /\ f # None /\ b \in Nat
    BY Zenon, <1>0, BatchFile DEF Acks
  <2>2. f \in Range(open)
    BY <1>0, <2>1 DEF FInv, TransfersHaveFiles, FilesOf, Acks
  <2> QED
    BY Zenon, <1>0, <2>1, <2>2, CInvParts, OrderFacts, AllFilesKept DEF FileConfirmed, FInv, OpenList
<1>2. /\ file' = [file EXCEPT ![f] = MaybeFinish(f, k)]
      /\ open' = IF MaybeFinish(f, k).where = "done" THEN Closed(f) ELSE open
  BY Zenon, <1>0 DEF Acks
<1>3. /\ k \in FileStates /\ k.where = "open" /\ k.send = file[f].send
      /\ k.inflight = IF file[f].inflight > 0 THEN file[f].inflight - 1 ELSE 0
      /\ b = file[f].next => /\ k.next > b /\ k.next \notin file[f].acks
                             /\ \A d \in (b + 1)..(k.next - 1) : d \in file[f].acks
                             /\ k.acks = {a \in file[f].acks : a > k.next}
      /\ b > file[f].next => k.next = file[f].next /\ k.acks = file[f].acks \cup {b}
  BY <1>0, <1>1, AckFacts
<1>4. \A q \in Peers : \A y : y.file # None =>
          (y \in peer'[q].xacts <=> y \in peer[q].xacts /\ ~(q = p /\ y = x))
  <2>1. peer'[p] = r /\ \A q \in Peers \ {p} : peer'[q] = peer[q]
    BY Zenon, <1>1 DEF Acks, TypeOK
  <2> QED
    BY ZenonT(60), <2>1 DEF Acks
<1>5. Carried(f)' = Carried(f) \ {b} /\ b \in Carried(f)
  <2>1. b \in Carried(f)
    BY Zenon, <1>0, CarriedDef
  <2>2. \A d : d \in Carried(f)' => d \in Carried(f) \ {b}
    <3>1. ASSUME NEW q \in Peers, NEW y \in peer'[q].xacts, y.file = f
          PROVE  y \in peer[q].xacts /\ y.batch # b
      BY <1>0, <1>1, <1>4, <3>1 DEF FileKept
    <3> QED
      BY <3>1, CarriedDef
  <2>3. \A d : d \in Carried(f) \ {b} => d \in Carried(f)'
    <3>1. ASSUME NEW q \in Peers, NEW y \in peer[q].xacts, y.file = f, y.batch # b
          PROVE  y \in peer'[q].xacts
      BY Zenon, <1>0, <1>1, <1>4, <3>1
    <3> QED
      BY <3>1, CarriedDef
  <2> QED
    BY Zenon, <2>1, <2>2, <2>3
<1>6. /\ Carried(f)' \cup k.acks = k.next..(k.send - 1) /\ Carried(f)' \cap k.acks = {}
      /\ k.next <= k.send /\ k.inflight = Cardinality(Carried(f)')
      /\ k.inflight = 0 => Carried(f)' = {}
  <2>1. /\ file[f].acks \in SUBSET Nat /\ file[f].next \in Nat /\ file[f].send \in Nat
        /\ k.next \in Nat
    BY <1>1, <1>3 DEF FileStates
  <2>2. Carried(f) \cup file[f].acks = file[f].next..(file[f].send - 1)
        /\ Carried(f) \cap file[f].acks = {} /\ file[f].inflight = Cardinality(Carried(f))
    BY Zenon, <1>1 DEF FileKept
  <2>3. /\ (Carried(f) \ {b}) \cup k.acks = k.next..(file[f].send - 1)
        /\ (Carried(f) \ {b}) \cap k.acks = {} /\ k.next <= file[f].send
        /\ Cardinality(Carried(f)) > 0 /\ Cardinality(Carried(f)) \in Nat
        /\ Cardinality(Carried(f) \ {b}) = Cardinality(Carried(f)) - 1
        /\ Cardinality(Carried(f) \ {b}) = 0 => Carried(f) \ {b} = {}
    <3>1. InWindow(Carried(f), file[f].acks, file[f].next, file[f].send, b)
      BY Zenon, <1>5, <2>1, <2>2 DEF InWindow
    <3>2. MovesTo(file[f].acks, file[f].next, b, k.next, k.acks)
      BY Zenon, <1>3, <2>1 DEF MovesTo
    <3>3. WindowAfter(Carried(f), file[f].send, b, k.next, k.acks)
      BY Zenon, <3>1, <3>2, AckWindow
    <3> QED
      BY Zenon, <3>3 DEF WindowAfter
  <2> QED
    BY Zenon, <1>3, <1>5, <2>2, <2>3
<1>7. /\ file'[f] = MaybeFinish(f, k) /\ \A g \in Files \ {f} : file'[g] = file[g]
      /\ Range(order)' = Range(order) /\ Failover' = Failover
  <2>1. file'[f] = MaybeFinish(f, k) /\ \A g \in Files \ {f} : file'[g] = file[g]
    BY Zenon, <1>1, <1>2 DEF TypeOK
  <2> QED
    BY Zenon, <2>1 DEF AnswerFrame, Failover
<1>8. \A q \in Peers : FilesOf(peer'[q]) \subseteq FilesOf(peer[q])
  BY <1>4 DEF FilesOf
<1>9. Aside'
  <2>1. ASSUME NEW q \in Peers, q \notin Range(order) PROVE peer'[q].xacts = {}
    <3>1. q # p
      BY Zenon, <2>1 DEF FInv, Aside
    <3> QED
      BY <1>1, <2>1, <3>1 DEF FInv, Aside, Acks, TypeOK
  <2> QED
    BY ZenonT(60), <1>7, <1>8, <2>1 DEF FInv, Aside, AnswerFrame, PeerAt
<1>10. Pinned'
  BY <1>4, ConstantsAssumption DEF FInv, Pinned, Carries
<1>11. \A g \in Range(open) \ {f} : FileKept(g)'
  <2>1. ASSUME NEW g \in Range(open) \ {f}
        PROVE  /\ FileKept(g) /\ file'[g] = file[g]
               /\ \A q \in Peers : \A y : y.file = g => (y \in peer'[q].xacts <=> y \in peer[q].xacts)
    <3>1. FileKept(g) /\ file'[g] = file[g] /\ g # None
      BY ZenonT(60), <1>1, <1>7, AllFilesKept, ConstantsAssumption DEF FInv
    <3> QED
      BY Zenon, <1>0, <1>4, <3>1
  <2> QED
    BY Zenon, <2>1, FileSame
<1>12. \A q \in Peers : FilesOf(peer[q]) \subseteq Files
  BY Zenon, PeerFacts
<1>13. CASE k.next >= Batches[f] /\ k.inflight = 0
  <2>1. file'[f] = FileAt("done") /\ FileAt("done").where = "done"
    BY Zenon, <1>7, <1>13 DEF MaybeFinish, FileAt
  <2>2. open' = Closed(f)
    BY Zenon, <1>2, <1>7, <2>1
  <2>3. Range(open)' = Range(open) \ {f} /\ IsInjective(open)'
    BY Zenon, <1>1, <2>2, ClosedFacts DEF TypeOK, FInv, OpenList
  <2>4. OpenList' /\ Cursors'
    BY ZenonT(60), <1>1, <1>7, <2>3 DEF FInv, OpenList, Cursors
  <2>5. \A q \in Peers : f \notin FilesOf(peer'[q])
    BY <1>6, <1>13, CarriedDef DEF FilesOf
  <2>6. TransfersHaveFiles'
    BY Zenon, <1>7, <1>8, <1>12, <2>3, <2>5 DEF FInv, TransfersHaveFiles
  <2>7. NothingForgotten'
    BY Zenon, <1>11, <2>3, AllFilesKept
  <2> QED
    BY Zenon, <1>9, <1>10, <2>4, <2>6, <2>7 DEF FInv
<1>14. CASE ~(k.next >= Batches[f] /\ k.inflight = 0)
  <2>1. file'[f] = k /\ open' = open
    BY Zenon, <1>2, <1>3, <1>7, <1>14 DEF MaybeFinish
  <2>2. Range(open)' = Range(open) /\ IsInjective(open)'
    BY Zenon, <2>1 DEF FInv, OpenList
  <2>3. OpenList' /\ Cursors'
    BY Zenon, <1>1, <1>3, <1>6, <1>7, <2>1, <2>2 DEF FInv, OpenList, Cursors
  <2>4. TransfersHaveFiles'
    BY Zenon, <1>1, <1>7, <1>8, <1>12, <2>2 DEF FInv, TransfersHaveFiles
  <2>5. FileKept(f)'
    <3>1. \A q, u \in Peers : \A y \in peer'[q].xacts, z \in peer'[u].xacts :
            y.file = f /\ z.file = f /\ y.batch = z.batch => q = u /\ y = z
      BY <1>1, <1>4 DEF FileKept
    <3> QED
      BY Zenon, <1>6, <2>1, <3>1 DEF FileKept
  <2>6. NothingForgotten'
    BY Zenon, <1>11, <2>2, <2>5, AllFilesKept
  <2> QED
    BY Zenon, <1>9, <1>10, <2>3, <2>4, <2>6 DEF FInv
<1> QED
  BY <1>13, <1>14

-----------------------------------------------------------------------------
LEMMA XactOps ==
    ASSUME NEW q \in PeerStates, NEW S \in SUBSET Requests
    PROVE  [q EXCEPT !.xacts = S] \in PeerStates /\ [q EXCEPT !.xacts = S].xacts = S
BY DEF PeerStates

(* What the steps of this kind change apart from the peers.                 *)
Around ==
    /\ late' = late /\ mode' = mode /\ order' = order /\ open' = open
    /\ active' \in 0..(Len(order) - 1) /\ pc' \in Pcs /\ faults' \in 0..MaxFaults
    /\ accepted \subseteq accepted' /\ accepted' \subseteq Files \X Nat
    /\ file' \in [Files -> FileStates]

LEMMA AroundType ==
    ASSUME TypeOK, Around, peer' \in [Peers -> PeerStates] PROVE TypeOK'
BY Zenon DEF TypeOK, Around, Pcs

(* The operations on a peer, and the requests they leave it.                *)
LEMMA PeerOps ==
    ASSUME NEW q \in PeerStates
    PROVE  /\ SendEcho(q) \in PeerStates /\ SendEcho(q).xacts = q.xacts
           /\ NoteRx(q) \in PeerStates /\ NoteRx(q).xacts = q.xacts
           /\ \A b \in BOOLEAN : Reopen(q, b) \in PeerStates /\ Reopen(q, b).xacts = q.xacts
<1>1. SendEcho(q) \in PeerStates /\ SendEcho(q).xacts = q.xacts
  BY Zenon DEF PeerStates, SendEcho
<1>2. ASSUME NEW b \in BOOLEAN PROVE Reopen(q, b) \in PeerStates /\ Reopen(q, b).xacts = q.xacts
  BY DEF PeerStates, Reopen
<1>3. 0 \in 0..(FailoverAfter - 1)
  BY ConstantsAssumption
<1>4. NoteRx(q) \in PeerStates /\ NoteRx(q).xacts = q.xacts
  BY Zenon, <1>3 DEF PeerStates, NoteRx, States
<1> QED
  BY <1>1, <1>2, <1>4

LEMMA StateOps ==
    ASSUME NEW q \in PeerStates, NEW st \in States
    PROVE  [q EXCEPT !.state = st] \in PeerStates /\ [q EXCEPT !.state = st].xacts = q.xacts
BY DEF PeerStates

LEMMA PcTypes ==
    ASSUME TypeOK
    PROVE  Idle \in Pcs /\ Drain \in Pcs /\ \A d \in BOOLEAN : Advance(d) \in Pcs
<1>1. 0 \in 0..(Len(order) - 1) /\ pc.idx \in 0..(Len(order) - 1) /\ Len(order) \in Nat
  BY OrderFacts DEF TypeOK
<1>2. Idle \in Pcs /\ Drain \in Pcs
  BY <1>1 DEF Pcs, Idle, Drain
<1>3. ASSUME NEW d \in BOOLEAN, pc.idx + 1 < Len(order)
      PROVE  [at |-> "echo", idx |-> pc.idx + 1, drain |-> d] \in Pcs
  BY <1>1, <1>3 DEF Pcs
<1> QED
  BY Zenon, <1>2, <1>3 DEF Advance

LEMMA FaultType ==
    ASSUME TypeOK, NEW bad, Fault(bad) \/ faults' = faults PROVE faults' \in 0..MaxFaults
BY ConstantsAssumption DEF TypeOK, Fault

(* The rest of the invariant, which holds where the code keeps its promises: *)
(* the receivers' late answers, a reload with transfers in flight and a      *)
(* socket error in failover mode each break it.                              *)
Reliable == ~LateAnswers /\ ~BusyReload /\ "failover" \notin FailModes

LEMMA StateXactOps ==
    ASSUME NEW q \in PeerStates, NEW st \in States, NEW S \in SUBSET Requests
    PROVE  /\ [q EXCEPT !.state = st, !.xacts = S] \in PeerStates
           /\ [q EXCEPT !.state = st, !.xacts = S].xacts = S
BY Zenon DEF PeerStates

LEMMA NackOps ==
    ASSUME NEW r \in FileStates, NEW n \in {NackBatch(r), MarkPossiblyDup(NackBatch(r))}
    PROVE  /\ n \in FileStates
           /\ n.where = r.where /\ n.next = r.next /\ n.acks = {}
           /\ n.send = r.next /\ n.inflight = 0
<1>1. /\ NackBatch(r) \in FileStates /\ NackBatch(r).where = r.where
      /\ NackBatch(r).next = r.next /\ NackBatch(r).acks = {}
      /\ NackBatch(r).send = r.next /\ NackBatch(r).inflight = 0
  BY Zenon DEF FileStates, NackBatch
<1>2. ASSUME NEW k \in FileStates
      PROVE  /\ MarkPossiblyDup(k) \in FileStates /\ MarkPossiblyDup(k).where = k.where
             /\ MarkPossiblyDup(k).next = k.next /\ MarkPossiblyDup(k).acks = k.acks
             /\ MarkPossiblyDup(k).send = k.send /\ MarkPossiblyDup(k).inflight = k.inflight
  BY Zenon DEF FileStates, MarkPossiblyDup
<1> QED
  BY <1>1, <1>2

(* Where the round-robin cursor and the handler's program counter may go.   *)
LEMMA SwitchType ==
    ASSUME TypeOK, NEW q PROVE SwitchToNextPeer(q) \in 0..(Len(order) - 1)
<1> DEFINE n == Len(order)
           steps == {i \in 1..n : q[PeerAt((active + i) % n)].sock}
<1>1. n \in Nat \ {0} /\ active \in 0..(n - 1)
  BY OrderFacts DEF TypeOK
<1>2. CASE steps = {}
  BY <1>1, <1>2 DEF SwitchToNextPeer
<1>3. CASE steps # {}
  <2>1. steps \in SUBSET Nat
    BY <1>1
  <2>2. \E i \in steps : \A j \in steps : i <= j
    BY Zenon, <1>3, <2>1, Least
  <2> DEFINE k == CHOOSE i \in steps : \A j \in steps : i <= j
  <2>3. k \in Nat
    BY Zenon, <2>1, <2>2
  <2>4. SwitchToNextPeer(q) = (active + k) % n
    BY <1>3 DEF SwitchToNextPeer
  <2> HIDE DEF k, n
  <2> QED
    BY <1>1, <2>3, <2>4 DEF n
<1> QED
  BY Zenon, <1>2, <1>3

(* What a step that gives up on transfers does: the files in F are rewound, *)
(* and a peer keeps some of its requests, or sends them again.              *)
Rewound(F) ==
    \A f \in Files :
        /\ f \notin F => file'[f] = file[f]
        /\ f \in F => /\ file'[f].where = file[f].where /\ file'[f].next = file[f].next
                      /\ file'[f].send = file[f].next /\ file'[f].inflight = 0
                      /\ file'[f].acks = {}

Same(x, y) == x.seq = y.seq /\ x.file = y.file /\ x.batch = y.batch /\ x.ptc = y.ptc

Kept(S, T) ==
    /\ \A y \in T : \E x \in S : Same(x, y)
    /\ \A y, z \in T : y.seq = z.seq => y = z

LEMMA SubsetKept ==
    ASSUME NEW S, NEW T \in SUBSET S, Distinct(S) PROVE Kept(S, T)
BY DEF Kept, Same, Distinct

LEMMA RewindFacts ==
    ASSUME TypeOK, NEW F, NEW u, file' = Rewind(F, u)
    PROVE  file' \in [Files -> FileStates] /\ Rewound(F)
<1>1. ASSUME NEW f \in Files
      PROVE  /\ file'[f] = file[f] \/ file'[f] \in {NackBatch(file[f]), MarkPossiblyDup(NackBatch(file[f]))}
             /\ f \notin F => file'[f] = file[f]
             /\ f \in F => file'[f] \in {NackBatch(file[f]), MarkPossiblyDup(NackBatch(file[f]))}
  BY Zenon DEF Rewind
<1>2. \A f \in Files : file[f] \in FileStates
  BY DEF TypeOK
<1>3. \A f \in Files : file'[f] \in FileStates
  BY Zenon, <1>1, <1>2, NackOps
<1>4. Rewound(F)
  BY ZenonT(60), <1>1, <1>2, NackOps DEF Rewound
<1> QED
  BY Zenon, <1>3, <1>4 DEF Rewind

(* The steps that give up on the transfers of the files in F.               *)
Drops(F) ==
    /\ TypeOK' /\ Rewound(F) /\ accepted \subseteq accepted'
    /\ \A p \in Peers : late'[p] = {} /\ Kept(peer[p].xacts, peer'[p].xacts)
    /\ mode' = mode /\ order' = order /\ open' = open

Steady == active' = active \/ ~Failover \/ \A p \in Peers : FilesOf(peer'[p]) = {}

Complete(F) ==
    /\ Steady
    /\ \A p \in Peers :
        /\ \A y \in peer'[p].xacts : y.file \notin F
        /\ \A x \in peer[p].xacts :
              x.file \notin F \cup {None} => \E y \in peer'[p].xacts : Same(x, y)

(* The steps that give up on transfers, one by one.                         *)
GivesUp == \E F : Drops(F) /\ (FInv /\ Reliable => Complete(F))

LEMMA EchoOps ==
    ASSUME NEW q \in PeerStates, NEW opened \in BOOLEAN, NEW sent \in BOOLEAN,
           NEW recent \in BOOLEAN
    PROVE  /\ Redial(q, opened) \in PeerStates /\ Redial(q, opened).xacts = q.xacts
           /\ Supervised(q, recent, opened) \in PeerStates
           /\ Supervised(q, recent, opened).xacts =
                 IF MissedTooMany(q, recent) THEN {} ELSE q.xacts
           /\ Probed(q, sent) \in PeerStates /\ Probed(q, sent).xacts = q.xacts
<1>1. Redial(q, opened) \in PeerStates /\ Redial(q, opened).xacts = q.xacts
  BY Zenon, PeerOps DEF Redial
<1>2. Probed(q, sent) \in PeerStates /\ Probed(q, sent).xacts = q.xacts
  BY Zenon, PeerOps, StateOps DEF Probed, States
<1> DEFINE n == [q EXCEPT !.missed = Capped(Missed(q, recent))]
           counted == IF q.asked /\ q.sock THEN n ELSE q
           cut == [counted EXCEPT !.state = "down", !.xacts = {}]
<1>3. n \in PeerStates /\ n.xacts = q.xacts
  <2>1. Missed(q, recent) \in Nat
    BY ConstantsAssumption DEF PeerStates, Missed
  <2>2. Capped(Missed(q, recent)) \in 0..(FailoverAfter - 1)
    BY <2>1, ConstantsAssumption DEF Capped
  <2> QED
    BY Zenon, <2>2 DEF PeerStates
<1>4. counted \in PeerStates /\ counted.xacts = q.xacts
  BY Zenon, <1>3
<1>5. "down" \in States /\ {} \in SUBSET Requests
  BY DEF States
<1>6. Supervised(q, recent, opened) = IF MissedTooMany(q, recent) THEN Reopen(cut, opened) ELSE counted
  BY Zenon DEF Supervised
<1> HIDE DEF counted
<1>7. cut \in PeerStates /\ cut.xacts = {}
  BY Zenon, <1>4, <1>5, StateXactOps
<1> HIDE DEF cut
<1>8. Reopen(cut, opened) \in PeerStates /\ Reopen(cut, opened).xacts = {}
  BY Zenon, <1>7, PeerOps
<1> QED
  BY Zenon, <1>1, <1>2, <1>4, <1>6, <1>8

(* peer_rto_tick sends some requests again and gives up on the files in L.  *)
RtoFacts(q, r, L) ==
    /\ r \in PeerStates /\ Kept(q.xacts, r.xacts) /\ L \subseteq FilesOf(q)
    /\ \A y \in r.xacts : y.file \notin L
    /\ \A x \in q.xacts : x.file \notin L \cup {None} => \E y \in r.xacts : Same(x, y)

RtoLost(q, due, recent) == IF GoesDown(due, recent) THEN FilesOf(q) ELSE LostWith(due)

LEMMA RtoOps ==
    ASSUME NEW q \in PeerStates, Distinct(q.xacts), NEW due \in SUBSET q.xacts,
           NEW recent \in BOOLEAN, NEW opened \in BOOLEAN
    PROVE  /\ RtoFacts(q, RtoPeer(q, due, recent, opened), RtoLost(q, due, recent))
           /\ GoesDown(due, recent) => RtoPeer(q, due, recent, opened).xacts = {}
<1> DEFINE r == RtoPeer(q, due, recent, opened)
           L == RtoLost(q, due, recent)
<1>1. CASE GoesDown(due, recent)
  <2> DEFINE cut == [q EXCEPT !.state = "down", !.xacts = {}]
  <2>1. "down" \in States /\ {} \in SUBSET Requests
    BY DEF States
  <2>2. cut \in PeerStates /\ cut.xacts = {}
    BY Zenon, <2>1, StateXactOps
  <2>3. r = Reopen(cut, opened)
    BY Zenon, <1>1 DEF RtoPeer
  <2> HIDE DEF cut
  <2> HIDE DEF r
  <2>4. r \in PeerStates /\ r.xacts = {}
    BY Zenon, <2>2, <2>3, PeerOps
  <2>5. L = FilesOf(q)
    BY <1>1 DEF RtoLost
  <2> HIDE DEF L
  <2> QED
    BY Zenon, <1>1, <2>4, <2>5 DEF Kept, FilesOf, RtoFacts, r, L
<1>2. CASE ~GoesDown(due, recent)
  <2> DEFINE U == {y \in q.xacts \ Spent(due) : y.file \notin LostWith(due)}
             Again(x) == IF x \in due THEN [x EXCEPT !.retries = @ + 1] ELSE x
             S == {Again(x) : x \in U}
  <2>1. q.xacts \subseteq Requests
    BY DEF PeerStates
  <2>2. ASSUME NEW x \in U PROVE Again(x) \in Requests /\ Same(x, Again(x))
    <3>1. CASE x \in due
      <4>1. x \in Requests /\ x.retries + 1 \in 0..Retries
        BY <2>1, <3>1, ConstantsAssumption DEF Spent, Requests
      <4> QED
        BY Zenon, <3>1, <4>1 DEF Requests, Same
    <3>2. CASE x \notin due
      BY Zenon, <2>1, <3>2 DEF Same
    <3> QED
      BY <3>1, <3>2
  <2> HIDE DEF Again
  <2>3. S \in SUBSET Requests
    BY <2>2
  <2>4. r = [q EXCEPT !.xacts = S] /\ L = LostWith(due)
    BY <1>2 DEF RtoPeer, RtoLost, Again
  <2> HIDE DEF r, L
  <2>5. r \in PeerStates /\ r.xacts = S
    BY Zenon, <2>3, <2>4, XactOps
  <2>6. Kept(q.xacts, S)
    BY <2>2 DEF Kept, Same, Distinct
  <2>7. \A y \in S : y.file \notin L
    BY <2>2, <2>4 DEF Same
  <2>8. L \subseteq FilesOf(q)
    BY Zenon, <2>4 DEF LostWith, Spent, FilesOf
  <2>9. \A x \in q.xacts : x.file \notin L \cup {None} => \E y \in S : Same(x, y)
    <3>1. \A x \in q.xacts : x.file \notin L \cup {None} => x \in U
      BY <2>4 DEF LostWith
    <3> QED
      BY <2>2, <3>1
  <2> HIDE DEF S
  <2>10. RtoFacts(q, r, L)
    BY Zenon, <2>5, <2>6, <2>7, <2>8, <2>9 DEF RtoFacts
  <2> QED
    BY Zenon, <1>2, <2>10 DEF r, L
<1> QED
  BY Zenon, <1>1, <1>2

LEMMA RtoTickGivesUp ==
    ASSUME CInv, RtoTick PROVE GivesUp
<1>1. TypeOK /\ Scanned \subseteq Peers /\ active \in 0..(Len(order) - 1)
  BY OrderFacts DEF CInv, TypeOK, Scanned
<1>2. PICK a, s, o, c, d : RtoStep(a, s, o, c, d)
  BY ZenonT(60) DEF RtoTick
<1> DEFINE P == [p \in Peers |-> Asked(p, a, s)]
           L(p) == IF GoesDown(Due(o, p), p \in c) THEN FilesOf(peer[p]) ELSE LostWith(Due(o, p))
           F == LostFiles(o, c)
<1>3. mode' = mode /\ order' = order /\ open' = open /\ accepted' = accepted
  BY ZenonT(60) DEF RtoTick
<1>4. late' = late
  BY Zenon, <1>1, <1>2, PeerFacts DEF TypeOK, RtoStep
<1>5. \A p \in Peers : P[p] \in PeerStates /\ P[p].xacts = peer[p].xacts
  <2>1. \A p \in Peers : peer[p] \in PeerStates /\ (p \in s) \in BOOLEAN
    BY PeerFacts
  <2> QED
    BY Zenon, <2>1, EchoOps DEF Asked
<1>6. \A p \in Peers : peer'[p] = IF p \in Scanned
                       THEN RtoPeer(P[p], Due(o, p), p \in c, p \notin d) ELSE P[p]
  BY Zenon, <1>2 DEF RtoStep
<1> HIDE DEF P
<1>7. ASSUME NEW p \in Scanned
      PROVE  /\ RtoFacts(peer[p], peer'[p], L(p))
             /\ GoesDown(Due(o, p), p \in c) => peer'[p].xacts = {}
  <2>1. p \in Peers /\ P[p] \in PeerStates /\ P[p].xacts = peer[p].xacts
    BY Zenon, <1>1, <1>5
  <2>2. Distinct(P[p].xacts) /\ Due(o, p) \in SUBSET P[p].xacts /\ FilesOf(P[p]) = FilesOf(peer[p])
    BY Zenon, <2>1 DEF CInv, Due, FilesOf
  <2> DEFINE rec == p \in c
             op == p \notin d
  <2>3. peer'[p] = RtoPeer(P[p], Due(o, p), rec, op)
    BY Zenon, <1>6, <2>1
  <2>4. L(p) = RtoLost(P[p], Due(o, p), rec)
    BY <2>2 DEF RtoLost
  <2>5. rec \in BOOLEAN /\ op \in BOOLEAN
    OBVIOUS
  <2> HIDE DEF L, rec, op
  <2>6. /\ RtoFacts(P[p], RtoPeer(P[p], Due(o, p), rec, op), RtoLost(P[p], Due(o, p), rec))
        /\ GoesDown(Due(o, p), rec) => RtoPeer(P[p], Due(o, p), rec, op).xacts = {}
    BY Zenon, <2>1, <2>2, <2>5, RtoOps
  <2>7. RtoFacts(P[p], peer'[p], L(p)) /\ (GoesDown(Due(o, p), rec) => peer'[p].xacts = {})
    BY Zenon, <2>3, <2>4, <2>6
  <2>8. RtoFacts(peer[p], peer'[p], L(p))
    BY Zenon, <2>1, <2>2, <2>7 DEF RtoFacts
  <2> QED
    BY Zenon, <2>7, <2>8 DEF rec
<1>8. ASSUME NEW p \in Peers, p \notin Scanned
      PROVE  peer'[p] \in PeerStates /\ peer'[p].xacts = peer[p].xacts
  BY Zenon, <1>5, <1>6, <1>8
<1>9. F = UNION {L(p) : p \in Scanned}
  BY Zenon DEF LostFiles
<1>10. \A p \in Scanned : p \in GaveUp(o) \ c <=> GoesDown(Due(o, p), p \in c)
  BY DEF GaveUp, GoesDown
<1> HIDE DEF L, F
<1>11. \A p \in Peers : peer'[p] \in PeerStates /\ Kept(peer[p].xacts, peer'[p].xacts)
  BY Zenon, <1>7, <1>8, SubsetKept DEF CInv, RtoFacts
<1>12. file' \in [Files -> FileStates] /\ Rewound(F)
  BY Zenon, <1>1, <1>2, RewindFacts DEF F, RtoStep
<1>13. faults' \in 0..MaxFaults /\ active' \in 0..(Len(order) - 1) /\ pc' \in Pcs
  BY Zenon, <1>1, <1>2, FaultType, SwitchType, PcTypes DEF RtoStep
<1>14. TypeOK'
  <2>1. Around
    BY Zenon, <1>1, <1>3, <1>4, <1>12, <1>13 DEF Around, TypeOK
  <2>2. peer' \in [Peers -> PeerStates]
    BY Zenon, <1>2, <1>11 DEF RtoStep
  <2> QED
    BY Zenon, <1>1, <2>1, <2>2, AroundType
<1>15. Drops(F)
  <2>1. \A p \in Peers : late'[p] = {}
    BY Zenon, <1>4, PeerFacts
  <2> QED
    BY Zenon, <1>3, <1>11, <1>12, <1>14, <2>1 DEF Drops
<1>16. ASSUME FInv PROVE Complete(F)
  <2>1. \A p \in Peers : FilesOf(peer'[p]) \subseteq FilesOf(peer[p])
    BY <1>11 DEF Kept, Same, FilesOf
  <2>2. Steady
    <3>1. SUFFICES ASSUME active' # active, Failover
                   PROVE  \A k \in Peers : FilesOf(peer'[k]) = {}
      BY Zenon DEF Steady
    <3>2. Scanned = {PeerAt(active)} /\ GaveUp(o) \ c # {}
      BY Zenon, <1>2, <3>1 DEF Scanned, RtoStep
    <3>3. peer'[PeerAt(active)].xacts = {}
      BY Zenon, <1>7, <1>10, <3>2 DEF GaveUp
    <3>4. FilesOf(peer'[PeerAt(active)]) = {}
      BY Zenon, <3>3 DEF FilesOf
    <3> QED
      BY Zenon, <2>1, <3>1, <3>4, <1>16 DEF FInv, Aside
  <2>3. ASSUME NEW p \in Peers, NEW y \in peer'[p].xacts, y.file \in F PROVE FALSE
    <3>1. PICK k \in Scanned : y.file \in L(k)
      BY Zenon, <1>9, <2>3
    <3>2. y.file \in FilesOf(peer[k]) /\ y.file # None /\ k \in Peers
      BY Zenon, <1>1, <1>7, <3>1 DEF FilesOf, RtoFacts
    <3>3. Carries(peer[p], y.file)
      BY Zenon, <1>11 DEF Kept, Same, Carries
    <3>4. k = p
      BY Zenon, <1>16, <3>2, <3>3, PeerFacts
    <3> QED
      BY Zenon, <1>7, <3>1, <3>4 DEF RtoFacts
  <2>4. ASSUME NEW p \in Peers, NEW x \in peer[p].xacts, x.file \notin F \cup {None}
        PROVE  \E y \in peer'[p].xacts : Same(x, y)
    <3>1. CASE p \in Scanned
      BY Zenon, <1>7, <1>9, <2>4, <3>1 DEF RtoFacts
    <3>2. CASE p \notin Scanned
      BY <1>8, <3>2 DEF Same
    <3> QED
      BY Zenon, <3>1, <3>2
  <2> QED
    BY Zenon, <2>2, <2>3, <2>4 DEF Complete
<1> QED
  BY Zenon, <1>15, <1>16 DEF GivesUp

-----------------------------------------------------------------------------
LEMMA UnchangedRewound ==
    ASSUME TypeOK, file' = file PROVE file' \in [Files -> FileStates] /\ Rewound({})
BY Zenon DEF TypeOK, Rewound

LEMMA OnePeer ==
    ASSUME CInv, Around, NEW F, Rewound(F),
           NEW p \in Peers, NEW r \in PeerStates, peer' = [peer EXCEPT ![p] = r],
           r.xacts \subseteq peer[p].xacts,
           \A x \in peer[p].xacts : x.file \notin F \cup {None} => x \in r.xacts,
           \A x \in r.xacts : x.file \notin F,
           FInv /\ Reliable => Steady /\ \A q \in Peers \ {p}, f \in F : ~Carries(peer[q], f)
    PROVE  Drops(F) /\ (FInv /\ Reliable => Complete(F))
<1>1. peer \in [Peers -> PeerStates]
  BY Zenon DEF CInv, TypeOK
<1>2. peer' \in [Peers -> PeerStates]
  BY Zenon, <1>1
<1>3. TypeOK'
  BY Zenon, <1>2, AroundType DEF CInv
<1>4. peer'[p] = r /\ \A q \in Peers : q # p => peer'[q] = peer[q]
  BY Zenon, <1>1
<1>5. \A q \in Peers : peer'[q].xacts \subseteq peer[q].xacts
  BY <1>4
<1>6. \A q \in Peers : Kept(peer[q].xacts, peer'[q].xacts)
  BY Zenon, <1>5, SubsetKept DEF CInv
<1>7. Drops(F)
  BY Zenon, <1>3, <1>6 DEF Drops, Around, CInv
<1>8. ASSUME FInv, Reliable PROVE Complete(F)
  BY Zenon, <1>4, <1>8 DEF Complete, Same, Carries
<1> QED
  BY Zenon, <1>7, <1>8

LEMMA EchoTickGivesUp ==
    ASSUME CInv, EchoTick PROVE GivesUp
<1> DEFINE p == PeerAt(pc.idx)
<1>1. TypeOK /\ p \in Peers /\ p \in Range(order)
  <2>1. TypeOK /\ pc.idx \in 0..(Len(order) - 1)
    BY Zenon DEF CInv, TypeOK
  <2> QED
    BY <2>1, OrderFacts
<1>2. peer[p] \in PeerStates /\ late[p] = {}
  BY Zenon, <1>1, PeerFacts
<1>3. PICK opened \in Outcomes, sent \in Outcomes, recent \in RecentlyAnswered(peer[p]) :
        LET q == Redial(peer[p], opened)
            down == MissedTooMany(q, recent)
            cut == Supervised(q, recent, opened)
        IN  /\ Fault(down \/ ~opened \/ ~sent)
            /\ peer' = [peer EXCEPT ![p] = IF cut.sock THEN Probed(cut, sent) ELSE cut]
            /\ file' = IF down THEN Rewind(FilesOf(peer[p]), TRUE) ELSE file
            /\ active' = IF down /\ Failover /\ active = pc.idx
                         THEN SwitchToNextPeer(peer) ELSE active
            /\ late' = IF down \/ ~peer[p].sock THEN [late EXCEPT ![p] = {}] ELSE late
            /\ pc' = Advance(pc.drain \/ (cut.sock /\ sent /\ cut.state = "down"))
  BY Zenon DEF EchoTick
<1> DEFINE q == Redial(peer[p], opened)
           down == MissedTooMany(q, recent)
           cut == Supervised(q, recent, opened)
           r == IF cut.sock THEN Probed(cut, sent) ELSE cut
           F == IF down THEN FilesOf(peer[p]) ELSE {}
<1>4. opened \in BOOLEAN /\ sent \in BOOLEAN /\ recent \in BOOLEAN
  BY Zenon DEF Outcomes, RecentlyAnswered
<1>5. /\ mode' = mode /\ order' = order /\ open' = open /\ accepted' = accepted
  BY Zenon DEF EchoTick
<1>6. /\ Fault(down \/ ~opened \/ ~sent) /\ peer' = [peer EXCEPT ![p] = r]
      /\ file' = IF down THEN Rewind(FilesOf(peer[p]), TRUE) ELSE file
      /\ active' = IF down /\ Failover /\ active = pc.idx
                   THEN SwitchToNextPeer(peer) ELSE active
      /\ late' = IF down \/ ~peer[p].sock THEN [late EXCEPT ![p] = {}] ELSE late
      /\ pc' = Advance(pc.drain \/ (cut.sock /\ sent /\ cut.state = "down"))
  BY Zenon, <1>3
<1>7. r \in PeerStates /\ r.xacts = IF down THEN {} ELSE peer[p].xacts
  <2>1. q \in PeerStates /\ q.xacts = peer[p].xacts
    BY Zenon, <1>2, <1>4, EchoOps
  <2> HIDE DEF q
  <2>2. cut \in PeerStates /\ cut.xacts = IF down THEN {} ELSE peer[p].xacts
    <3>1. cut \in PeerStates /\ cut.xacts = IF down THEN {} ELSE q.xacts
      BY ZenonT(60), <1>4, <2>1, EchoOps
    <3> QED
      BY Zenon, <2>1, <3>1
  <2> HIDE DEF cut
  <2>3. Probed(cut, sent) \in PeerStates /\ Probed(cut, sent).xacts = cut.xacts
    BY Zenon, <1>4, <2>2, EchoOps
  <2> QED
    BY Zenon, <2>2, <2>3
<1> HIDE DEF p, q, down, cut, r
<1>8. late' = late
  BY <1>1, <1>2, <1>6 DEF TypeOK
<1>9. faults' \in 0..MaxFaults /\ active' \in 0..(Len(order) - 1) /\ pc' \in Pcs
  <2>1. active \in 0..(Len(order) - 1)
    BY Zenon, <1>1 DEF TypeOK
  <2>2. pc.drain \in BOOLEAN
    BY Zenon, <1>1 DEF TypeOK
  <2> QED
    BY Zenon, <1>1, <1>6, <2>1, <2>2, FaultType, SwitchType, PcTypes
<1>10. file' \in [Files -> FileStates] /\ Rewound(F)
  <2>1. CASE down
    BY Zenon, <1>1, <1>6, <2>1, RewindFacts
  <2>2. CASE ~down
    BY Zenon, <1>1, <1>6, <2>2, UnchangedRewound
  <2> QED
    BY Zenon, <2>1, <2>2
<1>11. Around
  BY Zenon, <1>1, <1>5, <1>8, <1>9, <1>10 DEF Around, TypeOK
<1>12. /\ r.xacts \subseteq peer[p].xacts
       /\ \A x \in peer[p].xacts : x.file \notin F \cup {None} => x \in r.xacts
       /\ \A x \in r.xacts : x.file \notin F
       /\ F \subseteq FilesOf(peer[p])
  BY Zenon, <1>7 DEF FilesOf
<1>13. FInv => Steady
  <2>1. SUFFICES ASSUME FInv, active' # active, Failover PROVE \A k \in Peers : FilesOf(peer'[k]) = {}
    BY Zenon DEF Steady
  <2>2. down /\ p = PeerAt(active)
    BY Zenon, <1>6, <2>1 DEF p
  <2>3. r.xacts = {} /\ FilesOf(r) = {}
    BY Zenon, <1>7, <2>2 DEF FilesOf
  <2>4. peer \in [Peers -> PeerStates]
    BY Zenon, <1>1 DEF TypeOK
  <2> QED
    BY Zenon, <1>1, <1>6, <2>1, <2>2, <2>3, <2>4 DEF FInv, Aside
<1> HIDE DEF F
<1>14. FInv => \A k \in Peers \ {p}, f \in F : ~Carries(peer[k], f)
  BY Zenon, <1>1, <1>12, PeerFacts
<1>15. Drops(F) /\ (FInv /\ Reliable => Complete(F))
  BY ZenonT(60), <1>1, <1>6, <1>7, <1>10, <1>11, <1>12, <1>13, <1>14, OnePeer
<1> QED
  BY Zenon, <1>15 DEF GivesUp

-----------------------------------------------------------------------------
LEMMA CursorType ==
    ASSUME TypeOK, NEW f, NEW p \in Range(order)
    PROVE  CursorAfter(f, p) \in 0..(Len(order) - 1)
<1>1. Len(order) \in Nat \ {0} /\ active \in 0..(Len(order) - 1) /\ order \in Seq(Peers)
  BY Zenon, OrderFacts DEF TypeOK
<1> DEFINE k == CHOOSE i \in 1..Len(order) : order[i] = p
<1>2. k \in 1..Len(order)
  BY <1>1 DEF Range
<1>3. CursorAfter(f, p) \in {active, k % Len(order)}
  BY DEF CursorAfter
<1> HIDE DEF k
<1> QED
  BY <1>1, <1>2, <1>3

(* The peer chosen for a file is the only one that may carry it.            *)
LEMMA PickAlone ==
    ASSUME CInv, FInv, NEW f \in Files, NEW p \in Range(order), SelectPeer(f, p),
           NEW q \in Peers \ {p}
    PROVE  ~Carries(peer[q], f)
<1>1. f # None /\ p \in Peers
  BY Zenon, OrderFacts, ConstantsAssumption DEF CInv
<1>2. SUFFICES ASSUME Carries(peer[q], f) PROVE FALSE
  OBVIOUS
<1>3. peer[q].xacts # {} /\ FilesOf(peer[q]) # {}
  BY Zenon, <1>1, <1>2 DEF Carries, FilesOf
<1>4. CASE Failover
  BY <1>3, <1>4 DEF FInv, Aside, SelectPeer
<1>5. CASE ~Failover
  <2>1. q \in Holders(f)
    BY <1>2, <1>3 DEF FInv, Aside, Holders
  <2>2. Carries(peer[p], f)
    BY Zenon, <1>5, <2>1 DEF SelectPeer, Holders
  <2> QED
    BY Zenon, <1>1, <1>2, <2>2 DEF FInv, Pinned
<1> QED
  BY Zenon, <1>4, <1>5

LEMMA AnswerFacts ==
    ASSUME CInv, NEW p \in Peers, NEW m, NEW ok \in BOOLEAN, Answers(p, m, ok),
           NEW x \in Found(p, m)
    PROVE  /\ x = m /\ x \in peer[p].xacts /\ p \in Range(order)
           /\ mode' = mode /\ order' = order /\ active' = active /\ late' = late
           /\ accepted \subseteq accepted' /\ accepted' \subseteq Files \X Nat
           /\ ok /\ x.file # None => <<x.file, x.batch>> \in accepted'
<1>1. x \in peer[p].xacts /\ m \in peer[p].xacts /\ x.seq = m.seq
  BY Zenon, PeerFacts DEF Found, Answers
<1>2. x = m
  BY Zenon, <1>1 DEF CInv, Distinct
<1>3. accepted \subseteq Files \X Nat
  BY Zenon DEF CInv, TypeOK
<1>4. accepted \subseteq accepted' /\ accepted' \subseteq Files \X Nat
  BY <1>1, <1>2, <1>3, PeerFacts DEF Answers
<1> QED
  BY Zenon, <1>1, <1>2, <1>4 DEF Answers

LEMMA FreeFacts ==
    ASSUME NEW q \in PeerStates, NEW x
    PROVE  FreeXact(q, x) \in PeerStates /\ FreeXact(q, x).xacts = q.xacts \ {x}
<1>1. q.xacts \ {x} \in SUBSET Requests
  BY DEF PeerStates
<1> QED
  BY Zenon, <1>1, XactOps DEF FreeXact

LEMMA WithoutFacts ==
    ASSUME NEW q \in PeerStates, NEW f
    PROVE  Without(q, f) \in PeerStates /\ Without(q, f).xacts = {x \in q.xacts : x.file # f}
<1>1. {x \in q.xacts : x.file # f} \in SUBSET Requests
  BY DEF PeerStates
<1> QED
  BY Zenon, <1>1, XactOps DEF Without

LEMMA StaleGivesUp ==
    ASSUME CInv, NEW p \in Peers, StaleResponse(p) \/ ReceiverRestarts(p) PROVE GivesUp
<1>1. TypeOK /\ peer[p] \in PeerStates
  BY Zenon, PeerFacts DEF CInv
<1>2. PICK r \in PeerStates : r.xacts = peer[p].xacts /\ peer' = [peer EXCEPT ![p] = r]
  <2>1. CASE StaleResponse(p)
    BY Zenon, <1>1, <2>1, PeerOps DEF StaleResponse
  <2>2. CASE ReceiverRestarts(p)
    <3> DEFINE r == [peer[p] EXCEPT !.known = "old"]
    <3>1. r \in PeerStates /\ r.xacts = peer[p].xacts
      BY <1>1 DEF PeerStates
    <3>2. peer' = [peer EXCEPT ![p] = r]
      BY Zenon, <2>2 DEF ReceiverRestarts
    <3> QED
      BY Zenon, <3>1, <3>2
  <2> QED
    BY Zenon, <2>1, <2>2
<1>3. /\ late' = late /\ mode' = mode /\ order' = order /\ open' = open /\ active' = active
      /\ accepted' = accepted /\ file' = file /\ pc' = pc
  BY Zenon DEF StaleResponse, ReceiverRestarts
<1>4. faults' \in 0..MaxFaults
  BY Zenon, <1>1, FaultType DEF StaleResponse, ReceiverRestarts
<1>5. Around /\ Rewound({}) /\ Steady
  BY Zenon, <1>1, <1>3, <1>4, UnchangedRewound DEF Around, TypeOK, Pcs, Steady
<1>6. /\ r.xacts \subseteq peer[p].xacts
      /\ \A x \in peer[p].xacts : x.file \notin {} \cup {None} => x \in r.xacts
      /\ \A x \in r.xacts : x.file \notin {}
      /\ \A q \in Peers \ {p}, f \in {} : ~Carries(peer[q], f)
  BY <1>2
<1>7. Drops({}) /\ (FInv /\ Reliable => Complete({}))
  BY Zenon, <1>2, <1>5, <1>6, OnePeer
<1> QED
  BY Zenon, <1>7 DEF GivesUp

LEMMA EchoGivesUp ==
    ASSUME CInv, NEW p \in Peers, ~LateAnswers, EchoResponse(p) PROVE GivesUp
<1>1. TypeOK /\ peer[p] \in PeerStates
  BY Zenon, PeerFacts DEF CInv
<1>0. PICK recovery \in BOOLEAN :
        LET restarted == recovery /\ peer[p].known = "old"
            heard == [NoteRx(peer[p]) EXCEPT !.asked = FALSE,
                                             !.known = IF recovery THEN "current" ELSE @]
        IN  /\ peer' = [peer EXCEPT ![p] = IF restarted THEN [heard EXCEPT !.xacts = {}] ELSE heard]
            /\ file' = IF restarted THEN Rewind(FilesOf(peer[p]), TRUE) ELSE file
            /\ late' = IF restarted /\ LateAnswers
                       THEN [late EXCEPT ![p] = late[p] \cup peer[p].xacts] ELSE late
  BY Zenon DEF EchoResponse
<1> DEFINE restarted == recovery /\ peer[p].known = "old"
           heard == [NoteRx(peer[p]) EXCEPT !.asked = FALSE,
                                            !.known = IF recovery THEN "current" ELSE @]
           r == IF restarted THEN [heard EXCEPT !.xacts = {}] ELSE heard
           F == IF restarted THEN FilesOf(peer[p]) ELSE {}
<1>2. heard \in PeerStates /\ heard.xacts = peer[p].xacts
  <2>1. NoteRx(peer[p]) \in PeerStates /\ NoteRx(peer[p]).xacts = peer[p].xacts
    BY <1>1, PeerOps
  <2> QED
    BY Zenon, <2>1 DEF PeerStates
<1>3. /\ late' = late /\ mode' = mode /\ order' = order /\ open' = open /\ active' = active
      /\ accepted' = accepted /\ faults' = faults /\ pc' = Drain
      /\ peer' = [peer EXCEPT ![p] = r]
  BY Zenon, <1>0 DEF EchoResponse
<1>4. r \in PeerStates /\ r.xacts = IF restarted THEN {} ELSE peer[p].xacts
  <2>1. {} \in SUBSET Requests
    OBVIOUS
  <2> HIDE DEF heard
  <2>2. [heard EXCEPT !.xacts = {}] \in PeerStates /\ [heard EXCEPT !.xacts = {}].xacts = {}
    BY ZenonT(60), <1>2, <2>1, XactOps
  <2> QED
    BY Zenon, <1>2, <2>2
<1>5. file' \in [Files -> FileStates] /\ Rewound(F)
  <2>1. CASE restarted
    <3>1. file' = Rewind(FilesOf(peer[p]), TRUE)
      BY Zenon, <1>0, <2>1
    <3> QED
      BY Zenon, <1>1, <2>1, <3>1, RewindFacts
  <2>2. CASE ~restarted
    BY Zenon, <1>0, <1>1, <2>2, UnchangedRewound
  <2> QED
    BY Zenon, <2>1, <2>2
<1>6. Around /\ Steady
  BY Zenon, <1>1, <1>3, <1>5, PcTypes DEF Around, TypeOK, Steady
<1>7. /\ r.xacts \subseteq peer[p].xacts
      /\ \A x \in peer[p].xacts : x.file \notin F \cup {None} => x \in r.xacts
      /\ \A x \in r.xacts : x.file \notin F
      /\ F \subseteq FilesOf(peer[p])
  <2> HIDE DEF r
  <2> QED
    BY Zenon, <1>4 DEF FilesOf
<1> HIDE DEF r, F
<1>8. FInv => \A q \in Peers \ {p}, f \in F : ~Carries(peer[q], f)
  BY Zenon, <1>7, PeerFacts
<1>9. Drops(F) /\ (FInv /\ Reliable => Complete(F))
  BY Zenon, <1>3, <1>4, <1>5, <1>6, <1>7, <1>8, OnePeer
<1> QED
  BY Zenon, <1>9 DEF GivesUp

(* The answer to a Release frees it, one that loses a file frees its window. *)
LEMMA ReleaseFreed ==
    ASSUME CInv, Around, active' = active, Rewound({}), NEW p \in Peers,
           NEW x \in peer[p].xacts, x.file = None, NEW r \in PeerStates,
           r.xacts = peer[p].xacts \ {x}, peer' = [peer EXCEPT ![p] = r]
    PROVE  GivesUp
<1>1. /\ r.xacts \subseteq peer[p].xacts
      /\ \A y \in peer[p].xacts : y.file \notin {} \cup {None} => y \in r.xacts
      /\ \A y \in r.xacts : y.file \notin {}
      /\ \A q \in Peers \ {p}, f \in {} : ~Carries(peer[q], f)
  BY Zenon
<1>2. Steady
  BY DEF Steady
<1>3. Drops({}) /\ (FInv /\ Reliable => Complete({}))
  BY Zenon, <1>1, <1>2, OnePeer
<1> QED
  BY Zenon, <1>3 DEF GivesUp

LEMMA WindowFreed ==
    ASSUME CInv, Around, NEW f \in Files, Rewound({f}), NEW p \in Peers,
           NEW r \in PeerStates, peer' = [peer EXCEPT ![p] = r],
           r.xacts = {y \in peer[p].xacts : y.file # f},
           FInv /\ Reliable => Steady /\ \A q \in Peers \ {p} : ~Carries(peer[q], f)
    PROVE  GivesUp
<1> DEFINE F == {f}
<1>1. /\ r.xacts \subseteq peer[p].xacts
      /\ \A y \in peer[p].xacts : y.file \notin F \cup {None} => y \in r.xacts
      /\ \A y \in r.xacts : y.file \notin F
      /\ FInv /\ Reliable => Steady /\ \A q \in Peers \ {p}, g \in F : ~Carries(peer[q], g)
      /\ Rewound(F)
  OBVIOUS
<1> HIDE DEF F
<1>2. Drops(F) /\ (FInv /\ Reliable => Complete(F))
  BY Zenon, <1>1, OnePeer
<1> QED
  BY Zenon, <1>2 DEF GivesUp

LEMMA AnswerGivesUp ==
    ASSUME CInv, NEW p \in Peers, NEW m,
           Rejected(p, m) \/ ReleaseAccepted(p, m) \/ AckLost(p, m)
    PROVE  GivesUp
<1>1. TypeOK /\ NoteRx(peer[p]) \in PeerStates /\ NoteRx(peer[p]).xacts = peer[p].xacts
  BY PeerFacts, PeerOps DEF CInv
<1>2. \A x : /\ FreeXact(NoteRx(peer[p]), x) \in PeerStates
             /\ FreeXact(NoteRx(peer[p]), x).xacts = peer[p].xacts \ {x}
  BY Zenon, <1>1, FreeFacts
<1>3. \A f : /\ Without(NoteRx(peer[p]), f) \in PeerStates
             /\ Without(NoteRx(peer[p]), f).xacts = {y \in peer[p].xacts : y.file # f}
  BY Zenon, <1>1, WithoutFacts
<1> DEFINE Freed(x) ==
             /\ x.file = None /\ \E u : file' = Rewind({x.file} \ {None}, u) \/ file' = file
             /\ peer' = [peer EXCEPT ![p] = FreeXact(NoteRx(peer[p]), x)]
           Lost(x) ==
             /\ x.file # None
             /\ \E u : file' = Rewind({x.file} \ {None}, u) \/ file' = Rewind({x.file}, u)
             /\ peer' = [peer EXCEPT ![p] = Without(NoteRx(peer[p]), x.file)]
<1>4. PICK x \in Found(p, m) : Freed(x) \/ Lost(x)
  <2>1. \A x \in Found(p, m) : x \in peer[p].xacts /\ (x.ptc = "release" <=> x.file = None)
    BY Zenon DEF Found, CInv, Distinct
  <2>2. CASE Rejected(p, m)
    BY Zenon, <2>2 DEF Rejected
  <2>3. CASE ReleaseAccepted(p, m)
    BY Zenon, <2>1, <2>3 DEF ReleaseAccepted
  <2>4. CASE AckLost(p, m)
    BY Zenon, <2>1, <2>4 DEF AckLost
  <2> QED
    BY Zenon, <2>2, <2>3, <2>4
<1>5. /\ x \in peer[p].xacts /\ late' = late /\ mode' = mode /\ order' = order
      /\ active' = active /\ accepted \subseteq accepted' /\ accepted' \subseteq Files \X Nat
  BY Zenon, AnswerFacts DEF Rejected, ReleaseAccepted, AckLost
<1>6. pc' = Drain /\ open' = open /\ (Fault(TRUE) \/ faults' = faults)
  BY Zenon DEF Rejected, ReleaseAccepted, AckLost
<1>7. faults' \in 0..MaxFaults
  BY Zenon, <1>1, <1>6, FaultType
<1>8. ASSUME file' \in [Files -> FileStates] PROVE Around
  BY Zenon, <1>1, <1>5, <1>6, <1>7, <1>8, PcTypes DEF Around, TypeOK
<1>9. CASE Freed(x)
  <2>1. {x.file} \ {None} = {} /\ x.file = None
    BY <1>9
  <2>2. \E u : file' = Rewind({}, u) \/ file' = file
    BY Zenon, <1>9, <2>1
  <2>3. file' \in [Files -> FileStates] /\ Rewound({})
    BY Zenon, <1>1, <2>2, RewindFacts, UnchangedRewound
  <2> QED
    BY ZenonT(60), <1>2, <1>5, <1>8, <1>9, <2>1, <2>3, ReleaseFreed
<1>10. CASE Lost(x)
  <2>1. x.file # None
    BY <1>10
  <2>2. {x.file} \ {None} = {x.file} /\ x.file \in Files /\ x.file \in FilesOf(peer[p])
    <3>1. x.file \in FilesOf(peer[p])
      BY Zenon, <1>5, <2>1 DEF FilesOf
    <3>2. x.file \in Files
      BY Zenon, <3>1, PeerFacts
    <3> QED
      BY Zenon, <2>1, <3>1, <3>2
  <2>3. \E u : file' = Rewind({x.file}, u)
    BY Zenon, <1>10, <2>2
  <2>4. file' \in [Files -> FileStates] /\ Rewound({x.file})
    BY Zenon, <1>1, <2>3, RewindFacts
  <2>5. FInv => Steady /\ \A q \in Peers \ {p} : ~Carries(peer[q], x.file)
    BY Zenon, <1>5, <2>2, PeerFacts DEF Steady
  <2>6. peer' = [peer EXCEPT ![p] = Without(NoteRx(peer[p]), x.file)] /\ Around
    BY Zenon, <1>8, <1>10, <2>4
  <2> QED
    BY ZenonT(60), <1>3, <2>2, <2>4, <2>5, <2>6, WindowFreed
<1> QED
  BY ZenonT(60), <1>4, <1>9, <1>10

LEMMA DrainSendFailsGivesUp ==
    ASSUME CInv, DrainSendFails PROVE GivesUp
<1>1. TypeOK
  BY DEF CInv
<1>2. PICK f \in Range(open), p \in Range(order) :
        /\ SelectPeer(f, p)
        /\ peer' = [peer EXCEPT ![p] = [Without(peer[p], f) EXCEPT !.state = "down"]]
        /\ file' = Rewind({f}, TRUE)
        /\ active' = IF Failover THEN SwitchToNextPeer(peer) ELSE CursorAfter(f, p)
  BY Zenon DEF DrainSendFails, Picked
<1>3. f \in Files /\ p \in Peers
  BY <1>1, OrderFacts
<1>4. /\ late' = late /\ mode' = mode /\ order' = order /\ open' = open
      /\ accepted' = accepted /\ Fault(TRUE) /\ pc' = Idle
  BY Zenon DEF DrainSendFails
<1>5. faults' \in 0..MaxFaults /\ active' \in 0..(Len(order) - 1)
  BY Zenon, <1>1, <1>2, <1>4, FaultType, SwitchType, CursorType
<1>6. file' \in [Files -> FileStates] /\ Rewound({f})
  BY Zenon, <1>1, <1>2, RewindFacts
<1>7. Around
  BY Zenon, <1>1, <1>4, <1>5, <1>6, PcTypes DEF Around, TypeOK
<1>8. FInv /\ Reliable => Steady /\ \A q \in Peers \ {p} : ~Carries(peer[q], f)
  <2>1. FALSE \in Outcomes
    BY Zenon DEF DrainSendFails
  <2>2. Reliable => ~Failover
    BY Zenon, <2>1 DEF Outcomes, Reliable, Failover
  <2> QED
    BY Zenon, <1>2, <1>3, <2>2, PickAlone DEF Steady
<1> DEFINE r == [Without(peer[p], f) EXCEPT !.state = "down"]
<1>9. r \in PeerStates /\ r.xacts = {y \in peer[p].xacts : y.file # f}
  <2>1. peer[p] \in PeerStates /\ "down" \in States
    BY <1>3, PeerFacts DEF States
  <2>2. /\ Without(peer[p], f) \in PeerStates
        /\ Without(peer[p], f).xacts = {y \in peer[p].xacts : y.file # f}
    BY Zenon, <2>1, WithoutFacts
  <2> QED
    BY Zenon, <2>1, <2>2, StateOps
<1> QED
  BY ZenonT(60), <1>2, <1>3, <1>6, <1>7, <1>8, <1>9, WindowFreed
=============================================================================
