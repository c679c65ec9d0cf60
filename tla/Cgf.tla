-------------------------------- MODULE Cgf --------------------------------
(***************************************************************************)
(* The charging gateway function (src/src/cgf), draining its spool on the  *)
(* main thread (workers = 1): files of charging records are claimed from   *)
(* ready/, cut into batches, and sent to the GTP' peers as pipelined Data  *)
(* Record Transfer Requests; answers move the cursors of a file, timers    *)
(* drive retransmission, echo supervision and failover.                    *)
(*                                                                         *)
(* A file is a sequence of batches, numbered from 0: offsets in the file   *)
(* only ever stand at the start of a batch, as stage_batch cuts the same   *)
(* batches whenever it starts from the same offset.  Every event handler   *)
(* runs to completion on the one thread; its loops over peers and batches  *)
(* are steps of their own, ordered by pc, and no other event is handled    *)
(* before it is idle again.                                                *)
(***************************************************************************)
EXTENDS Integers, Sequences, FiniteSets, Functions

CONSTANTS
    Files,          \* the spool files
    Spools,         \* the sets of files that ready/ may hold at first
    Peers,          \* the GTP' peers (receivers of charging records)
    None,           \* the file of a Release request: no file
    Configs,        \* the peer lists a configuration may name
    Modes,          \* the send modes: "round_robin", "failover"
    Batches,        \* Batches[f]: the batches in f, the unreadable rest included
    Whole,          \* Whole[f]: the leading batches of f whose framing is intact
    BadHeader,      \* the files whose first header is not a record header
    Window,         \* max_inflight
    ProbingWindow,  \* CGF_PROBING_WINDOW
    AckBuffer,      \* the acks a file can buffer, CGF_MAX_INFLIGHT
    MaxFiles,       \* max_active_files
    Retries,        \* request_retries
    FailoverAfter,  \* failover_after_missed_echoes
    FailModes,      \* the modes in which sockets may fail to open or to send
    MaxFaults,      \* bound: the faults in a behaviour, see Fault
    LateAnswers,    \* whether answers of a receiver may outlive its restart
    BusyReload      \* whether peers are reconfigured with transfers in flight

ASSUME ConstantsAssumption ==
    /\ IsFiniteSet(Files) /\ None \notin Files /\ Spools \subseteq SUBSET Files
    /\ Configs # {}
    /\ \A c \in Configs : c \in Seq(Peers) /\ c # << >> /\ IsInjective(c)
    /\ Modes \subseteq {"round_robin", "failover"} /\ FailModes \subseteq Modes
    /\ Batches \in [Files -> Nat] /\ Whole \in [Files -> Nat]
    /\ \A f \in Files : Whole[f] <= Batches[f]
    /\ BadHeader \subseteq Files
    /\ Window \in Nat \ {0} /\ ProbingWindow \in Nat \ {0}
    /\ AckBuffer \in Nat \ {0} /\ MaxFiles \in Nat \ {0}
    /\ Retries \in Nat /\ FailoverAfter \in Nat \ {0}
    /\ MaxFaults \in Nat
    /\ LateAnswers \in BOOLEAN /\ BusyReload \in BOOLEAN

VARIABLES
    mode,       \* send_mode
    order,      \* the configured peers, in the order of cgf_self()->peers
    active,     \* active_peer_idx, counted from 0
    peer,       \* the state of each peer, its transactions included
    file,       \* the state of each spool file
    open,       \* the open files, in the order of g_active_files
    pc,         \* the handler that runs: [at, idx, drain]
    late,       \* requests of before a receiver's restart, maybe still answered
    accepted,   \* the batches some receiver has accepted: <<file, batch>>
    faults      \* the faults so far

vars == <<mode, order, active, peer, file, open, pc, late, accepted, faults>>

-----------------------------------------------------------------------------
(* The spool: a file and its two cursors.                                   *)

Wheres == {"absent", "ready", "open", "done", "failed"}

(* A file as cgf_spool_open_path makes it: next is next_record_offset, send *)
(* is send_offset, acks the starts of the answers buffered out of order.    *)
FileAt(where) ==
    [where |-> where, next |-> 0, send |-> 0, inflight |-> 0, acks |-> {}, dup |-> FALSE]

CommitSend(r) == [r EXCEPT !.send = @ + 1, !.inflight = @ + 1]

NackBatch_KeepsAcks(r) == [r EXCEPT !.send = r.next, !.inflight = 0]

NackBatch(r) == [r EXCEPT !.send = r.next, !.inflight = 0, !.acks = {}]

MarkPossiblyDup(r) == [r EXCEPT !.dup = TRUE]

(* Rewind every file of F to its confirmed cursor.                          *)
Rewind(F, uncertain) ==
    [f \in Files |->
        IF f \notin F THEN file[f]
        ELSE IF uncertain THEN MarkPossiblyDup(NackBatch(file[f]))
        ELSE NackBatch(file[f])]

(* The confirmed cursor after batch b, the next one, and all the buffered   *)
(* acks that now continue it.                                               *)
DrainPendingAcks(r, b) ==
    CHOOSE c \in (b + 1)..(b + 1 + Cardinality(r.acks)) :
        c \notin r.acks /\ \A d \in (b + 1)..(c - 1) : d \in r.acks

(* cgf_spool_ack_batch_ex has no room to buffer the answer to batch b.      *)
AckOverflows(r, b) ==
    b > r.next /\ b \notin r.acks /\ Cardinality(r.acks) >= AckBuffer

AckBatch_Cumulative(r, b) ==
    LET left == IF r.inflight > 0 THEN r.inflight - 1 ELSE 0
    IN  IF b < r.next THEN [r EXCEPT !.inflight = left]
        ELSE [r EXCEPT !.inflight = left, !.next = b + 1, !.acks = {}]

AckBatch(r, b) ==
    LET left == IF r.inflight > 0 THEN r.inflight - 1 ELSE 0
        still == r.dup /\ left # 0
        to == DrainPendingAcks(r, b)
    IN  CASE b < r.next -> [r EXCEPT !.inflight = left, !.dup = still]
          [] b = r.next -> [r EXCEPT !.inflight = left, !.dup = still,
                                     !.next = to, !.acks = {a \in @ : a > to}]
          [] OTHER      -> [r EXCEPT !.inflight = left, !.acks = @ \cup {b}]

MaybeFinish_WhenSent(f, r) ==
    IF r.send >= Batches[f] THEN FileAt("done") ELSE r

(* What maybe_finish_file makes of a file after an ack.                     *)
MaybeFinish(f, r) ==
    IF r.next >= Batches[f] /\ r.inflight = 0 THEN FileAt("done") ELSE r

-----------------------------------------------------------------------------
(* The peers and their transactions.                                        *)

States == {"down", "probing", "up"}

Commands == {"send", "possibly_dup", "release"}

(* A peer whose socket is open or not, before anything was sent.  asked is  *)
(* last_echo_sent > last_echo_received, heard that it ever answered, known  *)
(* whether the restart counter it told last is still its own.               *)
NewPeer(sock) ==
    [state |-> "down", sock |-> sock, missed |-> 0, asked |-> FALSE,
     heard |-> FALSE, known |-> "never", xacts |-> {}]

PeerAt(i) == order[i + 1]

Seqs(q) == {x.seq : x \in q.xacts}

(* The number of a new request.  The counter of a peer, shared with echoes, *)
(* wraps after 2^16 requests, long after a request was answered or given up *)
(* on: what matters is that a number is not that of a request in flight,    *)
(* and that the numbers begin anew after a reset.  So it is a small one     *)
(* that is free, and a reset needs no step of its own.                      *)
NextSeq(q) == CHOOSE n \in 0..Cardinality(Seqs(q)) : n \notin Seqs(q)

Transfer(seq, f, b, ptc) ==
    [seq |-> seq, file |-> f, batch |-> b, ptc |-> ptc, retries |-> 0]

SendEcho(q) == [q EXCEPT !.asked = TRUE]

(* The transaction of a request that raw_send could send.                   *)
SendRequest(q, f, b, ptc) ==
    [q EXCEPT !.xacts = @ \cup {Transfer(NextSeq(q), f, b, ptc)}]

(* cgf_gtpp_reopen_peer: a new endpoint, where no earlier answer arrives.   *)
Reopen(q, opened) == [q EXCEPT !.sock = opened]

NoteRx(q) == [q EXCEPT !.state = "up", !.missed = 0, !.heard = TRUE]

MaySend(q) == q.state \in {"up", "probing"}

EffectiveWindow(q) ==
    IF q.state = "probing" /\ Window > ProbingWindow THEN ProbingWindow ELSE Window

HasRoom(q) == Cardinality(q.xacts) < EffectiveWindow(q)

Carries(q, f) == \E x \in q.xacts : x.file = f

FilesOf(q) == {x.file : x \in q.xacts} \ {None}

FreeXact(q, x) == [q EXCEPT !.xacts = @ \ {x}]

(* abort_file_pipeline on the side of the peer.                             *)
Without(q, f) == [q EXCEPT !.xacts = {x \in @ : x.file # f}]

(* What switch_to_next_peer makes of active_peer_idx, with peers q.         *)
SwitchToNextPeer(q) ==
    LET n == Len(order)
        steps == {i \in 1..n : q[PeerAt((active + i) % n)].sock}
    IN  IF steps = {} THEN active
        ELSE (active + CHOOSE i \in steps : \A j \in steps : i <= j) % n

Failover == mode = "failover"

Idle == [at |-> "idle", idx |-> 0, drain |-> FALSE]

Drain == [at |-> "drain", idx |-> 0, drain |-> FALSE]

(* A step that is a fault if bad: a request given up on or rejected, a peer *)
(* taken for down, a socket error, a restart of either side, or a change of *)
(* the configuration.  The bound holds back events, never the rest of a     *)
(* handler that runs.                                                       *)
Fault(bad) ==
    /\ bad /\ pc = Idle => faults < MaxFaults
    /\ faults' = IF bad /\ faults < MaxFaults THEN faults + 1 ELSE faults

(* Whether a socket operation succeeds.                                     *)
Outcomes == IF mode \in FailModes /\ faults < MaxFaults THEN BOOLEAN ELSE {TRUE}

(* Whether the peer counts as having answered lately: any time may have     *)
(* passed since it last did.                                                *)
RecentlyAnswered(q) == IF q.heard THEN BOOLEAN ELSE {FALSE}

-----------------------------------------------------------------------------
(* Handlers.                                                                *)

(* The next peer of the echo timer's loop, or what follows the loop.        *)
Advance(drain) ==
    IF pc.idx + 1 < Len(order) THEN [at |-> "echo", idx |-> pc.idx + 1, drain |-> drain]
    ELSE IF drain THEN Drain ELSE Idle

(* The orders in which a directory may list the files of S.                 *)
Orders(S) == {s \in [1..Cardinality(S) -> S] : IsInjective(s)}

(* cgf_spool_try_open_more: claim and open files of ready/, in the order of *)
(* the directory, until the active set is full or no more are found: the    *)
(* writer may deliver the others later, and a directory found empty is not  *)
(* read again for a while.  A file with a bad header goes to failed/.       *)
TryOpenMore ==
    \E seen \in SUBSET {f \in Files : file[f].where = "ready"} :
    \E taken \in Orders(seen \ BadHeader) :
        /\ Len(open) + Len(taken) <= MaxFiles
        /\ Len(open) + Len(taken) = MaxFiles /\ seen # {} => taken # << >>
        /\ open' = open \o taken
        /\ file' = [f \in Files |->
                       IF f \notin seen THEN file[f]
                       ELSE FileAt(IF f \in BadHeader THEN "failed" ELSE "open")]

(* g_active_files without f.                                                *)
Closed(f) ==
    LET i == CHOOSE i \in 1..Len(open) : open[i] = f
    IN  IF f \notin Range(open) THEN open
        ELSE SubSeq(open, 1, i - 1) \o SubSeq(open, i + 1, Len(open))

Holders(f) == {p \in Range(order) : Carries(peer[p], f)}

RrPick(p) ==
    LET n == Len(order)
        can(i) == LET q == peer[PeerAt((active + i) % n)]
                  IN  q.sock /\ MaySend(q) /\ HasRoom(q)
    IN  \E i \in 0..(n - 1) :
            /\ PeerAt((active + i) % n) = p
            /\ can(i) /\ \A j \in 0..(i - 1) : ~can(j)

SelectPeer_NotPinned(f, p) ==
    IF Failover
    THEN p = PeerAt(active) /\ MaySend(peer[p]) /\ HasRoom(peer[p])
    ELSE RrPick(p)

(* The peer that select_peer_for_file finds for f is p: in round-robin mode *)
(* the one that carries f already, else the next with room from the cursor; *)
(* in failover mode the active one.                                         *)
SelectPeer(f, p) ==
    IF Failover
    THEN p = PeerAt(active) /\ MaySend(peer[p]) /\ HasRoom(peer[p])
    ELSE IF Holders(f) # {}
    THEN p \in Holders(f) /\ MaySend(peer[p]) /\ HasRoom(peer[p])
    ELSE RrPick(p)

(* rr_pick_peer leaves the cursor after the peer it picks.                  *)
CursorAfter(f, p) ==
    IF Failover \/ Holders(f) # {} THEN active
    ELSE (CHOOSE i \in 1..Len(order) : order[i] = p) % Len(order)

Sendable(f) == file[f].send < Batches[f] /\ \E p \in Range(order) : SelectPeer(f, p)

(* pick_sendable_file picks f and p.                                        *)
Picked(f, p) ==
    /\ \E i \in 1..Len(open) : open[i] = f /\ \A j \in 1..(i - 1) : ~Sendable(open[j])
    /\ file[f].send < Batches[f] /\ SelectPeer(f, p)

(* One round of cgf_sm_try_drain: stage a batch and send it.                *)
DrainSend ==
    /\ pc = Drain
    /\ \E f \in Range(open), p \in Range(order) :
        /\ Picked(f, p) /\ file[f].send < Whole[f]
        /\ LET ptc == IF file[f].dup THEN "possibly_dup" ELSE "send"
           IN  peer' = [peer EXCEPT ![p] = SendRequest(@, f, file[f].send, ptc)]
        /\ file' = [file EXCEPT ![f] = CommitSend(@)]
        /\ active' = CursorAfter(f, p)
    /\ UNCHANGED <<mode, order, open, pc, late, accepted, faults>>

(* The socket refuses the datagram: the peer is taken for down.             *)
DrainSendFails ==
    /\ pc = Drain /\ FALSE \in Outcomes
    /\ \E f \in Range(open), p \in Range(order) :
        /\ Picked(f, p) /\ file[f].send < Whole[f]
        /\ peer' = [peer EXCEPT ![p] = [Without(@, f) EXCEPT !.state = "down"]]
        /\ file' = Rewind({f}, TRUE)
        /\ active' = IF Failover THEN SwitchToNextPeer(peer) ELSE CursorAfter(f, p)
    /\ pc' = Idle /\ Fault(TRUE)
    /\ UNCHANGED <<mode, order, open, late, accepted>>

(* No batch can be staged where the framing of the file breaks off: the     *)
(* file is moved to failed/ and freed, also while batches before the break  *)
(* are in flight.  Their transfers stay, and refer to freed memory.         *)
DrainQuarantine ==
    /\ pc = Drain
    /\ \E f \in Range(open), p \in Range(order) :
        /\ Picked(f, p) /\ file[f].send >= Whole[f]
        /\ file' = [file EXCEPT ![f] = FileAt("failed")]
        /\ open' = Closed(f)
        /\ active' = CursorAfter(f, p)
    /\ UNCHANGED <<mode, order, peer, pc, late, accepted, faults>>

AnyPeerHasRoom ==
    \E p \in Range(order) :
        peer[p].sock /\ MaySend(peer[p]) /\ Cardinality(peer[p].xacts) < Window

NothingToSend == \A f \in Range(open) : ~Sendable(f)

MayOpen == Len(open) < MaxFiles /\ AnyPeerHasRoom

(* Nothing to send, but room: open more files and look again, if there were *)
(* any.                                                                     *)
DrainOpen ==
    /\ pc = Drain /\ NothingToSend /\ MayOpen
    /\ TryOpenMore
    /\ pc' = IF Len(open') > Len(open) THEN Drain ELSE Idle
    /\ UNCHANGED <<mode, order, active, peer, late, accepted, faults>>

(* The drain ends: the active set is full, or no peer has room.             *)
DrainStop ==
    /\ pc = Drain /\ NothingToSend /\ ~MayOpen
    /\ pc' = Idle
    /\ UNCHANGED <<mode, order, active, peer, file, open, late, accepted, faults>>

(* The count of missed echoes is compared with FailoverAfter after it was   *)
(* incremented: beyond FailoverAfter - 1 it need not count.                 *)
Capped(missed) == IF missed < FailoverAfter THEN missed ELSE FailoverAfter - 1

SpoolTick ==
    /\ pc = Idle
    /\ TryOpenMore
    /\ pc' = Drain
    /\ UNCHANGED <<mode, order, active, peer, late, accepted, faults>>

(* A peer of the echo timer's loop: its socket is opened again, what it did *)
(* not answer is counted, and it is taken for down after too many of those. *)
Redial(q, opened) == IF q.sock THEN q ELSE Reopen(q, opened)

Missed(q, recent) == IF recent THEN 0 ELSE q.missed + 1

MissedTooMany(q, recent) ==
    q.sock /\ q.asked /\ q.state # "down" /\ Missed(q, recent) >= FailoverAfter

Supervised(q, recent, opened) ==
    LET counted == IF q.asked /\ q.sock THEN [q EXCEPT !.missed = Capped(Missed(q, recent))]
                   ELSE q
    IN  IF MissedTooMany(q, recent)
        THEN Reopen([counted EXCEPT !.state = "down", !.xacts = {}], opened) ELSE counted

Probed(q, sent) ==
    IF sent /\ q.state = "down" THEN [SendEcho(q) EXCEPT !.state = "probing"] ELSE SendEcho(q)

(* cgf_sm_on_echo_tick, a step for each peer in turn.                       *)
EchoTick ==
    /\ pc.at = "echo" \/ pc = Idle
    /\ LET p == PeerAt(pc.idx) IN
       \E opened \in Outcomes, sent \in Outcomes, recent \in RecentlyAnswered(peer[p]) :
        LET q == Redial(peer[p], opened)
            down == MissedTooMany(q, recent)
            cut == Supervised(q, recent, opened)
        IN  /\ Fault(down \/ ~opened \/ ~sent)
            /\ peer' = [peer EXCEPT ![p] = IF cut.sock THEN Probed(cut, sent) ELSE cut]
            /\ file' = IF down THEN Rewind(FilesOf(peer[p]), TRUE) ELSE file
            /\ active' = IF down /\ Failover /\ active = pc.idx
                         THEN SwitchToNextPeer(peer) ELSE active
            /\ late' = IF down \/ ~peer[p].sock THEN [late EXCEPT ![p] = {}] ELSE late
            /\ pc' = Advance(pc.drain \/ (cut.sock /\ sent /\ cut.state = "down"))
    /\ UNCHANGED <<mode, order, open, accepted>>

(* peer_rto_tick: the requests in due have waited for an RTO.  One whose    *)
(* retries are spent is given up with all of its file, and if the peer has  *)
(* not answered lately it is taken for down.                                *)
Spent(due) == {x \in due : x.retries >= Retries}

LostWith(due) == {x.file : x \in Spent(due)} \ {None}

GoesDown(due, recent) == Spent(due) # {} /\ ~recent

RtoPeer(q, due, recent, opened) ==
    IF GoesDown(due, recent)
    THEN Reopen([q EXCEPT !.state = "down", !.xacts = {}], opened)
    ELSE [q EXCEPT !.xacts =
            {IF x \in due THEN [x EXCEPT !.retries = @ + 1] ELSE x :
                x \in {y \in q.xacts \ Spent(due) : y.file \notin LostWith(due)}}]

(* Peer p after the echoes of cgf_sm_on_rto_tick.                           *)
Asked(p, asked, sent) == IF p \in asked THEN Probed(peer[p], p \in sent) ELSE peer[p]

(* The peers whose transactions cgf_sm_on_rto_tick looks at, the requests   *)
(* of p among those overdue, and what it gives up on, as the peers have     *)
(* answered recently or not.                                                *)
Scanned == IF Failover THEN {PeerAt(active)} ELSE Range(order)

Due(overdue, p) == {x \in peer[p].xacts : <<p, x>> \in overdue}

GaveUp(overdue) == {p \in Scanned : Spent(Due(overdue, p)) # {}}

LostFiles(overdue, recent) ==
    UNION {IF GoesDown(Due(overdue, p), p \in recent) THEN FilesOf(peer[p])
           ELSE LostWith(Due(overdue, p)) : p \in Scanned}

(* cgf_sm_on_rto_tick: first an echo to every peer that is down and was not *)
(* asked for a while, sent or not, then the transactions of every peer, or  *)
(* in failover mode of the active one.  Those in closed could not be opened *)
(* again.                                                                   *)
RtoStep(asked, sent, overdue, recent, closed) ==
    /\ Fault(sent # asked \/ GaveUp(overdue) # {})
    /\ FALSE \in Outcomes \/ (sent = asked /\ closed = {})
    /\ closed \cap recent = {}
    /\ peer' = [p \in Peers |->
           IF p \in Scanned
           THEN RtoPeer(Asked(p, asked, sent), Due(overdue, p), p \in recent, p \notin closed)
           ELSE Asked(p, asked, sent)]
    /\ file' = Rewind(LostFiles(overdue, recent), TRUE)
    /\ active' = IF Failover /\ GaveUp(overdue) \ recent # {}
                 THEN SwitchToNextPeer(peer') ELSE active
    /\ late' = [p \in Peers |-> IF p \in GaveUp(overdue) \ recent THEN {} ELSE late[p]]
    /\ pc' = IF sent # {} \/ GaveUp(overdue) # {} THEN Drain ELSE Idle

RtoTick ==
    /\ pc = Idle
    /\ \E asked \in SUBSET {p \in Range(order) : peer[p].sock /\ peer[p].state = "down"} :
       \E sent \in SUBSET asked :
       \E overdue \in SUBSET UNION {{p} \X peer[p].xacts : p \in Scanned} :
       \E recent \in SUBSET {p \in GaveUp(overdue) : peer[p].heard} :
       \E closed \in SUBSET GaveUp(overdue) : RtoStep(asked, sent, overdue, recent, closed)
    /\ UNCHANGED <<mode, order, open, accepted>>

-----------------------------------------------------------------------------
(* Answers.                                                                 *)

(* A datagram can come from a peer that was asked anything.                 *)
WasAsked(q) == q.sock /\ (q.asked \/ q.heard)

(* An Echo Response, with the receiver's restart counter (recovery) or      *)
(* without.  A changed one means that the receiver has restarted: what is   *)
(* in flight to it is aborted and the numbers start again.                  *)
EchoResponse(p) ==
    /\ pc = Idle /\ p \in Range(order) /\ WasAsked(peer[p])
    /\ \E recovery \in BOOLEAN :
       LET restarted == recovery /\ peer[p].known = "old"
           heard == [NoteRx(peer[p]) EXCEPT !.asked = FALSE,
                                            !.known = IF recovery THEN "current" ELSE @]
       IN  /\ peer' = [peer EXCEPT ![p] = IF restarted THEN [heard EXCEPT !.xacts = {}] ELSE heard]
           /\ file' = IF restarted THEN Rewind(FilesOf(peer[p]), TRUE) ELSE file
           /\ late' = IF restarted /\ LateAnswers
                      THEN [late EXCEPT ![p] = @ \cup peer[p].xacts] ELSE late
    /\ pc' = Drain
    /\ UNCHANGED <<mode, order, active, open, accepted, faults>>

(* The receiver answers request m of peer p, and the answer arrives: it has *)
(* accepted the records, or not.                                            *)
Answers(p, m, ok) ==
    /\ pc = Idle /\ p \in Range(order) /\ peer[p].sock
    /\ m \in peer[p].xacts \cup late[p]
    /\ accepted' = IF ok /\ m.file # None THEN accepted \cup {<<m.file, m.batch>>} ELSE accepted
    /\ UNCHANGED <<mode, order, active, late>>

Found(p, m) == {x \in peer[p].xacts : x.seq = m.seq}

(* An answer that matches no request: it came twice, or after the request   *)
(* was given up.  It only shows that the peer is alive.                     *)
StaleResponse(p) ==
    /\ pc = Idle /\ p \in Range(order) /\ WasAsked(peer[p])
    /\ peer' = [peer EXCEPT ![p] = NoteRx(@)]
    /\ UNCHANGED <<mode, order, active, file, open, pc, late, accepted, faults>>

(* The receiver rejects the request: its file is rewound.                   *)
Rejected(p, m) ==
    /\ Fault(TRUE) /\ Answers(p, m, FALSE)
    /\ \E x \in Found(p, m) :
        /\ peer' = [peer EXCEPT ![p] = IF x.file = None
                        THEN FreeXact(NoteRx(@), x) ELSE Without(NoteRx(@), x.file)]
        /\ file' = Rewind({x.file} \ {None}, FALSE)
    /\ pc' = Drain
    /\ UNCHANGED open

(* The receiver accepts a Release.                                          *)
ReleaseAccepted(p, m) ==
    /\ Answers(p, m, TRUE)
    /\ \E x \in Found(p, m) :
        /\ x.ptc = "release"
        /\ peer' = [peer EXCEPT ![p] = FreeXact(NoteRx(@), x)]
    /\ pc' = Drain
    /\ UNCHANGED <<file, open, faults>>

(* A peer that has accepted the batch of x: a batch that was sent as        *)
(* possibly duplicated is released.                                         *)
Answered(q, x, sent) ==
    LET freed == FreeXact(NoteRx(q), x)
    IN  IF x.ptc = "possibly_dup" /\ sent THEN SendRequest(freed, None, 0, "release") ELSE freed

(* The receiver accepts a batch: the file's cursors move, and the file is   *)
(* finished when nothing of it is left.                                     *)
BatchAccepted(p, m) ==
    /\ Answers(p, m, TRUE)
    /\ \E x \in Found(p, m), sent \in Outcomes :
        LET f == x.file
            acked == MaybeFinish(f, AckBatch(file[f], x.batch))
        IN  /\ x.ptc # "release" /\ file[f].where = "open" /\ ~AckOverflows(file[f], x.batch)
            /\ Fault(~sent)
            /\ file' = [file EXCEPT ![f] = acked]
            /\ open' = IF acked.where = "done" THEN Closed(f) ELSE open
            /\ peer' = [peer EXCEPT ![p] = Answered(@, x, sent)]
    /\ pc' = Drain

(* The same for a file that was quarantined meanwhile: the cursors that     *)
(* move are in freed memory.  If it is as it was left the transfer ends     *)
(* without any other effect; else the process may end (Crash).              *)
FreedAccepted(p, m) ==
    /\ Answers(p, m, TRUE)
    /\ \E x \in Found(p, m), sent \in Outcomes :
        /\ x.ptc # "release" /\ file[x.file].where # "open"
        /\ Fault(~sent)
        /\ peer' = [peer EXCEPT ![p] = Answered(@, x, sent)]
    /\ pc' = Drain
    /\ UNCHANGED <<file, open>>

(* The ack comes out of order and cannot be buffered, as may be of a file   *)
(* in freed memory: the file is rewound.                                    *)
AckLost(p, m) ==
    /\ Answers(p, m, TRUE)
    /\ \E x \in Found(p, m) :
        /\ x.ptc # "release"
        /\ file[x.file].where = "open" => AckOverflows(file[x.file], x.batch)
        /\ peer' = [peer EXCEPT ![p] = Without(NoteRx(@), x.file)]
        /\ file' = Rewind({x.file}, TRUE)
    /\ pc' = Drain
    /\ UNCHANGED <<open, faults>>

-----------------------------------------------------------------------------
(* The surroundings: receivers restart, the configuration changes, and this *)
(* process ends and starts again.                                           *)

(* The restart counter of a receiver that told it changes.                  *)
ReceiverRestarts(p) ==
    /\ pc = Idle /\ Fault(TRUE)
    /\ peer[p].known = "current"
    /\ peer' = [peer EXCEPT ![p].known = "old"]
    /\ UNCHANGED <<mode, order, active, file, open, pc, late, accepted>>

(* cgf_gtpp_apply_runtime: peers that stay keep their state, the others are *)
(* closed and their transactions freed.  An index out of range is set to    *)
(* the first primary, any one here.  The sockets of new peers can be        *)
(* opened.                                                                  *)
Reload ==
    /\ pc = Idle /\ Fault(TRUE)
    /\ BusyReload \/ \A p \in Peers : peer[p].xacts = {}
    /\ \E new \in Configs \ {order} :
        /\ order' = new
        /\ peer' = [p \in Peers |->
               IF p \in Range(new) \cap Range(order) THEN peer[p] ELSE NewPeer(p \in Range(new))]
        /\ late' = [p \in Peers |-> IF p \in Range(new) \cap Range(order) THEN late[p] ELSE {}]
        /\ active' \in IF active < Len(new) THEN {active} ELSE 0..(Len(new) - 1)
    /\ UNCHANGED <<mode, file, open, pc, accepted>>

(* A peer after cgf_gtpp_open and the entry of cgf_state_running.           *)
Starting(p) ==
    IF p \notin Range(order) THEN {NewPeer(FALSE)}
    ELSE {[SendEcho(NewPeer(TRUE)) EXCEPT !.state = "probing"]} \cup
         IF FALSE \in Outcomes THEN {NewPeer(FALSE), SendEcho(NewPeer(TRUE))} ELSE {}

(* cgf_initialize fails unless some socket could be opened.                 *)
StartingPeers ==
    {q \in [Peers -> UNION {Starting(p) : p \in Peers}] :
        /\ \A p \in Peers : q[p] \in Starting(p)
        /\ \E p \in Peers : q[p].sock}

(* The process ends at any point and starts again: what it had claimed is   *)
(* moved back to ready/ (reclaim_processing_leftovers).                     *)
Crash ==
    /\ faults < MaxFaults /\ Fault(TRUE)
    /\ file' = [f \in Files |-> IF file[f].where = "open" THEN FileAt("ready") ELSE file[f]]
    /\ open' = << >>
    /\ active' \in 0..(Len(order) - 1)
    /\ peer' \in StartingPeers
    /\ late' = [p \in Peers |-> {}]
    /\ pc' = Idle
    /\ UNCHANGED <<mode, order, accepted>>

Init ==
    /\ faults = 0
    /\ mode \in Modes
    /\ order \in Configs
    /\ active \in 0..(Len(order) - 1)
    /\ peer \in StartingPeers
    /\ \E spool \in Spools :
        file = [f \in Files |-> FileAt(IF f \in spool THEN "ready" ELSE "absent")]
    /\ open = << >>
    /\ pc = Idle
    /\ late = [p \in Peers |-> {}]
    /\ accepted = {}

Next ==
    \/ DrainSend \/ DrainSendFails \/ DrainQuarantine \/ DrainOpen \/ DrainStop
    \/ SpoolTick \/ EchoTick \/ RtoTick
    \/ \E p \in Peers :
        \/ EchoResponse(p) \/ StaleResponse(p) \/ ReceiverRestarts(p)
        \/ \E m \in peer[p].xacts \cup late[p] :
            \/ Rejected(p, m) \/ ReleaseAccepted(p, m)
            \/ BatchAccepted(p, m) \/ FreedAccepted(p, m) \/ AckLost(p, m)
    \/ Reload \/ Crash

Spec == Init /\ [][Next]_vars

-----------------------------------------------------------------------------
(* Properties.                                                              *)

Requests ==
    [seq : Nat, file : Files \cup {None}, batch : Nat, ptc : Commands,
     retries : 0..Retries]

PeerStates ==
    [state : States, sock : BOOLEAN, missed : 0..(FailoverAfter - 1), asked : BOOLEAN,
     heard : BOOLEAN, known : {"never", "current", "old"}, xacts : SUBSET Requests]

FileStates ==
    [where : Wheres, next : Nat, send : Nat, inflight : Nat, acks : SUBSET Nat,
     dup : BOOLEAN]

(* Every variable stays in its range, the counters of retries and missed    *)
(* echoes within their limits.                                              *)
TypeOK ==
    /\ mode \in Modes /\ order \in Configs /\ active \in 0..(Len(order) - 1)
    /\ peer \in [Peers -> PeerStates] /\ late \in [Peers -> SUBSET Requests]
    /\ file \in [Files -> FileStates] /\ open \in Seq(Files)
    /\ pc \in [at : {"idle", "drain", "echo"}, idx : 0..(Len(order) - 1), drain : BOOLEAN]
    /\ accepted \subseteq Files \X Nat /\ faults \in 0..MaxFaults

(* The confirmed cursor and the buffered acks only cover batches a receiver *)
(* has accepted, and a file moved to done/ was accepted whole: no charging  *)
(* record is dropped from the spool undelivered (spool.h: "last byte        *)
(* confirmed by the CGF").                                                  *)
Confirmed ==
    \A f \in Files :
        /\ \A b \in 0..(file[f].next - 1) \cup file[f].acks : <<f, b>> \in accepted
        /\ file[f].where = "done" => \A b \in 0..(Batches[f] - 1) : <<f, b>> \in accepted

(* The batches of f that transfers in flight carry.                         *)
Carried(f) == UNION {{x.batch : x \in {y \in peer[p].xacts : y.file = f}} : p \in Peers}

(* Every batch between the two cursors of an open file is either carried by *)
(* exactly one transfer in flight or has its ack buffered, and the file     *)
(* counts its transfers: nothing sent is ever forgotten, so each record is  *)
(* confirmed or sent again.                                                 *)
NothingForgotten ==
    \A f \in Range(open) :
        /\ Carried(f) \cup file[f].acks = file[f].next..(file[f].send - 1)
        /\ Carried(f) \cap file[f].acks = {}
        /\ \A p, q \in Peers : \A x \in peer[p].xacts, y \in peer[q].xacts :
              x.file = f /\ y.file = f /\ x.batch = y.batch => p = q /\ x = y
        /\ file[f].inflight = Cardinality(Carried(f))

(* A transfer in flight refers to a file that is open, or that was          *)
(* quarantined: maybe_finish_file frees a file only when the last of its    *)
(* transfers is gone, whatever the order of answers, rewinds and crashes,   *)
(* and a file is claimed with none.  The quarantine of a file that breaks   *)
(* off after a whole batch does not wait for the transfers in flight.       *)
TransfersHaveFiles ==
    \A p \in Peers : \A f \in FilesOf(peer[p]) :
        f \in Range(open) \/ file[f].where = "failed"

(* The transfers of a file in flight are all on one peer, as the rewinding  *)
(* of its window requires (peer_holding_file).                              *)
Pinned ==
    \A f \in Files : \A p, q \in Peers :
        Carries(peer[p], f) /\ Carries(peer[q], f) => p = q
=============================================================================
