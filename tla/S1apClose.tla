----------------------------- MODULE S1apClose -----------------------------
(***************************************************************************)
(* The life of an eNB's SCTP socket in the MME when S1AP RX workers and    *)
(* an S1AP IO thread are on: mme-context.c (mme_enb_add, mme_enb_remove),  *)
(* mme-sm.c (the S1AP lifecycle events), mme-event.c (the event queues),   *)
(* s1ap-rx.c, s1ap-io.c and s1ap-sctp.c.                                   *)
(*                                                                         *)
(* Three threads refer to a socket by its address in memory.  The main     *)
(* thread keeps the eNB contexts.  The RX worker polls the socket and      *)
(* reads it.  The IO thread writes it.  A socket is destroyed in several   *)
(* phases: main drops the context, records in the close registry whose     *)
(* confirmations it waits for, and tells RX and IO to let go; the last     *)
(* confirmation destroys the socket.  Its address may then be used again   *)
(* for the next association that is accepted, so a confirmation or an      *)
(* event that comes late may name a socket that is no longer the one it    *)
(* was sent for.                                                           *)
(*                                                                         *)
(* CONNREFUSED events have a queue of their own that main serves first and *)
(* that keeps one event per socket.  All other events share the            *)
(* application queue with the S1AP messages.                               *)
(***************************************************************************)
EXTENDS Naturals, Sequences, SequencesExt

CONSTANTS
    Socks,          \* addresses in memory of socket objects
    Peers,          \* addresses of eNBs
    None,           \* no socket, no event
    FaultSets,      \* the sets of faults a behaviour may have (see Faults)
    CrMax,          \* MME_S1AP_CONNREFUSED_QUEUE
    MaxAccepts,     \* bound: associations accepted
    MaxSends,       \* bound: messages main hands to the IO thread
    MaxTold         \* bound: notifications of loss for one association

\* flood:  the application queue may be full at any push
\* race:   the RX worker may fail to poll a socket
\* rxFull: the command queue of the RX worker may be full
\* ioFull: the command queue of the IO thread may be full
\* detach: main may drop the context of an eNB that is connected
Faults == {"flood", "race", "rxFull", "ioFull", "detach"}

ASSUME CloseAssumption ==
    /\ None \notin Socks \cup Peers
    /\ FaultSets \subseteq SUBSET Faults
    /\ CrMax \in Nat /\ MaxAccepts \in Nat /\ MaxSends \in Nat /\ MaxTold \in Nat

VARIABLES
    faults,     \* the faults of this behaviour
    sock,       \* the object: "free", "open", or "broken" once destroyed twice
    peer,       \* its remote address
    up,         \* the kernel's association is alive
    said,       \* sockets whose COMM_UP notification RX has read
    told,       \* notifications of loss RX has read from a socket
    enb,        \* enb_addr_hash: the socket of a peer's eNB context
    owner,      \* rx_owner_hash: sockets main has given to RX
    polls,      \* rx_poll_hash: sockets RX polls
    writer,     \* io_sock_hash: IO's state for a socket, "none", "open", "dead"
    rxq, ioq,   \* command queues of the RX worker and the IO thread
    appq,       \* ogs_app()->queue, the S1AP lifecycle events of it
    crq,        \* the CONNREFUSED side queue
    wait,       \* the close registry: confirmations a socket waits for
    main,       \* where main is in a handler
    late,       \* history: a COMM_UP was handled when its peer had no context
    accepts,    \* associations accepted
    sends       \* messages handed to IO

kernel == <<sock, peer, up, said, told>>
vars == <<faults, kernel, enb, owner, polls, writer, rxq, ioq, appq, crq, wait,
          main, late, accepts, sends>>

Event(i, s, p) == [id |-> i, sock |-> s, peer |-> p]
Command(o, s) == [op |-> o, sock |-> s]
Idle == [at |-> "poll", sock |-> None, next |-> None]

Events ==
    [id : {"ACCEPT", "COMM_UP", "CLOSED", "DRAINED", "WATCH_FAILED"},
     sock : Socks, peer : Peers]

\* What each variable holds.
TypeOK ==
    /\ faults \in FaultSets
    /\ sock \in [Socks -> {"free", "open", "broken"}]
    /\ peer \in [Socks -> Peers]
    /\ up \in [Socks -> BOOLEAN]
    /\ said \subseteq Socks
    /\ told \in [Socks -> 0 .. MaxTold]
    /\ enb \in [Peers -> Socks \cup {None}]
    /\ owner \subseteq Socks
    /\ polls \subseteq Socks
    /\ writer \in [Socks -> {"none", "open", "dead"}]
    /\ rxq \in Seq([op : {"WATCH", "UNWATCH"}, sock : Socks])
    /\ ioq \in Seq([op : {"SEND", "DRAIN"}, sock : Socks])
    /\ appq \in Seq(Events)
    /\ crq \in Seq([sock : Socks, peer : Peers])
    /\ wait \in [Socks -> SUBSET {"rx", "io"}]
    /\ main \in [at : {"poll", "unwatch", "drain", "add"},
                 sock : Socks \cup {None}, next : Events \cup {None}]
    /\ late \in BOOLEAN
    /\ accepts \in 0 .. MaxAccepts
    /\ sends \in 0 .. MaxSends

Init ==
    /\ faults \in FaultSets
    /\ sock = [s \in Socks |-> "free"]
    /\ peer \in [Socks -> {CHOOSE p \in Peers : TRUE}]
    /\ up = [s \in Socks |-> FALSE]
    /\ said = {}
    /\ told = [s \in Socks |-> 0]
    /\ enb = [p \in Peers |-> None]
    /\ owner = {} /\ polls = {}
    /\ writer = [s \in Socks |-> "none"]
    /\ rxq = <<>> /\ ioq = <<>> /\ appq = <<>> /\ crq = <<>>
    /\ wait = [s \in Socks |-> {}]
    /\ main = Idle
    /\ late = FALSE
    /\ accepts = 0 /\ sends = 0

-----------------------------------------------------------------------------
(* The close registry. *)

\* ogs_sctp_destroy: the descriptor is closed and the object freed.
Destroy(s) == sock' = [sock EXCEPT ![s] = IF @ = "open" THEN "free" ELSE "broken"]

\* s1ap_sock_close_confirm: the last confirmation destroys the socket; one for
\* a socket that is not registered is ignored.
Confirm(s, who) ==
    /\ wait' = [wait EXCEPT ![s] = @ \ {who}]
    /\ IF wait[s] # {} /\ wait[s] \subseteq {who} THEN Destroy(s) ELSE UNCHANGED sock

\* Variant: WATCH_FAILED without the check for a close under way.
Orphan_Always(s) == Destroy(s)

\* s1ap_sock_close_orphan.
Orphan(s) == IF wait[s] # {} THEN UNCHANGED sock ELSE Destroy(s)

(* The event queues. *)

\* mme_sctp_event_push of an event that is dropped when the queue is full.
Push(e) ==
    \/ appq' = Append(appq, e)
    \/ "flood" \in faults /\ UNCHANGED appq

\* Variant: a confirmation is dropped like any other event.
PushConfirm_Drops(i, s, who) == Push(Event(i, s, peer[s])) /\ UNCHANGED <<wait, sock>>

\* mme_sctp_event_push of a confirmation by a worker: when the queue stays full
\* the worker confirms to the registry itself.
PushConfirm(i, s, who) ==
    \/ appq' = Append(appq, Event(i, s, peer[s])) /\ UNCHANGED <<wait, sock>>
    \/ "flood" \in faults /\ Confirm(s, who) /\ UNCHANGED appq

\* Variant: one event per peer.
PushRefused_ByPeer(s) ==
    crq' = IF peer[s] \in {e.peer : e \in ToSet(crq)} \/ Len(crq) = CrMax THEN crq
           ELSE Append(crq, [sock |-> s, peer |-> peer[s]])

\* mme_sctp_connrefused_enqueue: one event per socket.
PushRefused(s) ==
    crq' = IF s \in {e.sock : e \in ToSet(crq)} \/ Len(crq) = CrMax THEN crq
           ELSE Append(crq, [sock |-> s, peer |-> peer[s]])

\* main has handled every COMM_UP that RX has read from sockets of p.
UpHandled(p) == \A e \in ToSet(appq) : ~(e.id = "COMM_UP" /\ e.peer = p)

-----------------------------------------------------------------------------
(* The kernel and the eNBs. *)

\* s1ap_accept_handler, on main's poll: a socket object is allocated.
Accept(s, p) ==
    /\ main.at = "poll" /\ accepts < MaxAccepts /\ sock[s] = "free"
    /\ accepts' = accepts + 1
    /\ sock' = [sock EXCEPT ![s] = "open"]
    /\ peer' = [peer EXCEPT ![s] = p]
    /\ up' = [up EXCEPT ![s] = TRUE]
    /\ said' = said \ {s}
    /\ told' = [told EXCEPT ![s] = 0]
    \* the descriptor is new: RX's pollset does not know it
    /\ polls' = polls \ {s}
    /\ Push(Event("ACCEPT", s, p))
    /\ UNCHANGED <<faults, enb, owner, writer, rxq, ioq, crq, wait, main, late, sends>>

\* The association is lost, or the eNB gives it up.
Lose(s) ==
    /\ sock[s] = "open" /\ up[s]
    /\ up' = [up EXCEPT ![s] = FALSE]
    /\ UNCHANGED <<faults, sock, peer, said, told, enb, owner, polls, writer, rxq,
                   ioq, appq, crq, wait, main, late, accepts, sends>>

-----------------------------------------------------------------------------
(* The main thread. *)

\* Variant: an owner that RX knows is waited for instead of IO.
RemoveEnb_RxOnly(p, next) ==
    LET s == enb[p]
    IN  /\ enb' = [enb EXCEPT ![p] = None]
        /\ wait' = [wait EXCEPT ![s] = @ \cup (IF s \in owner THEN {"rx"} ELSE {"io"})]
        /\ main' = [at |-> IF s \in owner THEN "unwatch" ELSE "drain",
                    sock |-> s, next |-> next]

\* mme_enb_remove up to the registration: the context is gone, the socket waits
\* for its owners.
RemoveEnb(p, next) ==
    LET s == enb[p]
    IN  /\ enb' = [enb EXCEPT ![p] = None]
        /\ wait' = [wait EXCEPT ![s] =
               @ \cup {"io"} \cup (IF s \in owner THEN {"rx"} ELSE {})]
        /\ main' = [at |-> IF s \in owner THEN "unwatch" ELSE "drain",
                    sock |-> s, next |-> next]

\* mme_enb_remove goes on: s1ap_rx_unwatch_sock.
Unwatch ==
    LET s == main.sock
    IN  /\ main.at = "unwatch"
        /\ owner' = owner \ {s}
        /\ main' = [main EXCEPT !.at = "drain"]
        /\ \/ rxq' = Append(rxq, Command("UNWATCH", s)) /\ UNCHANGED <<wait, sock>>
           \/ "rxFull" \in faults /\ Confirm(s, "rx") /\ UNCHANGED rxq
        /\ UNCHANGED <<faults, peer, up, said, told, enb, polls, writer, ioq, appq,
                       crq, late, accepts, sends>>

\* mme_enb_remove ends: s1ap_io_drain_sock.
Drain ==
    LET s == main.sock
    IN  /\ main.at = "drain"
        /\ main' = IF main.next = None THEN Idle ELSE [main EXCEPT !.at = "add"]
        /\ \/ ioq' = Append(ioq, Command("DRAIN", s)) /\ UNCHANGED <<wait, sock>>
           \/ "ioFull" \in faults /\ Confirm(s, "io") /\ UNCHANGED ioq
        /\ UNCHANGED <<faults, peer, up, said, told, enb, owner, polls, writer, rxq,
                       appq, crq, late, accepts, sends>>

\* mme_enb_add, with s1ap_rx_watch_sock: the context is made and RX told to poll.
AddEnb ==
    LET e == main.next
    IN  /\ main.at = "add"
        /\ main' = Idle
        /\ enb' = [enb EXCEPT ![e.peer] = e.sock]
        /\ \/ /\ owner' = owner \cup {e.sock}
              /\ rxq' = Append(rxq, Command("WATCH", e.sock))
              /\ UNCHANGED appq
           \/ /\ "rxFull" \in faults
              /\ owner' = owner \ {e.sock}
              /\ Push(Event("WATCH_FAILED", e.sock, e.peer))
              /\ UNCHANGED rxq
        /\ UNCHANGED <<faults, kernel, polls, writer, ioq, crq, wait, late, accepts, sends>>

\* mme_main takes the next event of the application queue when the side queue is
\* empty.
Takes(i) ==
    /\ main.at = "poll" /\ crq = <<>> /\ appq # <<>>
    /\ Head(appq).id = i
    /\ appq' = Tail(appq)
    /\ UNCHANGED <<faults, peer, up, said, told, owner, polls, writer, rxq, ioq, crq,
                   accepts, sends>>

\* The rest of a handler is mme_enb_add.
GoAdd(e) == main' = [at |-> "add", sock |-> None, next |-> e]

\* MME_EVENT_S1AP_LO_ACCEPT: a context of the same address is stale.
TakeAccept ==
    LET e == Head(appq)
    IN  /\ Takes("ACCEPT")
        /\ IF enb[e.peer] # None THEN RemoveEnb(e.peer, e)
           ELSE GoAdd(e) /\ UNCHANGED <<enb, wait>>
        /\ UNCHANGED <<sock, late>>

\* MME_EVENT_S1AP_LO_SCTP_COMM_UP: without a context of that address one is made.
TakeCommUp ==
    LET e == Head(appq)
    IN  /\ Takes("COMM_UP")
        /\ IF enb[e.peer] # None THEN UNCHANGED <<main, late>>
           ELSE GoAdd(e) /\ late' = TRUE
        /\ UNCHANGED <<enb, wait, sock>>

\* MME_EVENT_S1AP_RX_SOCK_CLOSED and MME_EVENT_S1AP_IO_DRAINED.
TakeClosed ==
    /\ Takes("CLOSED")
    /\ Confirm(Head(appq).sock, "rx")
    /\ UNCHANGED <<enb, main, late>>

TakeDrained ==
    /\ Takes("DRAINED")
    /\ Confirm(Head(appq).sock, "io")
    /\ UNCHANGED <<enb, main, late>>

\* mme_enb_find_by_sock.
BySock(s) == {p \in Peers : enb[p] = s}

\* MME_EVENT_S1AP_RX_WATCH_FAILED.
TakeWatchFailed ==
    LET s == Head(appq).sock
    IN  /\ Takes("WATCH_FAILED")
        /\ IF BySock(s) # {}
           THEN \E p \in BySock(s) : RemoveEnb(p, None) /\ UNCHANGED sock
           ELSE Orphan(s) /\ UNCHANGED <<enb, wait, main>>
        /\ UNCHANGED late

\* MME_EVENT_S1AP_LO_CONNREFUSED: the context is found by address, else by
\* socket, and removed if it has the socket of the event.
TakeRefused ==
    LET e == Head(crq)
        found == IF enb[e.peer] # None THEN {e.peer} ELSE BySock(e.sock)
    IN  /\ main.at = "poll" /\ crq # <<>>
        /\ crq' = Tail(crq)
        /\ IF \E p \in found : enb[p] = e.sock
           THEN \E p \in found : RemoveEnb(p, None)
           ELSE UNCHANGED <<enb, wait, main>>
        /\ UNCHANGED <<faults, kernel, owner, polls, writer, rxq, ioq, appq, late, accepts,
                       sends>>

\* mme_orphan_enb_sweep, or MME_EVENT_ADMIN_DETACH_ENB of an operator: a context is
\* removed whatever becomes of its association.
Detach(p) ==
    /\ "detach" \in faults
    /\ main.at = "poll" /\ enb[p] # None
    /\ RemoveEnb(p, None)
    /\ UNCHANGED <<faults, kernel, owner, polls, writer, rxq, ioq, appq, crq, late, accepts,
                   sends>>

\* s1ap_io_post_send for a message main answers or starts on an association that
\* is up; a full queue drops it.
SendTo(p) ==
    /\ main.at = "poll" /\ sends < MaxSends
    /\ enb[p] \in said /\ UpHandled(p)
    /\ sends' = sends + 1
    /\ \/ ioq' = Append(ioq, Command("SEND", enb[p]))
       \/ "ioFull" \in faults /\ UNCHANGED ioq
    /\ UNCHANGED <<faults, kernel, enb, owner, polls, writer, rxq, appq, crq, wait,
                   main, late, accepts>>

-----------------------------------------------------------------------------
(* The RX worker. *)

\* rx_dispatch of WATCH.
Watch ==
    LET s == Head(rxq).sock
    IN  /\ rxq # <<>> /\ Head(rxq).op = "WATCH"
        /\ rxq' = Tail(rxq)
        /\ \/ polls' = polls \cup {s} /\ UNCHANGED appq
           \/ "race" \in faults /\ Push(Event("WATCH_FAILED", s, peer[s])) /\ UNCHANGED polls
        /\ UNCHANGED <<faults, kernel, enb, owner, writer, ioq, crq, wait, main,
                       late, accepts, sends>>

\* rx_dispatch of UNWATCH.
LetGoRx ==
    LET s == Head(rxq).sock
    IN  /\ rxq # <<>> /\ Head(rxq).op = "UNWATCH"
        /\ rxq' = Tail(rxq)
        /\ polls' = polls \ {s}
        /\ PushConfirm("CLOSED", s, "rx")
        /\ UNCHANGED <<faults, peer, up, said, told, enb, owner, writer, ioq, crq,
                       main, late, accepts, sends>>

\* s1ap_recv_handler reads SCTP_COMM_UP, the first notification of a socket.
RecvUp(s) ==
    /\ s \in polls /\ sock[s] = "open" /\ s \notin said
    /\ said' = said \cup {s}
    /\ Push(Event("COMM_UP", s, peer[s]))
    /\ UNCHANGED <<faults, sock, peer, up, told, enb, owner, polls, writer, rxq, ioq,
                   crq, wait, main, late, accepts, sends>>

\* A notification of loss is read from s and queued.
Tell(s) ==
    /\ s \in polls /\ sock[s] = "open" /\ s \in said /\ told[s] < MaxTold
    /\ told' = [told EXCEPT ![s] = @ + 1]
    /\ PushRefused(s)
    /\ UNCHANGED <<faults, sock, peer, up, said, enb, owner, polls, writer, rxq, ioq,
                   appq, wait, main, late, accepts, sends>>

\* s1ap_recv_handler reads SCTP_COMM_LOST, SCTP_SHUTDOWN_EVENT, SCTP_SHUTDOWN_COMP
\* or the end of the stream.
RecvDown(s) == ~up[s] /\ Tell(s)

\* s1ap_recv_handler reads SCTP_SEND_FAILED, about a message IO has written.
RecvSendFailed(s) == up[s] /\ writer[s] # "none" /\ Tell(s)

-----------------------------------------------------------------------------
(* The IO thread. *)

\* io_dispatch of SEND: the message leaves or is queued, or the association is
\* found dead (io_mark_assoc_dead), or main is asked to drop it
\* (io_request_teardown).
Write ==
    LET s == Head(ioq).sock
    IN  /\ ioq # <<>> /\ Head(ioq).op = "SEND"
        /\ ioq' = Tail(ioq)
        /\ IF writer[s] = "dead" THEN UNCHANGED <<writer, crq>>
           ELSE \/ writer' = [writer EXCEPT ![s] = "open"] /\ UNCHANGED crq
                \/ writer' = [writer EXCEPT ![s] = "dead"] /\ UNCHANGED crq
                \/ writer' = [writer EXCEPT ![s] = "dead"] /\ PushRefused(s)
        /\ UNCHANGED <<faults, kernel, enb, owner, polls, rxq, appq, wait, main,
                       late, accepts, sends>>

\* io_write_cb: what is queued meets the same errors later.
WriteLater(s) ==
    /\ writer[s] = "open" /\ sock[s] = "open"
    /\ writer' = [writer EXCEPT ![s] = "dead"]
    /\ PushRefused(s) \/ UNCHANGED crq
    /\ UNCHANGED <<faults, kernel, enb, owner, polls, rxq, ioq, appq, wait, main,
                   late, accepts, sends>>

\* io_dispatch of DRAIN.
LetGoIo ==
    LET s == Head(ioq).sock
    IN  /\ ioq # <<>> /\ Head(ioq).op = "DRAIN"
        /\ ioq' = Tail(ioq)
        /\ writer' = [writer EXCEPT ![s] = "none"]
        /\ PushConfirm("DRAINED", s, "io")
        /\ UNCHANGED <<faults, peer, up, said, told, enb, owner, polls, rxq, crq,
                       main, late, accepts, sends>>

-----------------------------------------------------------------------------
Main ==
    \/ Unwatch \/ Drain \/ AddEnb
    \/ TakeAccept \/ TakeCommUp \/ TakeClosed \/ TakeDrained \/ TakeWatchFailed
    \/ TakeRefused

Rx == Watch \/ LetGoRx

Io == Write \/ LetGoIo

Next ==
    \/ \E s \in Socks, p \in Peers : Accept(s, p)
    \/ \E s \in Socks : Lose(s)
    \/ \E p \in Peers : SendTo(p) \/ Detach(p)
    \/ Main \/ Rx \/ Io
    \/ \E s \in Socks : RecvUp(s) \/ RecvDown(s) \/ RecvSendFailed(s) \/ WriteLater(s)

\* The loops of the three threads take what is queued; the kernel delivers its
\* notifications to a socket that is polled.
Fairness ==
    /\ WF_vars(Main) /\ WF_vars(Rx) /\ WF_vars(Io)
    /\ \A s \in Socks : WF_vars(RecvUp(s)) /\ WF_vars(RecvDown(s))

Spec == Init /\ [][Next]_vars /\ Fairness

-----------------------------------------------------------------------------
(* Properties.  What follows a COMM_UP that main handles when it has already   *)
(* dropped the context of the peer is left to LastOwnerLetGo.                  *)

Timely == ~late

\* A socket that nobody refers to: no context, no command, not polled, no state
\* of the IO thread.
Released(s) ==
    /\ BySock(s) = {}
    /\ s \notin polls
    /\ writer[s] = "none"
    /\ \A c \in ToSet(rxq) \cup ToSet(ioq) : c.sock # s

Destroyed(s) == sock[s] = "open" /\ sock'[s] # "open"

\* A socket is destroyed only when every owner has let go of it: the main thread
\* has no context on it, the RX worker does not poll it and has no command about
\* it, and the IO thread holds nothing for it.  When a command queue is full the
\* confirmation is forced without its owner (s1ap_rx_unwatch_sock,
\* mme_enb_remove).
OwnersLetGo ==
    [][ (faults \cap {"rxFull", "ioFull"} = {} /\ ~late) =>
          \A s \in Socks : Destroyed(s) => Released(s)' ]_vars

\* The same of every behaviour whose queues have room, as mme_enb_remove says:
\* "the socket itself is destroyed only after EVERY owner confirms".  It does not
\* hold: a CONNREFUSED overtakes the COMM_UP of its association, and the COMM_UP
\* then makes a context on the socket that is being closed.
LastOwnerLetGo ==
    [][ faults = {} => \A s \in Socks : Destroyed(s) => Released(s)' ]_vars

\* No socket is destroyed twice, whichever of the confirmations, a forced
\* confirmation or the orphan path of WATCH_FAILED comes last.
DestroyedOnce == late \/ \A s \in Socks : sock[s] # "broken"

\* The close registry cannot wedge: a socket that waits for confirmations is
\* destroyed, even if the queue that carries them is full or the command that
\* asks for them is refused.
Reclaimed == \A s \in Socks : (wait[s] # {}) ~> (sock[s] = "free" \/ late)

\* The loss of an association reaches main: its context is dropped, however full
\* the application queue is ("Lifecycle teardowns: dedicated queue, never the S1AP
\* flood path", mme_sctp_event_push), and also when RX could not poll the socket.
\* When the command queue of RX is full, RX may read the loss from a socket that it
\* polls on behalf of an earlier association.
LossNoticed ==
    "rxFull" \notin faults =>
        \A p \in Peers, s \in Socks :
            (enb[p] = s /\ ~up[s]) ~> (enb[p] # s \/ late)

=============================================================================
