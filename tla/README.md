# Pretty5gs: specifications of the transaction, event and delivery machinery

This directory holds TLA+ specifications of the concurrent and distributed
machinery of Pretty5gs (an Open5GS fork), TLC configurations that check them on
small instances, and TLAPS proofs of the properties that matter most. Paths
such as `lib/gtp/xact.c` are relative to `src/` of the repository.

## 1. The system and its inventory

Pretty5gs is a set of network functions (MME, SGW-C/U, SMF, UPF, AMF, HSS, ...),
each a process with the same skeleton: a main thread, optional worker threads
("shards"), an event queue per thread, and a timer manager per thread. The
functions talk to each other over GTP-C, PFCP, Diameter, HTTP/2 and GTP', all of
which (but HTTP/2 and Diameter) are request/response protocols over UDP with
retransmission in the program.

| Part | State | Operations | Talks to | What makes it hard |
|---|---|---|---|---|
| GTP transaction ids (`lib/gtp/xact.c`) | a counter per thread, ids in use | allocate (v1, v2, command), delete, route an answer | transactions, shard workers | one counter for two id spaces; ids wrap; the thread must be read off the id |
| GTP transactions (`lib/gtp/xact.c`) | step, kept packets, two timers, two retry counters per transaction | create, update, commit, receive, retransmit, give up, hold, delete | the peer's transactions over UDP, applications, timers | loss, duplication, delay and reordering; three-way exchanges; timers against late answers |
| GTP transaction tables (`lib/gtp/xact.c`, `context.c`) | pool, two intrusive lists and counters, hash index, associations | create, find, associate, delete, delete all | transactions | id reuse, failure half-way, order of deletion |
| Worker threads and queues (`lib/core/ogs-worker.c`, `ogs-queue.c`, `ogs-notify.c`) | bounded ring, condition, eventfd, the loop's position | post, blocking push, pop, notify, terminate, join | every component | lost wakeups, self-deadlock on a full queue, stopping |
| Timers (`lib/core/ogs-timer.c`) | pool, ordered tree, batch of expired timers | add, start, stop, delete, expire, next | every component | callbacks that change the batch that is being called; other threads |
| PFCP transactions (`lib/pfcp/xact.c`) | as GTP, with delayed commit | as GTP | PFCP nodes, SMF/UPF, SGW-C/U | as GTP, and a second holder of the transaction |
| PFCP associations (`lib/pfcp`, `pfcp-sm.c` of four functions) | node state, heartbeat timer, recovery time stamp | setup, heartbeat, release, restoration | PFCP transactions | restart of either side, restoration order |
| Charging gateway (`src/cgf`) | spool files with two cursors, peers with a window of transfers | claim, stage, send, ack, rewind, finish, quarantine, echo, failover, reload, reclaim | GTP' receivers, the CDR writer, the file system | pipelined answers out of order, failover, restart of either side, reload |
| S1AP downlink offload (`src/mme/s1ap-tx.c`, `s1ap-path.c`) | counter of jobs in flight, hold list and its clocks per eNB, job and TX_READY queues | post a job, send or park, encode, complete, flush, recover, watchdog | UE threads, main thread, TX worker, IO thread | a counter without a lock beside a list with one; full queues; a recovery that races completions |
| S1AP sockets (`src/mme/s1ap-rx.c`, `s1ap-io.c`, `mme-event.c`, `mme-context.c`) | eNB contexts, polled sockets, writers, close registry, two event queues | accept, watch, unwatch, send, drain, confirm, destroy | main, RX worker, IO thread, kernel | three threads that hold one address; reuse of it; events that overtake each other; full queues |
| MME, AMF, SMF, SGW-C shards | owner of a UE or session, reader threads | route, hand over, close in two phases | queues, transactions | ownership that changes while events are queued |
| SBI (`lib/sbi`), Diameter (`lib/diameter`) | client transactions over external libraries | request, answer, timeout | NRF, SCP, HSS, PCRF | mostly in external libraries |
| Codecs, crypto, database, data plane, web interface | no shared state of their own, or I/O | | | not a matter for model checking |

What the modelled parts should guarantee, in short:

* ids: two threads never have one sequence number outstanding; an answer is looked
  up in the list that holds its request, by the thread its number names if it is
  steered by number;
* transactions: one outcome per request, an answer only from a peer that was
  given the request, no transaction without a timer, a repeated request answered
  again, every request resolved;
* tables: lists, counters, index and associations describe the same set;
* queues: no event lost, repeated or reordered, no sleep on work, no deadlock of
  a thread on its own queue, workers can be joined;
* timers: every expired timer called, none by mistake, none overslept;
* associations: a session that a restart of the user plane lost is not taken for
  installed for good, neither side stops probing by itself, both associate again
  (with exceptions that section 4 names);
* S1AP downlink: a message is parked only while a job can still release it, what
  the main thread sends does not overtake its own jobs, every message leaves;
* S1AP sockets: a socket is destroyed once, after every thread has let go of it,
  and it is destroyed in the end; a lost association is noticed;
* charging: no record leaves the spool unless a receiver has accepted it, and no
  batch that was sent is forgotten.

`PROJECT.json` lists every component with its status, the hazards of the code at
the lines where they bite, and the correspondence of definitions and source
lines.

## 2. Modules

| Module | Models | Checked by | Proved in |
|---|---|---|---|
| `GtpXid` | id allocation and routing of answers | TLC | `GtpXact_proofs` |
| `Rpc` | abstract specification: what applications are promised | (refinement) | |
| `GtpXact` | both ends of a GTP path; implements `Rpc` | TLC | `GtpXact_proofs` |
| `GtpXactTable` | pool, lists, counters, index, associations of a peer | TLC | |
| `OgsWorker` | worker loop, bounded queue, wakeup, stop | TLC | `OgsWorker_proofs` |
| `OgsTimer` | timer manager and the loop that calls it | TLC | `OgsWorker_proofs` |
| `Cgf`, `MCCgf` | charging gateway, main-thread drain | TLC | `Cgf_lemmas`, `Cgf_proofs` |
| `PfcpAssoc` | both ends of a PFCP peering: association, heartbeat, restart, restoration | TLC | `PfcpAssoc_lemmas`, `PfcpAssoc_proofs` |
| `S1apTx` | downlink to one eNB with the TX worker | TLC | `S1apTx_lemmas`, `S1apTx_proofs` |
| `S1apClose` | life of an eNB's socket among main, RX and IO threads | TLC | |

Definitions named `Operator_Variant` are wrong variants of the operator that
follows them, one for each property of a passing run: with the variant in its
place TLC must find the property violated. They are not used otherwise.

### GtpXid

`xactId[t]` is the thread's `tls_xact_id` (or `global_xact_id`), `live` the local
transactions as [shard, version, cmd, xid]. `Create1` and `Create2` are the two
`local_create` functions as far as ids go, `Delete` is `ogs_gtp_xact_delete`;
`OnTheWire`, `ReplyShard` and `ReplyList` are the macros and functions on the
receive path, for the three types of message that answer a local request: a
response, and to a command a triggered request or a Failure Indication. A Failure
Indication carries the command bit in a final message: `ReplyShard` leaves it alone
(`IsLocalReply`), `ogs_gtp_xact_receive` looks for it in the local list. The callers
route it, as everything that is not steered by its number, by TEID
(`sgwc/gtp-path.c`, lines 113-122; `mme/mme-workers.c`, line 285), which is not
modelled. Widths are parameters (`NShards`, `Span1`, `Span2`, `Word`) so that
TLC sees every wrap and the proofs hold for the code's 16, 2^12, 2^19, 2^32.
Threads start anywhere in the GTPv1 range, as `ogs_gtp_xact_init` seeds them.

### Rpc and GtpXact

`xact` maps a key (side, originator, id) to a transaction record; step 0 is a
free one. `net` is every datagram ever sent: delivery does not remove it, so
loss, duplication, delay and reordering are all there. `call`, `exec` and
`confirmed` are what the two applications know. An action is a whole handler:
`Request` and `Answer` are create/update/commit, including a `sendto` that fails;
the `Receive...` actions are `ogs_gtp_xact_receive` or its GTPv1 sibling with
`update_rx` and the reaction of the application; `ResponseDeferred`, `Retransmit`,
`GiveUp`, `HoldingTimeout` are the timers; `DeleteAll` is the removal of a peer or
a restart. Message types are reduced to the roles the layer distinguishes.
`Rpc` has no messages and no timers: a request has exactly one outcome, an answer
only if the other side was given the request, a confirmation only if it was sent.
`Implements` says that `GtpXact` refines it.

The path peer timer (`peer_timeout`), which only calls back into the MME, is left
out.

### GtpXactTable

One peer in one shard. Lists are modelled by their `prev`/`next` links because
`ogs_list_remove` trusts the links of the node it is given. `Created` includes
the path on which no timer can be had (`TimersSuffice` = FALSE) and the half-made
transaction is passed to `ogs_gtp_xact_delete`.

### OgsWorker

A critical section of the queue's mutex is a step, the notification after it is
another one. `Post` is `ogs_worker_post`, `Push` the blocking `ogs_queue_push`
with its deadline (`GiveUp`), `Pop` .. `DrainedOrDone` the loop, `Terminate` ..
`Join` the owner's `ogs_worker_join`. The loop's own thread is a producer as well,
from handlers, callbacks and dispatched events. `accepted` and `dispatched` are
history variables.

### OgsTimer

`left[t]` is relative time. `Detach`, `Call`, `Return` are `ogs_timer_mgr_expire`:
the batch is threaded through the timers and called without the lock, while
callbacks and (with `Foreign`) other threads add, start, stop and delete timers
(`TimerAdd`, `TimerStart`, `TimerStop`, `TimerDelete`). The pool is the sequence of
its free timers, handed out at the front and taken back at the end, as
`ogs_pool_alloc` and `ogs_pool_free` do. The red-black tree is an ordered sequence
(`AddTimerNode`, `Without`). `owed`, `reused` and `late` are history variables.

### Cgf

The drain on the main thread (`workers = 1`). A file is a sequence of batches
with the confirmed cursor (`next`, `next_record_offset`), the send cursor
(`send`), the count of transfers in flight, the buffered out-of-order acks and
the possibly-duplicated flag. A peer has a state, a socket or none, an echo
supervision and its transfers. Each event handler of `cgf_state_running` runs to
its end before the next one: `pc` orders the steps of the two that loop, the echo
timer over the peers and `cgf_sm_try_drain` over batches. The environment is
receivers that answer, reject, stay silent or restart, a peer list that is
reconfigured, sockets that fail, and a crash at any step followed by the
reclaiming of claimed files. `accepted` records what receivers have accepted.
An Echo Response may come with or without the restart counter of the receiver. A
reload finds that the sockets of new peers can be opened: the slot that a failed
opening leaves zeroed (`gtpp-path.c`, lines 426-437) is not modelled.

A file that breaks off after a whole batch is quarantined with its transfers still
in flight, which then point to freed memory (`DrainQuarantine`). What such memory
holds is undefined. The model has it as it was left, so that an answer ends the
transfer (`FreedAccepted`, `Rejected`) or finds no room in the ack buffer
(`AckLost`), and has the process end (`Crash`); it does not have the memory taken by
another file in the meantime.

A batch is cut at the same places whenever it starts at the same offset, so
offsets are batch numbers. Sequence numbers are abstracted to the least free one:
the 16-bit counter wraps long after a transfer was answered or given up.

### PfcpAssoc

One peering of a control function (`cp`, SGW-C or SMF) and a user plane function
(`up`, SGW-U or UPF). `node[s]` is the `ogs_pfcp_node_t` of the peer: state of
the FSM, the peer's recovery time stamp, the restoration flag and the timers
that run. `local` and `held` are the transactions of either end, keyed by the id
of a request, `net` the datagrams in flight, `csess` and `usess` the sessions.
An action is a whole handler: `Receive` is `ogs_pfcp_xact_receive` with the
event that `pfcp-sm.c` makes of it and everything the handler sends; `Timeout`
is the response timer, which sends again (`Retransmit`) or gives up
(`GiveUpHeartbeat`, `GiveUpSession`, `GiveUpSetup`, the callbacks of the
transaction); `Expire` and `Handle` are a node timer and the event it queues.
`Push` is the queue of the main thread: that of the SGW-C and the SMF may be
full, and then drops the event, with the timer that its handler would have
started again. The queues of the user plane functions wait for room instead and
are taken to have it. `Open` is the start of a process with its first setup
request; `Stop` a crash. `Establish` is the SGW-C's or SMF's session
establishment. The two kinds of control function differ in what a lost heartbeat
does (`Keeps`), and the two user plane functions do not differ here. Recovery
time stamps are numbers of incarnations: a restart within one second is not told
apart by the code and is not in the model. The peer's record of a request
(`held`) goes when its id is used again (`HoldingTimeouts`): T1-HOLDING covers
all the tries of the sender, and is taken to outlast every datagram of them.
`adrift` and `wiped` are history variables for the two ways in which the code
gives a session up, `stalled` has the timers that a full queue has stopped.
`FaultSets` says which kinds of fault may come together in a behaviour: a
restart, one lost datagram (`Lose`), one that is late so that T1 ends before it
arrives (`Late`), a full queue, or all the tries of one request of a type
(`LoseAll`).

### S1apTx

`at[a]` is the place of a thread or of the TX worker in `s1ap_tx_post_dlnas`
(`SendJob`, `Post`, `Undo`), `s1ap_send_to_enb` (`SendSync`, `Recover`, `Decide`,
`Send`, `SendHeld`), the worker (`Encode`, `PushReady`; with `mme.s1ap_tx_direct`
`LoadDirect`, `SubDirect`, `SpliceDirect`) and `s1ap_tx_ready_handle` (`TakeReady`
.. `CheckReady`). The atomic counter and the list under its lock are separate
steps wherever another thread can come between. Time is reduced to what the code
compares: `Tick` makes a clock old. `forced` is a history variable. A job and a
synchronous message differ in nothing but their kind; what they say is left out.
`MainInOrder` is narrow, as the code's order is: it is about messages the main
thread encodes itself against the jobs it posted before. A later job may pass a
parked message, and on a UE thread the counter comes down before the PDU of the job
is sent (`s1ap-tx.c`, lines 686-698), so that its synchronous message may pass its
own job.

### S1apClose

`enb` is `enb_addr_hash`, `owner` and `polls` the two tables of the RX side, `writer`
the IO thread's state, `wait` the close registry, `appq` and `crq` the two queues of
the main thread, `rxq` and `ioq` the command queues. A handler of the main thread is
one step, except where it calls `mme_enb_remove` for an older context first
(`main`). A socket object that is destroyed may be used for the next association,
as the allocator does. `FaultSets` says which queues may be full, whether the poll of
a socket may fail, or whether a context may be removed while its association is up
(`Detach`: the orphan sweep, `mme-path.c`, line 433, and the operator's detach,
`mme-sm.c`, line 1646) in a behaviour. `late` is a history variable: a COMM_UP
was handled after its context was dropped (finding 2).

## 3. Runs

| Run | Instance | Result |
|---|---|---|
| `gtp_xid` | 2 shards, windows of 3 (v1) and 5 (v2) ids, 2 requests outstanding per thread | pass |
| `gtp_xact_v2` | both sides call, 1 id each, 2 transmissions, requests and commands | pass |
| `gtp_xact_v1` | one side calls, SGSN Context exchange, RAN Information Relay, one deferral, liveness | pass |
| `gtp_table` | 4 transactions, 2 ids (every order of reuse), timers available | pass |
| `ogs_worker` | ring of 2, the loop's thread and one other, 3 events, termination at any time, liveness | pass |
| `ogs_timer` | 3 timers, 2 users, durations up to 2, other threads, liveness | pass |
| `cgf` | 2 receivers, spools of one file with 3 batches, of 2 short files, of 2 corrupt files, of one that breaks off after its first batch; any 2 faults | pass |
| `cgf_reload` | the peer list changes with transfers in flight | violation, finding 1 |
| `pfcp` | SGW-C and SGW-U or UPF, one session, one fault of seven kinds at any step (a restart also with a lost establishment or restoration), liveness | pass |
| `s1ap_tx` | main (2 messages) and a UE thread (1), queues of one, both modes, liveness | pass |
| `s1ap_close` | one eNB, 3 associations on 2 socket objects, one kind of fault per behaviour, liveness | pass |
| `s1ap_late` | one association, every queue with room | violation, finding 2 |

**What the passing runs show.** `gtp_xid`: the ids of two threads are
disjoint on the wire (`ShardsDisjoint`); an answer of any type is looked up in the
list that holds its request, and any but a Failure Indication names the thread that
holds it (`ReplyReachesRequest`). `gtp_xact_v2`: transaction, application and wire agree
(`Coherent`), every live transaction has a timer (`Attended`), a running
retransmission timer finds its packet and still waits for its answer
(`RetransmissionReady`), and the layer keeps `Rpc`'s promise (`Implements`).
`gtp_xact_v1`: a duplicate is answered from the held transaction, every request is
resolved and every transaction reclaimed; the four invariants above are proved for
both versions.
`gtp_table`: counters are list lengths, lists are the live transactions, the index
names live ones, associations are mutual, a removed peer leaves nothing.
`ogs_worker`: `InOrder`, `NeverSleepsOnWork`, and that events are dispatched, pushes
return, and a worker that is told to stop is joined. `ogs_timer`: pool and tree
are sound, nothing but an expired timer is called, the loop does
not oversleep, and an expired timer is called. `cgf`: the cursor and `done/` only
cover accepted batches (`Confirmed`), each batch between the cursors is carried by
exactly one transfer or has its ack buffered (`NothingForgotten`), a file is neither
finished nor claimed under a transfer, which leaves the quarantine as the only way
for a transfer to lose its file (`TransfersHaveFiles`), and a file is on one peer
(`Pinned`).
`pfcp`: a session the control function takes for installed is installed, or the
loss is still to be heard of, or its restoration is due or under way, unless the
code has given it up (`NotForgotten`); no handler leaves either state machine without
a timer, an event or a heartbeat outstanding, so that only a full queue stops one
(`KeepsTrying`); both sides are associated again, unless a queue was full or the user
plane alone has given the association up (`Reassociates`); and the session is
installed in the end, unless it was given up or a queue was full (`Restored`). Each of
these exceptions is reached in the run, and section 4 says where the code has it.
`s1ap_tx`: the counter that parks messages never exceeds the jobs
that can still bring it down (`Backed`), the hold list is watched exactly while it
holds something (`HoldIsTimed`), what the main thread encodes itself does not
overtake the jobs it posted before, when TX_READY comes back to it and until a
stalled list is forced out (`MainInOrder`), and every
message leaves or is a job that could not be encoded (`Leaves`). `s1ap_close`: a
socket is destroyed once (`DestroyedOnce`), only after main, RX and IO let go of it
(`OwnersLetGo`), and in the end (`Reclaimed`), and the loss of an association
reaches the main thread through full queues and failed polls (`LossNoticed`).

**Bounds and why they are enough.** Two shards and spans of 3 and 5 make the
counter wrap within either version and cross from one range into the other.
Two transmissions distinguish first, repeated and given-up; every message is
deliverable any number of times, so the number of ids is what bounds the network.
`MaxExec` bounds how often a request is executed again after its transaction was
deleted; two shows the repeated execution. A ring of two, two producers and three
events make it full, wrap, and make a waiting push meet a pop, a spurious wakeup,
its deadline and a termination. `MaxAdds` = 1 with three timers and two users
leaves the pool the spare timer that the code's sizing intends; with none spare a
callback can be handed the timer that is being called, and the rest of a batch is
skipped. Three batches with a window of 2 and an ack buffer of 1 reach buffering,
catching up and overflow; the file that breaks off after its first batch is
quarantined with that batch in flight. The two files of one batch differ only in name and are
a symmetry set (every `CHOOSE` of `Cgf` is over numbers). A fault in `cgf` is a request given up or rejected, a
peer taken for down, a socket error, a restart of either side or a reload; with
`Retries` = 1, and with a file of two batches beside another one, the invariants
were found to hold as well on spools of whole files (over 800,000 states each), which
is why the kept instance is smaller.

In `pfcp` a fault comes at any step: one lost datagram (which a retransmission
makes good), one that is late, a full queue, a crash of either side at any point
of the other's handshake, retransmission or restoration, or a request lost with
all its tries, so that a heartbeat, a setup, an establishment or a restoration
is given up. N1 = 2 gives a first and a last transmission; two ids of a kind let
a request of the old association meet one of the new (26,657 states). The safety
properties were also found to hold with restarts and losses in one behaviour
(about 210,000 states), and all four properties with one restart that takes
longer than T1 and datagrams that outlast it (`LongDown` and `LongFlight`;
399,612 states, 15 minutes). A retransmission or a give-up while a datagram of
the request is still on its way is the fault `late`, so these are bounded like
any other fault; the proofs have no bound on them. In `s1ap_tx`, queues of one
are full for the second message, and three messages are enough for a job between
two synchronous messages and for a job of another thread; with two messages from
either thread (465,299 states) the invariants hold as well. In `s1ap_close`, two
socket objects and three associations let an eNB reconnect before its old socket
is destroyed and let an address be used again; one notification of loss may be
repeated by a failed send. Faults of two kinds in one behaviour break
`DestroyedOnce` (section 4), so each behaviour has one kind, any number of
times. A removal by the sweep or the operator (`Detach`) breaks nothing beside
any one of the others (981,139 states, nine minutes); in the run it is a kind of
its own.

Where `CHECK_DEADLOCK FALSE` is given the system may stop: all requests of the
bound are made, the worker is joined, an assertion has aborted the process, or (in
`pfcp`) a full queue has stopped a control function whose peer does not ask either.

**Fairness.** `GtpXact`: a running timer fires, weakly fair per transaction, which
the poll loop and `OgsTimer` justify; a duplicate restarts the holding timer, so
`Reclaimed` also assumes that a datagram is not repeated for ever. Nothing is
assumed of the network or of the applications. `OgsWorker`: threads run (weak),
handlers return although they may add events (strong fairness of the three steps
that end a handler), a push's absolute deadline passes however often it wakes
up (strong). `OgsTimer`: the loop runs, poll returns in time, time passes (weak);
`Expires` excepts timers that another thread started during the loop's sleep,
because that does not wake it. `PfcpAssoc`: a datagram in flight arrives or is lost,
or the timer of its transaction ends (one weak-fairness condition for the heartbeats
of each side, one for all other requests); node timers and queued events are
served; a process that is down starts again. Nothing is assumed of losses but
that there is a last one (`MaxFault`), and of queues that they are full a last time. `S1apTx`: each thread finishes what it
began, the worker and the main thread's loop run, time passes, and the watchdog,
a timer of the main thread, is served; nobody has to send anything. `S1apClose`:
the three loops run and the kernel delivers the notifications of a polled socket;
nothing is assumed of writes, losses or accepts. All of it is weak fairness.
`GtpXid`, `GtpXactTable` and `Cgf` have safety only.

## 4. Findings

Each is a run that TLC finishes with a counterexample; `PROJECT.json` has the
quotations.

1. `cgf_reload`: a reload that removes a peer frees its transfers without rewinding
   their files: those batches are not sent again before the next start
   (`NothingForgotten`).
2. `s1ap_late`: CONNREFUSED has a queue that main serves before the one of COMM_UP.
   The loss of a young association is then handled first; COMM_UP finds no context
   of the address and makes one on the socket that is being closed, which the
   confirmations destroy under it (`LastOwnerLetGo`).

Known from the models, without a run of their own. Each line says how to see it.

* `GtpXid` with `Sharded` = FALSE and `XidWithinVersionRange`: without shards
  the counter shared by both versions does not come back into the GTPv1 range once
  GTPv2 has counted past it (`xact.c`, line 110; the comment at lines 396-397 says
  that it wraps "within each version's own range on allocation").
* `GtpXact` for GTPv2 with `DuplicateIsAnswered`: a repeated triggered request is
  dropped before the code that would send the kept answer again.
* `OgsTimer` with `DeletedIsNotCalled`: a timer that an earlier callback of the same
  batch deletes is still called; callers that look up by id tolerate it.
* `Cgf`, a file that breaks off after a whole batch (`clipped` in the run): it is
  quarantined and freed while transfers of its earlier batches are in flight
  (`cgf-sm.c`, lines 687-689), and the answer to such a transfer then uses freed memory.
  `TransfersHaveFiles` excepts this file; without the exception TLC finds it violated
  in five states.
* `GtpXactTable` with `TimersSuffice` = FALSE: a creation that finds no timer
  undoes list and counter updates that were never made, and violates
  `CountIsLength`.
* `Cgf` with socket errors in failover mode, a file of two batches and another
  file: the second file's send error switches the peer while the first one still
  has a transfer on the old peer, and violates `Pinned`. This is why `FailModes`
  of the run is round robin.
* `Cgf` with `LateAnswers`: after a receiver's restart the numbers start again on
  the same socket, so an answer to an old request confirms a new one, and
  violates `Confirmed`. The run assumes that answers do not outlive a restart.
* The possibly-duplicated flag of a file is cleared when nothing is in flight,
  which can be before the uncertain range was accepted again (`spool.c`, line 766).
* `PfcpAssoc` with `Keeps` = TRUE (an SMF): the SMF keeps the association when
  heartbeats are lost (`smf/pfcp-sm.c`, lines 343-351), while a restarted UPF drops
  heartbeats of a peer it does not know (`upf/pfcp-path.c`, line 141): unless the UPF
  itself asks for the association (`Assoc`), the two never associate again, and
  `Reassociates` is violated.
* `PfcpAssoc`, the sessions in `wiped`: after a restart of the control function the
  user plane may learn the new time stamp from a heartbeat only, and its restoration
  then also removes sessions that the restarted control function has already
  installed ("Restoration can be performed immediately.", `sgwu/pfcp-sm.c`, line 211).
  The properties except them.
* `PfcpAssoc`, the sessions in `adrift`: a restoration request that is given up is
  logged and not tried again; the session stays, and is not installed
  (`sgwc/pfcp-path.c`, lines 560-566).
* `PfcpAssoc`, `OneSided`: a user plane function that was added by its peer's setup has
  no `t_association`. When its heartbeats are lost it goes to will_associate and waits
  (`sgwu/pfcp-sm.c`, lines 74 and 300-303), but still answers the heartbeats of the
  control function (lines 113-117), which stays associated: the association is
  one-sided for good, and requests for sessions stay unanswered. The control function
  would ask again on an answer with cause 72, which the user plane functions of this
  repository do not give. `Reassociates` excepts it.
* `PfcpAssoc`, `stalled`: a control function pushes timer events and NO_HEARTBEAT with
  `ogs_queue_trypush`, and a full queue drops them (`sgwc/timer.c`, lines 67-74;
  `sgwc/pfcp-sm.c`, lines 598-603; `smf/event.c`, lines 112-127). Only the handler of the
  event starts the timer again, so the machine no longer probes its peer, or no longer
  asks for the association, until a message of the peer moves it. `KeepsTrying`,
  `Reassociates` and `Restored` except it. The user plane functions wait for room
  (`sgwu/timer.c`, line 46; `sgwu/pfcp-sm.c`, line 359) on the thread that empties the
  queue.
* An establishment that an SMF gives up: for a 5GC session `sess_timeout` tells the
  session's machine (`smf/pfcp-path.c`, lines 519-541), for an EPC session the timeout is
  only logged (lines 716-729). `GiveUpSession` allows both.
* `PfcpAssoc` with `LongFlight`: a stale time stamp repeats a restoration.
* `S1apTx` with `SyncNeverOvertakes`: in direct mode a synchronous message can go
  out before a job that its own thread posted earlier (`s1ap-path.c`, lines 107-109,
  says "a synchronously-encoded message must not overtake them on the wire"), and a
  post that fails brings the count to zero without flushing the hold list, which
  later messages then overtake. A recovery between the look at the counter and its
  decrement leaves the counter at -1, so the next job parks nothing.
* `S1apClose` with two kinds of fault in one behaviour (`flood` with `race`, `rxFull`
  with `ioFull`): a queued WATCH_FAILED destroys a socket a second time. An accept
  event that a full queue drops leaks its socket, and a dropped WATCH_FAILED leaves
  an eNB that nobody polls until it connects again.

## 5. Proofs

TLC checks the instances above; TLAPS proves the following for every value of the
constants that the `ASSUME`s admit. All of them are invariance proofs: an
inductive invariant, one lemma or step per action, and a last step by PTL.

* `GtpXact_proofs`, on `GtpXid`: `XidTypeCorrect`; and, with shards, `WindowsKept`
  (`InWindow`), `ShardsNeverCollide` (`ShardsDisjoint`), `RepliesReachRequests`
  (`ReplyReachesRequest`). `InWindow` is inductive by itself: the new counter is
  below the span, whichever version used it before (`CounterInWindow`), so the id
  is in the window (`XidInWindow`). `RepliesReachRequests` is for every type of answer:
  the number of a response or of a triggered request leads to the shard, and a Failure
  Indication is looked up in the local list and not steered by its number. The two
  others follow from it by uniqueness of
  quotient and remainder (`DivModUnique`, `WindowArithmetic`, `EchoOfWindow`).
* `GtpXact_proofs`, on `GtpXact`: `TypeCorrect`, `Coherence`, `AlwaysAttended`,
  `AlwaysReady`, `KeepsPromise`, `RepeatsAreAnswered`. The inductive invariant is
  `TypeOK` and `Coherent`: for every
  step of a transaction, which packets are kept, which timers run and what the
  application knows, and for every datagram on the wire what its sender had done.
  `Attended` and `RetransmissionReady` are not inductive, since whether a timer
  runs depends on the step; they follow from `Coherent`. `KeepsPromise` is the
  refinement: every step under the invariant is a step of `Rpc` or leaves its
  variables alone (`StepRefines`). `RepeatsAreAnswered` is the action property
  `DuplicateIsAnswered`, for GTPv1: a step that restarts a holding timer puts the
  kept answer on the wire again. It is of GTPv1 only because GTPv2 does not do so
  for every request (section 4).
* `OgsWorker_proofs`, on `OgsWorker`: `TypeCorrect`, `DeliversInOrder`,
  `NoLostWakeup`. The
  inductive invariant adds two facts to the three properties: that `in` is
  `out + nelts` around the ring, without which a push could overwrite an event,
  and that a stop that was begun has terminated the queue, without which the loop
  could go back to sleep with its wakeup already consumed.
* `OgsWorker_proofs`, on `OgsTimer`: `PoolStaysSound` (`PoolSound`), `NothingOverslept`
  (`NeverOversleeps`) and `OnlyExpiredCalled` (`CallsTheExpired`), for any number of
  timers, users and durations, with and without other threads. `PoolSound` is
  inductive with the types (`Core`); that the loop does not oversleep also needs the
  tree to be in order, since the loop sleeps for its first entry, and that holds
  because an insertion goes behind the timers that are not later (`InsertFacts`) and
  time passes for all alike (`TickFacts`). That only expired timers are called is
  about the links through a batch that is called without the lock: callbacks can
  delete timers of the batch and have new ones made. The invariant (`Batch`) is that
  the links lead from one timer of the batch to another of it, and that the next
  `MaxAdds` timers the pool hands out are not of the batch, because a freed timer
  goes to the end of the pool. It needs a pool with as many spare timers as can be
  added during one batch, `Cardinality(Users) + MaxAdds <= NTimers`; the run has
  equality, and with one fewer TLC finds the property violated. Facts on
  cardinalities come from the library.
* `Cgf_proofs`: `TypeCorrect` and `NothingDropped` (`Confirmed`), for any files, peers,
  windows and limits, both send modes, reloads at any time and crashes at any step,
  as long as an answer does not outlive its receiver's restart (`~LateAnswers`). The
  invariant (`CInv`) adds that the requests of a peer have different numbers, so that
  an answer is counted for its own batch, and that buffered acks are finitely many,
  so that the confirmed cursor stops. `EveryBatchAccounted` (`NothingForgotten`),
  `NoTransferOfFinishedFile` (`TransfersHaveFiles`) and `FilesStayPinned` (`Pinned`) hold
  where the code keeps its promises: `Reliable` excludes the late answers, the reload
  of finding 1 and socket errors in failover mode, each of which breaks one of them
  (section 4). Files may break off anywhere: that a quarantine takes a file from under
  its transfers is in the proofs, as an exception of `TransfersHaveFiles`. They need
  each other:
  the invariant (`FInv`) is the three with the order of a file's cursors, that the
  list of open files has no file twice, and that only configured peers, in failover
  mode only the active one, have transfers. The steps that give up on transfers
  (echo timeout, retransmissions used up, a receiver that restarted, a socket error)
  share one lemma: the files they lose are rewound, and the transfers of all other
  files stay (`GivesUp`).
* `PfcpAssoc_proofs`: `TypeCorrect` and `Remembered` (`NotForgotten`), for any number of
  sessions, restarts, losses, late datagrams and full queues, and both kinds of control
  function. `NotForgotten` is not inductive: an answer that arrives late
  could mark a session as installed that a restart has removed since. The
  strengthening (`IInv`) bounds every time stamp in a datagram and in a node by the
  incarnation of its sender (`RtsBound`, `ReqRts`, `RemoteBound`), says that the
  control function has heard a time stamp before it has a session (`Knows`) and that
  a session that was not begun has no transaction (`Quiet`), and extends
  `NotForgotten` to sessions whose answer is on its way (`Obligation`).
  `NeverAtRest` (`KeepsTrying`) is from the same invariant: every handler that takes
  away a timer, an event or a heartbeat leaves another one, or a full queue has
  dropped the event, which `stalled` records; a handler that starts the timer takes it
  from there. A user plane that does not ask for the association may rest in
  will_associate. `PfcpAssoc_lemmas` has
  the types, the facts about single operators and the steps that a handler is made
  of.
* `S1apTx_proofs`: `TypeCorrect`, `AlwaysTimed` (`HoldIsTimed`), `AlwaysBacked`
  (`Backed`) and `MainStaysInOrder` (`MainInOrder`), for any number of UE threads and
  messages, any size of the queues and
  both modes. Besides types, `Backed` needs only that an actor that completes
  a job has its event (`Got`). It is then inductive: the jobs in flight are
  split into those that threads have counted, that are queued, and that the worker
  or the main thread is completing (`InFlightNow`), and each action moves one job
  between two of these, or changes the sum and the counter together. A completion
  that does not decrement finds a counter that is not positive, which by `Backed`
  only a forced flush can have caused (`Uncounted`). `MainInOrder` rests on `Backed`:
  the main thread sends by itself only when the counter is zero, so that no job of
  its own is on the way (`NoneOfMain`), and what it has sent is older than the jobs
  that are (`Behind`); messages are numbered as they are begun (`Numbered`). The theorem
  says no more than `MainInOrder` (section 2, S1apTx): not that all messages of the main
  thread leave in their order.
  `S1apTx_lemmas` has the types and these invariants.

Assumed: the named `ASSUME`s of the modules, which TLC evaluates in every run, and
the hypotheses of single theorems, each satisfied by the run of the property: shards
are active (three theorems on `GtpXid`; without them the first line under "Known" of
section 4 applies), `Version = 1` (`RepeatsAreAnswered`), the spare timers
(`OnlyExpiredCalled`), `~LateAnswers` and `Reliable` (`Cgf_proofs`).

Only model-checked: all liveness properties (fairness is out of the prover's
reach), and everything in `GtpXactTable` (which has a recursive operator) and
`S1apClose`.

## 6. Not modelled, and the plan

The modelled lines are a small share of the repository (well under one percent).
Of its 1.4 million lines the greater part is generated: ASN.1 codecs under
`lib/asn1c`, OpenAPI models, NAS, GTP and PFCP message tables. They have no state of their
own. The hand-written remainder is mostly procedures of some twenty network
functions that build and parse messages, handler by handler, on top of the machinery
modelled here; a model of each would repeat the handler without adding an
interleaving. So the share can not come near a third of the lines, and the models
follow the places where threads, restarts and messages meet.

Left out of modelled components:

* PFCP: establishments that are refused or whose Create Session Request is gone
  when the answer comes; session modification, deletion and reports; association release and the
  re-association on cause 72; the waiting pushes of the user plane functions; maintenance
  and draining; the fan-out to shards; the
  deferral of retransmissions under lag; the delayed commit of a transaction.
* S1AP sockets: sends by UE threads without `mme_ctx_lock`, IO_CONGESTED, one-to-many
  sockets, several RX workers, exhaustion of the eNB pool, shutdown.
* S1AP downlink: an eNB that is removed with messages parked; drops of the IO queue,
  which come after a message has left; shutdown.
* Charging gateway: the drain worker threads (`worker.c`), I/O errors of the spool
  directory, record encoding, sockets of new peers that cannot be opened, memory of a
  quarantined file that is taken again.
* GTP transactions: the path peer timer; the routing by TEID and IMSI of what is not
  steered by its number.

What would follow, in this order:

1. `S1apClose`: a proof of `OwnersLetGo` with queues that have room; UE threads that
   send to a socket that is being closed.
2. `Cgf`: the history of the uncertain range; the drain workers.
3. PFCP transactions on their own, sharing `Rpc` as the abstract specification, with
   delayed commit and the shard routing of ids; association release.
4. A composition of `GtpXact` with `OgsTimer`'s batches: stale callbacks that look
   a transaction up by id.
5. Shards of MME, AMF, SMF and SGW-C: ownership of a UE while events are queued.
6. The timer values that `lib/app/ogs-config.c` derives.

Out of scope: codecs and generated code, cryptography, database access, the data
plane, the web interface and provisioning tools, and the procedures of NAS, S1AP
and NGAP as a whole.
