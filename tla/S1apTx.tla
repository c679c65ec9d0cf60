------------------------------- MODULE S1apTx -------------------------------
(***************************************************************************)
(* The MME's downlink to one eNB when DownlinkNASTransport is encoded on a *)
(* TX worker (src/src/mme/s1ap-tx.c, s1ap_send_to_enb in s1ap-path.c).     *)
(*                                                                         *)
(* The threads that handle UEs and the main thread send two kinds of       *)
(* message to the eNB: a job, which the worker encodes and which then      *)
(* comes back to the main thread as TX_READY (or, with mme.s1ap_tx_direct, *)
(* is sent by the worker), and a message encoded synchronously, which is   *)
(* parked on the eNB's hold list while the eNB's counter of jobs in        *)
(* flight, s1ap_tx_pending, is positive.  The counter is changed without a *)
(* lock; the hold list and its clock belong to s1ap_tx_hold_lock.  A code  *)
(* section under that lock is one step unless another thread can change    *)
(* the counter in the middle of it to some effect.                         *)
(*                                                                         *)
(* The eNB stays connected: S1apClose is about its removal.                *)
(***************************************************************************)
EXTENDS Integers, FiniteSets, Sequences, Functions

CONSTANTS
    Shards,     \* the UE threads (mme.workers)
    MainSends,  \* bound: how many messages the main thread sends
    ShardSends, \* bound: how many messages each UE thread sends
    JobMax,     \* capacity of the worker's job queue
    ReadyMax,   \* capacity of the TX_READY side queue of the main thread
    AppMax,     \* room in the main thread's application queue
    MaxParked   \* S1AP_TX_HOLD_SEND_MAX_PARKED

ASSUME SizeAssumption ==
    /\ "main" \notin Shards /\ "tx" \notin Shards
    /\ IsFiniteSet(Shards)
    /\ MainSends \in Nat /\ ShardSends \in Nat /\ JobMax \in Nat /\ ReadyMax \in Nat /\ AppMax \in Nat
    /\ MaxParked \in Nat \ {0}

Threads == Shards \cup {"main"}
Actors == Threads \cup {"tx"}       \* "tx" is the TX worker of this eNB

Sends(t) == IF t = "main" THEN MainSends ELSE ShardSends

\* The nr-th message of a thread, encoded on the worker or synchronously.
Msgs == [by : Threads, nr : Nat, job : BOOLEAN]
\* What the worker makes of a job: the PDU, or none if the encoding fails.
Events == [msg : Msgs, ok : BOOLEAN]

VARIABLES
    direct,     \* mme.s1ap_tx_direct
    at,         \* where each actor is
    sent,       \* how many messages each thread has begun to send
    out,        \* the PDUs an actor has taken off the hold list and is sending
    got,        \* the event that the main thread or the worker is dealing with
    pending,    \* s1ap_tx_pending
    hold,       \* s1ap_tx_hold
    holdSince, pendSince, lastReady,    \* their clocks, see Tick
    jobs,       \* the worker's queue
    readyq,     \* the TX_READY side queue
    appq,       \* the TX_READYs that overflowed to the application queue
    wire,       \* the PDUs handed to the IO thread
    lost,       \* the jobs that could not be encoded
    forced      \* history: a stalled hold list or count has been reset

clocks == <<holdSince, pendSince, lastReady>>
queues == <<jobs, readyq, appq>>
vars == <<direct, at, sent, out, got, pending, hold, clocks, queues, wire, lost, forced>>

\* The message a thread is sending.
Current(t) == [by |-> t, nr |-> sent[t], job |-> at[t] = "post"]

Goto(a, l) == at' = [at EXCEPT ![a] = l]

\* To the loop at l that sends a list, and past it when there is nothing to send.
GoSend(a, list, l, next) == Goto(a, IF list = <<>> THEN next ELSE l)

Init ==
    /\ direct \in BOOLEAN
    /\ at = [a \in Actors |-> "idle"]
    /\ sent = [t \in Threads |-> 0]
    /\ out = [a \in Actors |-> <<>>]
    /\ got = [a \in Actors |-> <<>>]
    /\ pending = 0
    /\ hold = <<>>
    /\ holdSince = "none" /\ pendSince = "none" /\ lastReady = "old"
    /\ jobs = <<>> /\ readyq = <<>> /\ appq = <<>>
    /\ wire = {} /\ lost = {}
    /\ forced = FALSE

-----------------------------------------------------------------------------
(* Time.  A clock of the code is the time of an event, or 0; what matters  *)
(* is whether it is set and whether it is older than the thresholds of     *)
(* seconds that the code compares it with.                                 *)

Older(c) == IF c = "recent" THEN "old" ELSE c

Tick ==
    /\ "recent" \in {holdSince, pendSince, lastReady}
    /\ holdSince' = Older(holdSince)
    /\ pendSince' = Older(pendSince)
    /\ lastReady' = Older(lastReady)
    /\ UNCHANGED <<direct, at, sent, out, got, pending, hold, queues, wire, lost, forced>>

\* s1ap_tx_hold_try_flush_locked: whether the hold list, or a count with
\* nothing held, has stood for too long; cap is 0 for no limit on its length.
Stalled(cap) ==
    \/ hold # <<>> /\ holdSince = "old" /\ lastReady = "old"
    \/ cap > 0 /\ Len(hold) >= cap
    \/ hold = <<>> /\ pending > 0 /\ pendSince = "old"

\* Variant: the clock runs on over the empty list.
Splice_KeepsClock(a) ==
    /\ out' = [out EXCEPT ![a] = hold]
    /\ hold' = <<>>
    /\ pendSince' = "none"
    /\ UNCHANGED holdSince

\* The hold list is taken by actor a.
Splice(a) ==
    /\ out' = [out EXCEPT ![a] = hold]
    /\ hold' = <<>>
    /\ holdSince' = "none"
    /\ pendSince' = "none"

\* The rest of s1ap_tx_hold_try_flush_locked.
ForceFlush(a) == Splice(a) /\ pending' = 0 /\ forced' = TRUE

\* No section of the hold lock is open: the only one of several steps is the
\* worker's.
HoldFree == at["tx"] \notin {"sub", "splice"}

\* What a decrement of the counter does to it and to its clock.  (The clock is
\* stored after the decrement; a job counted in between would lose its start, and
\* with it only the third way of Stalled.)
Decrement ==
    /\ pending' = pending - 1
    /\ pendSince' = IF pending - 1 = 0 THEN "none" ELSE pendSince

-----------------------------------------------------------------------------
(* Sending: nas_eps_send_to_downlink_nas_transport, s1ap_tx_post_dlnas and *)
(* s1ap_send_to_enb.                                                       *)

Begins(t) == at[t] = "idle" /\ sent[t] < Sends(t) /\ sent' = [sent EXCEPT ![t] = @ + 1]

\* The job is counted before it is posted.
SendJob(t) ==
    /\ Begins(t)
    /\ pending' = pending + 1
    /\ pendSince' = IF pending = 0 THEN "recent" ELSE pendSince
    /\ Goto(t, "post")
    /\ UNCHANGED <<direct, out, got, hold, holdSince, lastReady, queues, wire, lost, forced>>

Post(t) ==
    /\ at[t] = "post"
    /\ \/ /\ Len(jobs) < JobMax
          /\ jobs' = Append(jobs, Current(t))
          /\ Goto(t, "idle")
       \/ /\ Len(jobs) >= JobMax
          /\ Goto(t, "undo")
          /\ UNCHANGED jobs
    /\ UNCHANGED <<direct, sent, out, got, pending, hold, clocks, readyq, appq, wire, lost, forced>>

\* The queue was full: the count is undone and the message sent synchronously.
Undo(t) ==
    /\ at[t] = "undo"
    /\ Decrement
    /\ Goto(t, "recover")
    /\ UNCHANGED <<direct, sent, out, got, hold, holdSince, lastReady, queues, wire, lost, forced>>

SendSync(t) ==
    /\ Begins(t)
    /\ Goto(t, "recover")
    /\ UNCHANGED <<direct, out, got, pending, hold, clocks, queues, wire, lost, forced>>

\* s1ap_tx_hold_recover_stalled
Recover(t) ==
    /\ at[t] = "recover" /\ HoldFree
    /\ \/ /\ ~Stalled(MaxParked)
          /\ Goto(t, "decide")
          /\ UNCHANGED <<out, pending, hold, holdSince, pendSince, forced>>
       \/ /\ Stalled(MaxParked)
          /\ ForceFlush(t)
          /\ GoSend(t, hold, "flush", "decide")
    /\ UNCHANGED <<direct, sent, got, lastReady, queues, wire, lost>>

\* One PDU of a list taken off the hold list is sent; "next" is where the
\* actor goes once there is none left.
SendHeld(a, l, next) ==
    /\ at[a] = l /\ out[a] # <<>>
    /\ wire' = wire \cup {Head(out[a])}
    /\ out' = [out EXCEPT ![a] = Tail(@)]
    /\ GoSend(a, Tail(out[a]), l, next)
    /\ UNCHANGED <<direct, sent, got, pending, hold, clocks, queues, lost, forced>>

\* Variant: one job in flight is taken for none.
Decide_OffByOne(t) ==
    /\ at[t] = "decide" /\ HoldFree
    /\ \/ /\ pending > 1
          /\ hold' = Append(hold, Current(t))
          /\ holdSince' = IF hold = <<>> THEN "recent" ELSE holdSince
          /\ Goto(t, "idle")
       \/ /\ pending <= 1
          /\ Goto(t, "send")
          /\ UNCHANGED <<hold, holdSince>>
    /\ UNCHANGED <<direct, sent, out, got, pending, pendSince, lastReady, queues, wire, lost, forced>>

\* Parked behind the jobs in flight, or sent.
Decide(t) ==
    /\ at[t] = "decide" /\ HoldFree
    /\ \/ /\ pending > 0
          /\ hold' = Append(hold, Current(t))
          /\ holdSince' = IF hold = <<>> THEN "recent" ELSE holdSince
          /\ Goto(t, "idle")
       \/ /\ pending <= 0
          /\ Goto(t, "send")
          /\ UNCHANGED <<hold, holdSince>>
    /\ UNCHANGED <<direct, sent, out, got, pending, pendSince, lastReady, queues, wire, lost, forced>>

Send(t) ==
    /\ at[t] = "send"
    /\ wire' = wire \cup {Current(t)}
    /\ Goto(t, "idle")
    /\ UNCHANGED <<direct, sent, out, got, pending, hold, clocks, queues, lost, forced>>

-----------------------------------------------------------------------------
(* The TX worker: tx_dispatch.                                             *)

Encode ==
    /\ at["tx"] = "idle" /\ jobs # <<>>
    /\ \E ok \in BOOLEAN :
          /\ got' = [got EXCEPT !["tx"] = <<[msg |-> Head(jobs), ok |-> ok]>>]
          /\ lost' = IF ok THEN lost ELSE lost \cup {Head(jobs)}
    /\ jobs' = Tail(jobs)
    /\ Goto("tx", "encoded")
    /\ UNCHANGED <<direct, sent, out, pending, hold, clocks, readyq, appq, wire, forced>>

\* Variant: when both queues are full the event is dropped.
PushReady_GivesUp ==
    /\ ~direct /\ at["tx"] = "encoded"
    /\ \/ Len(readyq) < ReadyMax /\ readyq' = Append(readyq, got["tx"][1]) /\ UNCHANGED appq
       \/ /\ Len(readyq) >= ReadyMax /\ Len(appq) < AppMax
          /\ appq' = Append(appq, got["tx"][1]) /\ UNCHANGED readyq
       \/ Len(readyq) >= ReadyMax /\ Len(appq) >= AppMax /\ UNCHANGED <<readyq, appq>>
    /\ got' = [got EXCEPT !["tx"] = <<>>]
    /\ Goto("tx", "idle")
    /\ UNCHANGED <<direct, sent, out, pending, hold, clocks, jobs, wire, lost, forced>>

\* tx_post_ready and mme_event_s1ap_tx_ready_push: the side queue, else the
\* application queue, else again.
PushReady ==
    /\ ~direct /\ at["tx"] = "encoded"
    /\ \/ Len(readyq) < ReadyMax /\ readyq' = Append(readyq, got["tx"][1]) /\ UNCHANGED appq
       \/ /\ Len(readyq) >= ReadyMax /\ Len(appq) < AppMax
          /\ appq' = Append(appq, got["tx"][1]) /\ UNCHANGED readyq
    /\ got' = [got EXCEPT !["tx"] = <<>>]
    /\ Goto("tx", "idle")
    /\ UNCHANGED <<direct, sent, out, pending, hold, clocks, jobs, wire, lost, forced>>

\* The PDU of an event, if it has one.
Pdu(e) == IF e.ok THEN <<e.msg>> ELSE <<>>

\* tx_complete_direct under the hold lock: the count is looked at, ...
LoadDirect ==
    /\ direct /\ at["tx"] = "encoded"
    /\ Goto("tx", IF pending > 0 THEN "sub" ELSE "splice")
    /\ UNCHANGED <<direct, sent, out, got, pending, hold, clocks, queues, wire, lost, forced>>

\* ... decremented, ...
SubDirect ==
    /\ at["tx"] = "sub"
    /\ Decrement
    /\ Goto("tx", "splice")
    /\ UNCHANGED <<direct, sent, out, got, hold, holdSince, lastReady, queues, wire, lost, forced>>

\* Variant: without a PDU the list that was taken is not sent.
SpliceDirect_OnlyWithPdu ==
    /\ at["tx"] = "splice"
    /\ out' = [out EXCEPT !["tx"] =
                  IF pending = 0 /\ got["tx"][1].ok THEN Pdu(got["tx"][1]) \o hold
                  ELSE Pdu(got["tx"][1])]
    /\ \/ pending = 0 /\ hold' = <<>> /\ holdSince' = "none" /\ pendSince' = "none"
       \/ pending # 0 /\ UNCHANGED <<hold, holdSince, pendSince>>
    /\ lastReady' = "recent"
    /\ got' = [got EXCEPT !["tx"] = <<>>]
    /\ GoSend("tx", out'["tx"], "flush", "idle")
    /\ UNCHANGED <<direct, sent, pending, queues, wire, lost, forced>>

\* ... and the hold list taken if it is zero; the PDU goes before the list.
SpliceDirect ==
    /\ at["tx"] = "splice"
    /\ \/ /\ pending = 0
          /\ out' = [out EXCEPT !["tx"] = Pdu(got["tx"][1]) \o hold]
          /\ hold' = <<>> /\ holdSince' = "none" /\ pendSince' = "none"
       \/ /\ pending # 0
          /\ out' = [out EXCEPT !["tx"] = Pdu(got["tx"][1])]
          /\ UNCHANGED <<hold, holdSince, pendSince>>
    /\ lastReady' = "recent"
    /\ got' = [got EXCEPT !["tx"] = <<>>]
    /\ GoSend("tx", out'["tx"], "flush", "idle")
    /\ UNCHANGED <<direct, sent, pending, queues, wire, lost, forced>>

-----------------------------------------------------------------------------
(* The main thread: the loop of mme_main takes a TX_READY from the side    *)
(* queue before one from the application queue; s1ap_tx_ready_handle.      *)

TakeReady ==
    /\ at["main"] = "idle"
    /\ \/ /\ readyq # <<>>
          /\ got' = [got EXCEPT !["main"] = <<Head(readyq)>>]
          /\ readyq' = Tail(readyq) /\ UNCHANGED appq
       \/ /\ readyq = <<>> /\ appq # <<>>
          /\ got' = [got EXCEPT !["main"] = <<Head(appq)>>]
          /\ appq' = Tail(appq) /\ UNCHANGED readyq
    /\ Goto("main", "load")
    /\ UNCHANGED <<direct, sent, out, pending, hold, clocks, jobs, wire, lost, forced>>

LoadReady ==
    /\ at["main"] = "load"
    /\ Goto("main", IF pending > 0 THEN "sub" ELSE "pdu")
    /\ UNCHANGED <<direct, sent, out, got, pending, hold, clocks, queues, wire, lost, forced>>

SubReady ==
    /\ at["main"] = "sub"
    /\ Decrement
    /\ Goto("main", "pdu")
    /\ UNCHANGED <<direct, sent, out, got, hold, holdSince, lastReady, queues, wire, lost, forced>>

SendReady ==
    /\ at["main"] = "pdu"
    /\ lastReady' = "recent"
    /\ wire' = wire \cup Range(Pdu(got["main"][1]))
    /\ got' = [got EXCEPT !["main"] = <<>>]
    /\ Goto("main", "check")
    /\ UNCHANGED <<direct, sent, out, pending, hold, holdSince, pendSince, queues, lost, forced>>

\* The count is read again under the hold lock, which changes nothing: a count
\* that is zero there decides, and one that is not leaves the list to others.
CheckReady ==
    /\ at["main"] = "check" /\ HoldFree
    /\ \/ pending = 0 /\ Splice("main") /\ GoSend("main", hold, "drain", "idle")
       \/ pending # 0 /\ Goto("main", "idle") /\ UNCHANGED <<out, hold, holdSince, pendSince>>
    /\ UNCHANGED <<direct, sent, got, pending, lastReady, queues, wire, lost, forced>>

\* s1ap_tx_hold_watchdog, from the main thread's timers.
Watchdog ==
    /\ at["main"] = "idle" /\ HoldFree
    /\ Stalled(0)
    /\ ForceFlush("main")
    /\ GoSend("main", hold, "drain", "idle")
    /\ UNCHANGED <<direct, sent, got, lastReady, queues, wire, lost>>

-----------------------------------------------------------------------------
Begin(t) == SendJob(t) \/ SendSync(t)

Continue(t) ==
    \/ Post(t) \/ Undo(t) \/ Recover(t) \/ Decide(t) \/ Send(t)
    \/ SendHeld(t, "flush", "decide")

Ready ==
    \/ TakeReady \/ LoadReady \/ SubReady \/ SendReady \/ CheckReady
    \/ SendHeld("main", "drain", "idle")

Worker ==
    \/ Encode \/ PushReady \/ LoadDirect \/ SubDirect \/ SpliceDirect
    \/ SendHeld("tx", "flush", "idle")

\* Nothing is left to do: the threads have sent what the bound lets them.
Rest ==
    /\ \A a \in Actors : at[a] = "idle"
    /\ \A t \in Threads : sent[t] = Sends(t)
    /\ jobs = <<>> /\ readyq = <<>> /\ appq = <<>> /\ hold = <<>>
    /\ "recent" \notin {holdSince, pendSince, lastReady}
    /\ UNCHANGED vars

Next ==
    \/ \E t \in Threads : Begin(t) \/ Continue(t)
    \/ Ready
    \/ Worker
    \/ Watchdog
    \/ Tick
    \/ Rest

\* The threads run, time passes, and the main thread's timers are served
\* between two batches of events; no thread has to send anything.
Fairness ==
    /\ \A t \in Threads : WF_vars(Continue(t))
    /\ WF_vars(Ready) /\ WF_vars(Worker) /\ WF_vars(Watchdog) /\ WF_vars(Tick)

Spec == Init /\ [][Next]_vars /\ Fairness

-----------------------------------------------------------------------------
Clocks == {"none", "recent", "old"}

\* Types; the counter may fall below zero (see Backed).
TypeOK ==
    /\ direct \in BOOLEAN /\ forced \in BOOLEAN
    /\ at \in [Actors -> {"idle", "post", "undo", "recover", "flush", "decide", "send",
                          "encoded", "sub", "splice", "load", "pdu", "check", "drain"}]
    /\ sent \in [Threads -> Nat]
    /\ out \in [Actors -> Seq(Msgs)] /\ got \in [Actors -> Seq(Events)]
    /\ pending \in Int
    /\ hold \in Seq(Msgs)
    /\ holdSince \in Clocks /\ pendSince \in Clocks /\ lastReady \in {"recent", "old"}
    /\ jobs \in Seq(Msgs) /\ readyq \in Seq(Events) /\ appq \in Seq(Events)
    /\ wire \subseteq Msgs /\ lost \subseteq Msgs

\* The jobs that are counted: from the increment of s1ap_tx_post_dlnas to the
\* decrement that undoes it or that the job's completion makes.
InFlight ==
    Cardinality({t \in Threads : at[t] \in {"post", "undo"}})
    + Len(jobs) + Len(readyq) + Len(appq)
    + (IF at["tx"] \in {"encoded", "sub"} THEN 1 ELSE 0)
    + (IF at["main"] \in {"load", "sub"} THEN 1 ELSE 0)

\* The counter is backed by jobs that are still to be completed, one each: it
\* cannot stay above zero once they are, which would park every synchronous
\* message for good.  It equals their number until the watchdog or a sender
\* has forced a stalled list out.
Backed == pending <= InFlight /\ (~forced => pending = InFlight)

\* The clock of the hold list runs exactly while the list holds something: the
\* watchdog sees every parked message, and no list that is empty.
HoldIsTimed == (holdSince = "none") <=> (hold = <<>>)

\* The PDUs of jobs that are not sent yet.
Unsent ==
    LET evs == Range(readyq) \cup Range(appq) \cup Range(got["main"]) \cup Range(got["tx"])
    IN  {m \in Range(jobs) \cup {e.msg : e \in {f \in evs : f.ok}} \cup Range(out["tx"]) : m.job}

\* m, sent, has overtaken a job of the same thread that is not.
Overtakes(m, j) == ~m.job /\ j.by = m.by /\ j.nr < m.nr

\* What the main thread sends synchronously never overtakes its own jobs, as
\* long as TX_READY comes back to it and no stalled list was forced out.  Nothing
\* is said of the other direction (a job may pass a message that is parked) nor
\* of UE threads: the count comes down before the PDU of a job is sent
\* (s1ap_tx_ready_handle), and a message of a UE thread can pass in between.
MainInOrder ==
    ~direct /\ ~forced =>
        \A m \in wire, j \in Unsent : m.by = "main" => ~Overtakes(m, j)

\* The same for every thread: "a synchronously-encoded message must not
\* overtake them on the wire".
SyncNeverOvertakes == ~forced => \A m \in wire, j \in Unsent : ~Overtakes(m, j)

\* A message that a thread begins to send is handed to the IO thread in the
\* end, or could not be encoded.
Leaves ==
    \A t \in Threads : \A n \in 1 .. Sends(t) :
        sent[t] >= n ~> \E m \in wire \cup lost : m.by = t /\ m.nr = n
=============================================================================
