----------------------------- MODULE OgsWorker -----------------------------
(***************************************************************************)
(* The event loop of a worker thread (lib/core/ogs-worker.c) with the      *)
(* bounded queue it drains (ogs-queue.c) and the eventfd that wakes it     *)
(* (ogs-notify.c). The main thread of every network function runs the same *)
(* loop over ogs_app()->queue.                                             *)
(*                                                                         *)
(* A producer is a thread that adds events. The thread of the loop itself, *)
(* Self, is one: handlers, timers and the dispatched events add events to  *)
(* the queue their own thread drains. A critical section of one_big_mutex  *)
(* is one step; the notification after it is another.                      *)
(***************************************************************************)
EXTENDS Integers, Sequences

CONSTANTS
    Producers,  \* threads that add events
    Self,       \* the thread of the loop
    Events,     \* what can be added
    Capacity,   \* queue->bounds
    MaxEvents   \* bound: no push begins once so many events were accepted

ASSUME WorkerAssumption ==
    /\ Self \in Producers
    /\ Capacity \in Nat \ {0}
    /\ MaxEvents \in Nat

VARIABLES
    ring, in, out, nelts,   \* queue->data, in, out, nelts
    terminated,             \* queue->terminated
    pc,         \* where a producer is: "idle", in cond wait "waiting", "woken",
                \* or, when its push is to be followed by a wakeup, "notify"
    held,       \* the event of a producer that waits for room
    signalled,  \* the eventfd is readable
    worker,     \* where the loop is
    current,    \* the event that is dispatched
    owner,      \* where the thread is that stops the worker
    accepted,   \* history: the events whose push succeeded, in order
    dispatched  \* history: how many events were taken from the queue

None == "none"

queue == <<ring, in, out, nelts, terminated>>
vars == <<queue, pc, held, signalled, worker, current, owner, accepted, dispatched>>

Init ==
    /\ ring = [i \in 0 .. Capacity - 1 |-> None]
    /\ in = 0 /\ out = 0 /\ nelts = 0
    /\ terminated = FALSE
    /\ pc = [p \in Producers |-> "idle"]
    /\ held = [p \in Producers |-> None]
    /\ signalled = FALSE
    /\ worker = "poll"
    /\ current = None
    /\ owner = "running"
    /\ accepted = << >>
    /\ dispatched = 0

(* An index after it was advanced.                                         *)
Wrap(i) == IF i >= Capacity THEN i - Capacity ELSE i

Full == nelts = Capacity

(* The thread of the loop adds events only from the code the loop calls.   *)
MayPush(p) ==
    /\ pc[p] = "idle"
    /\ Len(accepted) < MaxEvents
    /\ p = Self => worker \in {"handle", "expire", "dispatch"}

(* The end of queue_push.                                                  *)
Put(p, e, to) ==
    /\ ring' = [ring EXCEPT ![in] = e]
    /\ in' = Wrap(in + 1)
    /\ nelts' = nelts + 1
    /\ accepted' = Append(accepted, e)
    /\ pc' = [pc EXCEPT ![p] = to]
    /\ UNCHANGED <<out, terminated>>

-----------------------------------------------------------------------------
Post_NotifyWhenOne(p, e) ==
    /\ MayPush(p)
    /\ ~terminated /\ ~Full
    /\ Put(p, e, IF nelts = 1 THEN "notify" ELSE "idle")
    /\ UNCHANGED <<held, signalled, worker, current, owner, dispatched>>

(* ogs_worker_post: it never waits, and wakes the loop only when the queue *)
(* was empty. A post that finds the queue full or terminated changes       *)
(* nothing.                                                                *)
Post(p, e) ==
    /\ MayPush(p)
    /\ ~terminated /\ ~Full
    /\ Put(p, e, IF nelts = 0 THEN "notify" ELSE "idle")
    /\ UNCHANGED <<held, signalled, worker, current, owner, dispatched>>

(* ogs_queue_push: it waits for room, and its callers wake the loop, except *)
(* some that run on the thread of the loop.                                *)
Push(p, e) ==
    /\ MayPush(p)
    /\ ~terminated
    /\ IF Full
         THEN /\ pc' = [pc EXCEPT ![p] = "waiting"]
              /\ held' = [held EXCEPT ![p] = e]
              /\ UNCHANGED <<queue, accepted>>
         ELSE /\ \E to \in IF p = Self THEN {"notify", "idle"} ELSE {"notify"} :
                    Put(p, e, to)
              /\ UNCHANGED held
    /\ UNCHANGED <<signalled, worker, current, owner, dispatched>>

(* A waiting producer wakes up for no reason.                              *)
SpuriousWake(p) ==
    /\ pc[p] = "waiting"
    /\ pc' = [pc EXCEPT ![p] = "woken"]
    /\ UNCHANGED <<queue, held, signalled, worker, current, owner, accepted, dispatched>>

Resume_NoRecheck(p) ==
    /\ pc[p] = "woken"
    /\ Put(p, held[p], "notify")
    /\ UNCHANGED <<held, signalled, worker, current, owner, dispatched>>

(* A woken producer has the mutex again: it finds room, whether or not the *)
(* queue was terminated meanwhile, or waits on.                            *)
Resume(p) ==
    /\ pc[p] = "woken"
    /\ IF Full
         THEN /\ ~terminated
              /\ pc' = [pc EXCEPT ![p] = "waiting"]
              /\ UNCHANGED <<queue, accepted>>
         ELSE Put(p, held[p], "notify")
    /\ UNCHANGED <<held, signalled, worker, current, owner, dispatched>>

GiveUp_WhenTerminated(p) ==
    /\ pc[p] = "woken" /\ Full /\ terminated
    /\ pc' = [pc EXCEPT ![p] = "idle"]
    /\ UNCHANGED <<queue, held, signalled, worker, current, owner, accepted, dispatched>>

(* OGS_QUEUE_PUSH_MAX_WAIT has passed, or the queue is full and            *)
(* terminated: the push fails.                                             *)
GiveUp(p) ==
    /\ pc[p] = "waiting" \/ (pc[p] = "woken" /\ Full)
    /\ pc' = [pc EXCEPT ![p] = "idle"]
    /\ UNCHANGED <<queue, held, signalled, worker, current, owner, accepted, dispatched>>

(* ogs_pollset_notify                                                      *)
Notify(p) ==
    /\ pc[p] = "notify"
    /\ signalled' = TRUE
    /\ pc' = [pc EXCEPT ![p] = "idle"]
    /\ UNCHANGED <<queue, held, worker, current, owner, accepted, dispatched>>

-----------------------------------------------------------------------------
(* worker_main                                                             *)
Turn(from, to) ==
    /\ worker = from /\ pc[Self] = "idle"
    /\ worker' = to

(* ogs_pollset_poll returns because of the eventfd.                        *)
PollNotified ==
    /\ signalled
    /\ Turn("poll", "handle")
    /\ UNCHANGED <<queue, pc, held, signalled, current, owner, accepted, dispatched>>

(* ogs_drain_pollset                                                       *)
DrainNotify ==
    /\ Turn("handle", "expire")
    /\ signalled' = FALSE
    /\ UNCHANGED <<queue, pc, held, current, owner, accepted, dispatched>>

(* It returns because of another descriptor or of the next timer.          *)
PollOther ==
    /\ Turn("poll", "expire")
    /\ UNCHANGED <<queue, pc, held, signalled, current, owner, accepted, dispatched>>

(* The handlers and the callbacks of ogs_timer_mgr_expire have run.        *)
Expired ==
    /\ Turn("expire", "drain")
    /\ UNCHANGED <<queue, pc, held, signalled, current, owner, accepted, dispatched>>

(* ogs_queue_trypop, with the signal to one waiting producer.              *)
Pop ==
    /\ ~terminated /\ nelts > 0
    /\ Turn("drain", "dispatch")
    /\ current' = ring[out]
    /\ nelts' = nelts - 1
    /\ out' = Wrap(out + 1)
    /\ dispatched' = dispatched + 1
    /\ IF \E p \in Producers : pc[p] = "waiting"
         THEN \E p \in Producers : pc[p] = "waiting" /\ pc' = [pc EXCEPT ![p] = "woken"]
         ELSE UNCHANGED pc
    /\ UNCHANGED <<ring, in, terminated, held, signalled, owner, accepted>>

Dispatched_OnePerPoll ==
    /\ Turn("dispatch", "poll")
    /\ UNCHANGED <<queue, pc, held, signalled, current, owner, accepted, dispatched>>

(* worker->dispatch has returned.                                          *)
Dispatched ==
    /\ Turn("dispatch", "drain")
    /\ UNCHANGED <<queue, pc, held, signalled, current, owner, accepted, dispatched>>

(* Nothing is left, or nothing ever will be taken again.                   *)
DrainedOrDone ==
    /\ terminated \/ nelts = 0
    /\ Turn("drain", IF terminated THEN "done" ELSE "poll")
    /\ UNCHANGED <<queue, pc, held, signalled, current, owner, accepted, dispatched>>

-----------------------------------------------------------------------------
(* ogs_worker_join: ogs_queue_term in its two critical sections, the       *)
(* wakeup, and the join.                                                   *)
Terminate ==
    /\ owner = "running"
    /\ owner' = "interrupt"
    /\ terminated' = TRUE
    /\ UNCHANGED <<ring, in, out, nelts, pc, held, signalled, worker, current, accepted, dispatched>>

InterruptAll ==
    /\ owner = "interrupt"
    /\ owner' = "notify"
    /\ pc' = [p \in Producers |-> IF pc[p] = "waiting" THEN "woken" ELSE pc[p]]
    /\ UNCHANGED <<queue, held, signalled, worker, current, accepted, dispatched>>

NotifyStop_None ==
    /\ owner = "notify"
    /\ owner' = "join"
    /\ UNCHANGED <<queue, pc, held, signalled, worker, current, accepted, dispatched>>

NotifyStop ==
    /\ owner = "notify"
    /\ owner' = "join"
    /\ signalled' = TRUE
    /\ UNCHANGED <<queue, pc, held, worker, current, accepted, dispatched>>

Join ==
    /\ owner = "join" /\ worker = "done"
    /\ owner' = "joined"
    /\ UNCHANGED <<queue, pc, held, signalled, worker, current, accepted, dispatched>>

Produce(p) ==
    \/ \E e \in Events : Post(p, e) \/ Push(p, e)
    \/ SpuriousWake(p)
    \/ Resume(p)
    \/ GiveUp(p)
    \/ Notify(p)

Loop == PollNotified \/ DrainNotify \/ PollOther \/ Expired \/ Pop \/ Dispatched \/ DrainedOrDone

Stop == Terminate \/ InterruptAll \/ NotifyStop \/ Join

Next == (\E p \in Producers : Produce(p)) \/ Loop \/ Stop

Spec == Init /\ [][Next]_vars

(* Threads run: the loop goes on whenever it is not asleep; a handler adds *)
(* some events and returns; a producer goes on with what it began; time    *)
(* passes for one that waits (it may wake up and wait again any number of  *)
(* times, but its deadline stands); a stop that was begun is completed.    *)
Fairness ==
    /\ WF_vars(PollNotified \/ Pop \/ DrainedOrDone)
    /\ SF_vars(DrainNotify) /\ SF_vars(Expired) /\ SF_vars(Dispatched)
    /\ \A p \in Producers : WF_vars(Notify(p)) /\ WF_vars(Resume(p)) /\ SF_vars(GiveUp(p))
    /\ WF_vars(InterruptAll \/ NotifyStop \/ Join)

FairSpec == Spec /\ Fairness
-----------------------------------------------------------------------------
(* The variables hold what their declarations say; the indices of the ring *)
(* stay inside it.                                                         *)
TypeOK ==
    /\ ring \in [0 .. Capacity - 1 -> Events \cup {None}]
    /\ in \in 0 .. Capacity - 1 /\ out \in 0 .. Capacity - 1 /\ nelts \in 0 .. Capacity
    /\ terminated \in BOOLEAN
    /\ pc \in [Producers -> {"idle", "waiting", "woken", "notify"}]
    /\ held \in [Producers -> Events \cup {None}]
    /\ \A p \in Producers : pc[p] \in {"waiting", "woken"} => held[p] \in Events
    /\ signalled \in BOOLEAN
    /\ worker \in {"poll", "handle", "expire", "drain", "dispatch", "done"}
    /\ current \in Events \cup {None}
    /\ owner \in {"running", "interrupt", "notify", "join", "joined"}
    /\ accepted \in Seq(Events)
    /\ dispatched \in Nat

Slot(i) == Wrap(out + i)

(* What the loop dispatches is what was accepted, in the same order, each  *)
(* event once and none overwritten, however pushes, waits and pops         *)
(* interleave around the end of the ring.                                  *)
InOrder ==
    /\ Len(accepted) = dispatched + nelts
    /\ \A i \in 0 .. nelts - 1 : ring[Slot(i)] = accepted[dispatched + i + 1]
    /\ worker = "dispatch" => dispatched > 0 /\ current = accepted[dispatched]

(* "Safe because worker_main() drains the queue to empty before it can     *)
(* sleep in poll" (ogs_worker_post): the loop never sleeps on an event, or *)
(* on its own termination, that no wakeup is on the way for.               *)
NeverSleepsOnWork ==
    worker = "poll" =>
        /\ nelts > 0 => signalled \/ \E p \in Producers : pc[p] = "notify"
        /\ owner \in {"join", "joined"} => signalled

(* An accepted event is dispatched, unless the worker is stopped.          *)
EventuallyDispatched ==
    \A n \in 1 .. MaxEvents : Len(accepted) >= n ~> dispatched >= n \/ terminated

(* A push that waits for room comes back, also on the thread that is the   *)
(* only one to make room.                                                  *)
PushReturns ==
    \A p \in Producers : pc[p] = "waiting" ~> pc[p] = "idle"

(* A worker that is told to stop is joined.                                *)
StopsWhenTold == owner # "running" ~> owner = "joined"
=============================================================================
