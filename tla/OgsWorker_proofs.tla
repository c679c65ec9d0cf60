-------------------------- MODULE OgsWorker_proofs --------------------------
(***************************************************************************)
(* Proofs about what the loop of a worker serves.  Its queue, for every    *)
(* set of producers and events and every capacity (OgsWorker).  Then its   *)
(* timers, for every set of users, size of the pool and longest duration   *)
(* (OgsTimer).                                                             *)
(***************************************************************************)
EXTENDS OgsWorker, OgsTimer, FiniteSetTheorems, WellFoundedInduction, TLAPS

(* The SMT solver is tried twice, then Zenon, where a leaf names neither.  *)
USE SMTT(30), SMTT(31), Zenon

(* The ring and its histories: where the next event goes, and that the     *)
(* slots between out and in hold what was accepted and not yet dispatched. *)
RingInv ==
    /\ ring \in [0 .. Capacity - 1 -> Events \cup {None}]
    /\ in \in 0 .. Capacity - 1 /\ out \in 0 .. Capacity - 1 /\ nelts \in 0 .. Capacity
    /\ accepted \in Seq(Events)
    /\ dispatched \in Nat
    /\ in = Wrap(out + nelts)
    /\ Len(accepted) = dispatched + nelts
    /\ \A i \in 0 .. nelts - 1 : ring[Slot(i)] = accepted[dispatched + i + 1]

(* The threads: the loop hands out the last event taken, and a stop that   *)
(* was begun has terminated the queue.                                     *)
ThreadInv ==
    /\ terminated \in BOOLEAN
    /\ pc \in [Producers -> {"idle", "waiting", "woken", "notify"}]
    /\ held \in [Producers -> Events \cup {None}]
    /\ \A p \in Producers : pc[p] \in {"waiting", "woken"} => held[p] \in Events
    /\ signalled \in BOOLEAN
    /\ worker \in {"poll", "handle", "expire", "drain", "dispatch", "done"}
    /\ current \in Events \cup {None}
    /\ owner \in {"running", "interrupt", "notify", "join", "joined"}
    /\ owner # "running" => terminated = TRUE
    /\ worker = "dispatch" => dispatched > 0 /\ current = accepted[dispatched]

IInv == RingInv /\ ThreadInv /\ NeverSleepsOnWork

-----------------------------------------------------------------------------
(* Where two positions of the ring meet.                                   *)
LEMMA SlotFacts ==
  ASSUME RingInv
  PROVE  /\ \A i \in 0 .. Capacity - 1 : Slot(i) \in 0 .. Capacity - 1
         /\ nelts < Capacity => Slot(nelts) = in
         /\ nelts < Capacity => \A i \in 0 .. nelts - 1 : Slot(i) # in
         /\ Slot(0) = out
  BY WorkerAssumption DEF RingInv, Slot, Wrap

LEMMA RingKept ==
  ASSUME RingInv, UNCHANGED <<ring, in, out, nelts, accepted, dispatched>>
  PROVE  RingInv'
  BY DEF RingInv, Slot, Wrap

(* An event that is put into the ring is the next one, and overwrites none. *)
LEMMA PutRing ==
  ASSUME RingInv, NEW p \in Producers, NEW e \in Events, NEW to, Put(p, e, to),
         nelts < Capacity, dispatched' = dispatched
  PROVE  /\ RingInv' /\ nelts' = nelts + 1
         /\ \A i \in 1 .. dispatched : accepted'[i] = accepted[i]
  <1>1. /\ ring' = [ring EXCEPT ![in] = e] /\ in' = Wrap(in + 1) /\ nelts' = nelts + 1
        /\ accepted' = Append(accepted, e) /\ out' = out
    BY DEF Put
  <1>2. accepted' \in Seq(Events) /\ Len(accepted') = Len(accepted) + 1
        /\ accepted'[Len(accepted) + 1] = e
        /\ \A i \in 1 .. Len(accepted) : accepted'[i] = accepted[i]
    BY <1>1 DEF RingInv
  <1>3. in' \in 0 .. Capacity - 1 /\ in' = Wrap(out' + nelts')
    BY <1>1, WorkerAssumption DEF RingInv, Wrap
  <1>4. ASSUME NEW i \in 0 .. nelts' - 1
        PROVE  ring'[Slot(i)'] = accepted'[dispatched' + i + 1]
    <2>1. Slot(i)' = Slot(i) /\ Slot(i) \in 0 .. Capacity - 1
      <3>1. i \in 0 .. Capacity - 1
        BY <1>1, WorkerAssumption DEF RingInv
      <3>2. Slot(i)' = Slot(i)
        BY <1>1 DEF Slot
      <3> QED
        BY <3>1, <3>2, SlotFacts
    <2>2. CASE i = nelts
      BY Zenon, <1>1, <1>2, <2>1, <2>2, SlotFacts DEF RingInv
    <2>3. CASE i # nelts
      <3>1. i \in 0 .. nelts - 1 /\ Slot(i) # in
        BY <1>1, <2>3, SlotFacts DEF RingInv
      <3>2. ring'[Slot(i)] = ring[Slot(i)] /\ ring[Slot(i)] = accepted[dispatched + i + 1]
        BY Zenon, <1>1, <2>1, <3>1 DEF RingInv
      <3>3. dispatched + i + 1 \in 1 .. Len(accepted)
        BY <3>1 DEF RingInv
      <3> QED
        BY <1>2, <2>1, <3>2, <3>3
    <2> QED
      BY <2>2, <2>3
  <1>5. ring' \in [0 .. Capacity - 1 -> Events \cup {None}]
    BY <1>1 DEF RingInv
  <1>6. /\ nelts' \in 0 .. Capacity /\ out' \in 0 .. Capacity - 1 /\ dispatched' \in Nat
        /\ Len(accepted') = dispatched' + nelts'
    BY <1>1, <1>2, WorkerAssumption DEF RingInv
  <1>7. RingInv'
    BY Zenon, <1>2, <1>3, <1>4, <1>5, <1>6 DEF RingInv
  <1>8. \A i \in 1 .. dispatched : i \in 1 .. Len(accepted)
    BY DEF RingInv
  <1> QED
    BY <1>1, <1>2, <1>7, <1>8

(* The event that is taken is the first one that was not dispatched.       *)
LEMMA PopRing ==
  ASSUME RingInv, nelts > 0, current' = ring[out], nelts' = nelts - 1, out' = Wrap(out + 1),
         dispatched' = dispatched + 1, UNCHANGED <<ring, in, accepted>>
  PROVE  RingInv' /\ dispatched' > 0 /\ current' = accepted'[dispatched'] /\ current' \in Events
  <1>1. current' = accepted[dispatched + 1] /\ dispatched + 1 \in 1 .. Len(accepted)
    <2>1. 0 \in 0 .. nelts - 1
      BY DEF RingInv
    <2>2. ring[Slot(0)] = accepted[dispatched + 0 + 1]
      BY <2>1 DEF RingInv
    <2>3. Slot(0) = out
      BY SlotFacts
    <2> QED
      BY <2>2, <2>3 DEF RingInv
  <1>2. /\ out' \in 0 .. Capacity - 1 /\ nelts' \in 0 .. Capacity /\ in' = Wrap(out' + nelts')
        /\ dispatched' \in Nat /\ Len(accepted') = dispatched' + nelts'
    BY WorkerAssumption DEF RingInv, Wrap
  <1>3. ASSUME NEW i \in 0 .. nelts' - 1
        PROVE  ring'[Slot(i)'] = accepted'[dispatched' + i + 1]
    <2>1. i + 1 \in 0 .. nelts - 1 /\ Slot(i)' = Slot(i + 1)
      BY WorkerAssumption DEF RingInv, Slot, Wrap
    <2>2. ring[Slot(i + 1)] = accepted[dispatched + (i + 1) + 1]
      BY Zenon, <2>1 DEF RingInv
    <2>3. dispatched' + i + 1 = dispatched + (i + 1) + 1
      BY DEF RingInv
    <2> QED
      BY <2>1, <2>2, <2>3
  <1>4. RingInv'
    BY <1>2, <1>3 DEF RingInv
  <1> QED
    BY <1>1, <1>4 DEF RingInv

-----------------------------------------------------------------------------
LEMMA InitInv == Init => IInv
  <1> SUFFICES ASSUME Init PROVE IInv
    OBVIOUS
  <1>1. RingInv
    BY WorkerAssumption DEF Init, RingInv, Wrap
  <1>2. ThreadInv
    BY Zenon DEF Init, ThreadInv
  <1>3. NeverSleepsOnWork
    BY DEF Init, NeverSleepsOnWork
  <1> QED
    BY <1>1, <1>2, <1>3 DEF IInv

(* A successful push, whichever operation it ends.                         *)
LEMMA PutInv ==
  ASSUME IInv, NEW p \in Producers, NEW e \in Events, NEW to \in {"idle", "notify"},
         Put(p, e, to), nelts < Capacity,
         worker # "poll" \/ nelts > 0 \/ to = "notify",
         pc[p] # "notify",
         UNCHANGED <<held, signalled, worker, current, owner, dispatched>>
  PROVE  IInv'
  <1>0. RingInv /\ ThreadInv /\ NeverSleepsOnWork
    BY DEF IInv
  <1>1. /\ RingInv' /\ nelts' = nelts + 1
        /\ \A i \in 1 .. dispatched : accepted'[i] = accepted[i]
    BY <1>0, PutRing
  <1>2. pc' = [pc EXCEPT ![p] = to] /\ terminated' = terminated
    BY DEF Put
  <1>3. ThreadInv'
    <2>1. worker = "dispatch" => dispatched > 0 /\ current = accepted'[dispatched]
      BY <1>0, <1>1 DEF ThreadInv, RingInv
    <2> QED
      BY <1>0, <1>2, <2>1 DEF ThreadInv
  <1>4. NeverSleepsOnWork'
    <2> SUFFICES ASSUME worker = "poll"
                 PROVE  /\ nelts' > 0 => signalled \/ \E q \in Producers : pc'[q] = "notify"
                        /\ owner \in {"join", "joined"} => signalled
      BY DEF NeverSleepsOnWork
    <2>1. CASE to = "notify"
      BY <1>0, <1>2, <2>1 DEF NeverSleepsOnWork, ThreadInv
    <2>2. CASE to # "notify"
      <3>1. signalled \/ \E q \in Producers : pc[q] = "notify"
        BY <1>0, <2>2 DEF NeverSleepsOnWork
      <3>2. \A q \in Producers : pc[q] = "notify" => pc'[q] = "notify"
        BY <1>0, <1>2 DEF ThreadInv
      <3> QED
        BY <1>0, <3>1, <3>2 DEF NeverSleepsOnWork
    <2> QED
      BY <2>1, <2>2
  <1> QED
    BY <1>1, <1>3, <1>4 DEF IInv

(* A step of a producer that neither adds an event nor notifies.           *)
LEMMA WaitInv ==
  ASSUME IInv, NEW p \in Producers, NEW to \in {"idle", "waiting", "woken"},
         pc[p] # "notify", pc' = [pc EXCEPT ![p] = to],
         held' \in [Producers -> Events \cup {None}],
         \A q \in Producers : held'[q] = held[q] \/ held'[q] \in Events,
         to \in {"waiting", "woken"} => held'[p] \in Events,
         UNCHANGED <<queue, signalled, worker, current, owner, accepted, dispatched>>
  PROVE  IInv'
  <1>0. RingInv /\ ThreadInv /\ NeverSleepsOnWork
    BY DEF IInv
  <1>1. RingInv'
    BY <1>0, RingKept DEF queue
  <1>2. ThreadInv'
    BY <1>0 DEF ThreadInv, queue
  <1>3. NeverSleepsOnWork'
    <2>1. \A q \in Producers : pc[q] = "notify" => pc'[q] = "notify"
      BY <1>0 DEF ThreadInv
    <2> QED
      BY <1>0, <2>1 DEF NeverSleepsOnWork, queue
  <1> QED
    BY <1>1, <1>2, <1>3 DEF IInv

(* A step that only moves the loop, the eventfd or the owner.              *)
LEMMA LoopInv ==
  ASSUME IInv, UNCHANGED <<queue, pc, held, current, accepted, dispatched>>,
         signalled' \in BOOLEAN,
         worker' \in {"poll", "handle", "expire", "drain", "dispatch", "done"},
         owner' \in {"running", "interrupt", "notify", "join", "joined"},
         owner' # "running" => terminated = TRUE,
         worker' = "dispatch" => worker = "dispatch",
         NeverSleepsOnWork'
  PROVE  IInv'
  <1>1. RingInv'
    BY RingKept DEF IInv, queue
  <1>2. ThreadInv'
    BY DEF IInv, ThreadInv, queue
  <1> QED
    BY <1>1, <1>2 DEF IInv

-----------------------------------------------------------------------------
LEMMA PostInv ==
  ASSUME IInv, NEW p \in Producers, NEW e \in Events, Post(p, e)
  PROVE  IInv'
  <1>1. nelts \in 0 .. Capacity /\ nelts < Capacity
    BY WorkerAssumption DEF Post, Full, IInv, RingInv
  <1>2. pc[p] # "notify"
    BY DEF Post, MayPush
  <1>3. UNCHANGED <<held, signalled, worker, current, owner, dispatched>>
    BY DEF Post
  <1>4. CASE nelts = 0
    <2>1. Put(p, e, "notify")
      BY <1>4 DEF Post
    <2> QED
      BY <1>1, <1>2, <1>3, <2>1, PutInv
  <1>5. CASE nelts # 0
    <2>1. Put(p, e, "idle") /\ nelts > 0
      BY <1>1, <1>5 DEF Post
    <2> QED
      BY <1>1, <1>2, <1>3, <2>1, PutInv
  <1> QED
    BY <1>4, <1>5

LEMMA PushInv ==
  ASSUME IInv, NEW p \in Producers, NEW e \in Events, Push(p, e)
  PROVE  IInv'
  <1>0. ThreadInv
    BY DEF IInv
  <1>1. pc[p] = "idle" /\ (p = Self => worker # "poll")
    BY DEF Push, MayPush
  <1>2. UNCHANGED <<signalled, worker, current, owner, dispatched>>
    BY DEF Push
  <1>3. CASE Full
    <2>1. /\ pc' = [pc EXCEPT ![p] = "waiting"] /\ held' = [held EXCEPT ![p] = e]
          /\ UNCHANGED <<queue, accepted>>
      BY <1>3 DEF Push
    <2>2. /\ held' \in [Producers -> Events \cup {None}] /\ held'[p] \in Events
          /\ \A q \in Producers : held'[q] = held[q] \/ held'[q] \in Events
      BY <1>0, <2>1 DEF ThreadInv
    <2> QED
      BY Zenon, <1>1, <1>2, <2>1, <2>2, WaitInv
  <1>4. CASE ~Full
    <2>1. nelts < Capacity
      BY <1>4, WorkerAssumption DEF Full, IInv, RingInv
    <2>2. UNCHANGED held
      BY <1>4 DEF Push
    <2>3. PICK to \in {"notify", "idle"} : Put(p, e, to) /\ (to = "idle" => p = Self)
      BY <1>4 DEF Push
    <2>4. worker # "poll" \/ to = "notify"
      BY <1>1, <2>3
    <2> QED
      BY Zenon, <1>1, <1>2, <2>1, <2>2, <2>3, <2>4, PutInv
  <1> QED
    BY <1>3, <1>4

LEMMA SpuriousWakeInv ==
  ASSUME IInv, NEW p \in Producers, SpuriousWake(p)
  PROVE  IInv'
  <1>1. held \in [Producers -> Events \cup {None}] /\ held[p] \in Events
    BY DEF IInv, ThreadInv, SpuriousWake
  <1> QED
    BY Zenon, <1>1, WaitInv DEF SpuriousWake

LEMMA ResumeInv ==
  ASSUME IInv, NEW p \in Producers, Resume(p)
  PROVE  IInv'
  <1>1. held \in [Producers -> Events \cup {None}] /\ held[p] \in Events
    BY DEF IInv, ThreadInv, Resume
  <1>2. pc[p] # "notify" /\ UNCHANGED <<held, signalled, worker, current, owner, dispatched>>
    BY DEF Resume
  <1>3. CASE Full
    <2>1. pc' = [pc EXCEPT ![p] = "waiting"] /\ UNCHANGED <<queue, accepted>>
      BY <1>3 DEF Resume
    <2> QED
      BY Zenon, <1>1, <1>2, <2>1, WaitInv
  <1>4. CASE ~Full
    <2>1. Put(p, held[p], "notify")
      BY <1>4 DEF Resume
    <2>2. nelts < Capacity
      BY <1>4, WorkerAssumption DEF Full, IInv, RingInv
    <2> QED
      BY Zenon, <1>1, <1>2, <2>1, <2>2, PutInv
  <1> QED
    BY <1>3, <1>4

LEMMA GiveUpInv ==
  ASSUME IInv, NEW p \in Producers, GiveUp(p)
  PROVE  IInv'
  <1>1. held \in [Producers -> Events \cup {None}]
    BY DEF IInv, ThreadInv
  <1> QED
    BY Zenon, <1>1, WaitInv DEF GiveUp

LEMMA NotifyInv ==
  ASSUME IInv, NEW p \in Producers, Notify(p)
  PROVE  IInv'
  <1>0. RingInv /\ ThreadInv
    BY DEF IInv
  <1>1. RingInv'
    BY <1>0, RingKept DEF Notify, queue
  <1>2. ThreadInv'
    BY <1>0 DEF ThreadInv, Notify, queue
  <1>3. NeverSleepsOnWork'
    BY DEF NeverSleepsOnWork, Notify
  <1> QED
    BY <1>1, <1>2, <1>3 DEF IInv

(* The wakeup is consumed before the queue is drained: the loop is not     *)
(* asleep when it is.                                                      *)
LEMMA MoveInv ==
  ASSUME IInv, PollNotified \/ DrainNotify \/ PollOther \/ Expired \/ Dispatched
  PROVE  IInv'
  <1>1. /\ UNCHANGED <<queue, pc, held, current, owner, accepted, dispatched>>
        /\ worker' \in {"handle", "expire", "drain"}
        /\ signalled' = signalled \/ signalled' = FALSE
    BY DEF PollNotified, DrainNotify, PollOther, Expired, Dispatched, Turn
  <1>2. NeverSleepsOnWork'
    BY <1>1 DEF NeverSleepsOnWork
  <1>3. signalled' \in BOOLEAN
    BY Zenon, <1>1 DEF IInv, ThreadInv
  <1>4. /\ owner' \in {"running", "interrupt", "notify", "join", "joined"}
        /\ owner' # "running" => terminated = TRUE
    BY <1>1 DEF IInv, ThreadInv
  <1> QED
    BY Zenon, <1>1, <1>2, <1>3, <1>4, LoopInv

(* The loop goes to sleep only when it found the queue empty and not       *)
(* terminated, in one critical section.                                    *)
LEMMA DrainedOrDoneInv ==
  ASSUME IInv, DrainedOrDone
  PROVE  IInv'
  <1>1. /\ UNCHANGED <<queue, pc, held, signalled, current, owner, accepted, dispatched>>
        /\ worker' \in {"done", "poll"}
        /\ worker' = "poll" => nelts = 0 /\ ~terminated
    BY DEF DrainedOrDone, Turn
  <1>2. /\ signalled \in BOOLEAN
        /\ owner \in {"running", "interrupt", "notify", "join", "joined"}
        /\ owner # "running" => terminated = TRUE
    BY DEF IInv, ThreadInv
  <1>3. worker' = "poll" => nelts' = 0 /\ owner' = "running"
    BY <1>1, <1>2 DEF queue
  <1>4. NeverSleepsOnWork'
    BY <1>3 DEF NeverSleepsOnWork
  <1> QED
    BY Zenon, <1>1, <1>2, <1>4, LoopInv

LEMMA PopInv ==
  ASSUME IInv, Pop
  PROVE  IInv'
  <1>0. RingInv /\ ThreadInv
    BY DEF IInv
  <1>1. /\ nelts > 0 /\ current' = ring[out] /\ nelts' = nelts - 1 /\ out' = Wrap(out + 1)
        /\ dispatched' = dispatched + 1 /\ UNCHANGED <<ring, in, accepted>>
        /\ worker' = "dispatch"
        /\ UNCHANGED <<terminated, held, signalled, owner>>
    BY DEF Pop, Turn
  <1>2. RingInv' /\ dispatched' > 0 /\ current' = accepted'[dispatched'] /\ current' \in Events
    BY <1>0, <1>1, PopRing
  <1>3. /\ pc' \in [Producers -> {"idle", "waiting", "woken", "notify"}]
        /\ \A p \in Producers : pc'[p] \in {"waiting", "woken"} => pc[p] \in {"waiting", "woken"}
    <2>1. CASE \E p \in Producers : pc[p] = "waiting"
      <3>1. PICK p \in Producers : pc[p] = "waiting" /\ pc' = [pc EXCEPT ![p] = "woken"]
        BY <2>1 DEF Pop
      <3> QED
        BY <1>0, <3>1 DEF ThreadInv
    <2>2. CASE ~\E p \in Producers : pc[p] = "waiting"
      BY Zenon, <1>0, <2>2 DEF ThreadInv, Pop
    <2> QED
      BY <2>1, <2>2
  <1>4. ThreadInv'
    BY <1>0, <1>1, <1>2, <1>3 DEF ThreadInv
  <1>5. NeverSleepsOnWork'
    BY <1>1 DEF NeverSleepsOnWork
  <1> QED
    BY <1>2, <1>4, <1>5 DEF IInv

LEMMA StopInv ==
  ASSUME IInv, Stop
  PROVE  IInv'
  <1>0. RingInv /\ ThreadInv /\ NeverSleepsOnWork
    BY DEF IInv
  <1>1. CASE Terminate
    <2>1. RingInv'
      BY <1>0, <1>1, RingKept DEF Terminate
    <2>2. ThreadInv'
      BY <1>0, <1>1 DEF ThreadInv, Terminate
    <2>3. NeverSleepsOnWork'
      BY <1>0, <1>1 DEF NeverSleepsOnWork, Terminate
    <2> QED
      BY <2>1, <2>2, <2>3 DEF IInv
  <1>2. CASE InterruptAll
    <2>1. RingInv'
      BY <1>0, <1>2, RingKept DEF InterruptAll, queue
    <2>2. ThreadInv'
      BY <1>0, <1>2 DEF ThreadInv, InterruptAll, queue
    <2>3. NeverSleepsOnWork'
      <3>1. \A q \in Producers : pc[q] = "notify" => pc'[q] = "notify"
        BY <1>2 DEF InterruptAll
      <3> QED
        BY <1>0, <1>2, <3>1 DEF NeverSleepsOnWork, InterruptAll, queue
    <2> QED
      BY <2>1, <2>2, <2>3 DEF IInv
  <1>3. CASE NotifyStop \/ Join
    <2>1. /\ UNCHANGED <<queue, pc, held, worker, current, accepted, dispatched>>
          /\ owner # "running" /\ owner' \in {"join", "joined"}
          /\ signalled' = TRUE \/ (signalled' = signalled /\ worker = "done")
      BY <1>3 DEF NotifyStop, Join
    <2>2. NeverSleepsOnWork'
      BY <2>1 DEF NeverSleepsOnWork
    <2>3. /\ signalled' \in BOOLEAN /\ terminated = TRUE
          /\ worker' \in {"poll", "handle", "expire", "drain", "dispatch", "done"}
      BY Zenon, <1>0, <2>1 DEF ThreadInv
    <2> QED
      BY <2>1, <2>2, <2>3, LoopInv
  <1> QED
    BY <1>1, <1>2, <1>3 DEF Stop

LEMMA NextInv ==
  ASSUME IInv, [Next]_vars
  PROVE  IInv'
  <1>1. ASSUME NEW p \in Producers, Produce(p)
        PROVE  IInv'
    BY <1>1, PostInv, PushInv, SpuriousWakeInv, ResumeInv, GiveUpInv, NotifyInv DEF Produce
  <1>2. CASE Loop
    BY <1>2, MoveInv, PopInv, DrainedOrDoneInv DEF Loop
  <1>3. CASE Stop
    BY <1>3, StopInv
  <1>4. CASE UNCHANGED vars
    <2>1. RingInv'
      BY <1>4, RingKept DEF IInv, vars, queue
    <2>2. ThreadInv'
      BY <1>4 DEF IInv, ThreadInv, vars, queue
    <2>3. NeverSleepsOnWork'
      BY <1>4 DEF IInv, NeverSleepsOnWork, vars, queue
    <2> QED
      BY <2>1, <2>2, <2>3 DEF IInv
  <1> QED
    BY <1>1, <1>2, <1>3, <1>4 DEF Next

-----------------------------------------------------------------------------
(* The inductive invariant holds of every behaviour of the worker.         *)
THEOREM Invariance == Spec => []IInv
  <1>1. Init => IInv
    BY InitInv
  <1>2. IInv /\ [Next]_vars => IInv'
    BY NextInv
  <1> QED
    BY <1>1, <1>2, PTL DEF Spec

(* The queue's indices stay inside the ring and every thread is where its  *)
(* code can be (queue_push, queue_pop, worker_main).                       *)
THEOREM TypeCorrect == Spec => []TypeOK
  <1>1. IInv => TypeOK
    BY Zenon DEF IInv, RingInv, ThreadInv, TypeOK
  <1> QED
    BY <1>1, Invariance, PTL

(* Whatever producers, waits and pops interleave around the end of the     *)
(* ring, the loop dispatches the accepted events in their order, each once *)
(* (ogs_queue_push, ogs_worker_post, ogs_queue_trypop).                    *)
THEOREM DeliversInOrder == Spec => []InOrder
  <1>1. IInv => InOrder
    BY DEF IInv, RingInv, ThreadInv, InOrder
  <1> QED
    BY <1>1, Invariance, PTL

(* The wakeup that ogs_worker_post leaves out when the queue was not empty *)
(* is never missed, and neither is the one of ogs_worker_join.             *)
THEOREM NoLostWakeup == Spec => []NeverSleepsOnWork
  <1>1. IInv => NeverSleepsOnWork
    BY DEF IInv
  <1> QED
    BY <1>1, Invariance, PTL

-----------------------------------------------------------------------------
(* The tree of the timers is a sequence in the order of their expiry; what *)
(* the operations on it compute.                                           *)
LEMMA Least ==
  ASSUME NEW S \in SUBSET Nat, S # {}
  PROVE  \E i \in S : \A j \in S : i <= j
  <1> DEFINE R == OpToRel(<, Nat)
  <1>1. IsWellFoundedOn(R, Nat)
    BY Zenon, NatLessThanWellFounded
  <1>2. \A i, j \in Nat : j < i => <<j, i>> \in R
    BY Zenon DEF OpToRel
  <1> HIDE DEF R
  <1>3. PICK i \in S : \A j \in S : ~(<<j, i>> \in R)
    BY Zenon, <1>1, WFMin
  <1>4. i \in Nat /\ \A j \in S : j \in Nat /\ ~(j < i)
    BY Zenon, <1>2, <1>3
  <1> QED
    BY <1>4

(* What the tree must be for its first timer to be the next one.           *)
InOrderOf(s) == \A i, j \in DOMAIN s : i <= j => left[s[i]] <= left[s[j]]

(* The timers that expire within a duration.                               *)
LEMMA WithinFacts ==
  ASSUME NEW s \in Seq(Timers), left \in [Timers -> Nat], NEW d \in Nat
  PROVE  /\ Within(s, d) \in 0 .. Len(s)
         /\ \A i \in 1 .. Within(s, d) : left[s[i]] <= d
         /\ Within(s, d) < Len(s) => left[s[Within(s, d) + 1]] > d
  <1> DEFINE P(n) == (\A i \in 1 .. n : left[s[i]] <= d) /\ (n < Len(s) => left[s[n + 1]] > d)
             M == {n \in 0 .. Len(s) : n < Len(s) => left[s[n + 1]] > d}
  <1>1. M \in SUBSET Nat /\ M # {} /\ Len(s) \in Nat
    <2>1. Len(s) \in Nat /\ Len(s) \in 0 .. Len(s) /\ ~(Len(s) < Len(s)) /\ 0 .. Len(s) \subseteq Nat
      OBVIOUS
    <2> QED
      BY Zenon, <2>1
  <1>2. PICK m \in M : \A j \in M : m <= j
    BY Zenon, <1>1, Least
  <1>3. ASSUME NEW i \in 1 .. m PROVE left[s[i]] <= d
    <2>1. i - 1 \in 0 .. Len(s) /\ i - 1 < Len(s) /\ (i - 1) + 1 = i /\ i - 1 < m /\ i \in 1 .. Len(s)
      BY <1>1
    <2>2. i - 1 \notin M
      BY <1>1, <1>2, <2>1
    <2>3. ~(left[s[i]] > d)
      BY Zenon, <2>1, <2>2
    <2>4. left[s[i]] \in Nat
      BY <2>1
    <2> QED
      BY <2>3, <2>4
  <1>4. \E n \in 0 .. Len(s) : P(n)
    BY Zenon, <1>3
  <1> QED
    BY Zenon, <1>4 DEF Within

LEMMA SeqFacts ==
  ASSUME NEW S, NEW s \in Seq(S)
  PROVE  DOMAIN s = 1 .. Len(s) /\ Len(s) \in Nat /\ Range(s) \subseteq S
  BY DEF Range

(* The tree without a timer.                                               *)
LEMMA WithoutFacts ==
  ASSUME NEW s \in Seq(Timers), IsInjective(s), NEW t
  PROVE  /\ Without(s, t) \in Seq(Timers) /\ IsInjective(Without(s, t))
         /\ Range(Without(s, t)) = Range(s) \ {t}
         /\ InOrderOf(s) => InOrderOf(Without(s, t))
  <1>0. DOMAIN s = 1 .. Len(s) /\ Len(s) \in Nat
    OBVIOUS
  <1>1. CASE t \notin Range(s)
    BY Zenon, <1>1 DEF Without
  <1>2. CASE t \in Range(s)
    <2> DEFINE at == CHOOSE i \in DOMAIN s : s[i] = t
               at2(i) == IF i < at THEN i ELSE i + 1
               r == [i \in 1 .. Len(s) - 1 |-> s[at2(i)]]
    <2>1. at \in DOMAIN s /\ s[at] = t
      BY Zenon, <1>2 DEF Range
    <2>2. Without(s, t) = r
      BY Zenon, <1>2 DEF Without
    <2> HIDE DEF at
    <2>3. \A i \in 1 .. Len(s) - 1 : at2(i) \in DOMAIN s /\ at2(i) # at
      BY <1>0, <2>1
    <2>4. \A i, j \in 1 .. Len(s) - 1 : (at2(i) = at2(j) => i = j) /\ (i <= j => at2(i) <= at2(j))
      BY <1>0, <2>1
    <2>5. \A k \in DOMAIN s : k # at => \E i \in 1 .. Len(s) - 1 : at2(i) = k
      <3>1. SUFFICES ASSUME NEW k \in DOMAIN s, k # at
                     PROVE  \E i \in 1 .. Len(s) - 1 : at2(i) = k
        OBVIOUS
      <3>2. CASE k < at
        <4>1. k \in 1 .. Len(s) - 1 /\ at2(k) = k
          BY <1>0, <2>1, <3>2
        <4> QED
          BY Zenon, <4>1
      <3>3. CASE k > at
        <4>1. k - 1 \in 1 .. Len(s) - 1 /\ at2(k - 1) = k
          BY <1>0, <2>1, <3>3
        <4> QED
          BY Zenon, <4>1
      <3> QED
        BY <1>0, <2>1, <3>1, <3>2, <3>3
    <2> HIDE DEF at2
    <2>6. \A i \in 1 .. Len(s) - 1 : s[at2(i)] \in Timers
      BY <1>0, <2>3
    <2>7. DOMAIN r = 1 .. Len(s) - 1 /\ \A i \in 1 .. Len(s) - 1 : r[i] = s[at2(i)]
      OBVIOUS
    <2>8. Len(s) - 1 \in Nat
      BY <1>0, <2>1
    <2>9. r \in Seq(Timers)
      BY <2>6, <2>8
    <2> HIDE DEF r
    <2>10. IsInjective(r)
      BY ZenonT(60), <2>3, <2>4, <2>7 DEF IsInjective
    <2>11. Range(r) = Range(s) \ {t}
      <3>1. \A i \in DOMAIN r : r[i] \in Range(s) \ {t}
        BY ZenonT(60), <2>1, <2>3, <2>7 DEF IsInjective, Range
      <3>2. \A k \in DOMAIN s : s[k] # t => s[k] \in Range(r)
        BY Zenon, <2>1, <2>5, <2>7 DEF Range
      <3> QED
        BY Zenon, <3>1, <3>2 DEF Range
    <2>12. InOrderOf(s) => InOrderOf(r)
      <3>1. SUFFICES ASSUME InOrderOf(s), NEW i \in 1 .. Len(s) - 1, NEW j \in 1 .. Len(s) - 1,
                            i <= j
                     PROVE  left[r[i]] <= left[r[j]]
        BY Zenon, <2>7 DEF InOrderOf
      <3>2. left[s[at2(i)]] <= left[s[at2(j)]]
        BY Zenon, <2>3, <2>4, <3>1 DEF InOrderOf
      <3> QED
        BY Zenon, <2>7, <3>2
    <2> QED
      BY Zenon, <2>2, <2>9, <2>10, <2>11, <2>12
  <1> QED
    BY Zenon, <1>1, <1>2

(* The tree with a timer more.                                             *)
LEMMA InsertFacts ==
  ASSUME NEW s \in Seq(Timers), IsInjective(s), NEW t \in Timers, t \notin Range(s),
         left \in [Timers -> Nat], NEW d \in Nat
  PROVE  LET r == AddTimerNode(s, t, d)
         IN  /\ r \in Seq(Timers) /\ IsInjective(r) /\ Range(r) = Range(s) \cup {t}
             /\ \A new : /\ new[t] = d /\ \A x \in Range(s) : new[x] = left[x]
                         /\ InOrderOf(s)
                        => \A i, j \in DOMAIN r : i <= j => new[r[i]] <= new[r[j]]
  <1> DEFINE at == Within(s, d) + 1
             N == 1 .. Len(s) + 1
             r == [i \in N |-> IF i = at THEN t ELSE s[IF i < at THEN i ELSE i - 1]]
             from == [i \in N |-> IF i < at THEN i ELSE i - 1]
  <1>0. DOMAIN s = 1 .. Len(s) /\ Len(s) \in Nat /\ \A i \in 1 .. Len(s) : s[i] \in Timers
    OBVIOUS
  <1>1. /\ at \in N
        /\ \A i \in DOMAIN s : i < at => left[s[i]] <= d
        /\ at \in DOMAIN s => left[s[at]] > d
    <2> DEFINE w == Within(s, d)
    <2>1. /\ w \in 0 .. Len(s)
          /\ \A i \in 1 .. w : left[s[i]] <= d
          /\ w < Len(s) => left[s[w + 1]] > d
      BY Zenon, WithinFacts
    <2> HIDE DEF w
    <2>2. w + 1 \in N /\ (w + 1 \in 1 .. Len(s) => left[s[w + 1]] > d)
      BY <1>0, <2>1
    <2>3. ASSUME NEW i \in 1 .. Len(s), i < w + 1 PROVE left[s[i]] <= d
      <3>1. i \in 1 .. w
        BY <1>0, <2>1, <2>3
      <3> QED
        BY Zenon, <2>1, <3>1
    <2> QED
      BY Zenon, <1>0, <2>2, <2>3 DEF w
  <1>2. AddTimerNode(s, t, d) = r
    BY Zenon DEF AddTimerNode
  <1> HIDE DEF at
  <1>a. \A i \in N : from[i] = IF i < at THEN i ELSE i - 1
    OBVIOUS
  <1>b. r = [i \in N |-> IF i = at THEN t ELSE s[from[i]]]
    BY Zenon, <1>a
  <1> HIDE DEF from
  <1>3. \A i \in N : i # at => from[i] \in DOMAIN s
    BY <1>0, <1>1, <1>a
  <1>4. \A i, j \in N : i # at /\ j # at => /\ from[i] = from[j] => i = j
                                            /\ i <= j => from[i] <= from[j]
    BY <1>0, <1>1, <1>a
  <1>5. \A k \in DOMAIN s : \E i \in N : i # at /\ from[i] = k
    <2>1. SUFFICES ASSUME NEW k \in DOMAIN s PROVE \E i \in N : i # at /\ from[i] = k
      OBVIOUS
    <2>2. CASE k < at
      <3>1. k \in N /\ k # at
        BY <1>0, <1>1, <2>2
      <3>2. from[k] = k
        BY Zenon, <1>a, <2>2, <3>1
      <3> QED
        BY Zenon, <3>1, <3>2
    <2>3. CASE k >= at
      <3>1. k + 1 \in N /\ k + 1 # at /\ from[k + 1] = k
        BY <1>0, <1>1, <1>a, <2>3
      <3> QED
        BY Zenon, <3>1
    <2> QED
      BY <1>0, <1>1, <2>1, <2>2, <2>3
  <1>6. \A i \in N : /\ i < at => from[i] \in DOMAIN s /\ from[i] < at
                     /\ at < i => from[i] \in DOMAIN s /\ at <= from[i] /\ at \in DOMAIN s
    BY <1>0, <1>1, <1>a
  <1>7. /\ DOMAIN r = N /\ r[at] = t
        /\ \A i \in N : i # at => r[i] = s[from[i]]
    BY Zenon, <1>1, <1>b
  <1>8. r \in Seq(Timers)
    <2>1. \A i \in N : (IF i = at THEN t ELSE s[from[i]]) \in Timers
      BY Zenon, <1>0, <1>3
    <2>2. Len(s) + 1 \in Nat
      BY <1>0
    <2> QED
      BY <1>b, <2>1, <2>2
  <1> HIDE DEF r, N
  <1>9. \A k \in DOMAIN s : s[k] # t
    BY Zenon DEF Range
  <1>10. IsInjective(r)
    <2>1. SUFFICES ASSUME NEW i \in N, NEW j \in N, r[i] = r[j] PROVE i = j
      BY Zenon, <1>7 DEF IsInjective
    <2>2. i # at /\ j # at => from[i] = from[j]
      <3>1. SUFFICES ASSUME i # at, j # at PROVE from[i] = from[j]
        OBVIOUS
      <3>2. from[i] \in DOMAIN s /\ from[j] \in DOMAIN s
        BY Zenon, <1>3, <3>1
      <3>3. s[from[i]] = s[from[j]]
        BY <1>7, <2>1, <3>1
      <3> QED
        BY Zenon, <3>2, <3>3 DEF IsInjective
    <2>3. (i # at => r[i] # t) /\ (j # at => r[j] # t) /\ r[at] = t
      BY Zenon, <1>3, <1>7, <1>9
    <2> QED
      BY <1>4, <2>1, <2>2, <2>3
  <1>11. Range(r) = Range(s) \cup {t}
    <2>1. \A i \in DOMAIN r : r[i] \in Range(s) \cup {t}
      BY Zenon, <1>3, <1>7 DEF Range
    <2>2. \A k \in DOMAIN s : s[k] \in Range(r)
      BY <1>5, <1>7 DEF Range
    <2>3. t \in Range(r)
      BY Zenon, <1>1, <1>7 DEF Range
    <2> QED
      BY Zenon, <2>1, <2>2, <2>3 DEF Range
  <1>12. ASSUME NEW new, new[t] = d, \A x \in Range(s) : new[x] = left[x], InOrderOf(s),
                NEW i \in N, NEW j \in N, i <= j
         PROVE  new[r[i]] <= new[r[j]]
    <2>1. \A k \in DOMAIN s : new[s[k]] = left[s[k]] /\ left[s[k]] \in Nat
      BY Zenon, <1>0, <1>12 DEF Range
    <2>2. CASE i = at /\ j = at
      BY <1>7, <1>12, <2>2
    <2>3. CASE i # at /\ j # at
      <3>1. new[r[i]] = left[s[from[i]]] /\ new[r[j]] = left[s[from[j]]]
        BY Zenon, <1>3, <1>7, <2>1, <2>3
      <3>2. left[s[from[i]]] <= left[s[from[j]]]
        <4>1. from[i] \in DOMAIN s /\ from[j] \in DOMAIN s /\ from[i] <= from[j]
          BY <1>3, <1>4, <1>12, <2>3
        <4> QED
          BY Zenon, <1>12, <4>1 DEF InOrderOf
      <3> QED
        BY Zenon, <3>1, <3>2
    <2>4. CASE i # at /\ j = at
      <3>1. i < at
        BY <1>0, <1>1, <1>12, <2>4 DEF N
      <3>2. new[r[i]] = left[s[from[i]]] /\ new[r[j]] = d
        BY ZenonT(60), <1>3, <1>7, <1>12, <2>1, <2>4
      <3> QED
        BY ZenonT(60), <1>1, <1>6, <1>12, <3>1, <3>2
    <2>5. CASE i = at /\ j # at
      <3>1. at < j
        BY <1>0, <1>1, <1>12, <2>5 DEF N
      <3>2. from[j] \in DOMAIN s /\ at <= from[j] /\ at \in DOMAIN s
        BY Zenon, <1>6, <1>12, <3>1
      <3>3. new[r[j]] = left[s[from[j]]] /\ new[r[i]] = d
        BY Zenon, <1>3, <1>7, <1>12, <2>1, <2>5
      <3>4. left[s[at]] <= left[s[from[j]]] /\ left[s[at]] > d
        BY Zenon, <1>0, <1>1, <1>12, <3>2 DEF InOrderOf
      <3>5. left[s[at]] \in Nat /\ left[s[from[j]]] \in Nat
        BY Zenon, <1>0, <2>1, <3>2
      <3> QED
        BY <3>3, <3>4, <3>5
    <2> QED
      BY Zenon, <2>2, <2>3, <2>4, <2>5
  <1> QED
    BY Zenon, <1>2, <1>7, <1>8, <1>10, <1>11, <1>12 DEF N
(* The pool: a timer taken from its head, and one put at its tail.         *)
LEMMA TakenFacts ==
  ASSUME NEW s \in Seq(Timers), IsInjective(s), s # << >>
  PROVE  /\ Head(s) \in Range(s) /\ Tail(s) \in Seq(Timers) /\ IsInjective(Tail(s))
         /\ Range(Tail(s)) = Range(s) \ {Head(s)}
         /\ \A i \in DOMAIN Tail(s) : i + 1 \in DOMAIN s /\ Tail(s)[i] = s[i + 1]
  <1>1. /\ Len(s) \in Nat \ {0} /\ DOMAIN s = 1 .. Len(s) /\ Head(s) = s[1] /\ 1 \in DOMAIN s
        /\ Tail(s) \in Seq(Timers) /\ DOMAIN Tail(s) = 1 .. Len(s) - 1
        /\ \A i \in DOMAIN Tail(s) : /\ Tail(s)[i] = s[i + 1] /\ i + 1 \in DOMAIN s
                                     /\ i + 1 # 1 /\ i \in Int
    OBVIOUS
  <1>2. IsInjective(Tail(s))
    <2>1. SUFFICES ASSUME NEW i \in DOMAIN Tail(s), NEW j \in DOMAIN Tail(s), Tail(s)[i] = Tail(s)[j]
                   PROVE  i = j
      BY Zenon DEF IsInjective
    <2>2. i + 1 = j + 1
      BY Zenon, <1>1, <2>1 DEF IsInjective
    <2> QED
      BY <1>1, <2>2
  <1>3. \A i \in DOMAIN s : i # 1 => \E j \in DOMAIN Tail(s) : Tail(s)[j] = s[i]
    <2>1. SUFFICES ASSUME NEW i \in DOMAIN s, i # 1
                   PROVE  \E j \in DOMAIN Tail(s) : Tail(s)[j] = s[i]
      OBVIOUS
    <2>2. i - 1 \in DOMAIN Tail(s) /\ (i - 1) + 1 = i
      BY <1>1, <2>1
    <2> QED
      BY Zenon, <1>1, <2>2
  <1>4. \A i \in DOMAIN s : i # 1 => s[i] \in Range(Tail(s))
    BY Zenon, <1>3 DEF Range
  <1>5. \A i \in DOMAIN Tail(s) : Tail(s)[i] \in Range(s) \ {Head(s)}
    BY Zenon, <1>1 DEF Range, IsInjective
  <1>6. Head(s) \in Range(s)
    BY Zenon, <1>1 DEF Range
  <1>7. Range(Tail(s)) = Range(s) \ {Head(s)}
    <2>1. \A i \in DOMAIN s : s[i] # Head(s) => s[i] \in Range(Tail(s))
      BY Zenon, <1>1, <1>4
    <2> QED
      BY Zenon, <1>5, <2>1 DEF Range
  <1> QED
    BY Zenon, <1>1, <1>2, <1>6, <1>7

LEMMA AppendedFacts ==
  ASSUME NEW s \in Seq(Timers), IsInjective(s), NEW t \in Timers, t \notin Range(s)
  PROVE  /\ Append(s, t) \in Seq(Timers) /\ IsInjective(Append(s, t))
         /\ Range(Append(s, t)) = Range(s) \cup {t}
         /\ Len(Append(s, t)) = Len(s) + 1
         /\ \A i \in DOMAIN s : Append(s, t)[i] = s[i]
  <1> DEFINE r == Append(s, t)
             n == Len(s) + 1
  <1>1. /\ Len(s) \in Nat /\ DOMAIN s = 1 .. Len(s)
        /\ r \in Seq(Timers) /\ Len(r) = Len(s) + 1 /\ DOMAIN r = 1 .. Len(s) + 1
        /\ r[n] = t /\ n \in DOMAIN r
        /\ \A i \in DOMAIN s : r[i] = s[i] /\ i \in DOMAIN r
        /\ \A i \in DOMAIN r : i \in DOMAIN s \/ i = n
    OBVIOUS
  <1> HIDE DEF r, n
  <1>2. \A i \in DOMAIN s : s[i] # t
    BY Zenon DEF Range
  <1>3. IsInjective(r)
    BY Zenon, <1>1, <1>2 DEF IsInjective
  <1>4. Range(r) = Range(s) \cup {t}
    <2>1. \A i \in DOMAIN r : r[i] \in Range(s) \cup {t}
      BY Zenon, <1>1 DEF Range
    <2>2. t \in Range(r) /\ \A i \in DOMAIN s : s[i] \in Range(r)
      BY Zenon, <1>1 DEF Range
    <2> QED
      BY Zenon, <2>1, <2>2 DEF Range
  <1> QED
    BY Zenon, <1>1, <1>3, <1>4 DEF r

(* The expired timers and the rest of the tree.                            *)
LEMMA CutFacts ==
  ASSUME NEW s \in Seq(Timers), IsInjective(s), NEW n \in 0 .. Len(s)
  PROVE  LET front == SubSeq(s, 1, n)
             back == SubSeq(s, n + 1, Len(s))
         IN  /\ front \in Seq(Timers) /\ back \in Seq(Timers) /\ Len(front) = n
             /\ IsInjective(back) /\ (InOrderOf(s) => InOrderOf(back))
             /\ Range(back) = Range(s) \ Range(front) /\ Range(front) \subseteq Range(s)
  <1> DEFINE front == SubSeq(s, 1, n)
             back == SubSeq(s, n + 1, Len(s))
             M == DOMAIN back
  <1>1. /\ Len(s) \in Nat /\ DOMAIN s = 1 .. Len(s) /\ n \in Nat
        /\ front \in Seq(Timers) /\ Len(front) = n /\ DOMAIN front = 1 .. n
        /\ \A i \in 1 .. n : front[i] = s[i] /\ i \in DOMAIN s
        /\ back \in Seq(Timers) /\ M = 1 .. Len(s) - n
        /\ \A i \in M : back[i] = s[n + i] /\ n + i \in DOMAIN s
    OBVIOUS
  <1> HIDE DEF front, back
  <1>2. \A i, j \in M : (n + i = n + j => i = j) /\ (i <= j => n + i <= n + j)
    BY <1>1
  <1>3. \A i \in DOMAIN front, j \in M : i # n + j
    BY <1>1
  <1>4. \A k \in DOMAIN s : k \in DOMAIN front \/ \E j \in M : back[j] = s[k]
    <2>1. SUFFICES ASSUME NEW k \in DOMAIN s, k \notin DOMAIN front
                   PROVE  \E j \in M : back[j] = s[k]
      OBVIOUS
    <2>2. k - n \in M /\ n + (k - n) = k
      BY <1>1, <2>1
    <2> QED
      BY Zenon, <1>1, <2>2
  <1>5. IsInjective(back)
    <2>1. SUFFICES ASSUME NEW i \in M, NEW j \in M, back[i] = back[j] PROVE i = j
      BY Zenon DEF IsInjective
    <2>2. s[n + i] = s[n + j] /\ n + i \in DOMAIN s /\ n + j \in DOMAIN s
      BY Zenon, <1>1, <2>1
    <2>3. n + i = n + j
      BY Zenon, <2>2 DEF IsInjective
    <2> QED
      BY Zenon, <1>2, <2>3
  <1>6. InOrderOf(s) => InOrderOf(back)
    <2>1. SUFFICES ASSUME InOrderOf(s), NEW i \in M, NEW j \in M, i <= j
                   PROVE  left[back[i]] <= left[back[j]]
      BY Zenon DEF InOrderOf
    <2>2. left[s[n + i]] <= left[s[n + j]]
      BY Zenon, <1>1, <1>2, <2>1 DEF InOrderOf
    <2> QED
      BY Zenon, <1>1, <2>2
  <1>7. Range(front) \subseteq Range(s)
    BY ZenonT(60), <1>1 DEF Range
  <1>8. \A j \in M : back[j] \in Range(s) \ Range(front)
    <2>1. SUFFICES ASSUME NEW j \in M PROVE back[j] \in Range(s) \ Range(front)
      OBVIOUS
    <2>2. back[j] = s[n + j] /\ n + j \in DOMAIN s
      BY Zenon, <1>1
    <2>3. \A i \in DOMAIN front : front[i] # back[j]
      BY Zenon, <1>1, <1>3, <2>2 DEF IsInjective
    <2> QED
      BY Zenon, <2>2, <2>3 DEF Range
  <1>9. \A k \in DOMAIN s : s[k] \in Range(front) \cup Range(back)
    <2>1. SUFFICES ASSUME NEW k \in DOMAIN s PROVE s[k] \in Range(front) \cup Range(back)
      OBVIOUS
    <2>2. k \in DOMAIN front => front[k] = s[k]
      BY Zenon, <1>1
    <2> QED
      BY Zenon, <1>4, <2>2 DEF Range
  <1>10. Range(back) = Range(s) \ Range(front)
    BY Zenon, <1>8, <1>9 DEF Range
  <1> QED
    BY Zenon, <1>1, <1>5, <1>6, <1>7, <1>10 DEF front, back

(* The links of the list that is called.                                   *)
LEMMA LinkedFacts ==
  ASSUME NEW s \in Seq(Timers)
  PROVE  /\ Linked(s) \in [Timers -> Timers \cup {Null}]
         /\ \A t \in Timers : Linked(s)[t] \in Range(s) \cup {Null}
  <1>1. /\ Len(s) \in Nat /\ DOMAIN s = 1 .. Len(s) /\ Range(s) \subseteq Timers
        /\ \A i \in 1 .. Len(s) - 1 : 1 + i \in DOMAIN s
    BY DEF Range
  <1>2. \A t \in Timers : Linked(s)[t] \in Range(s) \cup {Null}
    <2>1. SUFFICES ASSUME NEW t \in Timers PROVE Linked(s)[t] \in Range(s) \cup {Null}
      OBVIOUS
    <2> DEFINE c == CHOOSE i \in 1 .. Len(s) - 1 : s[i] = t
    <2>2. CASE \E i \in 1 .. Len(s) - 1 : s[i] = t
      <3>1. c \in 1 .. Len(s) - 1
        BY Zenon, <2>2
      <3>2. Linked(s)[t] = s[1 + c]
        BY Zenon, <2>2 DEF Linked
      <3> QED
        BY Zenon, <1>1, <3>1, <3>2 DEF Range
    <2>3. CASE ~\E i \in 1 .. Len(s) - 1 : s[i] = t
      BY Zenon, <2>3 DEF Linked
    <2> QED
      BY Zenon, <2>2, <2>3
  <1> QED
    BY Zenon, <1>1, <1>2 DEF Linked

-----------------------------------------------------------------------------
(* What the operations on timers keep: the shape of the pool and the tree, *)
(* and the order of the tree.                                              *)
Core ==
    /\ pool \in Seq(Timers) /\ tree \in Seq(Timers)
    /\ running \in [Timers -> BOOLEAN] /\ left \in [Timers -> 0 .. MaxDuration]
    /\ handle \in [Users -> Timers \cup {Null}]
    /\ PoolSound /\ InOrderOf(tree)

LEMMA LeftFacts ==
  Core => /\ left \in [Timers -> Nat] /\ Null \notin Timers
          /\ MaxDuration \in Nat \ {0} /\ NTimers \in Nat
          /\ 0 \in 0 .. MaxDuration /\ \A d \in 1 .. MaxDuration : d \in 0 .. MaxDuration /\ d \in Nat
  BY TimerAssumption DEF Core, Timers, Null

(* The timer of a user.                                                    *)
LEMMA HandleFacts ==
  ASSUME Core, NEW u \in Users, handle[u] # Null
  PROVE  /\ handle[u] \in Timers /\ handle[u] \in Held /\ handle[u] \notin Range(pool)
         /\ \A v \in Users : handle[v] = handle[u] => v = u
  <1>1. handle[u] \in Timers
    BY Zenon DEF Core
  <1>2. handle[u] \in Held
    BY Zenon DEF Held
  <1> QED
    BY Zenon, <1>1, <1>2 DEF Core, PoolSound

(* The order of a tree only depends on its own timers.                     *)
LEMMA OrderKept ==
  ASSUME NEW s, NEW f, InOrderOf(s), \A t \in Range(s) : f[t] = left[t]
  PROVE  \A i, j \in DOMAIN s : i <= j => f[s[i]] <= f[s[j]]
  <1>1. \A i \in DOMAIN s : f[s[i]] = left[s[i]]
    BY Zenon DEF Range
  <1> QED
    BY Zenon, <1>1 DEF InOrderOf

LEMMA InitCore == TimerInit => Core
  <1> HAVE TimerInit
  <1>1. /\ pool = [i \in 1 .. NTimers |-> i] /\ DOMAIN pool = Timers /\ pool \in Seq(Timers)
        /\ \A i \in Timers : pool[i] = i
    BY TimerAssumption DEF TimerInit, Timers
  <1>2. Range(pool) = Timers /\ IsInjective(pool)
    BY Zenon, <1>1 DEF Range, IsInjective
  <1>3. tree \in Seq(Timers) /\ DOMAIN tree = {}
    BY DEF TimerInit
  <1>4. /\ running \in [Timers -> BOOLEAN] /\ left \in [Timers -> 0 .. MaxDuration]
        /\ handle \in [Users -> Timers \cup {Null}]
        /\ \A u \in Users : handle[u] = Null /\ \A t \in Timers : ~running[t]
    BY TimerAssumption DEF TimerInit
  <1>5. Held = {}
    BY Zenon, <1>4 DEF Held
  <1>6. Range(tree) = {} /\ IsInjective(tree) /\ InOrderOf(tree)
    BY Zenon, <1>3 DEF Range, IsInjective, InOrderOf
  <1>7. \A t \in Timers : ~running[t]
    BY DEF TimerInit
  <1>8. {t \in Timers : running[t]} = {}
    BY Zenon, <1>7
  <1>9. Range(pool) = Timers \ Held /\ Range(tree) \subseteq Held
    BY Zenon, <1>2, <1>5, <1>6
  <1>10. PoolSound
    BY Zenon, <1>2, <1>4, <1>6, <1>8, <1>9 DEF PoolSound
  <1> QED
    BY Zenon, <1>1, <1>3, <1>4, <1>6, <1>10 DEF Core

(* Steps that touch neither.                                               *)
LEMMA CoreUnchanged ==
  ASSUME Core, UNCHANGED <<pool, tree, running, left, handle>>
  PROVE  Core'
  <1>1. pool' = pool /\ tree' = tree /\ running' = running /\ left' = left /\ handle' = handle
    OBVIOUS
  <1>2. Held' = Held
    BY Zenon, <1>1 DEF Held
  <1>3. PoolSound'
    BY Zenon, <1>1, <1>2 DEF Core, PoolSound
  <1>4. InOrderOf(tree)'
    BY Zenon, <1>1 DEF Core, InOrderOf
  <1> QED
    BY Zenon, <1>1, <1>3, <1>4 DEF Core

LEMMA AddCore ==
  ASSUME Core, NEW u \in Users, TimerAdd(u)
  PROVE  Core'
  <1> DEFINE h == Head(pool)
  <1>1. /\ pool \in Seq(Timers) /\ IsInjective(pool) /\ pool # << >> /\ handle[u] = Null
        /\ Range(pool) = Timers \ Held /\ tree' = tree /\ pool' = Tail(pool)
        /\ handle' = [handle EXCEPT ![u] = h] /\ running' = [running EXCEPT ![h] = FALSE]
        /\ left' = [left EXCEPT ![h] = 0]
    BY Zenon DEF Core, PoolSound, TimerAdd
  <1>2. /\ h \in Range(pool) /\ pool' \in Seq(Timers) /\ IsInjective(pool')
        /\ Range(pool') = Range(pool) \ {h}
    BY Zenon, <1>1, TakenFacts
  <1> HIDE DEF h
  <1>3. h \in Timers /\ h \notin Held /\ h # Null /\ h \notin Range(tree)
    BY Zenon, <1>1, <1>2, LeftFacts DEF Core, PoolSound
  <1>4. /\ handle' \in [Users -> Timers \cup {Null}] /\ handle'[u] = h
        /\ \A v \in Users : v # u => handle'[v] = handle[v]
    BY Zenon, <1>1, <1>3 DEF Core
  <1>5. Held' = Held \cup {h}
    <2>1. \A v \in Users : handle[v] # Null => v # u /\ handle'[v] = handle[v]
      BY Zenon, <1>1, <1>4
    <2>2. \A v \in Users : handle'[v] # Null => handle'[v] \in Held \cup {h}
      BY Zenon, <1>4 DEF Held
    <2>3. \A v \in Users : handle[v] # Null => handle[v] \in Held'
      BY Zenon, <2>1 DEF Held
    <2>4. h \in Held'
      BY Zenon, <1>3, <1>4 DEF Held
    <2> QED
      BY Zenon, <2>2, <2>3, <2>4 DEF Held
  <1>6. \A v \in Users : handle[v] # h
    BY Zenon, <1>3 DEF Held
  <1>7. \A v, w \in Users : handle'[v] = handle'[w] => v = w \/ handle'[v] = Null
    BY Zenon, <1>4, <1>6 DEF Core, PoolSound
  <1>8. /\ running' \in [Timers -> BOOLEAN] /\ ~running'[h]
        /\ \A t \in Timers : t # h => running'[t] = running[t]
    BY Zenon, <1>1, <1>3 DEF Core
  <1>9. ~running[h]
    BY Zenon, <1>3 DEF Core, PoolSound
  <1>10. Range(tree') = {t \in Timers : running'[t]}
    BY Zenon, <1>1, <1>8, <1>9 DEF Core, PoolSound
  <1>11. PoolSound'
    <2>1. Range(pool') = Timers \ Held' /\ Range(tree') \subseteq Held'
      BY Zenon, <1>1, <1>2, <1>5 DEF Core, PoolSound
    <2>2. IsInjective(tree')
      BY Zenon, <1>1 DEF Core, PoolSound
    <2> QED
      BY Zenon, <1>2, <1>7, <1>10, <2>1, <2>2 DEF PoolSound
  <1>12. left' \in [Timers -> 0 .. MaxDuration] /\ \A t \in Range(tree) : left'[t] = left[t]
    <2>1. Range(tree) \subseteq Timers
      BY SeqFacts DEF Core
    <2> QED
      BY Zenon, <1>1, <1>3, <2>1, LeftFacts DEF Core
  <1>13. InOrderOf(tree)'
    <2>1. \A i, j \in DOMAIN tree : i <= j => left'[tree[i]] <= left'[tree[j]]
      BY Zenon, <1>12, OrderKept DEF Core
    <2> QED
      BY Zenon, <1>1, <2>1 DEF InOrderOf
  <1> QED
    BY ZenonT(60), <1>1, <1>2, <1>4, <1>8, <1>11, <1>12, <1>13 DEF Core

LEMMA StoppedCore ==
  ASSUME Core, NEW t \in Timers, Stopped(t)
  PROVE  /\ tree' \in Seq(Timers) /\ IsInjective(tree') /\ Range(tree') = Range(tree) \ {t}
         /\ running' \in [Timers -> BOOLEAN] /\ left' \in [Timers -> 0 .. MaxDuration]
         /\ Range(tree') = {x \in Timers : running'[x]} /\ InOrderOf(tree)'
  <1>1. /\ tree \in Seq(Timers) /\ IsInjective(tree) /\ InOrderOf(tree)
        /\ tree' = Without(tree, t) /\ running' = [running EXCEPT ![t] = FALSE]
        /\ left' = [left EXCEPT ![t] = 0]
    BY Zenon DEF Core, PoolSound, Stopped
  <1>2. /\ tree' \in Seq(Timers) /\ IsInjective(tree') /\ Range(tree') = Range(tree) \ {t}
        /\ InOrderOf(tree')
    BY Zenon, <1>1, WithoutFacts
  <1>3. /\ running' \in [Timers -> BOOLEAN] /\ ~running'[t]
        /\ \A x \in Timers : x # t => running'[x] = running[x]
    BY Zenon, <1>1 DEF Core
  <1>4. Range(tree') = {x \in Timers : running'[x]}
    BY Zenon, <1>2, <1>3 DEF Core, PoolSound
  <1>5. left' \in [Timers -> 0 .. MaxDuration] /\ \A x \in Timers : x # t => left'[x] = left[x]
    BY Zenon, <1>1, LeftFacts DEF Core
  <1>6. \A x \in Range(tree') : left'[x] = left[x]
    BY Zenon, <1>4, <1>5, <1>2
  <1>7. \A i, j \in DOMAIN tree' : i <= j => left'[tree'[i]] <= left'[tree'[j]]
    BY Zenon, <1>2, <1>6, OrderKept
  <1> QED
    BY Zenon, <1>2, <1>3, <1>4, <1>5, <1>7 DEF InOrderOf

LEMMA StopCore ==
  ASSUME Core, NEW u \in Users, TimerStop(u)
  PROVE  Core'
  <1>1. handle[u] \in Timers /\ Stopped(handle[u]) /\ pool' = pool /\ handle' = handle
    BY Zenon, HandleFacts DEF TimerStop
  <1>2. Held' = Held
    BY Zenon, <1>1 DEF Held
  <1>3. /\ tree' \in Seq(Timers) /\ IsInjective(tree') /\ Range(tree') = Range(tree) \ {handle[u]}
        /\ running' \in [Timers -> BOOLEAN] /\ left' \in [Timers -> 0 .. MaxDuration]
        /\ Range(tree') = {x \in Timers : running'[x]} /\ InOrderOf(tree)'
    BY Zenon, <1>1, StoppedCore
  <1>4. Range(tree') \subseteq Held'
    BY Zenon, <1>2, <1>3 DEF Core, PoolSound
  <1>5. PoolSound'
    BY Zenon, <1>1, <1>2, <1>3, <1>4 DEF Core, PoolSound
  <1> QED
    BY Zenon, <1>1, <1>3, <1>5 DEF Core

LEMMA DeleteCore ==
  ASSUME Core, NEW u \in Users, TimerDelete(u)
  PROVE  Core'
  <1> DEFINE t == handle[u]
  <1>1. /\ t # Null /\ Stopped(t) /\ pool' = Append(pool, t)
        /\ handle' = [handle EXCEPT ![u] = Null]
    BY Zenon DEF TimerDelete
  <1>2. /\ t \in Timers /\ t \in Held /\ t \notin Range(pool)
        /\ \A v \in Users : handle[v] = t => v = u
    BY Zenon, <1>1, HandleFacts
  <1>3. /\ tree' \in Seq(Timers) /\ IsInjective(tree') /\ Range(tree') = Range(tree) \ {t}
        /\ running' \in [Timers -> BOOLEAN] /\ left' \in [Timers -> 0 .. MaxDuration]
        /\ Range(tree') = {x \in Timers : running'[x]} /\ InOrderOf(tree)'
    BY Zenon, <1>1, <1>2, StoppedCore
  <1>4. pool' \in Seq(Timers) /\ IsInjective(pool') /\ Range(pool') = Range(pool) \cup {t}
    BY Zenon, <1>1, <1>2, AppendedFacts DEF Core, PoolSound
  <1>5. /\ handle' \in [Users -> Timers \cup {Null}] /\ handle'[u] = Null
        /\ \A v \in Users : v # u => handle'[v] = handle[v]
    BY Zenon, <1>1 DEF Core
  <1>6. Held' = Held \ {t}
    <2>1. \A v \in Users : handle'[v] # Null => handle'[v] \in Held /\ handle'[v] # t
      BY Zenon, <1>2, <1>5 DEF Held
    <2>2. \A v \in Users : handle[v] # Null /\ handle[v] # t => handle[v] \in Held'
      BY Zenon, <1>5 DEF Held
    <2> QED
      BY Zenon, <2>1, <2>2 DEF Held
  <1>7. \A v, w \in Users : handle'[v] = handle'[w] => v = w \/ handle'[v] = Null
    BY ZenonT(60), <1>5 DEF Core, PoolSound
  <1>8. Range(pool') = Timers \ Held' /\ Range(tree') \subseteq Held'
    <2>1. Range(pool) = Timers \ Held /\ Range(tree) \subseteq Held
      BY Zenon DEF Core, PoolSound
    <2> HIDE DEF t
    <2> QED
      BY <1>2, <1>3, <1>4, <1>6, <2>1
  <1>9. PoolSound'
    BY Zenon, <1>3, <1>4, <1>7, <1>8 DEF PoolSound
  <1> QED
    BY Zenon, <1>3, <1>4, <1>5, <1>9 DEF Core

LEMMA StartCore ==
  ASSUME Core, NEW u \in Users, NEW d \in 1 .. MaxDuration, TimerStart(u, d)
  PROVE  Core'
  <1> DEFINE t == handle[u]
             s == Without(tree, t)
  <1>1. /\ t # Null /\ tree' = AddTimerNode(s, t, d) /\ pool' = pool /\ handle' = handle
        /\ running' = [running EXCEPT ![t] = TRUE] /\ left' = [left EXCEPT ![t] = d]
    BY Zenon DEF TimerStart
  <1>2. t \in Timers /\ t \in Held /\ left \in [Timers -> Nat] /\ d \in Nat
    BY Zenon, <1>1, HandleFacts, LeftFacts
  <1>3. s \in Seq(Timers) /\ IsInjective(s) /\ Range(s) = Range(tree) \ {t} /\ InOrderOf(s)
    BY Zenon, WithoutFacts DEF Core, PoolSound
  <1>4. Range(s) \subseteq Timers /\ t \notin Range(s)
    BY Zenon, <1>3, SeqFacts
  <1> HIDE DEF t, s
  <1>5. /\ left' \in [Timers -> 0 .. MaxDuration] /\ left'[t] = d
        /\ \A x \in Timers : x # t => left'[x] = left[x]
    BY Zenon, <1>1, <1>2, LeftFacts DEF Core
  <1>6. \A x \in Range(s) : left'[x] = left[x]
    BY Zenon, <1>4, <1>5
  <1>7. /\ tree' \in Seq(Timers) /\ IsInjective(tree') /\ Range(tree') = Range(s) \cup {t}
        /\ \A i, j \in DOMAIN tree' : i <= j => left'[tree'[i]] <= left'[tree'[j]]
    BY ZenonT(60), <1>1, <1>2, <1>3, <1>4, <1>5, <1>6, InsertFacts
  <1>8. /\ running' \in [Timers -> BOOLEAN] /\ running'[t]
        /\ \A x \in Timers : x # t => running'[x] = running[x]
    BY Zenon, <1>1, <1>2 DEF Core
  <1>9. Range(tree') = {x \in Timers : running'[x]}
    BY Zenon, <1>2, <1>3, <1>7, <1>8 DEF Core, PoolSound
  <1>10. Held' = Held
    BY Zenon, <1>1 DEF Held
  <1>11. Range(tree') \subseteq Held'
    BY Zenon, <1>2, <1>3, <1>7, <1>10 DEF Core, PoolSound
  <1>12. PoolSound'
    BY Zenon, <1>1, <1>7, <1>9, <1>10, <1>11 DEF Core, PoolSound
  <1> QED
    BY Zenon, <1>1, <1>5, <1>7, <1>8, <1>12 DEF Core, InOrderOf

(* The expired timers are a first part of the tree.                        *)
LEMMA DueFacts ==
  ASSUME Core
  PROVE  /\ Due \in Seq(Timers) /\ Range(Due) \subseteq Range(tree) /\ Len(Due) \in 0 .. Len(tree)
         /\ LET rest == SubSeq(tree, Len(Due) + 1, Len(tree))
            IN  /\ rest \in Seq(Timers) /\ IsInjective(rest) /\ InOrderOf(rest)
                /\ Range(rest) = Range(tree) \ Range(Due)
  <1>1. tree \in Seq(Timers) /\ IsInjective(tree) /\ InOrderOf(tree)
    BY Zenon DEF Core, PoolSound
  <1>2. Within(tree, 0) \in 0 .. Len(tree)
    <2>1. left \in [Timers -> Nat] /\ 0 \in Nat
      BY LeftFacts
    <2> QED
      BY Zenon, <1>1, <2>1, WithinFacts
  <1> QED
    BY Zenon, <1>1, <1>2, CutFacts DEF Due

LEMMA DetachCore ==
  ASSUME Core, Detach
  PROVE  Core'
  <1>1. /\ pool' = pool /\ handle' = handle /\ left' = left
        /\ running' = [t \in Timers |-> running[t] /\ t \notin Range(Due)]
        /\ tree' = SubSeq(tree, Len(Due) + 1, Len(tree))
    BY Zenon DEF Detach
  <1>2. /\ tree' \in Seq(Timers) /\ IsInjective(tree') /\ InOrderOf(tree')
        /\ Range(tree') = Range(tree) \ Range(Due)
    BY Zenon, <1>1, DueFacts
  <1>3. /\ running' \in [Timers -> BOOLEAN]
        /\ \A t \in Timers : running'[t] = (running[t] /\ t \notin Range(Due))
    BY Zenon, <1>1
  <1>4. Range(tree') = {t \in Timers : running'[t]}
    BY Zenon, <1>2, <1>3 DEF Core, PoolSound
  <1>5. Held' = Held
    BY Zenon, <1>1 DEF Held
  <1>6. PoolSound'
    BY Zenon, <1>1, <1>2, <1>4, <1>5 DEF Core, PoolSound
  <1>7. InOrderOf(tree)'
    BY Zenon, <1>1, <1>2 DEF InOrderOf
  <1> QED
    BY Zenon, <1>1, <1>2, <1>3, <1>6, <1>7 DEF Core

(* A tick keeps the order of the times.                                    *)
LEMMA TickFacts ==
  ASSUME Core, Tick
  PROVE  /\ left' \in [Timers -> 0 .. MaxDuration]
         /\ \A t, x \in Timers : left[t] <= left[x] => left'[t] <= left'[x]
  <1>1. /\ left' = [t \in Timers |-> IF left[t] > 0 THEN left[t] - 1 ELSE 0]
        /\ \A t \in Timers : left[t] \in 0 .. MaxDuration
    BY Zenon DEF Tick, Core
  <1> QED
    BY <1>1, TimerAssumption

LEMMA TickCore ==
  ASSUME Core, Tick
  PROVE  Core'
  <1>1. pool' = pool /\ tree' = tree /\ running' = running /\ handle' = handle
    BY Zenon DEF Tick
  <1>2. Held' = Held
    BY Zenon, <1>1 DEF Held
  <1>3. PoolSound'
    BY Zenon, <1>1, <1>2 DEF Core, PoolSound
  <1>4. \A i \in DOMAIN tree : tree[i] \in Timers
    BY DEF Core
  <1>5. InOrderOf(tree)'
    <2>1. SUFFICES ASSUME NEW i \in DOMAIN tree, NEW j \in DOMAIN tree, i <= j
                   PROVE  left'[tree[i]] <= left'[tree[j]]
      BY Zenon, <1>1 DEF InOrderOf
    <2>2. left[tree[i]] <= left[tree[j]]
      BY Zenon, <2>1 DEF Core, InOrderOf
    <2> QED
      BY Zenon, <1>4, <2>2, TickFacts
  <1> QED
    BY Zenon, <1>1, <1>3, <1>5, TickFacts DEF Core

-----------------------------------------------------------------------------
(* Nothing is overslept: the first timer of the tree is the first to       *)
(* expire.                                                                 *)
TInv == TimerTypeOK /\ Core /\ NeverOversleeps

LEMMA TimerInitInv == TimerInit => TInv
  <1> HAVE TimerInit
  <1>1. Core
    BY Zenon, InitCore
  <1>2. next \in [Timers -> Timers \cup {Null}] /\ loop = "run" /\ ~Calling /\ lnode = Null
    BY DEF TimerInit, Calling
  <1>3. wait \in 0 .. Infinite
    BY TimerAssumption DEF TimerInit, Infinite
  <1>4. TimerTypeOK
    BY Zenon, <1>1, <1>2, <1>3 DEF TimerTypeOK, Core, TimerInit
  <1> QED
    BY <1>1, <1>2, <1>4 DEF TInv, NeverOversleeps

LEMMA TypeFacts ==
  ASSUME TimerTypeOK
  PROVE  /\ next \in [Timers -> Timers \cup {Null}]
         /\ loop \in {"run", "asleep", "expire", "call", "callback"}
         /\ lnode \in Timers \cup {Null} /\ (Calling => lnode \in Timers) /\ (~Calling => lnode = Null)
         /\ wait \in 0 .. Infinite
         /\ owed \subseteq Timers /\ reused \subseteq Timers /\ late \subseteq Timers
  BY Zenon DEF TimerTypeOK

(* The steps of the users leave the loop where it is.                      *)
LEMMA UserType ==
  ASSUME TInv, Core', UNCHANGED <<loop, lnode, wait>>,
         next' \in [Timers -> Timers \cup {Null}],
         owed' \subseteq Timers, reused' \subseteq Timers, late' \subseteq Timers
  PROVE  TimerTypeOK'
  <1>1. loop' = loop /\ lnode' = lnode /\ wait' = wait
    OBVIOUS
  <1>2. Calling' = Calling
    BY Zenon, <1>1 DEF Calling
  <1>3. lnode' \in IF Calling' THEN Timers ELSE {Null}
    BY Zenon, <1>1, <1>2 DEF TInv, TimerTypeOK
  <1> QED
    BY Zenon, <1>1, <1>3 DEF TimerTypeOK, TInv, Core

LEMMA AddInv ==
  ASSUME TInv, NEW u \in Users, TimerAdd(u)
  PROVE  TInv'
  <1> DEFINE h == Head(pool)
  <1>1. /\ Core /\ TimerTypeOK /\ NeverOversleeps
        /\ loop' = loop /\ lnode' = lnode /\ wait' = wait /\ owed' = owed /\ late' = late
        /\ running' = [running EXCEPT ![h] = FALSE] /\ left' = [left EXCEPT ![h] = 0]
        /\ next' = [next EXCEPT ![h] = Null] /\ reused' \subseteq reused \cup {h}
    BY Zenon DEF TInv, TimerAdd
  <1>2. Core'
    BY ZenonT(60), <1>1, AddCore
  <1>3. h \in Timers
    BY DEF TInv, TimerTypeOK, TimerAdd
  <1> HIDE DEF h
  <1>4. next' \in [Timers -> Timers \cup {Null}] /\ reused' \subseteq Timers
    BY ZenonT(60), <1>1, <1>3, TypeFacts
  <1>5. TimerTypeOK'
    BY Zenon, <1>1, <1>2, <1>4, UserType, TypeFacts
  <1>6. /\ \A t \in Timers : t # h => running'[t] = running[t] /\ left'[t] = left[t]
        /\ ~running'[h]
    BY Zenon, <1>1, <1>3 DEF Core
  <1>7. NeverOversleeps'
    BY Zenon, <1>1, <1>6 DEF NeverOversleeps
  <1> QED
    BY Zenon, <1>2, <1>5, <1>7 DEF TInv

LEMMA StoppedInv ==
  ASSUME TInv, NEW t \in Timers, Stopped(t), loop' = loop, wait' = wait
  PROVE  NeverOversleeps' /\ next' = next /\ owed' \subseteq Timers /\ late' \subseteq Timers
  <1>1. /\ running' = [running EXCEPT ![t] = FALSE] /\ left' = [left EXCEPT ![t] = 0]
        /\ next' = next /\ owed' = owed \ {t} /\ late' = late \ {t}
        /\ Core /\ TimerTypeOK /\ NeverOversleeps
    BY Zenon DEF Stopped, TInv
  <1>2. /\ \A x \in Timers : x # t => running'[x] = running[x] /\ left'[x] = left[x]
        /\ ~running'[t]
    BY Zenon, <1>1 DEF Core
  <1>3. NeverOversleeps'
    BY Zenon, <1>1, <1>2 DEF NeverOversleeps
  <1> QED
    BY Zenon, <1>1, <1>3, TypeFacts

LEMMA TimerStopInv ==
  ASSUME TInv, NEW u \in Users, TimerStop(u) \/ TimerDelete(u)
  PROVE  TInv'
  <1>1. /\ handle[u] # Null /\ Stopped(handle[u]) /\ Core /\ TimerTypeOK
        /\ loop' = loop /\ lnode' = lnode /\ wait' = wait /\ reused' = reused
    BY Zenon DEF TInv, TimerStop, TimerDelete
  <1>2. Core'
    BY Zenon, <1>1, StopCore, DeleteCore
  <1>3. handle[u] \in Timers
    BY Zenon, <1>1, HandleFacts
  <1>4. NeverOversleeps' /\ next' = next /\ owed' \subseteq Timers /\ late' \subseteq Timers
    BY Zenon, <1>1, <1>3, StoppedInv
  <1>5. TimerTypeOK'
    BY Zenon, <1>1, <1>2, <1>4, UserType, TypeFacts
  <1> QED
    BY Zenon, <1>2, <1>4, <1>5 DEF TInv

LEMMA StartInv ==
  ASSUME TInv, NEW u \in Users, NEW d \in 1 .. MaxDuration, TimerStart(u, d)
  PROVE  TInv'
  <1> DEFINE t == handle[u]
  <1>1. /\ t # Null /\ Core /\ TimerTypeOK /\ NeverOversleeps
        /\ running' = [running EXCEPT ![t] = TRUE] /\ left' = [left EXCEPT ![t] = d]
        /\ next' = next /\ owed' = owed \ {t}
        /\ late' = IF loop = "asleep" THEN late \cup {t} ELSE late \ {t}
        /\ loop' = loop /\ lnode' = lnode /\ wait' = wait /\ reused' = reused
    BY Zenon DEF TInv, TimerStart
  <1>2. Core'
    BY Zenon, <1>1, StartCore
  <1>3. t \in Timers
    BY Zenon, <1>1, HandleFacts
  <1> HIDE DEF t
  <1>4. late' \subseteq Timers /\ owed' \subseteq Timers
    BY ZenonT(60), <1>1, <1>3, TypeFacts
  <1>5. TimerTypeOK'
    BY Zenon, <1>1, <1>2, <1>4, UserType, TypeFacts
  <1>6. \A x \in Timers : x # t => running'[x] = running[x] /\ left'[x] = left[x]
    BY Zenon, <1>1, <1>3 DEF Core
  <1>7. NeverOversleeps'
    BY Zenon, <1>1, <1>6 DEF NeverOversleeps
  <1> QED
    BY Zenon, <1>2, <1>5, <1>7 DEF TInv

(* The steps of the loop that move no timer.                               *)
LEMMA LoopType ==
  ASSUME TInv, Core', next' \in [Timers -> Timers \cup {Null}],
         loop' \in {"run", "asleep", "expire", "call", "callback"},
         lnode' \in IF loop' \in {"call", "callback"} THEN Timers ELSE {Null},
         wait' \in 0 .. Infinite,
         owed' \subseteq Timers, reused' \subseteq Timers, late' \subseteq Timers
  PROVE  TimerTypeOK'
  <1>1. lnode' \in IF Calling' THEN Timers ELSE {Null}
    BY Zenon DEF Calling
  <1> QED
    BY Zenon, <1>1 DEF TimerTypeOK, Core

LEMMA SleepInv == ASSUME TInv, Sleep PROVE TInv'
  <1>1. /\ Core /\ TimerTypeOK /\ loop = "run" /\ loop' = "asleep"
        /\ wait' = IF tree = << >> THEN Infinite ELSE left[Head(tree)]
        /\ pool' = pool /\ tree' = tree /\ running' = running /\ left' = left /\ next' = next
        /\ handle' = handle /\ lnode' = lnode /\ owed' = owed /\ reused' = reused /\ late' = late
    BY DEF TInv, Sleep, timer
  <1>2. Core'
    BY Zenon, <1>1, CoreUnchanged
  <1>3. tree \in Seq(Timers) /\ left \in [Timers -> 0 .. MaxDuration] /\ MaxDuration \in Nat
    BY Zenon, <1>1, LeftFacts DEF Core
  <1>4. tree # << >> => /\ 1 \in DOMAIN tree /\ Head(tree) = tree[1] /\ tree[1] \in Timers
                        /\ \A i \in DOMAIN tree : 1 <= i
    BY <1>3
  <1>5. wait' \in 0 .. Infinite
    BY <1>1, <1>3, <1>4 DEF Infinite
  <1>6. ~Calling /\ lnode' = Null
    BY Zenon, <1>1, TypeFacts DEF Calling
  <1>7. TimerTypeOK'
    BY Zenon, <1>1, <1>2, <1>5, <1>6, LoopType, TypeFacts
  <1>8. ASSUME NEW t \in Timers, running[t] PROVE wait' <= left[t]
    <2>1. t \in Range(tree)
      BY Zenon, <1>1, <1>8 DEF Core, PoolSound
    <2>2. PICK i \in DOMAIN tree : tree[i] = t
      BY Zenon, <2>1 DEF Range
    <2>3. tree # << >>
      BY <1>3, <2>2
    <2>4. left[tree[1]] <= left[tree[i]]
      BY Zenon, <1>1, <1>4, <2>3 DEF Core, InOrderOf
    <2> QED
      BY Zenon, <1>1, <1>4, <2>2, <2>3, <2>4
  <1>9. NeverOversleeps'
    BY ZenonT(60), <1>1, <1>8 DEF NeverOversleeps
  <1> QED
    BY Zenon, <1>2, <1>7, <1>9 DEF TInv

LEMMA WakeInv == ASSUME TInv, Wake PROVE TInv'
  <1>1. /\ Core /\ TimerTypeOK /\ loop = "asleep" /\ loop' = "expire" /\ wait' = 0 /\ late' = {}
        /\ pool' = pool /\ tree' = tree /\ running' = running /\ left' = left /\ next' = next
        /\ handle' = handle /\ lnode' = lnode /\ owed' = owed /\ reused' = reused
    BY DEF TInv, Wake, timer
  <1>2. Core'
    BY Zenon, <1>1, CoreUnchanged
  <1>3. ~Calling /\ lnode' = Null
    BY Zenon, <1>1, TypeFacts DEF Calling
  <1>4. wait' \in 0 .. Infinite
    BY <1>1, TimerAssumption DEF Infinite
  <1>5. TimerTypeOK'
    BY Zenon, <1>1, <1>2, <1>3, <1>4, LoopType, TypeFacts
  <1> QED
    BY Zenon, <1>1, <1>2, <1>5 DEF TInv, NeverOversleeps

LEMMA DetachInv == ASSUME TInv, Detach PROVE TInv'
  <1> DEFINE l == IF Due = << >> THEN Null ELSE Due[1]
  <1>1. /\ Core /\ TimerTypeOK /\ lnode' = l /\ loop' = IF l = Null THEN "run" ELSE "call"
        /\ wait' = wait /\ next' = Linked(Due) /\ owed' = Range(Due)
        /\ reused' = reused /\ late' = late
    BY Zenon DEF TInv, Detach, Proceed
  <1>2. Core'
    BY Zenon, <1>1, DetachCore DEF TInv
  <1>3. Due \in Seq(Timers)
    BY Zenon, <1>1, DueFacts
  <1>4. l \in Timers \cup {Null} /\ Range(Due) \subseteq Timers
    BY <1>3 DEF Range
  <1> HIDE DEF l
  <1>5. next' \in [Timers -> Timers \cup {Null}]
    BY ZenonT(60), <1>1, <1>3, LinkedFacts
  <1>6. TimerTypeOK'
    BY Zenon, <1>1, <1>2, <1>4, <1>5, LoopType, TypeFacts
  <1> QED
    BY Zenon, <1>1, <1>2, <1>6 DEF TInv, NeverOversleeps

LEMMA CallInv == ASSUME TInv, Call PROVE TInv'
  <1>1. /\ Core /\ TimerTypeOK /\ loop = "call" /\ loop' = "callback" /\ owed' = owed \ {lnode}
        /\ pool' = pool /\ tree' = tree /\ running' = running /\ left' = left /\ next' = next
        /\ handle' = handle /\ lnode' = lnode /\ wait' = wait /\ reused' = reused /\ late' = late
    BY DEF TInv, Call, timer
  <1>2. Core'
    BY Zenon, <1>1, CoreUnchanged
  <1>3. lnode \in Timers
    BY Zenon, <1>1, TypeFacts DEF Calling
  <1>4. TimerTypeOK'
    BY Zenon, <1>1, <1>2, <1>3, LoopType, TypeFacts
  <1> QED
    BY Zenon, <1>1, <1>2, <1>4 DEF TInv, NeverOversleeps

LEMMA ReturnInv == ASSUME TInv, Return PROVE TInv'
  <1> DEFINE l == next[lnode]
  <1>1. /\ Core /\ TimerTypeOK /\ loop = "callback"
        /\ lnode' = l /\ loop' = IF l = Null THEN "run" ELSE "call"
        /\ \/ next' = Linked(<< >>) /\ reused' = {}
           \/ next' = next /\ reused' = reused
        /\ pool' = pool /\ tree' = tree /\ running' = running /\ left' = left
        /\ handle' = handle /\ wait' = wait /\ owed' = owed /\ late' = late
    BY DEF TInv, Return, Proceed
  <1>2. Core'
    BY ZenonT(60), <1>1, CoreUnchanged
  <1>3. l \in Timers \cup {Null}
    BY <1>1, TypeFacts DEF Calling
  <1> HIDE DEF l
  <1>4. next' \in [Timers -> Timers \cup {Null}] /\ reused' \subseteq Timers
    <2>1. << >> \in Seq(Timers)
      OBVIOUS
    <2> QED
      BY Zenon, <1>1, <2>1, LinkedFacts, TypeFacts
  <1>5. TimerTypeOK'
    BY Zenon, <1>1, <1>2, <1>3, <1>4, LoopType, TypeFacts
  <1> QED
    BY Zenon, <1>1, <1>2, <1>5 DEF TInv, NeverOversleeps

LEMMA TickInv == ASSUME TInv, Tick PROVE TInv'
  <1>1. /\ Core /\ TimerTypeOK /\ NeverOversleeps
        /\ left' = [t \in Timers |-> IF left[t] > 0 THEN left[t] - 1 ELSE 0]
        /\ wait' = IF loop = "asleep" /\ wait \in 1 .. MaxDuration THEN wait - 1 ELSE wait
        /\ running' = running /\ next' = next /\ loop' = loop /\ lnode' = lnode
        /\ owed' = owed /\ reused' = reused /\ late' = late
    BY Zenon DEF TInv, Tick
  <1>2. Core'
    BY Zenon, <1>1, TickCore DEF TInv
  <1>3. wait \in 0 .. Infinite /\ MaxDuration \in Nat /\ \A t \in Timers : left[t] \in 0 .. MaxDuration
    BY ZenonT(60), <1>1, TypeFacts, LeftFacts DEF Core
  <1>4. wait' \in 0 .. Infinite
    BY <1>1, <1>3 DEF Infinite
  <1>5. TimerTypeOK'
    <2>1. Calling' = Calling
      BY ZenonT(60), <1>1 DEF Calling
    <2> QED
      BY Zenon, <1>1, <1>2, <1>4, <2>1 DEF TimerTypeOK, Core
  <1>6. NeverOversleeps'
    <2>1. SUFFICES ASSUME loop = "asleep", NEW t \in Timers \ late, running[t]
                   PROVE  wait' <= left'[t]
      BY Zenon, <1>1 DEF NeverOversleeps
    <2>2. wait <= left[t]
      BY Zenon, <1>1, <2>1 DEF NeverOversleeps
    <2>3. wait' = (IF wait \in 1 .. MaxDuration THEN wait - 1 ELSE wait)
      BY Zenon, <1>1, <2>1
    <2>4. left'[t] = (IF left[t] > 0 THEN left[t] - 1 ELSE 0) /\ left[t] \in 0 .. MaxDuration
      BY Zenon, <1>1, <1>3
    <2> QED
      BY <1>3, <2>2, <2>3, <2>4 DEF Infinite
  <1> QED
    BY Zenon, <1>2, <1>5, <1>6 DEF TInv

LEMMA StutterInv == ASSUME TInv, UNCHANGED timerVars PROVE TInv'
  <1>1. /\ Core /\ TimerTypeOK /\ NeverOversleeps
        /\ pool' = pool /\ tree' = tree /\ running' = running /\ left' = left /\ next' = next
        /\ handle' = handle /\ loop' = loop /\ lnode' = lnode /\ wait' = wait
        /\ owed' = owed /\ reused' = reused /\ late' = late
    BY DEF TInv, timerVars, timer
  <1>2. Core'
    BY Zenon, <1>1, CoreUnchanged
  <1>3. TimerTypeOK'
    BY Zenon, <1>1, <1>2, UserType, TypeFacts
  <1> QED
    BY Zenon, <1>1, <1>2, <1>3 DEF TInv, NeverOversleeps

THEOREM TimerInvariance == TimerSpec => []TInv
  <1>1. ASSUME TInv, TimerNext PROVE TInv'
    BY ZenonT(60), <1>1, AddInv, TimerStopInv, StartInv, SleepInv, WakeInv, DetachInv, CallInv, ReturnInv,
       TickInv DEF TimerNext
  <1>2. TInv /\ [TimerNext]_timerVars => TInv'
    BY Zenon, <1>1, StutterInv
  <1> QED
    BY <1>2, TimerInitInv, PTL DEF TimerSpec

(* Every timer is free or has one user, and the tree holds the running     *)
(* timers, each once, whatever users, callbacks and other threads do       *)
(* (ogs_timer_add, _start, _stop, _delete and ogs_timer_mgr_expire).       *)
THEOREM PoolStaysSound == TimerSpec => [](TimerTypeOK /\ PoolSound)
  <1>1. TInv => TimerTypeOK /\ PoolSound
    BY Zenon DEF TInv, Core
  <1> QED
    BY <1>1, TimerInvariance, PTL

(* The wait that ogs_timer_mgr_next gives poll never passes the expiry of  *)
(* a running timer, but for those that another thread starts meanwhile.    *)
THEOREM NothingOverslept == TimerSpec => []NeverOversleeps
  <1>1. TInv => NeverOversleeps
    BY Zenon DEF TInv
  <1> QED
    BY <1>1, TimerInvariance, PTL

-----------------------------------------------------------------------------
(* While a batch is called, the links lead from one of its timers to       *)
(* another, and the timers that can still be added before it is done come  *)
(* from the head of the pool, where none of the batch is: one that is      *)
(* deleted goes to the tail.                                               *)
Spare == MaxAdds - Cardinality(reused)

Batch(B) ==
    /\ lnode \in B /\ \A t \in B : next[t] \in B \cup {Null}
    /\ \A t \in B : t \notin reused
    /\ Spare \in 0 .. Len(pool)
    /\ \A i \in 1 .. Spare : pool[i] \notin B \cup reused

BInv == IF Calling THEN \E B \in SUBSET Timers : Batch(B) ELSE reused = {}

(* There are timers for the users, and for what is added during a batch.   *)
LEMMA PoolSize ==
  ASSUME Core
  PROVE  NTimers - Cardinality(Users) <= Len(pool)
  <1> DEFINE H == {handle[u] : u \in Users}
  <1>1. IsFiniteSet(Timers) /\ Cardinality(Timers) = NTimers /\ NTimers \in Nat
    <2>1. NTimers \in Nat /\ NTimers \in Int /\ 1 \in Int
      BY TimerAssumption
    <2>2. IsFiniteSet(1 .. NTimers) /\ Cardinality(1 .. NTimers) = IF 1 > NTimers THEN 0 ELSE NTimers - 1 + 1
      BY Zenon, <2>1, FS_Interval
    <2> QED
      BY <2>1, <2>2 DEF Timers
  <1>2. IsFiniteSet(H) /\ Cardinality(H) <= Cardinality(Users)
    <2>1. handle \in Surjection(Users, H)
      BY DEF Surjection, Core
    <2>2. IsFiniteSet(Users)
      BY Zenon, TimerAssumption
    <2> QED
      BY Zenon, <2>1, <2>2, FS_Surjection
  <1>3. /\ IsFiniteSet(Timers \cap Held) /\ Cardinality(Timers \cap Held) <= Cardinality(H)
        /\ Cardinality(Timers \cap Held) \in Nat /\ Cardinality(H) \in Nat
    <2>1. Timers \cap Held \in SUBSET H
      BY Zenon DEF Held
    <2> HIDE DEF H
    <2> QED
      BY Zenon, <1>2, <2>1, FS_Subset, FS_CardinalityType
  <1>4. Cardinality(Range(pool)) = NTimers - Cardinality(Timers \cap Held)
    BY Zenon, <1>1, FS_Difference DEF Core, PoolSound
  <1>5. /\ pool \in Seq(Timers) /\ Len(pool) \in Nat /\ DOMAIN pool = 1 .. Len(pool)
        /\ pool \in [1 .. Len(pool) -> Range(pool)]
    BY DEF Core, Range
  <1>6. pool \in Surjection(1 .. Len(pool), Range(pool))
    BY Zenon, <1>5 DEF Surjection, Range
  <1>7. IsFiniteSet(1 .. Len(pool)) /\ Cardinality(1 .. Len(pool)) = Len(pool)
    <2>1. Len(pool) \in Int /\ 1 \in Int
      BY <1>5
    <2>2. /\ IsFiniteSet(1 .. Len(pool))
          /\ Cardinality(1 .. Len(pool)) = IF 1 > Len(pool) THEN 0 ELSE Len(pool) - 1 + 1
      BY Zenon, <2>1, FS_Interval
    <2> QED
      BY <1>5, <2>2
  <1>8. Cardinality(Range(pool)) <= Len(pool)
    <2>1. Cardinality(Range(pool)) <= Cardinality(1 .. Len(pool))
      BY Zenon, <1>6, <1>7, FS_Surjection
    <2> QED
      BY Zenon, <1>7, <2>1
  <1>9. Cardinality(Users) \in Nat
    BY Zenon, TimerAssumption, FS_CardinalityType
  <1> HIDE DEF H
  <1> QED
    BY <1>1, <1>2, <1>3, <1>4, <1>5, <1>8, <1>9

(* Steps that leave the batch and the head of the pool alone.              *)
LEMMA BatchKept ==
  ASSUME TInv, BInv, Calling' = Calling, lnode' = lnode, next' = next, reused' = reused,
         Len(pool) \in Nat, Len(pool') \in Nat, Len(pool) <= Len(pool'),
         \A i \in 1 .. Len(pool) : pool'[i] = pool[i]
  PROVE  BInv'
  <1>1. CASE ~Calling
    BY Zenon, <1>1 DEF BInv
  <1>2. CASE Calling
    <2>1. PICK B \in SUBSET Timers : Batch(B)
      BY Zenon, <1>2 DEF BInv
    <2>2. Spare' = Spare
      BY ZenonT(60) DEF Spare
    <2>3. Spare' \in 0 .. Len(pool') /\ \A i \in 1 .. Spare : i \in 1 .. Len(pool)
      BY <2>1, <2>2 DEF Batch
    <2>4. Batch(B)'
      BY Zenon, <2>1, <2>2, <2>3 DEF Batch
    <2> QED
      BY Zenon, <1>2, <2>4 DEF BInv
  <1> QED
    BY Zenon, <1>1, <1>2

LEMMA UserB ==
  ASSUME TInv, BInv, NEW u \in Users,
         TimerStop(u) \/ TimerDelete(u) \/ \E d \in 1 .. MaxDuration : TimerStart(u, d)
  PROVE  BInv'
  <1>1. /\ Core /\ handle[u] # Null /\ loop' = loop /\ lnode' = lnode /\ next' = next
        /\ reused' = reused /\ (pool' = pool \/ pool' = Append(pool, handle[u]))
    BY Zenon DEF TInv, TimerStop, TimerDelete, TimerStart, Stopped
  <1>2. Calling' = Calling
    BY Zenon, <1>1 DEF Calling
  <1>3. handle[u] \in Timers /\ pool \in Seq(Timers)
    BY ZenonT(60), <1>1, HandleFacts DEF Core
  <1>4. /\ Len(pool) \in Nat /\ Len(pool') \in Nat /\ Len(pool) <= Len(pool')
        /\ \A i \in 1 .. Len(pool) : pool'[i] = pool[i]
    BY <1>1, <1>3
  <1> QED
    BY Zenon, <1>1, <1>2, <1>4, BatchKept

LEMMA AddB ==
  ASSUME TInv, BInv, NEW u \in Users, TimerAdd(u)
  PROVE  BInv'
  <1> DEFINE h == Head(pool)
  <1>1. /\ Core /\ TimerTypeOK /\ pool # << >> /\ pool' = Tail(pool) /\ loop' = loop /\ lnode' = lnode
        /\ next' = [next EXCEPT ![h] = Null]
        /\ reused' = IF Calling THEN reused \cup {h} ELSE {}
        /\ Calling => Cardinality(reused) < MaxAdds
    BY Zenon DEF TInv, TimerAdd
  <1>2. Calling' = Calling
    BY Zenon, <1>1 DEF Calling
  <1>3. CASE ~Calling
    BY Zenon, <1>1, <1>2, <1>3 DEF BInv
  <1>4. CASE Calling
    <2>1. PICK B \in SUBSET Timers : Batch(B)
      BY Zenon, <1>4 DEF BInv
    <2>2. IsFiniteSet(reused)
      <3>1. IsFiniteSet(Timers)
        BY FS_Interval, TimerAssumption DEF Timers
      <3>2. reused \in SUBSET Timers
        BY Zenon, <1>1, TypeFacts
      <3> QED
        BY Zenon, <3>1, <3>2, FS_Subset
    <2>3. Cardinality(reused) \in Nat /\ MaxAdds \in Nat
      BY ZenonT(60), <2>2, FS_CardinalityType, TimerAssumption
    <2>4. 1 \in 1 .. Spare /\ Spare \in Nat
      BY <1>1, <1>4, <2>3 DEF Spare
    <2>5. /\ pool \in Seq(Timers) /\ Len(pool) \in Nat \ {0} /\ h = pool[1]
          /\ DOMAIN pool = 1 .. Len(pool) /\ Len(pool') = Len(pool) - 1
          /\ \A i \in 1 .. Len(pool) - 1 : pool'[i] = pool[i + 1]
      BY <1>1 DEF Core
    <2>6. IsInjective(pool)
      BY Zenon, <1>1 DEF Core, PoolSound
    <2>7. h \notin B /\ h \notin reused
      BY Zenon, <2>1, <2>4, <2>5 DEF Batch
    <2> HIDE DEF h
    <2>8. Cardinality(reused') = Cardinality(reused) + 1
      BY ZenonT(60), <1>1, <1>4, <2>2, <2>7, FS_AddElement
    <2>9. Spare' = Spare - 1
      BY <2>3, <2>8 DEF Spare
    <2>10. /\ Spare' \in 0 .. Len(pool')
           /\ \A i \in 1 .. Spare' : /\ i \in 1 .. Len(pool) - 1 /\ i + 1 \in 1 .. Spare
                                    /\ i + 1 \in 1 .. Len(pool) /\ 1 \in 1 .. Len(pool) /\ i + 1 # 1
      <3>1. Spare <= Len(pool)
        BY <2>1 DEF Batch
      <3> QED
        BY <2>4, <2>5, <2>9, <3>1
    <2>11. ASSUME NEW i \in 1 .. Spare' PROVE pool'[i] \notin B \cup reused'
      <3>1. pool'[i] = pool[i + 1] /\ pool[i + 1] \notin B \cup reused
        BY Zenon, <2>1, <2>5, <2>10 DEF Batch
      <3>2. pool[i + 1] # h
        BY Zenon, <2>5, <2>6, <2>10 DEF IsInjective
      <3> QED
        BY Zenon, <1>1, <1>4, <3>1, <3>2
    <2>12. \A t \in B : next'[t] = next[t] /\ t \notin reused'
      <3>1. next \in [Timers -> Timers \cup {Null}]
        BY Zenon, <1>1, TypeFacts
      <3> QED
        BY ZenonT(60), <1>1, <1>4, <2>1, <2>7, <3>1 DEF Batch
    <2>13. Batch(B)'
      BY ZenonT(60), <1>1, <2>1, <2>10, <2>11, <2>12 DEF Batch
    <2> QED
      BY Zenon, <1>2, <1>4, <2>13 DEF BInv
  <1> QED
    BY Zenon, <1>3, <1>4

LEMMA DetachB ==
  ASSUME Cardinality(Users) + MaxAdds <= NTimers, TInv, BInv, Detach
  PROVE  BInv'
  <1> DEFINE l == IF Due = << >> THEN Null ELSE Due[1]
  <1>0. PICK B : B = Range(Due)
    OBVIOUS
  <1>1. /\ Core /\ TimerTypeOK /\ loop = "expire" /\ lnode' = l
        /\ loop' = IF l = Null THEN "run" ELSE "call"
        /\ next' = Linked(Due) /\ reused' = reused /\ pool' = pool
    BY Zenon DEF TInv, Detach, Proceed
  <1>2. reused = {}
    BY Zenon, <1>1 DEF BInv, Calling
  <1>3. CASE l = Null
    BY Zenon, <1>1, <1>2, <1>3 DEF BInv, Calling
  <1>4. CASE l # Null
    <2>1. Due \in Seq(Timers) /\ B \subseteq Range(tree)
      BY ZenonT(60), <1>0, <1>1, DueFacts
    <2>2. l \in B /\ B \in SUBSET Timers
      BY <1>0, <1>4, <2>1 DEF Range
    <2>3. \A t \in B : next'[t] \in B \cup {Null}
      BY ZenonT(60), <1>0, <1>1, <2>1, <2>2, LinkedFacts
    <2>4. \A i \in 1 .. Len(pool) : pool[i] \notin B
      <3>1. \A t \in B : t \notin Range(pool)
        BY ZenonT(60), <1>1, <2>1 DEF Core, PoolSound
      <3>2. DOMAIN pool = 1 .. Len(pool)
        BY <1>1 DEF Core
      <3> QED
        BY Zenon, <3>1, <3>2 DEF Range
    <2>5. /\ Spare' = MaxAdds /\ MaxAdds \in 0 .. Len(pool)
          /\ \A i \in 1 .. MaxAdds : i \in 1 .. Len(pool)
      <3>1. Cardinality({}) = 0
        BY Zenon, FS_EmptySet
      <3>2. Len(pool) \in Nat
        BY <1>1 DEF Core
      <3>3. NTimers \in Nat /\ MaxAdds \in Nat /\ IsFiniteSet(Users)
        BY Zenon, TimerAssumption
      <3>4. Cardinality(Users) \in Nat
        BY Zenon, <3>3, FS_CardinalityType
      <3>5. NTimers - Cardinality(Users) <= Len(pool)
        BY ZenonT(60), <1>1, PoolSize
      <3>6. Spare' = MaxAdds
        BY <1>1, <1>2, <3>1, <3>3 DEF Spare
      <3> QED
        BY <3>2, <3>3, <3>4, <3>5, <3>6
    <2> HIDE DEF l
    <2>6. Batch(B)'
      BY ZenonT(60), <1>1, <1>2, <2>2, <2>3, <2>4, <2>5 DEF Batch
    <2>7. Calling'
      BY <1>1, <1>4 DEF Calling
    <2> QED
      BY Zenon, <2>2, <2>6, <2>7 DEF BInv
  <1> QED
    BY Zenon, <1>3, <1>4

LEMMA ReturnB ==
  ASSUME TInv, BInv, Return
  PROVE  BInv'
  <1> DEFINE l == next[lnode]
  <1>1. /\ Core /\ loop = "callback" /\ lnode' = l /\ pool' = pool
        /\ loop' = IF l = Null THEN "run" ELSE "call"
        /\ IF l = Null THEN reused' = {} ELSE next' = next /\ reused' = reused
    BY DEF TInv, Return, Proceed
  <1>2. Calling
    BY <1>1 DEF Calling
  <1>3. PICK B \in SUBSET Timers : Batch(B)
    BY Zenon, <1>2 DEF BInv
  <1>4. l \in B \cup {Null}
    BY Zenon, <1>3 DEF Batch
  <1> HIDE DEF l
  <1>5. CASE l = Null
    BY <1>1, <1>5 DEF BInv, Calling
  <1>6. CASE l # Null
    <2>1. Calling' /\ lnode' \in B /\ next' = next /\ reused' = reused
      BY Zenon, <1>1, <1>4, <1>6 DEF Calling
    <2>2. Spare' = Spare
      BY Zenon, <2>1 DEF Spare
    <2>3. Batch(B)'
      BY Zenon, <1>1, <1>3, <2>1, <2>2 DEF Batch
    <2> QED
      BY Zenon, <2>1, <2>3 DEF BInv
  <1> QED
    BY Zenon, <1>5, <1>6

LEMMA LoopB ==
  ASSUME TInv, BInv, Sleep \/ Wake \/ Call \/ Tick \/ UNCHANGED timerVars
  PROVE  BInv'
  <1>1. /\ Core /\ lnode' = lnode /\ next' = next /\ reused' = reused /\ pool' = pool
        /\ \/ loop' = loop
           \/ loop = "run" /\ loop' = "asleep"
           \/ loop = "asleep" /\ loop' = "expire"
           \/ loop = "call" /\ loop' = "callback"
    BY Zenon DEF TInv, Sleep, Wake, Call, Tick, timerVars, timer
  <1>2. Calling' = Calling
    BY <1>1 DEF Calling
  <1>3. /\ Len(pool) \in Nat /\ Len(pool') \in Nat /\ Len(pool) <= Len(pool')
        /\ \A i \in 1 .. Len(pool) : pool'[i] = pool[i]
    BY <1>1 DEF Core
  <1> QED
    BY ZenonT(60), <1>1, <1>2, <1>3, BatchKept

(* A callback is always that of a timer of the batch, never of one that    *)
(* ogs_timer_add has handed out since ogs_timer_mgr_expire took the batch  *)
(* off the tree, as long as the pool holds as many more timers than there  *)
(* are users as are added during one batch: freed timers go to the tail.   *)
THEOREM OnlyExpiredCalled ==
  ASSUME Cardinality(Users) + MaxAdds <= NTimers
  PROVE  TimerSpec => []CallsTheExpired
  <1>1. TimerInit => BInv
    BY DEF TimerInit, BInv, Calling
  <1>2. ASSUME TInv, BInv, TimerNext PROVE BInv'
    BY ZenonT(60), <1>2, AddB, UserB, DetachB, ReturnB, LoopB DEF TimerNext
  <1>3. TInv /\ BInv /\ [TimerNext]_timerVars => BInv'
    BY Zenon, <1>2, LoopB
  <1>4. TInv /\ BInv => CallsTheExpired
    <2>1. SUFFICES ASSUME BInv, loop = "call" PROVE lnode \notin reused
      BY Zenon DEF CallsTheExpired
    <2>2. Calling
      BY <2>1 DEF Calling
    <2> QED
      BY Zenon, <2>1, <2>2 DEF BInv, Batch
  <1> QED
    BY <1>1, <1>3, <1>4, TimerInvariance, PTL DEF TimerSpec
=============================================================================
