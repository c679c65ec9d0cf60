--------------------------- MODULE S1apTx_proofs ----------------------------
(***************************************************************************)
(* What holds of the encode offload for any number of UE threads, messages *)
(* and sizes of the queues: the counter of jobs is backed by jobs (Backed),*)
(* the hold list is timed (HoldIsTimed), and the main thread's messages    *)
(* keep their order (MainInOrder).                                         *)
(***************************************************************************)
EXTENDS S1apTx_lemmas, FiniteSetTheorems

(* The SMT solver is tried twice, then Zenon, where a leaf names neither.  *)
USE SMTT(30), SMTT(31), Zenon

(* Every thread, queue and count keeps its type.                           *)
THEOREM TypeCorrect == Spec => []TypeOK
<1>1. TInv => TypeOK
  BY DEF TInv
<1> QED
  BY <1>1, InitType, TypeNext, PTL DEF Spec

(* The clock of the hold list runs exactly while the list holds something. *)
THEOREM AlwaysTimed == Spec => []HoldIsTimed
<1>1. Init => HoldIsTimed
  BY DEF Init, HoldIsTimed
<1> QED
  BY <1>1, InitType, TypeNext, TimedNext, PTL DEF Spec

-----------------------------------------------------------------------------
(* The threads that have counted a job and not posted it or taken it back. *)
Counting == {t \in Threads : at[t] \in {"post", "undo"}}

LEMMA ThreadsFinite == IsFiniteSet(Threads)
BY SizeAssumption, FS_AddElement DEF Threads

(* Backed.  The jobs in flight, place by place.                            *)
Counted == Cardinality(Counting)

LEMMA CountingFinite ==
    /\ IsFiniteSet(Counting) /\ Counted \in Nat
    /\ IsFiniteSet(Counting') /\ Counted' \in Nat
<1>1. IsFiniteSet(Counting)
  BY ThreadsFinite, FS_Subset DEF Counting
<1>2. IsFiniteSet(Counting')
  BY ThreadsFinite, FS_Subset DEF Counting
<1> QED
  BY <1>1, <1>2, FS_CardinalityType DEF Counted

LEMMA InFlightNow ==
    ASSUME TInv
    PROVE  /\ Counted \in Nat /\ Queued \in Nat /\ AtWorker \in {0, 1} /\ AtMain \in {0, 1}
           /\ InFlight = Counted + Queued + AtWorker + AtMain
<1>1. Len(jobs) \in Nat /\ Len(readyq) \in Nat /\ Len(appq) \in Nat
  BY SeqFacts DEF TInv, TypeOK
<1> QED
  BY <1>1, CountingFinite DEF Queued, AtWorker, AtMain, InFlight, Counted, Counting

LEMMA InFlightNext ==
    ASSUME TInv'
    PROVE  /\ Counted' \in Nat /\ Queued' \in Nat /\ AtWorker' \in {0, 1} /\ AtMain' \in {0, 1}
           /\ InFlight' = Counted' + Queued' + AtWorker' + AtMain'
<1>1. Len(jobs') \in Nat /\ Len(readyq') \in Nat /\ Len(appq') \in Nat
  BY SeqFacts DEF TInv, TypeOK
<1> QED
  BY <1>1, CountingFinite DEF Queued, AtWorker, AtMain, InFlight, Counted, Counting

(* How a step of actor a changes the threads that have counted a job.      *)
LEMMA CountKept ==
    ASSUME NEW a \in Actors, \A b \in Actors : b # a => at'[b] = at[b],
           a \in Threads => (at[a] \in {"post", "undo"} <=> at'[a] \in {"post", "undo"})
    PROVE  Counted' = Counted
<1>1. Counting' = Counting
  BY ActorFacts DEF Counting
<1> QED
  BY <1>1 DEF Counted

LEMMA CountUp ==
    ASSUME NEW a \in Threads, \A b \in Actors : b # a => at'[b] = at[b],
           at[a] \notin {"post", "undo"}, at'[a] \in {"post", "undo"}
    PROVE  Counted' = Counted + 1
<1>1. Counting' = Counting \cup {a} /\ a \notin Counting
  BY ActorFacts DEF Counting
<1> QED
  BY <1>1, CountingFinite, FS_AddElement DEF Counted

LEMMA CountDown ==
    ASSUME NEW a \in Threads, \A b \in Actors : b # a => at'[b] = at[b],
           at[a] \in {"post", "undo"}, at'[a] \notin {"post", "undo"}
    PROVE  Counted' = Counted - 1
<1>1. Counting' = Counting \ {a} /\ a \in Counting
  BY ActorFacts DEF Counting
<1> QED
  BY <1>1, CountingFinite, FS_RemoveElement DEF Counted

(* What keeps the number of jobs in flight, and what forces the counter.   *)
LEMMA StillBacked ==
    ASSUME Backed, InFlight' = InFlight, UNCHANGED <<pending, forced>> PROVE Backed'
BY DEF Backed

LEMMA ForcedBacked ==
    ASSUME TInv', pending' = 0, forced' = TRUE PROVE Backed'
BY InFlightNext DEF Backed

(* A counter and a number of jobs that change by the same amount.          *)
LEMMA Balanced ==
    ASSUME TInv, TInv', Backed, NEW d \in {-1, 0, 1},
           Counted' + Queued' + AtWorker' + AtMain' = Counted + Queued + AtWorker + AtMain + d,
           pending' = pending + d, forced' = forced
    PROVE  Backed'
<1>1. pending \in Int
  BY DEF TInv, TypeOK
<1> QED
  BY <1>1, InFlightNow, InFlightNext DEF Backed

LEMMA BackedBegin ==
    ASSUME TInv, TInv', Backed, NEW t \in Threads, Begin(t) PROVE Backed'
<1>0. TypeOK /\ t \in Actors /\ t # "tx" /\ "main" \in Actors /\ "tx" \in Actors
  BY ActorFacts DEF TInv
<1>1. CASE SendJob(t)
  <2>1. /\ at'[t] = "post" /\ at[t] = "idle"
        /\ \A b \in Actors : b # t => at'[b] = at[b]
    BY Zenon, <1>0, <1>1, GotoFacts DEF SendJob, Begins, Labels
  <2>2. Counted' = Counted + 1
    BY <2>1, CountUp
  <2>3. AtWorker' = AtWorker /\ AtMain' = AtMain
    BY <1>0, <2>1 DEF AtWorker, AtMain
  <2>4. Queued' = Queued /\ pending' = pending + 1 /\ forced' = forced
    BY <1>1 DEF SendJob, queues, Queued
  <2> QED
    BY <2>2, <2>3, <2>4, InFlightNow, Balanced
<1>2. CASE SendSync(t)
  <2>1. /\ at'[t] = "recover" /\ at[t] = "idle"
        /\ \A b \in Actors : b # t => at'[b] = at[b]
    BY Zenon, <1>0, <1>2, GotoFacts DEF SendSync, Begins, Labels
  <2>2. Counted' = Counted
    BY <1>0, <2>1, CountKept
  <2>3. AtWorker' = AtWorker /\ AtMain' = AtMain
    BY <1>0, <2>1 DEF AtWorker, AtMain
  <2>4. Queued' = Queued /\ pending' = pending /\ forced' = forced
    BY <1>2 DEF SendSync, queues, Queued
  <2> QED
    BY Zenon, <2>2, <2>3, <2>4, InFlightNow, InFlightNext, StillBacked
<1> QED
  BY <1>1, <1>2 DEF Begin

(* Steps of actor a between places where no job is counted.                *)
LEMMA Elsewhere ==
    ASSUME TInv, TInv', Backed, NEW a \in Actors,
           \A b \in Actors : b # a => at'[b] = at[b],
           at[a] \notin {"post", "undo", "encoded", "sub", "load"},
           at'[a] \notin {"post", "undo", "encoded", "sub", "load"},
           queues' = queues, pending' = pending, forced' = forced
    PROVE  Backed'
<1>1. Counted' = Counted
  BY CountKept
<1>2. AtWorker' = AtWorker /\ AtMain' = AtMain
  BY ActorFacts DEF AtWorker, AtMain
<1>3. Queued' = Queued
  BY DEF queues, Queued
<1> QED
  BY Zenon, <1>1, <1>2, <1>3, InFlightNow, InFlightNext, StillBacked

LEMMA BackedSendHeld ==
    ASSUME TInv, TInv', Backed, NEW a \in Actors, NEW l \in {"flush", "drain"},
           NEW next \in {"decide", "idle"}, SendHeld(a, l, next)
    PROVE  Backed'
<1>1. PICK m \in {l, next} : Goto(a, m)
  BY DEF SendHeld, GoSend
<1>2. TypeOK /\ m \in Labels /\ m \in {"flush", "drain", "decide", "idle"}
  BY DEF TInv, Labels
<1>3. at'[a] = m /\ \A b \in Actors : b # a => at'[b] = at[b]
  BY Zenon, <1>1, <1>2, GotoFacts
<1>4. at[a] = l /\ queues' = queues /\ pending' = pending /\ forced' = forced
  BY DEF SendHeld
<1> QED
  BY Zenon, <1>2, <1>3, <1>4, Elsewhere

LEMMA BackedContinue ==
    ASSUME TInv, TInv', Backed, NEW t \in Threads, Continue(t) PROVE Backed'
<1>0. TypeOK /\ t \in Actors /\ t # "tx" /\ "main" \in Actors /\ "tx" \in Actors
  BY ActorFacts DEF TInv
<1>1. CASE Post(t)
  <2>1. /\ at[t] = "post" /\ \A b \in Actors : b # t => at'[b] = at[b]
    BY <1>0, <1>1, GotoFacts DEF Post, Labels
  <2>2. at'[t] \in {"idle", "undo"}
    BY <1>0, <1>1, GotoFacts DEF Post, Labels
  <2>3. AtWorker' = AtWorker /\ AtMain' = AtMain
    BY <1>0, <2>1, <2>2 DEF AtWorker, AtMain
  <2>4. pending' = pending /\ forced' = forced /\ readyq' = readyq /\ appq' = appq
    BY <1>1 DEF Post
  <2>5. CASE at'[t] = "idle"
    <3>1. jobs' = Append(jobs, Current(t))
      BY Zenon, <1>0, <1>1, <2>5, GotoFacts DEF Post, Labels
    <3>2. Len(jobs') = Len(jobs) + 1 /\ Len(jobs) \in Nat /\ Len(readyq) \in Nat /\ Len(appq) \in Nat
      BY <1>0, <3>1, SeqFacts, CurrentType DEF TypeOK
    <3>3. Queued' = Queued + 1
      BY <2>4, <3>2 DEF Queued
    <3>4. Counted' = Counted - 1
      BY <2>1, <2>5, CountDown
    <3> QED
      BY <2>3, <2>4, <3>3, <3>4, InFlightNow, InFlightNext, StillBacked
  <2>6. CASE at'[t] = "undo"
    <3>1. jobs' = jobs
      BY <1>0, <1>1, <2>6, GotoFacts DEF Post, Labels
    <3>2. Queued' = Queued
      BY <2>4, <3>1 DEF Queued
    <3>3. Counted' = Counted
      BY Zenon, <1>0, <2>1, <2>6, CountKept
    <3> QED
      BY Zenon, <2>3, <2>4, <3>2, <3>3, InFlightNow, InFlightNext, StillBacked
  <2> QED
    BY Zenon, <2>2, <2>5, <2>6
<1>2. CASE Undo(t)
  <2>1. /\ at[t] = "undo" /\ at'[t] = "recover" /\ \A b \in Actors : b # t => at'[b] = at[b]
    BY <1>0, <1>2, GotoFacts DEF Undo, Labels
  <2>2. Counted' = Counted - 1
    BY <2>1, CountDown
  <2>3. AtWorker' = AtWorker /\ AtMain' = AtMain
    BY <1>0, <2>1 DEF AtWorker, AtMain
  <2>4. Queued' = Queued /\ pending' = pending - 1 /\ forced' = forced
    BY <1>2 DEF Undo, Decrement, queues, Queued
  <2>5. pending' = pending + (-1)
    BY <1>0, <2>4 DEF TypeOK
  <2> QED
    BY <2>2, <2>3, <2>4, <2>5, InFlightNow, Balanced
<1>3. CASE Recover(t)
  <2>1. CASE ForceFlush(t)
    BY <2>1, ForcedBacked DEF ForceFlush
  <2>2. CASE Goto(t, "decide") /\ UNCHANGED <<out, pending, hold, holdSince, pendSince, forced>>
    <3>1. /\ at[t] = "recover" /\ at'[t] = "decide" /\ \A b \in Actors : b # t => at'[b] = at[b]
      BY Zenon, <1>0, <1>3, <2>2, GotoFacts DEF Recover, Labels
    <3> QED
      BY Zenon, <1>0, <1>3, <2>2, <3>1, Elsewhere DEF Recover
  <2> QED
    BY <1>3, <2>1, <2>2 DEF Recover
<1>4. CASE Decide(t)
  <2>1. /\ at[t] = "decide" /\ at'[t] \in {"idle", "send"} /\ \A b \in Actors : b # t => at'[b] = at[b]
    BY Zenon, <1>0, <1>4, GotoFacts DEF Decide, Labels
  <2> QED
    BY Zenon, <1>0, <1>4, <2>1, Elsewhere DEF Decide
<1>5. CASE Send(t)
  <2>1. /\ at[t] = "send" /\ at'[t] = "idle" /\ \A b \in Actors : b # t => at'[b] = at[b]
    BY <1>0, <1>5, GotoFacts DEF Send, Labels
  <2> QED
    BY Zenon, <1>0, <1>5, <2>1, Elsewhere DEF Send
<1>6. CASE SendHeld(t, "flush", "decide")
  BY <1>0, <1>6, BackedSendHeld
<1> QED
  BY Zenon, <1>1, <1>2, <1>3, <1>4, <1>5, <1>6 DEF Continue

(* A job that completes without a decrement finds the counter forced.      *)
LEMMA Uncounted ==
    ASSUME TInv, TInv', Backed, pending <= 0, AtWorker + AtMain > 0,
           UNCHANGED <<pending, forced>>
    PROVE  Backed'
<1>1. pending \in Int
  BY DEF TInv, TypeOK
<1>2. forced
  BY <1>1, InFlightNow DEF Backed
<1> QED
  BY <1>1, <1>2, InFlightNext DEF Backed

(* A step of the worker: no thread counts, and the main thread stays.      *)
LEMMA WorkerStep ==
    ASSUME NEW l \in Labels, TypeOK, Goto("tx", l)
    PROVE  Counted' = Counted /\ AtMain' = AtMain /\ at'["tx"] = l
<1>1. at'["tx"] = l /\ \A b \in Actors : b # "tx" => at'[b] = at[b]
  BY ActorFacts, GotoFacts
<1> QED
  BY <1>1, ActorFacts, CountKept DEF AtMain

LEMMA BackedWorker == ASSUME TInv, TInv', Backed, Worker PROVE Backed'
<1>0. TypeOK /\ TypeOK' /\ "tx" \in Actors
  BY ActorFacts DEF TInv
<1>1. CASE Encode
  <2>1. Counted' = Counted /\ AtMain' = AtMain /\ AtWorker = 0 /\ AtWorker' = 1
    BY Zenon, <1>0, <1>1, WorkerStep DEF Encode, Labels, AtWorker
  <2>2. jobs \in Seq(Msgs) /\ jobs # <<>> /\ jobs' = Tail(jobs) /\ readyq' = readyq /\ appq' = appq
    BY Zenon, <1>0, <1>1 DEF Encode, TypeOK
  <2>3. /\ Len(jobs) \in Nat /\ Len(jobs') = Len(jobs) - 1
        /\ Len(readyq) \in Nat /\ Len(appq) \in Nat
    BY Zenon, <1>0, <2>2, SeqFacts DEF TypeOK
  <2>4. Queued' = Queued - 1
    BY <2>2, <2>3 DEF Queued
  <2>5. UNCHANGED <<pending, forced>>
    BY <1>1 DEF Encode
  <2> QED
    BY <2>1, <2>4, <2>5, InFlightNow, InFlightNext, StillBacked
<1>2. CASE PushReady
  <2>1. Counted' = Counted /\ AtMain' = AtMain /\ AtWorker = 1 /\ AtWorker' = 0
    BY Zenon, <1>0, <1>2, WorkerStep DEF PushReady, Labels, AtWorker
  <2>2. got["tx"][1] \in Events
    BY Zenon, <1>0, <1>2, GotEvent DEF PushReady, TInv, Got
  <2>3. /\ Len(readyq) \in Nat /\ Len(appq) \in Nat /\ Len(jobs) \in Nat
        /\ Len(Append(readyq, got["tx"][1])) = Len(readyq) + 1
        /\ Len(Append(appq, got["tx"][1])) = Len(appq) + 1
    BY ZenonT(60), <1>0, <2>2, SeqFacts DEF TypeOK
  <2>4. Queued' = Queued + 1
    BY <1>2, <2>3 DEF PushReady, Queued
  <2>5. UNCHANGED <<pending, forced>>
    BY <1>2 DEF PushReady
  <2> QED
    BY <2>1, <2>4, <2>5, InFlightNow, InFlightNext, StillBacked
<1>3. CASE LoadDirect
  <2>1. /\ Counted' = Counted /\ AtMain' = AtMain /\ AtWorker = 1
        /\ pending > 0 => AtWorker' = 1
    BY Zenon, <1>0, <1>3, WorkerStep DEF LoadDirect, Labels, AtWorker
  <2>2. Queued' = Queued /\ UNCHANGED <<pending, forced>> /\ pending \in Int
    BY <1>0, <1>3 DEF LoadDirect, queues, Queued, TypeOK
  <2>3. CASE pending > 0
    BY Zenon, <2>1, <2>2, <2>3, InFlightNow, InFlightNext, StillBacked
  <2>4. CASE pending <= 0
    BY <2>1, <2>2, <2>4, InFlightNow, Uncounted
  <2> QED
    BY <2>2, <2>3, <2>4
<1>4. CASE SubDirect
  <2>1. Counted' = Counted /\ AtMain' = AtMain /\ AtWorker = 1 /\ AtWorker' = 0
    BY Zenon, <1>0, <1>4, WorkerStep DEF SubDirect, Labels, AtWorker
  <2>2. Queued' = Queued /\ forced' = forced /\ pending' = pending + (-1)
    BY Zenon, <1>0, <1>4 DEF SubDirect, Decrement, queues, Queued, TypeOK
  <2> QED
    BY <2>1, <2>2, InFlightNow, Balanced
<1>5. CASE SpliceDirect
  <2>1. PICK m \in {"flush", "idle"} : Goto("tx", m)
    BY <1>5 DEF SpliceDirect, GoSend
  <2>2. m \in Labels
    BY DEF Labels
  <2>3. at'["tx"] = m /\ \A b \in Actors : b # "tx" => at'[b] = at[b]
    BY Zenon, <1>0, <2>1, <2>2, GotoFacts
  <2>4. at["tx"] = "splice" /\ queues' = queues /\ pending' = pending /\ forced' = forced
    BY <1>5 DEF SpliceDirect
  <2> QED
    BY Zenon, <1>0, <2>3, <2>4, Elsewhere
<1>6. CASE SendHeld("tx", "flush", "idle")
  BY Zenon, <1>0, <1>6, BackedSendHeld
<1> QED
  BY Zenon, <1>1, <1>2, <1>3, <1>4, <1>5, <1>6 DEF Worker

(* A step of the main thread that completes a job: nothing is counted.     *)
LEMMA MainStep ==
    ASSUME NEW l \in Labels, TypeOK, Goto("main", l),
           at["main"] \notin {"post", "undo"}, l \notin {"post", "undo"}
    PROVE  Counted' = Counted /\ AtWorker' = AtWorker /\ at'["main"] = l
<1>1. at'["main"] = l /\ \A b \in Actors : b # "main" => at'[b] = at[b]
  BY ActorFacts, GotoFacts
<1> QED
  BY Zenon, <1>1, ActorFacts, CountKept DEF AtWorker

LEMMA BackedReady == ASSUME TInv, TInv', Backed, Ready PROVE Backed'
<1>0. TypeOK /\ "main" \in Actors
  BY ActorFacts DEF TInv
<1>1. CASE TakeReady
  <2>1. Counted' = Counted /\ AtWorker' = AtWorker /\ AtMain = 0 /\ AtMain' = 1
    BY Zenon, <1>0, <1>1, MainStep DEF TakeReady, Labels, AtMain
  <2>2. /\ readyq \in Seq(Events) /\ appq \in Seq(Events) /\ jobs \in Seq(Msgs) /\ jobs' = jobs
        /\ \/ readyq # <<>> /\ readyq' = Tail(readyq) /\ appq' = appq
           \/ appq # <<>> /\ appq' = Tail(appq) /\ readyq' = readyq
    BY <1>0, <1>1 DEF TakeReady, TypeOK
  <2>3. /\ Len(readyq) \in Nat /\ Len(appq) \in Nat /\ Len(jobs) \in Nat
        /\ readyq # <<>> => Len(Tail(readyq)) = Len(readyq) - 1
        /\ appq # <<>> => Len(Tail(appq)) = Len(appq) - 1
    BY <2>2, SeqFacts
  <2>4. UNCHANGED <<pending, forced>>
    BY Zenon, <1>1 DEF TakeReady
  <2>5. CASE readyq # <<>> /\ readyq' = Tail(readyq) /\ appq' = appq
    <3>1. Len(readyq') = Len(readyq) - 1 /\ Len(appq') = Len(appq) /\ Len(jobs') = Len(jobs)
      BY Zenon, <2>2, <2>3, <2>5
    <3> QED
      BY <2>1, <2>3, <2>4, <3>1, InFlightNow, InFlightNext, StillBacked DEF Queued
  <2>6. CASE appq # <<>> /\ appq' = Tail(appq) /\ readyq' = readyq
    <3>1. Len(appq') = Len(appq) - 1 /\ Len(readyq') = Len(readyq) /\ Len(jobs') = Len(jobs)
      BY Zenon, <2>2, <2>3, <2>6
    <3> QED
      BY <2>1, <2>3, <2>4, <3>1, InFlightNow, InFlightNext, StillBacked DEF Queued
  <2> QED
    BY Zenon, <2>2, <2>5, <2>6
<1>2. CASE LoadReady
  <2>1. /\ Counted' = Counted /\ AtWorker' = AtWorker /\ AtMain = 1
        /\ pending > 0 => AtMain' = 1
    BY Zenon, <1>0, <1>2, MainStep DEF LoadReady, Labels, AtMain
  <2>2. Queued' = Queued /\ UNCHANGED <<pending, forced>> /\ pending \in Int
    BY Zenon, <1>0, <1>2 DEF LoadReady, queues, Queued, TypeOK
  <2>3. CASE pending > 0
    BY Zenon, <2>1, <2>2, <2>3, InFlightNow, InFlightNext, StillBacked
  <2>4. CASE pending <= 0
    BY <2>1, <2>2, <2>4, InFlightNow, Uncounted
  <2> QED
    BY <2>2, <2>3, <2>4
<1>3. CASE SubReady
  <2>1. Counted' = Counted /\ AtWorker' = AtWorker /\ AtMain = 1 /\ AtMain' = 0
    BY Zenon, <1>0, <1>3, MainStep DEF SubReady, Labels, AtMain
  <2>2. Queued' = Queued /\ forced' = forced /\ pending' = pending + (-1)
    BY Zenon, <1>0, <1>3 DEF SubReady, Decrement, queues, Queued, TypeOK
  <2> QED
    BY <2>1, <2>2, InFlightNow, Balanced
<1>4. CASE SendReady
  <2>1. /\ at["main"] = "pdu" /\ at'["main"] = "check"
        /\ \A b \in Actors : b # "main" => at'[b] = at[b]
    BY Zenon, <1>0, <1>4, GotoFacts DEF SendReady, Labels
  <2> QED
    BY Zenon, <1>0, <1>4, <2>1, Elsewhere DEF SendReady
<1>5. CASE CheckReady
  <2>1. /\ at["main"] = "check" /\ at'["main"] \in {"drain", "idle"}
        /\ \A b \in Actors : b # "main" => at'[b] = at[b]
    <3>1. PICK m \in {"drain", "idle"} : Goto("main", m)
      BY <1>5 DEF CheckReady, GoSend
    <3>2. m \in Labels /\ at["main"] = "check"
      BY <1>5 DEF Labels, CheckReady
    <3> QED
      BY Zenon, <1>0, <3>1, <3>2, GotoFacts
  <2> QED
    BY Zenon, <1>0, <1>5, <2>1, Elsewhere DEF CheckReady
<1>6. CASE SendHeld("main", "drain", "idle")
  BY Zenon, <1>0, <1>6, BackedSendHeld
<1> QED
  BY Zenon, <1>1, <1>2, <1>3, <1>4, <1>5, <1>6 DEF Ready

LEMMA BackedNext == TInv /\ TInv' /\ Backed /\ [Next]_vars => Backed'
<1> SUFFICES ASSUME TInv, TInv', Backed, [Next]_vars PROVE Backed'
  OBVIOUS
<1>1. CASE \E t \in Threads : Begin(t) \/ Continue(t)
  BY Zenon, <1>1, BackedBegin, BackedContinue
<1>2. CASE Ready
  BY <1>2, BackedReady
<1>3. CASE Worker
  BY Zenon, <1>3, BackedWorker
<1>4. CASE Watchdog
  BY Zenon, <1>4, ForcedBacked DEF Watchdog, ForceFlush
<1>5. CASE Tick
  BY Zenon, <1>5 DEF Tick, Backed, InFlight, queues
<1>6. CASE UNCHANGED vars
  BY <1>6 DEF vars, Backed, InFlight, queues
<1> QED
  BY Zenon, <1>1, <1>2, <1>3, <1>4, <1>5, <1>6 DEF Next, Rest

LEMMA InitBacked == Init => Backed
<1> SUFFICES ASSUME Init PROVE Backed
  OBVIOUS
<1>1. Counting = {}
  BY ActorFacts DEF Init, Counting
<1>2. Counted = 0
  BY <1>1, FS_EmptySet DEF Counted
<1>3. Queued = 0 /\ AtWorker = 0 /\ AtMain = 0 /\ pending = 0
  BY ActorFacts DEF Init, Queued, AtWorker, AtMain
<1> QED
  BY <1>2, <1>3, InitType, InFlightNow DEF Backed

(* The count of jobs on their way to the worker and back is never above    *)
(* the jobs there are, so it comes down to zero with them, and it is their *)
(* number until a stalled hold list has been forced out: for any number of *)
(* shard workers, any size of the queues and either mode of the worker.    *)
THEOREM AlwaysBacked == Spec => []Backed
BY InitBacked, InitType, TypeNext, BackedNext, PTL DEF Spec

-----------------------------------------------------------------------------
(* What the main thread encodes itself never reaches the eNB before one of *)
(* its earlier jobs, as long as TX_READY comes back to it and no stalled   *)
(* list was forced out: for any number of UE threads and messages, and any *)
(* sizes of the queues between the threads. A later job may still pass a   *)
(* message that is parked, and UE threads are not covered.                 *)
THEOREM MainStaysInOrder == Spec => []MainInOrder
<1>1. Init => OInv
  <2> SUFFICES ASSUME Init PROVE OInv
    OBVIOUS
  <2>1. Leaving = {} /\ Carried = {}
    BY ActorFacts DEF Init, Leaving, Carried, Encoded, Range
  <2>2. Places
    BY ActorFacts DEF Init, Places
  <2> QED
    BY Zenon, <2>1, <2>2 DEF OInv, Numbered, NoneOfMain, Behind
<1>2. TInv /\ OInv => MainInOrder
  <2> SUFFICES ASSUME TInv, OInv, ~direct, ~forced, NEW m \in wire, NEW j \in Unsent,
                      m.by = "main", Overtakes(m, j)
               PROVE  FALSE
    BY DEF MainInOrder
  <2>1. Range(out["tx"]) = {}
    BY DEF OInv, Places, Range
  <2>2. j \in Carried
    BY <2>1 DEF Unsent, Carried, Encoded
  <2>3. m.nr <= j.nr
    BY <2>2 DEF OInv, Behind, Overtakes
  <2>4. m \in Msgs /\ j \in Msgs
    BY Zenon, <2>2, MsgsNow DEF Leaving
  <2> QED
    BY <2>3, <2>4 DEF Overtakes, Msgs
<1>3. TInv /\ Backed => Accounted
  BY InFlightNow DEF TInv, TypeOK, Backed, Accounted
<1> QED
  BY <1>1, <1>2, <1>3, InitType, InitBacked, TypeNext, BackedNext, OrderNext, PTL DEF Spec
=============================================================================
