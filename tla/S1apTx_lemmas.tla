--------------------------- MODULE S1apTx_lemmas ----------------------------
(***************************************************************************)
(* What each step of the encode offload does to the types, to the clock of *)
(* the hold list and to the order of the main thread's messages.           *)
(***************************************************************************)
EXTENDS S1apTx, TLAPS

(* The SMT solver is tried twice, then Zenon, where a leaf names neither.  *)
USE SMTT(60), SMTT(61), Zenon

Labels ==
    {"idle", "post", "undo", "recover", "flush", "decide", "send",
     "encoded", "sub", "splice", "load", "pdu", "check", "drain"}

(* The event that the worker or the main thread is dealing with is there.  *)
Got ==
    /\ at["tx"] \in {"encoded", "sub", "splice"} => got["tx"] # <<>>
    /\ at["main"] \in {"load", "sub", "pdu"} => got["main"] # <<>>

TInv == TypeOK /\ Got

LEMMA ActorFacts ==
    /\ "main" \in Threads /\ "main" \in Actors /\ "tx" \in Actors
    /\ "tx" \notin Threads /\ Threads \subseteq Actors
BY SizeAssumption DEF Threads, Actors

(* What a step of one actor does to the places.                            *)
LEMMA GotoFacts ==
    ASSUME TypeOK, NEW a \in Actors, NEW l \in Labels, Goto(a, l)
    PROVE  /\ at' \in [Actors -> Labels]
           /\ at'[a] = l
           /\ \A b \in Actors : b # a => at'[b] = at[b]
BY DEF TypeOK, Goto, Labels

LEMMA CurrentType == ASSUME TypeOK, NEW t \in Threads PROVE Current(t) \in Msgs
BY DEF TypeOK, Current, Msgs

LEMMA PduType == ASSUME NEW e \in Events PROVE Pdu(e) \in Seq(Msgs)
BY DEF Events, Pdu

LEMMA SeqFacts ==
    ASSUME NEW S, NEW q \in Seq(S)
    PROVE  /\ \A x \in S : /\ Append(q, x) \in Seq(S) /\ Append(q, x) # <<>>
                            /\ Len(Append(q, x)) = Len(q) + 1
           /\ Len(q) \in Nat
           /\ q # <<>> => /\ Head(q) \in S /\ q[1] \in S /\ Tail(q) \in Seq(S)
                          /\ Len(q) > 0 /\ Len(Tail(q)) = Len(q) - 1
OBVIOUS

LEMMA GotEvent ==
    ASSUME TypeOK, NEW a \in Actors, got[a] # <<>> PROVE got[a][1] \in Events
BY DEF TypeOK
-----------------------------------------------------------------------------
(* Types, one lemma for the senders, the worker, and the main thread.      *)
LEMMA TypeBegin ==
    ASSUME TInv, NEW t \in Threads, Begin(t) PROVE TInv'
<1>0. TypeOK /\ Got /\ t \in Actors /\ t # "tx"
  BY ActorFacts DEF TInv
<1>1. CASE SendJob(t)
  <2>1. /\ at' \in [Actors -> Labels] /\ at'[t] = "post"
        /\ \A b \in Actors : b # t => at'[b] = at[b]
    BY <1>0, <1>1, GotoFacts DEF SendJob, Labels
  <2>2. sent' \in [Threads -> Nat] /\ pending' \in Int /\ pendSince' \in Clocks
    BY <1>0, <1>1 DEF SendJob, Begins, TypeOK, Clocks
  <2>3. UNCHANGED <<direct, out, got, hold, holdSince, lastReady, queues, wire, lost, forced>>
    BY Zenon, <1>1 DEF SendJob
  <2> QED
    BY Zenon, <1>0, <2>1, <2>2, <2>3, ActorFacts DEF TInv, TypeOK, Got, Labels, queues
<1>2. CASE SendSync(t)
  <2>1. /\ at' \in [Actors -> Labels] /\ at'[t] = "recover"
        /\ \A b \in Actors : b # t => at'[b] = at[b]
    BY <1>0, <1>2, GotoFacts DEF SendSync, Labels
  <2>2. sent' \in [Threads -> Nat]
    BY <1>0, <1>2 DEF SendSync, Begins, TypeOK
  <2>3. /\ direct' = direct /\ out' = out /\ got' = got /\ pending' = pending /\ hold' = hold
        /\ holdSince' = holdSince /\ pendSince' = pendSince /\ lastReady' = lastReady
        /\ jobs' = jobs /\ readyq' = readyq /\ appq' = appq /\ wire' = wire
        /\ lost' = lost /\ forced' = forced /\ at[t] = "idle"
    BY <1>2 DEF SendSync, Begins, queues, clocks
  <2> QED
    BY Zenon, <1>0, <2>1, <2>2, <2>3, ActorFacts DEF TInv, TypeOK, Got, Labels
<1> QED
  BY <1>1, <1>2 DEF Begin

LEMMA SpliceType ==
    ASSUME TypeOK, NEW a \in Actors, Splice(a)
    PROVE  /\ out' \in [Actors -> Seq(Msgs)] /\ hold' \in Seq(Msgs)
           /\ holdSince' \in Clocks /\ pendSince' \in Clocks
BY DEF Splice, TypeOK, Clocks

LEMMA SendHeldType ==
    ASSUME TInv, NEW a \in Actors, NEW l \in {"flush", "drain"}, NEW next \in {"decide", "idle"},
           SendHeld(a, l, next)
    PROVE  TInv'
<1>0. TypeOK /\ Got
  BY DEF TInv
<1>1. /\ at' \in [Actors -> Labels] /\ at'[a] \in {"flush", "drain", "decide", "idle"}
      /\ \A b \in Actors : b # a => at'[b] = at[b]
  <2>1. PICK m \in {l, next} : Goto(a, m)
    BY DEF SendHeld, GoSend
  <2>2. m \in Labels /\ m \in {"flush", "drain", "decide", "idle"}
    BY DEF Labels
  <2> QED
    BY <1>0, <2>1, <2>2, GotoFacts
<1>2. Head(out[a]) \in Msgs /\ Tail(out[a]) \in Seq(Msgs)
  BY <1>0 DEF SendHeld, TypeOK
<1>3. TypeOK'
  BY <1>0, <1>1, <1>2 DEF SendHeld, TypeOK, Labels, queues, clocks
<1> QED
  BY <1>0, <1>1, <1>3, ActorFacts DEF TInv, Got, SendHeld

LEMMA TypeContinue ==
    ASSUME TInv, NEW t \in Threads, Continue(t) PROVE TInv'
<1>0. TypeOK /\ Got /\ t \in Actors /\ t # "tx" /\ Current(t) \in Msgs
  BY ActorFacts, CurrentType DEF TInv
<1>1. CASE Post(t)
  <2>1. /\ at' \in [Actors -> Labels] /\ at'[t] \in {"idle", "undo"}
        /\ \A b \in Actors : b # t => at'[b] = at[b]
    BY <1>0, <1>1, GotoFacts DEF Post, Labels
  <2>2. jobs' \in Seq(Msgs)
    <3>1. jobs \in Seq(Msgs) /\ Append(jobs, Current(t)) \in Seq(Msgs)
      BY <1>0, SeqFacts DEF TypeOK
    <3> QED
      BY <1>1, <3>1 DEF Post
  <2>3. UNCHANGED <<direct, sent, out, got, pending, hold, clocks, readyq, appq, wire, lost, forced>>
    BY <1>1 DEF Post
  <2> QED
    BY Zenon, <1>0, <2>1, <2>2, <2>3, ActorFacts DEF TInv, TypeOK, Got, Labels, clocks
<1>2. CASE Undo(t)
  <2>1. /\ at' \in [Actors -> Labels] /\ at'[t] = "recover"
        /\ \A b \in Actors : b # t => at'[b] = at[b]
    BY <1>0, <1>2, GotoFacts DEF Undo, Labels
  <2>2. pending' \in Int /\ pendSince' \in Clocks
    BY <1>0, <1>2 DEF Undo, Decrement, TypeOK, Clocks
  <2>3. UNCHANGED <<direct, sent, out, got, hold, holdSince, lastReady, queues, wire, lost, forced>>
    BY Zenon, <1>2 DEF Undo
  <2> QED
    BY Zenon, <1>0, <2>1, <2>2, <2>3, ActorFacts DEF TInv, TypeOK, Got, Labels, queues
<1>3. CASE Recover(t)
  <2>1. /\ at' \in [Actors -> Labels] /\ at'[t] \in {"flush", "decide"}
        /\ \A b \in Actors : b # t => at'[b] = at[b]
    <3>1. PICK m \in {"flush", "decide"} : Goto(t, m)
      BY <1>3 DEF Recover, GoSend
    <3>2. m \in Labels
      BY DEF Labels
    <3> QED
      BY <1>0, <3>1, <3>2, GotoFacts
  <2>2. /\ out' \in [Actors -> Seq(Msgs)] /\ hold' \in Seq(Msgs)
        /\ holdSince' \in Clocks /\ pendSince' \in Clocks
        /\ pending' \in Int /\ forced' \in BOOLEAN
    <3>1. CASE ForceFlush(t)
      BY <1>0, <3>1, SpliceType DEF ForceFlush
    <3>2. CASE UNCHANGED <<out, pending, hold, holdSince, pendSince, forced>>
      BY <1>0, <3>2 DEF TypeOK
    <3> QED
      BY <1>3, <3>1, <3>2 DEF Recover
  <2> QED
    BY Zenon, <1>0, <1>3, <2>1, <2>2, ActorFacts DEF Recover, TInv, TypeOK, Got, Labels, queues
<1>4. CASE Decide(t)
  <2>1. /\ at' \in [Actors -> Labels] /\ at'[t] \in {"idle", "send"}
        /\ \A b \in Actors : b # t => at'[b] = at[b]
    BY <1>0, <1>4, GotoFacts DEF Decide, Labels
  <2>2. hold' \in Seq(Msgs) /\ holdSince' \in Clocks
    <3>1. hold \in Seq(Msgs) /\ Append(hold, Current(t)) \in Seq(Msgs) /\ holdSince \in Clocks
      BY <1>0, SeqFacts DEF TypeOK
    <3> QED
      BY <1>4, <3>1 DEF Decide, Clocks
  <2>3. UNCHANGED <<direct, sent, out, got, pending, pendSince, lastReady, queues, wire, lost, forced>>
    BY <1>4 DEF Decide
  <2> QED
    BY Zenon, <1>0, <2>1, <2>2, <2>3, ActorFacts DEF TInv, TypeOK, Got, Labels, queues
<1>5. CASE Send(t)
  <2>1. /\ at' \in [Actors -> Labels] /\ at'[t] = "idle"
        /\ \A b \in Actors : b # t => at'[b] = at[b]
    BY <1>0, <1>5, GotoFacts DEF Send, Labels
  <2> QED
    BY Zenon, <1>0, <1>5, <2>1, ActorFacts DEF Send, TInv, TypeOK, Got, Labels, clocks, queues
<1>6. CASE SendHeld(t, "flush", "decide")
  BY <1>0, <1>6, SendHeldType
<1> QED
  BY <1>1, <1>2, <1>3, <1>4, <1>5, <1>6 DEF Continue

LEMMA TypeWorker == ASSUME TInv, Worker PROVE TInv'
<1>0. TypeOK /\ Got /\ "tx" \in Actors /\ "main" \in Actors
  BY ActorFacts DEF TInv
<1>1. CASE Encode
  <2>1. Head(jobs) \in Msgs /\ Tail(jobs) \in Seq(Msgs)
    BY <1>0, <1>1 DEF Encode, TypeOK
  <2>2. PICK ok \in BOOLEAN :
            /\ got' = [got EXCEPT !["tx"] = <<[msg |-> Head(jobs), ok |-> ok]>>]
            /\ lost' = IF ok THEN lost ELSE lost \cup {Head(jobs)}
    BY Zenon, <1>1 DEF Encode
  <2>3. [msg |-> Head(jobs), ok |-> ok] \in Events
    BY <2>1 DEF Events
  <2>4. /\ got' \in [Actors -> Seq(Events)] /\ got'["tx"] # <<>> /\ got'["main"] = got["main"]
    BY <1>0, <2>2, <2>3 DEF TypeOK
  <2>5. lost' \subseteq Msgs
    BY <1>0, <2>1, <2>2 DEF TypeOK
  <2>6. /\ at' \in [Actors -> Labels] /\ at'["tx"] = "encoded" /\ at'["main"] = at["main"]
    BY <1>0, <1>1, GotoFacts DEF Encode, Labels
  <2>7. /\ UNCHANGED <<direct, sent, out, pending, hold, clocks, readyq, appq, wire, forced>>
        /\ jobs' = Tail(jobs)
    BY <1>1 DEF Encode
  <2> QED
    BY Zenon, <1>0, <2>1, <2>4, <2>5, <2>6, <2>7 DEF TInv, TypeOK, Got, Labels, clocks
<1>2. CASE PushReady
  <2>1. got["tx"][1] \in Events
    BY <1>0, <1>2, GotEvent DEF PushReady, Got
  <2>2. readyq' \in Seq(Events) /\ appq' \in Seq(Events)
    <3>1. /\ readyq \in Seq(Events) /\ Append(readyq, got["tx"][1]) \in Seq(Events)
          /\ appq \in Seq(Events) /\ Append(appq, got["tx"][1]) \in Seq(Events)
      BY <1>0, <2>1, SeqFacts DEF TypeOK
    <3> QED
      BY Zenon, <1>2, <3>1 DEF PushReady
  <2>3. /\ at' \in [Actors -> Labels] /\ at'["tx"] = "idle" /\ at'["main"] = at["main"]
    BY <1>0, <1>2, GotoFacts DEF PushReady, Labels
  <2>4. got' \in [Actors -> Seq(Events)] /\ got'["main"] = got["main"]
    BY <1>0, <1>2 DEF PushReady, TypeOK
  <2>5. UNCHANGED <<direct, sent, out, pending, hold, clocks, jobs, wire, lost, forced>>
    BY <1>2 DEF PushReady
  <2> QED
    BY Zenon, <1>0, <2>2, <2>3, <2>4, <2>5 DEF TInv, TypeOK, Got, Labels, clocks
<1>3. CASE LoadDirect
  <2>1. /\ at' \in [Actors -> Labels] /\ at'["main"] = at["main"]
    BY <1>0, <1>3, GotoFacts DEF LoadDirect, Labels
  <2> QED
    BY Zenon, <1>0, <1>3, <2>1 DEF LoadDirect, TInv, TypeOK, Got, Labels, clocks, queues
<1>4. CASE SubDirect
  <2>1. /\ at' \in [Actors -> Labels] /\ at'["main"] = at["main"]
    BY <1>0, <1>4, GotoFacts DEF SubDirect, Labels
  <2> QED
    BY <1>0, <1>4, <2>1 DEF SubDirect, Decrement, TInv, TypeOK, Got, Labels, Clocks, queues
<1>5. CASE SpliceDirect
  <2>1. Pdu(got["tx"][1]) \in Seq(Msgs)
    BY <1>0, <1>5, GotEvent, PduType DEF SpliceDirect, Got
  <2>2. /\ out' \in [Actors -> Seq(Msgs)] /\ hold' \in Seq(Msgs)
        /\ holdSince' \in Clocks /\ pendSince' \in Clocks
    <3>1. /\ hold \in Seq(Msgs) /\ Pdu(got["tx"][1]) \o hold \in Seq(Msgs)
          /\ out \in [Actors -> Seq(Msgs)] /\ holdSince \in Clocks /\ pendSince \in Clocks
      BY <1>0, <2>1 DEF TypeOK
    <3>2. CASE pending = 0
      <4>1. /\ out' = [out EXCEPT !["tx"] = Pdu(got["tx"][1]) \o hold]
            /\ hold' = <<>> /\ holdSince' = "none" /\ pendSince' = "none"
        BY <1>5, <3>2 DEF SpliceDirect
      <4>2. \A c \in Seq(Msgs) : [out EXCEPT !["tx"] = c] \in [Actors -> Seq(Msgs)]
        BY Zenon, <3>1
      <4>3. out' \in [Actors -> Seq(Msgs)]
        BY Zenon, <3>1, <4>1, <4>2
      <4> QED
        BY <4>1, <4>3 DEF Clocks
    <3>3. CASE pending # 0
      <4>1. /\ out' = [out EXCEPT !["tx"] = Pdu(got["tx"][1])]
            /\ UNCHANGED <<hold, holdSince, pendSince>>
        BY <1>5, <3>3 DEF SpliceDirect
      <4> QED
        BY Zenon, <2>1, <3>1, <4>1
    <3> QED
      BY <3>2, <3>3
  <2>3. /\ at' \in [Actors -> Labels] /\ at'["tx"] \in {"flush", "idle"}
        /\ at'["main"] = at["main"]
    <3>1. PICK m \in {"flush", "idle"} : Goto("tx", m)
      BY <1>5 DEF SpliceDirect, GoSend
    <3>2. m \in Labels
      BY DEF Labels
    <3> QED
      BY <1>0, <3>1, <3>2, GotoFacts
  <2>4. got' \in [Actors -> Seq(Events)] /\ got'["main"] = got["main"]
    BY <1>0, <1>5 DEF SpliceDirect, TypeOK
  <2>5. /\ UNCHANGED <<direct, sent, pending, queues, wire, lost, forced>>
        /\ lastReady' = "recent"
    BY <1>5 DEF SpliceDirect
  <2> QED
    BY Zenon, <1>0, <2>2, <2>3, <2>4, <2>5 DEF TInv, TypeOK, Got, Labels, queues
<1>6. CASE SendHeld("tx", "flush", "idle")
  BY <1>0, <1>6, SendHeldType
<1> QED
  BY <1>1, <1>2, <1>3, <1>4, <1>5, <1>6 DEF Worker

LEMMA TypeReady == ASSUME TInv, Ready PROVE TInv'
<1>0. TypeOK /\ Got /\ "tx" \in Actors /\ "main" \in Actors
  BY ActorFacts DEF TInv
<1>1. CASE TakeReady
  <2>1. /\ got' \in [Actors -> Seq(Events)] /\ got'["main"] # <<>> /\ got'["tx"] = got["tx"]
        /\ readyq' \in Seq(Events) /\ appq' \in Seq(Events)
    <3>1. PICK e \in Events :
              /\ got' = [got EXCEPT !["main"] = <<e>>]
              /\ readyq' \in Seq(Events) /\ appq' \in Seq(Events)
      <4>1. readyq \in Seq(Events) /\ appq \in Seq(Events)
        BY <1>0 DEF TypeOK
      <4>2. CASE readyq # <<>>
        <5>1. /\ got' = [got EXCEPT !["main"] = <<Head(readyq)>>]
              /\ readyq' = Tail(readyq) /\ appq' = appq
          BY <1>1, <4>2 DEF TakeReady
        <5>2. Head(readyq) \in Events /\ Tail(readyq) \in Seq(Events)
          BY <4>1, <4>2
        <5> QED
          BY Zenon, <4>1, <5>1, <5>2
      <4>3. CASE readyq = <<>>
        <5>1. /\ appq # <<>> /\ got' = [got EXCEPT !["main"] = <<Head(appq)>>]
              /\ appq' = Tail(appq) /\ readyq' = readyq
          BY <1>1, <4>3 DEF TakeReady
        <5>2. Head(appq) \in Events /\ Tail(appq) \in Seq(Events)
          BY <4>1, <5>1
        <5> QED
          BY Zenon, <4>1, <5>1, <5>2
      <4> QED
        BY <4>2, <4>3
    <3>2. <<e>> \in Seq(Events) /\ <<e>> # <<>>
      OBVIOUS
    <3> QED
      BY <1>0, <3>1, <3>2 DEF TypeOK
  <2>2. /\ at' \in [Actors -> Labels] /\ at'["main"] = "load" /\ at'["tx"] = at["tx"]
    BY <1>0, <1>1, GotoFacts DEF TakeReady, Labels
  <2>3. UNCHANGED <<direct, sent, out, pending, hold, clocks, jobs, wire, lost, forced>>
    BY <1>1 DEF TakeReady
  <2> QED
    BY Zenon, <1>0, <2>1, <2>2, <2>3 DEF TInv, TypeOK, Got, Labels, clocks
<1>2. CASE LoadReady
  <2>1. /\ at' \in [Actors -> Labels] /\ at'["tx"] = at["tx"]
    BY <1>0, <1>2, GotoFacts DEF LoadReady, Labels
  <2> QED
    BY <1>0, <1>2, <2>1 DEF LoadReady, TInv, TypeOK, Got, Labels, clocks, queues
<1>3. CASE SubReady
  <2>1. /\ at' \in [Actors -> Labels] /\ at'["tx"] = at["tx"]
    BY <1>0, <1>3, GotoFacts DEF SubReady, Labels
  <2> QED
    BY <1>0, <1>3, <2>1 DEF SubReady, Decrement, TInv, TypeOK, Got, Labels, Clocks, queues
<1>4. CASE SendReady
  <2>1. Pdu(got["main"][1]) \in Seq(Msgs)
    BY <1>0, <1>4, GotEvent, PduType DEF SendReady, Got
  <2>2. Range(Pdu(got["main"][1])) \subseteq Msgs
    BY <2>1 DEF Range
  <2>3. got' \in [Actors -> Seq(Events)] /\ got'["tx"] = got["tx"] /\ wire' \subseteq Msgs
    BY <1>0, <1>4, <2>2 DEF SendReady, TypeOK
  <2>4. /\ at' \in [Actors -> Labels] /\ at'["main"] = "check" /\ at'["tx"] = at["tx"]
    BY <1>0, <1>4, GotoFacts DEF SendReady, Labels
  <2>5. /\ UNCHANGED <<direct, sent, out, pending, hold, holdSince, pendSince, queues, lost, forced>>
        /\ lastReady' = "recent"
    BY <1>4 DEF SendReady
  <2> QED
    BY <1>0, <2>3, <2>4, <2>5 DEF TInv, TypeOK, Got, Labels, queues
<1>5. CASE CheckReady
  <2>1. /\ at' \in [Actors -> Labels] /\ at'["main"] \in {"drain", "idle"} /\ at'["tx"] = at["tx"]
    <3>1. PICK m \in {"drain", "idle"} : Goto("main", m)
      BY <1>5 DEF CheckReady, GoSend
    <3>2. m \in Labels /\ at["main"] = "check"
      BY <1>5 DEF Labels, CheckReady
    <3> QED
      BY <1>0, <3>1, <3>2, GotoFacts
  <2>2. /\ out' \in [Actors -> Seq(Msgs)] /\ hold' \in Seq(Msgs)
        /\ holdSince' \in Clocks /\ pendSince' \in Clocks
    <3>1. CASE Splice("main")
      BY <1>0, <3>1, SpliceType
    <3>2. CASE UNCHANGED <<out, hold, holdSince, pendSince>>
      BY <1>0, <3>2 DEF TypeOK
    <3> QED
      BY <1>5, <3>1, <3>2 DEF CheckReady
  <2>3. UNCHANGED <<direct, sent, got, pending, lastReady, queues, wire, lost, forced>>
    BY <1>5 DEF CheckReady
  <2> QED
    BY Zenon, <1>0, <2>1, <2>2, <2>3 DEF TInv, TypeOK, Got, Labels, queues
<1>6. CASE SendHeld("main", "drain", "idle")
  BY <1>0, <1>6, SendHeldType
<1> QED
  BY <1>1, <1>2, <1>3, <1>4, <1>5, <1>6 DEF Ready

LEMMA TypeWatchdog == ASSUME TInv, Watchdog PROVE TInv'
<1>0. TypeOK /\ Got /\ "tx" \in Actors /\ "main" \in Actors
  BY ActorFacts DEF TInv
<1>1. /\ at' \in [Actors -> Labels] /\ at'["main"] \in {"drain", "idle"} /\ at'["tx"] = at["tx"]
  <2>1. PICK m \in {"drain", "idle"} : Goto("main", m)
    BY DEF Watchdog, GoSend
  <2>2. m \in Labels
    BY DEF Labels
  <2> QED
    BY <1>0, <2>1, <2>2, GotoFacts
<1>2. /\ out' \in [Actors -> Seq(Msgs)] /\ hold' \in Seq(Msgs)
      /\ holdSince' \in Clocks /\ pendSince' \in Clocks
      /\ pending' = 0 /\ forced' = TRUE
  BY <1>0, SpliceType DEF Watchdog, ForceFlush
<1>3. UNCHANGED <<direct, sent, got, lastReady, queues, wire, lost>>
  BY DEF Watchdog
<1>4. pending' \in Int /\ forced' \in BOOLEAN
  BY <1>2
<1>5. TypeOK'
  BY Zenon, <1>0, <1>1, <1>2, <1>3, <1>4 DEF TypeOK, Labels, queues
<1>6. Got'
  BY Zenon, <1>0, <1>1, <1>3 DEF Got
<1> QED
  BY <1>5, <1>6 DEF TInv

LEMMA TypeNext == TInv /\ [Next]_vars => TInv'
<1> SUFFICES ASSUME TInv, [Next]_vars PROVE TInv'
  OBVIOUS
<1>1. CASE \E t \in Threads : Begin(t) \/ Continue(t)
  BY <1>1, TypeBegin, TypeContinue
<1>2. CASE Ready \/ Worker \/ Watchdog
  BY <1>2, TypeReady, TypeWorker, TypeWatchdog
<1>3. CASE Tick
  BY <1>3 DEF Tick, Older, TInv, TypeOK, Got, Clocks, queues
<1>4. CASE UNCHANGED vars
  BY <1>4 DEF TInv, TypeOK, Got, vars, queues, clocks
<1> QED
  BY <1>1, <1>2, <1>3, <1>4 DEF Next, Rest

LEMMA InitType == Init => TInv
<1> SUFFICES ASSUME Init PROVE TInv
  OBVIOUS
<1>1. TypeOK
  <2>1. at \in [Actors -> Labels] /\ sent \in [Threads -> Nat]
    BY DEF Init, Labels
  <2>2. out \in [Actors -> Seq(Msgs)] /\ got \in [Actors -> Seq(Events)]
    BY DEF Init
  <2>3. direct \in BOOLEAN /\ forced \in BOOLEAN
    BY Zenon DEF Init
  <2> QED
    BY <2>1, <2>2, <2>3 DEF Init, TypeOK, Clocks, Labels
<1>2. Got
  BY ActorFacts DEF Init, Got
<1> QED
  BY <1>1, <1>2 DEF TInv

-----------------------------------------------------------------------------
(* HoldIsTimed: the list is appended to in Decide only, and emptied only   *)
(* together with its clock.                                                *)
LEMMA SpliceTimed == ASSUME NEW a, Splice(a) PROVE HoldIsTimed'
BY DEF Splice, HoldIsTimed

LEMMA KeptTimed == ASSUME HoldIsTimed, UNCHANGED <<hold, holdSince>> PROVE HoldIsTimed'
BY DEF HoldIsTimed

LEMMA TimedNext == TInv /\ HoldIsTimed /\ [Next]_vars => HoldIsTimed'
<1> SUFFICES ASSUME TInv, HoldIsTimed, [Next]_vars PROVE HoldIsTimed'
  OBVIOUS
<1>1. ASSUME NEW t \in Threads, Begin(t) PROVE HoldIsTimed'
  BY <1>1, KeptTimed DEF Begin, SendJob, SendSync, clocks
<1>2. ASSUME NEW t \in Threads, Continue(t) PROVE HoldIsTimed'
  <2>1. CASE Post(t) \/ Undo(t) \/ Send(t)
    BY <2>1, KeptTimed DEF Post, Undo, Send, clocks
  <2>2. CASE Recover(t)
    BY <2>2, KeptTimed, SpliceTimed DEF Recover, ForceFlush
  <2>3. CASE Decide(t)
    <3>1. CASE UNCHANGED <<hold, holdSince>>
      BY <3>1, KeptTimed
    <3>2. CASE /\ hold' = Append(hold, Current(t))
               /\ holdSince' = IF hold = <<>> THEN "recent" ELSE holdSince
      <4>1. hold' # <<>>
        BY <3>2, <1>2, SeqFacts, CurrentType DEF TInv, TypeOK
      <4> QED
        BY <3>2, <4>1 DEF HoldIsTimed
    <3> QED
      BY <2>3, <3>1, <3>2 DEF Decide
  <2>4. CASE SendHeld(t, "flush", "decide")
    BY <2>4, KeptTimed DEF SendHeld, clocks
  <2> QED
    BY <1>2, <2>1, <2>2, <2>3, <2>4 DEF Continue
<1>3. CASE Ready
  <2>1. CASE TakeReady \/ LoadReady \/ SubReady \/ SendReady
    BY <2>1, KeptTimed DEF TakeReady, LoadReady, SubReady, SendReady, clocks
  <2>2. CASE CheckReady
    BY <2>2, KeptTimed, SpliceTimed DEF CheckReady
  <2>3. CASE SendHeld("main", "drain", "idle")
    BY <2>3, KeptTimed DEF SendHeld, clocks
  <2> QED
    BY <1>3, <2>1, <2>2, <2>3 DEF Ready
<1>4. CASE Worker
  <2>1. CASE Encode \/ PushReady \/ LoadDirect \/ SubDirect
    BY <2>1, KeptTimed DEF Encode, PushReady, LoadDirect, SubDirect, clocks
  <2>2. CASE SpliceDirect
    BY <2>2, KeptTimed DEF SpliceDirect, HoldIsTimed
  <2>3. CASE SendHeld("tx", "flush", "idle")
    BY <2>3, KeptTimed DEF SendHeld, clocks
  <2> QED
    BY <1>4, <2>1, <2>2, <2>3 DEF Worker
<1>5. CASE Watchdog
  BY <1>5, SpliceTimed DEF Watchdog, ForceFlush
<1>6. CASE Tick
  BY <1>6 DEF Tick, Older, HoldIsTimed
<1>7. CASE UNCHANGED vars
  BY <1>7, KeptTimed DEF vars, clocks
<1> QED
  BY <1>1, <1>2, <1>3, <1>4, <1>5, <1>6, <1>7 DEF Next, Rest

-----------------------------------------------------------------------------
(* MainInOrder.  The messages that are encoded or waiting to be, those that *)
(* leave for the eNB or have left, and the invariant over both.            *)
Encoded == Range(readyq) \cup Range(appq) \cup Range(got["main"]) \cup Range(got["tx"])
Carried == Range(jobs) \cup {e.msg : e \in Encoded}
Leaving == wire \cup Range(hold) \cup UNION {Range(out[a]) : a \in Actors}

(* The worker sends nothing itself unless it may, a thread flushes only    *)
(* what was forced out, and an event is held only while it is dealt with.  *)
Places ==
    /\ ~direct => at["tx"] \in {"idle", "encoded"} /\ out["tx"] = <<>>
    /\ ~forced => \A t \in Threads : at[t] # "flush"
    /\ at["tx"] \in {"idle", "flush"} => got["tx"] = <<>>
    /\ at["main"] \notin {"load", "sub", "pdu"} => got["main"] = <<>>

(* Messages are numbered as they are begun, and only jobs are encoded.     *)
Numbered ==
    /\ \A m \in Leaving \cup Carried : m.nr <= sent[m.by]
    /\ \A m \in Carried : m.job

(* The main thread sends synchronously, or drains the hold list, only when *)
(* no job of its own is on the way; so what it has sent that way is older  *)
(* than its jobs that are.                                                 *)
NoneOfMain == at["main"] \in {"send", "drain"} => \A j \in Carried : j.by # "main"
Behind ==
    \A m \in wire, j \in Carried :
        m.by = "main" /\ ~m.job /\ j.by = "main" => m.nr <= j.nr

OInv == Places /\ Numbered /\ (~direct /\ ~forced => NoneOfMain /\ Behind)

(* The jobs that are queued, and those the worker and the main thread have *)
(* taken; a count of zero means that there are none (see Backed).          *)
AtWorker == IF at["tx"] \in {"encoded", "sub"} THEN 1 ELSE 0
AtMain == IF at["main"] \in {"load", "sub"} THEN 1 ELSE 0
Queued == Len(jobs) + Len(readyq) + Len(appq)
Accounted == ~forced /\ pending <= 0 => Queued = 0 /\ AtWorker = 0

LEMMA AppendRange ==
    ASSUME NEW S, NEW q \in Seq(S), NEW x \in S
    PROVE  Range(Append(q, x)) = Range(q) \cup {x}
<1>1. /\ DOMAIN Append(q, x) = 1 .. (Len(q) + 1) /\ Append(q, x)[Len(q) + 1] = x
      /\ \A i \in 1 .. Len(q) : Append(q, x)[i] = q[i]
      /\ DOMAIN q = 1 .. Len(q) /\ Len(q) \in Nat
  OBVIOUS
<1>2. \A i \in 1 .. (Len(q) + 1) : i \in 1 .. Len(q) \/ i = Len(q) + 1
  BY <1>1
<1> QED
  BY <1>1, <1>2 DEF Range

LEMMA RangeFacts ==
    ASSUME NEW S, NEW q \in Seq(S)
    PROVE  /\ Range(q) \subseteq S
           /\ q = <<>> => Range(q) = {}
           /\ q # <<>> => /\ Head(q) \in Range(q) /\ q[1] \in Range(q) /\ Head(q) = q[1]
                          /\ Range(Tail(q)) \subseteq Range(q)
           /\ \A x \in S : Range(Append(q, x)) = Range(q) \cup {x} /\ Range(<<x>>) = {x}
<1>1. Range(q) \subseteq S /\ (q = <<>> => Range(q) = {})
  BY DEF Range
<1>2. ASSUME q # <<>> PROVE /\ Head(q) \in Range(q) /\ q[1] \in Range(q) /\ Head(q) = q[1]
                            /\ Range(Tail(q)) \subseteq Range(q)
  BY <1>2 DEF Range
<1>3. ASSUME NEW x \in S PROVE Range(<<x>>) = {x}
  BY DEF Range
<1>4. ASSUME NEW x \in S PROVE Range(Append(q, x)) = Range(q) \cup {x}
  BY AppendRange
<1> QED
  BY <1>1, <1>2, <1>3, <1>4

LEMMA ConcatRange ==
    ASSUME NEW S, NEW q \in Seq(S), NEW r \in Seq(S)
    PROVE  Range(q \o r) \subseteq Range(q) \cup Range(r)
<1>1. /\ DOMAIN (q \o r) = 1 .. (Len(q) + Len(r)) /\ Len(q) \in Nat /\ Len(r) \in Nat
      /\ \A i \in 1 .. (Len(q) + Len(r)) :
            (q \o r)[i] = IF i <= Len(q) THEN q[i] ELSE r[i - Len(q)]
      /\ DOMAIN q = 1 .. Len(q) /\ DOMAIN r = 1 .. Len(r)
  OBVIOUS
<1> QED
  BY <1>1 DEF Range

LEMMA MsgsNow == ASSUME TInv PROVE Leaving \cup Carried \subseteq Msgs
<1>1. /\ wire \subseteq Msgs /\ Range(hold) \subseteq Msgs /\ Range(jobs) \subseteq Msgs
      /\ \A a \in Actors : Range(out[a]) \subseteq Msgs
      /\ Range(readyq) \subseteq Events /\ Range(appq) \subseteq Events
      /\ Range(got["main"]) \subseteq Events /\ Range(got["tx"]) \subseteq Events
  BY ActorFacts, RangeFacts DEF TInv, TypeOK
<1> QED
  BY <1>1 DEF Leaving, Carried, Encoded, Events

LEMMA MsgsNext == ASSUME TInv' PROVE Leaving' \cup Carried' \subseteq Msgs
<1>1. /\ wire' \subseteq Msgs /\ Range(hold') \subseteq Msgs /\ Range(jobs') \subseteq Msgs
      /\ \A a \in Actors : Range(out'[a]) \subseteq Msgs
      /\ Range(readyq') \subseteq Events /\ Range(appq') \subseteq Events
      /\ Range(got'["main"]) \subseteq Events /\ Range(got'["tx"]) \subseteq Events
  BY ActorFacts, RangeFacts DEF TInv, TypeOK
<1> QED
  BY <1>1 DEF Leaving, Carried, Encoded, Events

(* The facts about one step that keep the invariant.                       *)
LEMMA Keeps ==
    ASSUME TInv, TInv', OInv, Places', direct' = direct, forced => forced',
           \A t \in Threads : sent[t] <= sent'[t],
           \A m \in Leaving' \cup Carried' :
               m \in Leaving \cup Carried \/ m.nr <= sent'[m.by],
           \A j \in Carried' :
               \/ j \in Carried
               \/ /\ j.job
                  /\ j.by = "main" => /\ j.nr = sent["main"] /\ wire' = wire
                                      /\ at'["main"] \notin {"send", "drain"},
           ~direct /\ ~forced' =>
               /\ \A m \in wire' : \/ m \in wire \/ m.job \/ m.by # "main"
                                   \/ /\ at["main"] \in {"send", "drain"}
                                      /\ Carried' = Carried
               /\ at'["main"] \in {"send", "drain"} =>
                      at["main"] \in {"send", "drain"} \/ Carried' = {}
    PROVE  OInv'
<1>1. /\ Numbered /\ sent \in [Threads -> Nat] /\ sent' \in [Threads -> Nat]
      /\ direct \in BOOLEAN /\ forced \in BOOLEAN /\ forced' \in BOOLEAN
  BY DEF OInv, TInv, TypeOK
<1>2. Leaving \cup Carried \subseteq Msgs /\ Leaving' \cup Carried' \subseteq Msgs
  BY MsgsNow, MsgsNext
<1>3. Numbered'
  BY <1>1, <1>2 DEF Numbered, Msgs
<1>4. ASSUME ~direct', ~forced' PROVE NoneOfMain'
  BY <1>4, <1>1 DEF OInv, NoneOfMain
<1>5. ASSUME ~direct', ~forced' PROVE Behind'
  <2>1. ~direct /\ ~forced /\ NoneOfMain /\ Behind
    BY <1>5, <1>1 DEF OInv
  <2> SUFFICES ASSUME NEW m \in wire', NEW j \in Carried', m.by = "main", ~m.job, j.by = "main"
               PROVE  m.nr <= j.nr
    BY DEF Behind
  <2>2. CASE j \in Carried
    <3>1. CASE m \in wire
      BY <2>1, <2>2, <3>1 DEF Behind
    <3>2. CASE at["main"] \in {"send", "drain"}
      BY <2>1, <2>2, <3>2 DEF NoneOfMain
    <3> QED
      BY <1>5, <2>1, <3>1, <3>2
  <2>3. CASE j \notin Carried
    <3>1. j.nr = sent["main"] /\ m \in wire
      BY <2>3
    <3>2. m.nr <= sent[m.by]
      BY <1>1, <3>1 DEF Numbered, Leaving
    <3> QED
      BY <3>1, <3>2
  <2> QED
    BY <2>2, <2>3
<1> QED
  BY <1>3, <1>4, <1>5 DEF OInv

(* The same for a step that takes no message.                              *)
LEMMA KeepsFewer ==
    ASSUME TInv, TInv', OInv, Places', direct' = direct, forced' = forced, sent' = sent,
           Leaving' \subseteq Leaving \cup Carried, Carried' \subseteq Carried,
           \A m \in wire' : m \in wire \/ m.job,
           ~direct /\ ~forced /\ at'["main"] \in {"send", "drain"} =>
               at["main"] \in {"send", "drain"} \/ Carried' = {}
    PROVE  OInv'
<1>1. \A t \in Threads : sent[t] <= sent'[t]
  BY DEF TInv, TypeOK
<1> QED
  BY Zenon, <1>1, Keeps


(* A step that moves no message.                                           *)
LEMMA Quiet ==
    ASSUME TInv, TInv', OInv, Places', direct' = direct, forced' = forced,
           wire' = wire, hold' = hold, out' = out, got' = got, queues' = queues,
           \A t \in Threads : sent[t] <= sent'[t],
           at'["main"] \in {"send", "drain"} => at["main"] \in {"send", "drain"}
    PROVE  OInv'
<1>1. Leaving' = Leaving /\ Carried' = Carried
  BY DEF Leaving, Carried, Encoded, queues
<1> QED
  BY <1>1, Keeps

LEMMA OrderBegin ==
    ASSUME TInv, TInv', OInv, NEW t \in Threads, Begin(t) PROVE OInv'
<1>0. TypeOK /\ t \in Actors /\ t # "tx" /\ Places /\ "main" \in Actors /\ "tx" \in Actors
  BY ActorFacts DEF TInv, OInv
<1>1. PICK l \in {"post", "recover"} :
          /\ at'[t] = l /\ at[t] = "idle" /\ \A b \in Actors : b # t => at'[b] = at[b]
  BY <1>0, GotoFacts DEF Begin, SendJob, SendSync, Begins, Labels
<1>2. /\ direct' = direct /\ forced' = forced /\ wire' = wire /\ hold' = hold
      /\ out' = out /\ got' = got /\ queues' = queues
  BY DEF Begin, SendJob, SendSync
<1>3. \A u \in Threads : sent[u] <= sent'[u]
  <2>1. sent \in [Threads -> Nat] /\ sent' = [sent EXCEPT ![t] = @ + 1]
    BY Zenon, <1>0 DEF Begin, SendJob, SendSync, Begins, TypeOK
  <2> QED
    BY <2>1
<1>4. Places'
  BY Zenon, <1>0, <1>1, <1>2, ActorFacts DEF Places
<1> QED
  BY <1>0, <1>1, <1>2, <1>3, <1>4, Quiet

(* The synchronous message or the job that a thread is at.                 *)
LEMMA CurrentFacts ==
    ASSUME TInv, NEW t \in Threads
    PROVE  /\ Current(t).by = t /\ Current(t).nr = sent[t] /\ Current(t).nr <= sent[t]
           /\ Current(t).job <=> at[t] = "post"
<1>1. sent[t] \in Nat
  BY DEF TInv, TypeOK
<1>2. Current(t).by = t /\ Current(t).nr = sent[t]
  BY Zenon DEF Current
<1>3. Current(t).job <=> at[t] = "post"
  BY Zenon DEF Current
<1> QED
  BY <1>1, <1>2, <1>3

(* Nothing is on its way to the worker and back.                           *)
LEMMA NoneCarried ==
    ASSUME TInv, Accounted, Places, ~direct, ~forced, pending <= 0,
           at["main"] \notin {"load", "sub", "pdu"}
    PROVE  Carried = {}
<1>2. Queued = 0 /\ AtWorker = 0
  BY DEF Accounted
<1>3. Len(jobs) \in Nat /\ Len(readyq) \in Nat /\ Len(appq) \in Nat
  BY SeqFacts DEF TInv, TypeOK
<1>4. jobs = <<>> /\ readyq = <<>> /\ appq = <<>>
  BY <1>2, <1>3 DEF Queued, TInv, TypeOK
<1>5. got["tx"] = <<>> /\ got["main"] = <<>>
  BY <1>2 DEF AtWorker, Places
<1> QED
  BY <1>4, <1>5 DEF Carried, Encoded, Range

LEMMA OrderSendHeld ==
    ASSUME TInv, TInv', OInv, NEW a \in Actors, NEW l \in {"flush", "drain"},
           NEW next \in {"decide", "idle"}, SendHeld(a, l, next),
           a = "main" \/ l = "flush", a = "tx" => l = "flush" /\ next = "idle"
    PROVE  OInv'
<1>0. /\ TypeOK /\ Places /\ "main" \in Actors /\ "tx" \in Actors
      /\ out[a] \in Seq(Msgs) /\ out \in [Actors -> Seq(Msgs)]
  BY Zenon, ActorFacts DEF TInv, OInv, TypeOK
<1>1. PICK m \in {l, next} : Goto(a, m)
  BY DEF SendHeld, GoSend
<1>2. m \in Labels
  BY DEF Labels
<1>3. at[a] = l /\ at'[a] = m /\ \A b \in Actors : b # a => at'[b] = at[b]
  BY <1>0, <1>1, <1>2, GotoFacts DEF SendHeld
<1>4. /\ out[a] # <<>> /\ wire' = wire \cup {Head(out[a])} /\ out' = [out EXCEPT ![a] = Tail(@)]
      /\ direct' = direct /\ forced' = forced /\ hold' = hold /\ got' = got /\ queues' = queues
      /\ sent' = sent
  BY DEF SendHeld
<1>5. /\ Head(out[a]) \in Range(out[a]) /\ Range(Tail(out[a])) \subseteq Range(out[a])
  BY <1>0, <1>4, RangeFacts
<1>6. Leaving' \subseteq Leaving /\ Carried' = Carried
  <2>1. \A b \in Actors : Range(out'[b]) \subseteq Range(out[b])
    BY <1>0, <1>4, <1>5
  <2> QED
    BY <1>4, <1>5, <2>1 DEF Leaving, Carried, Encoded, queues
<1>7. at[a] # "idle" /\ (a = "tx" => direct) /\ (a \in Threads /\ l = "flush" => forced)
  BY <1>0, <1>3, <1>4 DEF Places
<1>8. Places'
  BY Zenon, <1>0, <1>3, <1>4, <1>7, ActorFacts DEF Places, Actors
<1>9. sent \in [Threads -> Nat]
  BY <1>0 DEF TypeOK
<1>10. ~direct /\ ~forced => a = "main" /\ at["main"] = "drain"
  BY <1>3, <1>7, ActorFacts DEF Actors
<1> QED
  BY <1>3, <1>4, <1>6, <1>8, <1>9, <1>10, ActorFacts, Keeps

(* The list is forced out: from now on the promise is void.                *)
LEMMA OrderForced ==
    ASSUME TInv, TInv', OInv, NEW t \in Threads, ForceFlush(t),
           at[t] \notin {"load", "sub", "pdu"}, at'[t] \notin {"load", "sub", "pdu"},
           \A b \in Actors : b # t => at'[b] = at[b],
           direct' = direct, sent' = sent, got' = got, queues' = queues, wire' = wire
    PROVE  OInv'
<1>0. /\ TypeOK /\ Places /\ t \in Actors /\ t # "tx" /\ "main" \in Actors /\ "tx" \in Actors
      /\ out \in [Actors -> Seq(Msgs)] /\ sent \in [Threads -> Nat]
  BY Zenon, ActorFacts DEF TInv, OInv, TypeOK
<1>1. forced' = TRUE /\ hold' = <<>> /\ out' = [out EXCEPT ![t] = hold]
  BY DEF ForceFlush, Splice
<1>2. Places'
  BY Zenon, <1>0, <1>1 DEF Places
<1>3. Leaving' \subseteq Leaving /\ Carried' = Carried
  <2>1. \A b \in Actors : Range(out'[b]) \subseteq Range(out[b]) \cup Range(hold)
    BY <1>0, <1>1
  <2>2. Range(hold') = {}
    BY <1>1 DEF Range
  <2> QED
    BY <2>1, <2>2 DEF Leaving, Carried, Encoded, queues
<1> QED
  BY <1>0, <1>1, <1>2, <1>3, Keeps

LEMMA OrderContinue ==
    ASSUME TInv, TInv', Accounted, OInv, NEW t \in Threads, Continue(t) PROVE OInv'
<1>0. /\ TypeOK /\ t \in Actors /\ t # "tx" /\ Places /\ "main" \in Actors /\ "tx" \in Actors
      /\ sent \in [Threads -> Nat] /\ Current(t) \in Msgs
  BY Zenon, ActorFacts, CurrentType DEF TInv, OInv, TypeOK
<1>1. CASE Post(t)
  <2>1. /\ at[t] = "post" /\ at'[t] \in {"idle", "undo"} /\ \A b \in Actors : b # t => at'[b] = at[b]
    BY <1>0, <1>1, GotoFacts DEF Post, Labels
  <2>2. /\ direct' = direct /\ forced' = forced /\ wire' = wire /\ hold' = hold
        /\ out' = out /\ got' = got /\ readyq' = readyq /\ appq' = appq /\ sent' = sent
    BY <1>1 DEF Post
  <2>3. Range(jobs') \subseteq Range(jobs) \cup {Current(t)}
    <3>1. jobs \in Seq(Msgs)
      BY <1>0 DEF TypeOK
    <3>2. Range(Append(jobs, Current(t))) = Range(jobs) \cup {Current(t)}
      BY ZenonT(30), <1>0, <3>1, RangeFacts
    <3> QED
      BY Zenon, <1>1, <3>2 DEF Post
  <2>4. Leaving' = Leaving /\ Carried' \subseteq Carried \cup {Current(t)}
    BY <2>2, <2>3 DEF Leaving, Carried, Encoded
  <2>5. Places'
    BY Zenon, <1>0, <2>1, <2>2, ActorFacts DEF Places
  <2>6. Current(t).nr = sent[t] /\ Current(t).by = t /\ Current(t).job
    BY <2>1, CurrentFacts
  <2>7. at'["main"] \in {"send", "drain"} => at["main"] \in {"send", "drain"} /\ t # "main"
    BY <1>0, <2>1
  <2> QED
    BY <1>0, <2>2, <2>4, <2>5, <2>6, <2>7, Keeps
<1>2. CASE Undo(t)
  <2>1. /\ at[t] = "undo" /\ at'[t] = "recover" /\ \A b \in Actors : b # t => at'[b] = at[b]
    BY <1>0, <1>2, GotoFacts DEF Undo, Labels
  <2>2. /\ direct' = direct /\ forced' = forced /\ wire' = wire /\ hold' = hold
        /\ out' = out /\ got' = got /\ queues' = queues /\ sent' = sent
    BY <1>2 DEF Undo
  <2>3. Places'
    BY <1>0, <2>1, <2>2, ActorFacts DEF Places
  <2> QED
    BY <1>0, <2>1, <2>2, <2>3, Quiet
<1>3. CASE Recover(t)
  <2>1. PICK m \in {"flush", "decide"} : Goto(t, m)
    BY <1>3 DEF Recover, GoSend
  <2>2. m \in Labels
    BY DEF Labels
  <2>3. at[t] = "recover" /\ at'[t] = m /\ \A b \in Actors : b # t => at'[b] = at[b]
    BY <1>0, <1>3, <2>1, <2>2, GotoFacts DEF Recover
  <2>4. direct' = direct /\ sent' = sent /\ got' = got /\ queues' = queues /\ wire' = wire
    BY <1>3 DEF Recover
  <2>5. CASE ForceFlush(t)
    BY <1>0, <2>3, <2>4, <2>5, OrderForced
  <2>6. CASE Goto(t, "decide") /\ UNCHANGED <<out, pending, hold, holdSince, pendSince, forced>>
    <3>1. at'[t] = "decide"
      BY <1>0, <2>6, GotoFacts DEF Labels
    <3>2. Places'
      BY Zenon, <1>0, <2>3, <2>4, <2>6, <3>1, ActorFacts DEF Places
    <3> QED
      BY <1>0, <2>3, <2>4, <2>6, <3>1, <3>2, Quiet
  <2> QED
    BY <1>3, <2>5, <2>6 DEF Recover
<1>4. CASE Decide(t)
  <2>1. /\ at[t] = "decide" /\ at'[t] \in {"idle", "send"} /\ \A b \in Actors : b # t => at'[b] = at[b]
    BY <1>0, <1>4, GotoFacts DEF Decide, Labels
  <2>2. /\ direct' = direct /\ forced' = forced /\ wire' = wire /\ sent' = sent
        /\ out' = out /\ got' = got /\ queues' = queues
    BY <1>4 DEF Decide
  <2>3. Places'
    BY <1>0, <2>1, <2>2, ActorFacts DEF Places
  <2>4. Range(hold') \subseteq Range(hold) \cup {Current(t)}
    <3>1. hold \in Seq(Msgs)
      BY <1>0 DEF TypeOK
    <3>2. Range(Append(hold, Current(t))) = Range(hold) \cup {Current(t)}
      BY ZenonT(30), <1>0, <3>1, RangeFacts
    <3> QED
      BY Zenon, <1>4, <3>2 DEF Decide
  <2>5. Leaving' \subseteq Leaving \cup {Current(t)} /\ Carried' = Carried
    BY <2>2, <2>4 DEF Leaving, Carried, Encoded, queues
  <2>6. Current(t).nr = sent[t] /\ Current(t).by = t
    BY CurrentFacts
  <2>7. ~direct /\ ~forced' /\ at'["main"] \in {"send", "drain"} =>
            at["main"] \in {"send", "drain"} \/ Carried' = {}
    <3>1. CASE at'[t] = "send"
      <4>1. pending <= 0
        BY <1>0, <1>4, <3>1, GotoFacts DEF Decide, Labels
      <4> QED
        BY <1>0, <2>1, <2>2, <2>5, <4>1, NoneCarried
    <3>2. CASE at'[t] = "idle"
      BY <1>0, <2>1, <3>2
    <3> QED
      BY <2>1, <3>1, <3>2
  <2> QED
    BY <1>0, <2>2, <2>3, <2>5, <2>6, <2>7, Keeps
<1>5. CASE Send(t)
  <2>1. /\ at[t] = "send" /\ at'[t] = "idle" /\ \A b \in Actors : b # t => at'[b] = at[b]
    BY <1>0, <1>5, GotoFacts DEF Send, Labels
  <2>2. /\ direct' = direct /\ forced' = forced /\ wire' = wire \cup {Current(t)} /\ sent' = sent
        /\ out' = out /\ got' = got /\ queues' = queues /\ hold' = hold
    BY <1>5 DEF Send
  <2>3. Places'
    BY <1>0, <2>1, <2>2, ActorFacts DEF Places
  <2>4. Leaving' \subseteq Leaving \cup {Current(t)} /\ Carried' = Carried
    BY <2>2 DEF Leaving, Carried, Encoded, queues
  <2>5. Current(t).nr = sent[t] /\ Current(t).by = t
    BY CurrentFacts
  <2> QED
    BY <1>0, <2>1, <2>2, <2>3, <2>4, <2>5, Keeps
<1>6. CASE SendHeld(t, "flush", "decide")
  BY <1>0, <1>6, OrderSendHeld
<1> QED
  BY <1>1, <1>2, <1>3, <1>4, <1>5, <1>6 DEF Continue

LEMMA OrderWorker == ASSUME TInv, TInv', OInv, Worker PROVE OInv'
<1>0. /\ TypeOK /\ Places /\ "main" \in Actors /\ "tx" \in Actors /\ "main" # "tx"
      /\ sent \in [Threads -> Nat] /\ got \in [Actors -> Seq(Events)] /\ Numbered
      /\ out \in [Actors -> Seq(Msgs)] /\ Got
  BY Zenon, ActorFacts DEF TInv, OInv, TypeOK
<1>1. CASE Encode
  <2>1. /\ jobs \in Seq(Msgs) /\ jobs # <<>> /\ jobs' = Tail(jobs)
        /\ Head(jobs) \in Range(jobs) /\ Range(jobs') \subseteq Range(jobs) /\ Head(jobs) \in Msgs
    BY ZenonT(60), <1>0, <1>1, RangeFacts, SeqFacts DEF Encode, TypeOK
  <2>2. PICK ok \in BOOLEAN : got' = [got EXCEPT !["tx"] = <<[msg |-> Head(jobs), ok |-> ok]>>]
    BY Zenon, <1>1 DEF Encode
  <2>3. [msg |-> Head(jobs), ok |-> ok] \in Events
    BY Zenon, <2>1 DEF Events
  <2>4. got'["main"] = got["main"] /\ Range(got'["tx"]) = {[msg |-> Head(jobs), ok |-> ok]}
    BY <1>0, <2>2, <2>3 DEF Range
  <2>5. /\ direct' = direct /\ forced' = forced /\ wire' = wire /\ hold' = hold
        /\ out' = out /\ readyq' = readyq /\ appq' = appq /\ sent' = sent
    BY <1>1 DEF Encode
  <2>6. /\ at'["tx"] = "encoded" /\ at'["main"] = at["main"]
        /\ \A b \in Actors : b # "tx" => at'[b] = at[b]
    BY <1>0, <1>1, GotoFacts DEF Encode, Labels
  <2>7. Places'
    BY Zenon, <1>0, <2>4, <2>5, <2>6, ActorFacts DEF Places
  <2>8. Leaving' = Leaving /\ Carried' \subseteq Carried
    BY <2>1, <2>4, <2>5 DEF Leaving, Carried, Encoded
  <2> QED
    BY Zenon, <1>0, <2>5, <2>6, <2>7, <2>8, KeepsFewer
<1>2. CASE PushReady
  <2>1. got["tx"] # <<>> /\ got["tx"][1] \in Events /\ got["tx"][1] \in Range(got["tx"])
    BY <1>0, <1>2, GotEvent, RangeFacts DEF PushReady, Got
  <2>2. /\ Range(readyq') \subseteq Range(readyq) \cup {got["tx"][1]}
        /\ Range(appq') \subseteq Range(appq) \cup {got["tx"][1]}
    <3>1. /\ Range(Append(readyq, got["tx"][1])) = Range(readyq) \cup {got["tx"][1]}
          /\ Range(Append(appq, got["tx"][1])) = Range(appq) \cup {got["tx"][1]}
      <4>1. readyq \in Seq(Events) /\ appq \in Seq(Events)
        BY <1>0 DEF TypeOK
      <4>2. ASSUME NEW q \in Seq(Events), NEW e \in Events
            PROVE  Range(Append(q, e)) = Range(q) \cup {e}
        BY AppendRange
      <4>3. Range(Append(readyq, got["tx"][1])) = Range(readyq) \cup {got["tx"][1]}
        BY Zenon, <2>1, <4>1, <4>2
      <4>4. Range(Append(appq, got["tx"][1])) = Range(appq) \cup {got["tx"][1]}
        BY Zenon, <2>1, <4>1, <4>2
      <4> QED
        BY <4>3, <4>4
    <3> QED
      BY Zenon, <1>2, <3>1 DEF PushReady
  <2>3. got'["tx"] = <<>> /\ got'["main"] = got["main"]
    BY <1>0, <1>2 DEF PushReady
  <2>4. /\ direct' = direct /\ forced' = forced /\ wire' = wire /\ hold' = hold
        /\ out' = out /\ jobs' = jobs /\ sent' = sent
    BY <1>2 DEF PushReady
  <2>5. /\ at'["tx"] = "idle" /\ at'["main"] = at["main"]
        /\ \A b \in Actors : b # "tx" => at'[b] = at[b]
    BY <1>0, <1>2, GotoFacts DEF PushReady, Labels
  <2>6. Places'
    BY Zenon, <1>0, <2>3, <2>4, <2>5, ActorFacts DEF Places
  <2>7. Leaving' = Leaving /\ Carried' \subseteq Carried
    <3>1. Range(got'["tx"]) = {}
      BY <2>3 DEF Range
    <3> QED
      BY <2>1, <2>2, <2>3, <2>4, <3>1 DEF Leaving, Carried, Encoded
  <2> QED
    BY <1>0, <2>4, <2>5, <2>6, <2>7, Keeps
<1>3. CASE LoadDirect \/ SubDirect
  <2>1. PICK l \in {"sub", "splice"} : Goto("tx", l)
    BY <1>3 DEF LoadDirect, SubDirect
  <2>2. l \in Labels
    BY DEF Labels
  <2>3. /\ at'["tx"] = l /\ at'["main"] = at["main"]
        /\ \A b \in Actors : b # "tx" => at'[b] = at[b]
    BY <1>0, <2>1, <2>2, GotoFacts
  <2>4. /\ direct' = direct /\ forced' = forced /\ wire' = wire /\ hold' = hold
        /\ out' = out /\ got' = got /\ queues' = queues /\ sent' = sent
    BY <1>3 DEF LoadDirect, SubDirect
  <2>5. direct
    BY <1>0, <1>3 DEF LoadDirect, SubDirect, Places
  <2>6. Places'
    BY ZenonT(30), <1>0, <2>3, <2>4, <2>5, ActorFacts DEF Places
  <2> QED
    BY <1>0, <2>3, <2>4, <2>6, Quiet
<1>4. CASE SpliceDirect
  <2>1. direct /\ at["tx"] = "splice" /\ got["tx"] # <<>>
    BY <1>0, <1>4 DEF SpliceDirect, Places, Got
  <2>2. /\ direct' = direct /\ forced' = forced /\ wire' = wire /\ queues' = queues /\ sent' = sent
        /\ got' = [got EXCEPT !["tx"] = <<>>]
    BY <1>4 DEF SpliceDirect
  <2>3. /\ at'["tx"] \in {"flush", "idle"} /\ at'["main"] = at["main"]
        /\ \A b \in Actors : b # "tx" => at'[b] = at[b]
    <3>1. PICK m \in {"flush", "idle"} : Goto("tx", m)
      BY <1>4 DEF SpliceDirect, GoSend
    <3>2. m \in Labels
      BY DEF Labels
    <3> QED
      BY <1>0, <3>1, <3>2, GotoFacts
  <2>4. got'["tx"] = <<>> /\ got'["main"] = got["main"]
    BY <1>0, <2>2
  <2>5. Places'
    BY Zenon, <1>0, <2>1, <2>2, <2>3, <2>4, ActorFacts DEF Places
  <2>6. /\ got["tx"][1] \in Events /\ got["tx"][1] \in Range(got["tx"])
        /\ Pdu(got["tx"][1]) \in Seq(Msgs) /\ hold \in Seq(Msgs)
    BY <1>0, <2>1, GotEvent, RangeFacts, PduType DEF TypeOK
  <2>7. Range(Pdu(got["tx"][1])) \subseteq {got["tx"][1].msg}
    BY <2>6 DEF Pdu, Range
  <2>8. Range(out'["tx"]) \subseteq {got["tx"][1].msg} \cup Range(hold)
    <3>1. Range(Pdu(got["tx"][1]) \o hold) \subseteq Range(Pdu(got["tx"][1])) \cup Range(hold)
      BY <2>6, ConcatRange
    <3> QED
      BY Zenon, <1>0, <1>4, <2>7, <3>1 DEF SpliceDirect
  <2>9. \A b \in Actors : b # "tx" => out'[b] = out[b]
    BY <1>0, <1>4 DEF SpliceDirect
  <2>10. Range(hold') \subseteq Range(hold)
    BY <1>4 DEF SpliceDirect, Range
  <2>11. Carried' \subseteq Carried /\ got["tx"][1].msg \in Carried
    <3>1. Range(got'["tx"]) = {}
      BY <2>4 DEF Range
    <3> QED
      BY <2>2, <2>4, <2>6, <3>1 DEF Carried, Encoded, queues
  <2>12. Leaving' \subseteq Leaving \cup Carried
    BY <2>2, <2>8, <2>9, <2>10, <2>11 DEF Leaving
  <2> QED
    BY <1>0, <2>1, <2>2, <2>5, <2>11, <2>12, Keeps
<1>5. CASE SendHeld("tx", "flush", "idle")
  BY <1>0, <1>5, OrderSendHeld
<1> QED
  BY <1>1, <1>2, <1>3, <1>4, <1>5 DEF Worker

LEMMA OrderReady == ASSUME TInv, TInv', Accounted, OInv, Ready PROVE OInv'
<1>0. /\ TypeOK /\ Places /\ "main" \in Actors /\ "tx" \in Actors /\ "main" # "tx"
      /\ sent \in [Threads -> Nat] /\ got \in [Actors -> Seq(Events)] /\ Numbered
      /\ out \in [Actors -> Seq(Msgs)] /\ Got
  BY Zenon, ActorFacts DEF TInv, OInv, TypeOK
<1>1. CASE TakeReady
  <2>1. PICK e \in Range(readyq) \cup Range(appq) :
            /\ got' = [got EXCEPT !["main"] = <<e>>]
            /\ Range(readyq') \subseteq Range(readyq) /\ Range(appq') \subseteq Range(appq)
    <3>1. readyq \in Seq(Events) /\ appq \in Seq(Events)
      BY <1>0 DEF TypeOK
    <3>2. CASE readyq # <<>>
      <4>1. /\ got' = [got EXCEPT !["main"] = <<Head(readyq)>>]
            /\ readyq' = Tail(readyq) /\ appq' = appq
        BY <1>1, <3>2 DEF TakeReady
      <4>2. Head(readyq) \in Range(readyq) /\ Range(Tail(readyq)) \subseteq Range(readyq)
        BY <3>1, <3>2, RangeFacts
      <4> QED
        BY Zenon, <4>1, <4>2
    <3>3. CASE readyq = <<>>
      <4>1. /\ appq # <<>> /\ got' = [got EXCEPT !["main"] = <<Head(appq)>>]
            /\ appq' = Tail(appq) /\ readyq' = readyq
        BY <1>1, <3>3 DEF TakeReady
      <4>2. Head(appq) \in Range(appq) /\ Range(Tail(appq)) \subseteq Range(appq)
        BY <3>1, <4>1, RangeFacts
      <4> QED
        BY Zenon, <4>1, <4>2
    <3> QED
      BY <3>2, <3>3
  <2>2. Range(got'["main"]) = {e} /\ got'["tx"] = got["tx"]
    BY <1>0, <2>1 DEF Range
  <2>3. /\ direct' = direct /\ forced' = forced /\ wire' = wire /\ hold' = hold
        /\ out' = out /\ jobs' = jobs /\ sent' = sent
    BY <1>1 DEF TakeReady
  <2>4. at'["main"] = "load" /\ \A b \in Actors : b # "main" => at'[b] = at[b]
    BY <1>0, <1>1, GotoFacts DEF TakeReady, Labels
  <2>5. Places'
    BY Zenon, <1>0, <2>2, <2>3, <2>4, ActorFacts DEF Places
  <2>6. Leaving' = Leaving /\ Carried' \subseteq Carried
    BY <2>1, <2>2, <2>3 DEF Leaving, Carried, Encoded
  <2> QED
    BY <1>0, <2>3, <2>4, <2>5, <2>6, Keeps
<1>2. CASE LoadReady \/ SubReady
  <2>1. PICK l \in {"sub", "pdu"} : Goto("main", l)
    BY <1>2 DEF LoadReady, SubReady
  <2>2. l \in Labels
    BY DEF Labels
  <2>3. at'["main"] = l /\ \A b \in Actors : b # "main" => at'[b] = at[b]
    BY <1>0, <2>1, <2>2, GotoFacts
  <2>4. /\ direct' = direct /\ forced' = forced /\ wire' = wire /\ hold' = hold
        /\ out' = out /\ got' = got /\ queues' = queues /\ sent' = sent
    BY <1>2 DEF LoadReady, SubReady
  <2>5. Places'
    BY Zenon, <1>0, <2>3, <2>4, ActorFacts DEF Places
  <2> QED
    BY <1>0, <2>3, <2>4, <2>5, Quiet
<1>3. CASE SendReady
  <2>1. got["main"] # <<>> /\ got["main"][1] \in Events /\ got["main"][1] \in Range(got["main"])
    BY <1>0, <1>3, GotEvent, RangeFacts DEF SendReady, Got
  <2>2. Range(Pdu(got["main"][1])) \subseteq {got["main"][1].msg}
    BY <2>1 DEF Pdu, Range
  <2>3. got["main"][1].msg \in Carried
    BY <2>1 DEF Carried, Encoded
  <2>4. /\ direct' = direct /\ forced' = forced /\ hold' = hold /\ out' = out
        /\ queues' = queues /\ sent' = sent
        /\ wire' = wire \cup Range(Pdu(got["main"][1])) /\ got' = [got EXCEPT !["main"] = <<>>]
    BY <1>3 DEF SendReady
  <2>5. got'["main"] = <<>> /\ got'["tx"] = got["tx"] /\ Range(got'["main"]) = {}
    BY <1>0, <2>4 DEF Range
  <2>6. at'["main"] = "check" /\ \A b \in Actors : b # "main" => at'[b] = at[b]
    BY <1>0, <1>3, GotoFacts DEF SendReady, Labels
  <2>7. Places'
    BY Zenon, <1>0, <2>4, <2>5, <2>6, ActorFacts DEF Places
  <2>8. Carried' \subseteq Carried
    BY <2>4, <2>5 DEF Carried, Encoded, queues
  <2>9. Leaving' \subseteq Leaving \cup Carried /\ \A m \in wire' : m \in wire \/ m.job
    BY <1>0, <2>2, <2>3, <2>4 DEF Leaving, Numbered
  <2> QED
    <3>1. at'["main"] \notin {"send", "drain"}
      BY <2>6
    <3> QED
      BY Zenon, <1>0, <2>4, <2>7, <2>8, <2>9, <3>1, KeepsFewer
<1>4. CASE CheckReady
  <2>1. PICK m \in {"drain", "idle"} : Goto("main", m)
    BY <1>4 DEF CheckReady, GoSend
  <2>2. m \in Labels /\ at["main"] = "check"
    BY <1>4 DEF Labels, CheckReady
  <2>3. at'["main"] = m /\ \A b \in Actors : b # "main" => at'[b] = at[b]
    BY <1>0, <2>1, <2>2, GotoFacts
  <2>4. /\ direct' = direct /\ sent' = sent /\ got' = got /\ queues' = queues
        /\ wire' = wire /\ forced' = forced
    BY <1>4 DEF CheckReady
  <2>5. CASE pending # 0
    <3>1. at'["main"] = "idle" /\ out' = out /\ hold' = hold
      BY <1>0, <1>4, <2>5, GotoFacts DEF CheckReady, Labels
    <3>2. Places'
      BY Zenon, <1>0, <2>2, <2>3, <2>4, <3>1, ActorFacts DEF Places
    <3> QED
      BY <1>0, <2>3, <2>4, <3>1, <3>2, Quiet
  <2>6. CASE pending = 0
    <3>1. hold' = <<>> /\ out' = [out EXCEPT !["main"] = hold]
      BY <1>4, <2>6 DEF CheckReady, Splice
    <3>2. Places'
      BY Zenon, <1>0, <2>2, <2>3, <2>4, <3>1, ActorFacts DEF Places
    <3>3. Leaving' \subseteq Leaving /\ Carried' = Carried
      <4>1. \A b \in Actors : Range(out'[b]) \subseteq Range(out[b]) \cup Range(hold)
        BY <1>0, <3>1
      <4>2. Range(hold') = {}
        BY <3>1 DEF Range
      <4> QED
        BY <2>4, <4>1, <4>2 DEF Leaving, Carried, Encoded, queues
    <3>4. ~direct /\ ~forced => Carried = {}
      BY <1>0, <2>2, <2>6, NoneCarried
    <3> QED
      BY Zenon, <1>0, <2>3, <2>4, <3>2, <3>3, <3>4, KeepsFewer
  <2> QED
    BY <2>5, <2>6
<1>5. CASE SendHeld("main", "drain", "idle")
  BY <1>0, <1>5, OrderSendHeld
<1> QED
  BY <1>1, <1>2, <1>3, <1>4, <1>5 DEF Ready

LEMMA OrderNext == TInv /\ TInv' /\ Accounted /\ OInv /\ [Next]_vars => OInv'
<1> SUFFICES ASSUME TInv, TInv', Accounted, OInv, [Next]_vars PROVE OInv'
  OBVIOUS
<1>1. CASE \E t \in Threads : Begin(t) \/ Continue(t)
  BY <1>1, OrderBegin, OrderContinue
<1>2. CASE Ready \/ Worker
  BY <1>2, OrderReady, OrderWorker
<1>3. CASE Watchdog
  <2>1. PICK m \in {"drain", "idle"} : Goto("main", m)
    BY <1>3 DEF Watchdog, GoSend
  <2>2. m \in Labels /\ at["main"] = "idle" /\ ForceFlush("main") /\ TypeOK
    BY <1>3 DEF Labels, Watchdog, TInv
  <2>3. at'["main"] = m /\ \A b \in Actors : b # "main" => at'[b] = at[b]
    BY <2>1, <2>2, ActorFacts, GotoFacts
  <2>4. direct' = direct /\ sent' = sent /\ got' = got /\ queues' = queues /\ wire' = wire
    BY <1>3 DEF Watchdog
  <2> QED
    BY <2>2, <2>3, <2>4, ActorFacts, OrderForced
<1>4. CASE Tick \/ UNCHANGED vars
  <2>1. /\ direct' = direct /\ forced' = forced /\ wire' = wire /\ hold' = hold
        /\ out' = out /\ got' = got /\ queues' = queues /\ sent' = sent /\ at' = at
    BY Zenon, <1>4 DEF Tick, vars
  <2>2. Places' /\ sent \in [Threads -> Nat]
    BY <2>1 DEF OInv, Places, TInv, TypeOK
  <2> QED
    BY <2>1, <2>2, Quiet
<1> QED
  BY <1>1, <1>2, <1>3, <1>4 DEF Next, Rest
=============================================================================
