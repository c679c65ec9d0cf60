------------------------------ MODULE OgsTimer ------------------------------
(***************************************************************************)
(* The timer manager (lib/core/ogs-timer.c), with the pool its timers come *)
(* from (ogs-pool.h) and the event loop that sleeps until the next timer   *)
(* and calls the expired ones (worker_main, and the main loop of every     *)
(* network function).                                                      *)
(*                                                                         *)
(* Time is relative: left is the time until a timer expires. A user is     *)
(* what a timer is added for: a transaction, a session, a peer.            *)
(***************************************************************************)
EXTENDS Integers, Sequences, FiniteSets, Functions

CONSTANTS
    NTimers,        \* the size of manager->pool
    Users,          \* who adds timers, one each
    MaxDuration,    \* bound: the longest duration
    MaxAdds,        \* timers that are added while one batch is called
    Foreign         \* other threads use the manager too

ASSUME TimerAssumption ==
    /\ NTimers \in Nat /\ IsFiniteSet(Users)
    /\ MaxDuration \in Nat \ {0} /\ MaxAdds \in Nat
    /\ Foreign \in BOOLEAN

Timers == 1 .. NTimers  \* the array of the pool
Null == 0

VARIABLES
    pool,       \* the free timers, in the order they will be handed out
    tree,       \* the running timers, first to expire first
    running, left,  \* timer->running, and the time until timer->timeout
    next,       \* timer->lnode.next
    handle,     \* the timer each user has
    loop,       \* where the owner thread is
    lnode,      \* the timer of the batch that is called, or is called next
    wait,       \* the time that is left of the sleep in poll
    owed,       \* history: detached, not yet called, nor touched since
    reused,     \* history: added since the batch was detached
    late        \* history: started by another thread during the sleep

timer == <<running, left, next>>
timerVars == <<pool, tree, timer, handle, loop, lnode, wait, owed, reused, late>>

Infinite == MaxDuration + 1

TimerInit ==
    /\ pool = [i \in Timers |-> i]
    /\ tree = << >>
    /\ running = [t \in Timers |-> FALSE]
    /\ left = [t \in Timers |-> 0]
    /\ next = [t \in Timers |-> Null]
    /\ handle = [u \in Users |-> Null]
    /\ loop = "run"
    /\ lnode = Null
    /\ wait = 0
    /\ owed = {} /\ reused = {} /\ late = {}

Calling == loop \in {"call", "callback"}

(* The owner thread uses timers in the handlers of poll, in callbacks and  *)
(* in the events it dispatches; another thread at any time.                *)
MayUse == Foreign \/ loop \in {"expire", "callback", "run"}

(* ogs_rbtree_delete, of a timer that is in the tree                       *)
Without(s, t) ==
    LET at == CHOOSE i \in DOMAIN s : s[i] = t
    IN  IF t \in Range(s) THEN [i \in 1 .. Len(s) - 1 |-> s[IF i < at THEN i ELSE i + 1]]
                          ELSE s

(* The timers of the tree that expire within a duration are its first ones. *)
Within(s, d) ==
    CHOOSE n \in 0 .. Len(s) :
        (\A i \in 1 .. n : left[s[i]] <= d) /\ (n < Len(s) => left[s[n + 1]] > d)

AddTimerNode_AtEnd(s, t, d) == Append(s, t)

(* add_timer_node: after the timers that expire no later.                  *)
AddTimerNode(s, t, d) ==
    LET at == Within(s, d) + 1
    IN  [i \in 1 .. Len(s) + 1 |-> IF i = at THEN t ELSE s[IF i < at THEN i ELSE i - 1]]

-----------------------------------------------------------------------------
(* ogs_timer_add. When the pool is empty it returns NULL and changes       *)
(* nothing.                                                                *)
TimerAdd(u) ==
    /\ MayUse /\ handle[u] = Null /\ pool # << >>
    /\ Calling => Cardinality(reused) < MaxAdds
    /\ pool' = Tail(pool)
    /\ handle' = [handle EXCEPT ![u] = Head(pool)]
    /\ running' = [running EXCEPT ![Head(pool)] = FALSE]
    /\ left' = [left EXCEPT ![Head(pool)] = 0]
    /\ next' = [next EXCEPT ![Head(pool)] = Null]
    /\ reused' = IF Calling THEN reused \cup {Head(pool)} ELSE {}
    /\ UNCHANGED <<tree, loop, lnode, wait, owed, late>>

(* What ogs_timer_stop does to a timer. Nobody reads the time that is left *)
(* of a timer that does not run.                                           *)
Stopped(t) ==
    /\ tree' = Without(tree, t)
    /\ running' = [running EXCEPT ![t] = FALSE]
    /\ left' = [left EXCEPT ![t] = 0]
    /\ UNCHANGED next
    /\ owed' = owed \ {t}
    /\ late' = late \ {t}

(* ogs_timer_stop                                                          *)
TimerStop(u) ==
    /\ MayUse /\ handle[u] # Null
    /\ Stopped(handle[u])
    /\ UNCHANGED <<pool, handle, loop, lnode, wait, reused>>

TimerDelete_ToHead(u) ==
    /\ MayUse /\ handle[u] # Null
    /\ Stopped(handle[u])
    /\ pool' = <<handle[u]>> \o pool
    /\ handle' = [handle EXCEPT ![u] = Null]
    /\ UNCHANGED <<loop, lnode, wait, reused>>

TimerDelete_NoStop(u) ==
    /\ MayUse /\ handle[u] # Null
    /\ pool' = Append(pool, handle[u])
    /\ handle' = [handle EXCEPT ![u] = Null]
    /\ owed' = owed \ {handle[u]}
    /\ UNCHANGED <<tree, timer, loop, lnode, wait, reused, late>>

(* ogs_timer_delete                                                        *)
TimerDelete(u) ==
    /\ MayUse /\ handle[u] # Null
    /\ Stopped(handle[u])
    /\ pool' = Append(pool, handle[u])
    /\ handle' = [handle EXCEPT ![u] = Null]
    /\ UNCHANGED <<loop, lnode, wait, reused>>

(* ogs_timer_start, also of a timer that is running                        *)
TimerStart(u, d) ==
    LET t == handle[u]
    IN  /\ MayUse /\ t # Null
        /\ tree' = AddTimerNode(Without(tree, t), t, d)
        /\ running' = [running EXCEPT ![t] = TRUE]
        /\ left' = [left EXCEPT ![t] = d]
        /\ UNCHANGED next
        /\ owed' = owed \ {t}
        /\ late' = IF loop = "asleep" THEN late \cup {t} ELSE late \ {t}
        /\ UNCHANGED <<pool, handle, loop, lnode, wait, reused>>

-----------------------------------------------------------------------------
Sleep_NegativeWait ==
    /\ loop = "run"
    /\ loop' = "asleep"
    /\ wait' = IF tree = << >> \/ left[Head(tree)] = 0 THEN Infinite
               ELSE left[Head(tree)]
    /\ late' = {}
    /\ UNCHANGED <<pool, tree, timer, handle, lnode, owed, reused>>

(* ogs_pollset_poll(..., ogs_timer_mgr_next())                             *)
Sleep ==
    /\ loop = "run"
    /\ loop' = "asleep"
    /\ wait' = IF tree = << >> THEN Infinite ELSE left[Head(tree)]
    /\ UNCHANGED <<pool, tree, timer, handle, lnode, owed, reused, late>>

(* poll returns: its time is up, or a descriptor is ready.                 *)
Wake ==
    /\ loop = "asleep"
    /\ loop' = "expire"
    /\ wait' = 0 /\ late' = {}
    /\ UNCHANGED <<pool, tree, timer, handle, lnode, owed, reused>>

TimeUp == wait = 0 /\ Wake

(* Where the loop goes from a list position.                               *)
Proceed(l) ==
    /\ lnode' = l
    /\ loop' = IF l = Null THEN "run" ELSE "call"

(* The timers that have expired: the first ones of the tree.               *)
Due == SubSeq(tree, 1, Within(tree, 0))

(* ogs_list_add of each in turn. A link is read while its list is walked;  *)
(* at other times every link is Null here.                                 *)
Linked(s) ==
    [t \in Timers |->
        IF \E i \in 1 .. Len(s) - 1 : s[i] = t
          THEN s[1 + CHOOSE i \in 1 .. Len(s) - 1 : s[i] = t] ELSE Null]

(* ogs_timer_mgr_expire, under the lock: the expired timers leave the tree *)
(* for a list.                                                             *)
Detach ==
    /\ loop = "expire"
    /\ running' = [t \in Timers |-> running[t] /\ t \notin Range(Due)]
    /\ next' = Linked(Due)
    /\ tree' = SubSeq(tree, Len(Due) + 1, Len(tree))
    /\ owed' = Range(Due)
    /\ Proceed(IF Due = << >> THEN Null ELSE Due[1])
    /\ UNCHANGED <<pool, left, handle, wait, reused, late>>

(* this->cb(this->data)                                                    *)
Call ==
    /\ loop = "call"
    /\ loop' = "callback"
    /\ owed' = owed \ {lnode}
    /\ UNCHANGED <<pool, tree, timer, handle, lnode, wait, reused, late>>

Return_AfterFirst ==
    /\ loop = "callback"
    /\ Proceed(Null)
    /\ next' = Linked(<< >>) /\ reused' = {}
    /\ UNCHANGED <<pool, tree, running, left, handle, wait, owed, late>>

(* The callback has returned: ogs_list_for_each reads the link of the      *)
(* timer it called.                                                        *)
Return ==
    /\ loop = "callback"
    /\ Proceed(next[lnode])
    /\ IF next[lnode] = Null THEN next' = Linked(<< >>) /\ reused' = {}
                             ELSE UNCHANGED <<next, reused>>
    /\ UNCHANGED <<pool, tree, running, left, handle, wait, owed, late>>

(* ogs_get_monotonic_time                                                  *)
Tick ==
    /\ left' = [t \in Timers |-> IF left[t] > 0 THEN left[t] - 1 ELSE 0]
    /\ wait' = IF loop = "asleep" /\ wait \in 1 .. MaxDuration THEN wait - 1 ELSE wait
    /\ UNCHANGED <<pool, tree, running, next, handle, loop, lnode, owed, reused, late>>

TimerNext ==
    \/ \E u \in Users :
          \/ TimerAdd(u) \/ TimerStop(u) \/ TimerDelete(u)
          \/ \E d \in 1 .. MaxDuration : TimerStart(u, d)
    \/ Sleep \/ Wake \/ Detach \/ Call \/ Return
    \/ Tick

TimerSpec == TimerInit /\ [][TimerNext]_timerVars

(* The loop runs, poll returns in time, and time passes.                   *)
TimerFairSpec ==
    /\ TimerSpec
    /\ WF_timerVars(Sleep) /\ WF_timerVars(TimeUp) /\ WF_timerVars(Detach)
    /\ WF_timerVars(Call) /\ WF_timerVars(Return)
    /\ WF_timerVars(Tick)

-----------------------------------------------------------------------------
(* The variables hold what their declarations say; there is a timer to     *)
(* call whenever one is called.                                            *)
TimerTypeOK ==
    /\ pool \in Seq(Timers) /\ tree \in Seq(Timers)
    /\ running \in [Timers -> BOOLEAN] /\ left \in [Timers -> 0 .. MaxDuration]
    /\ next \in [Timers -> Timers \cup {Null}]
    /\ handle \in [Users -> Timers \cup {Null}]
    /\ loop \in {"run", "asleep", "expire", "call", "callback"}
    /\ lnode \in IF Calling THEN Timers ELSE {Null}
    /\ wait \in 0 .. Infinite
    /\ owed \subseteq Timers /\ reused \subseteq Timers /\ late \subseteq Timers

Held == {handle[u] : u \in Users} \ {Null}

(* Every timer is free or has one user, and the tree holds the running     *)
(* timers, all of them held: whatever callbacks and other threads do to    *)
(* timers that have expired meanwhile, none is freed twice, linked twice   *)
(* or left in the tree after it was freed.                                 *)
PoolSound ==
    /\ IsInjective(pool) /\ IsInjective(tree)
    /\ Range(pool) = Timers \ Held
    /\ \A u, v \in Users : handle[u] = handle[v] => u = v \/ handle[u] = Null
    /\ Range(tree) = {t \in Timers : running[t]}
    /\ Range(tree) \subseteq Held

(* The callback that runs is the one of a timer that expired, not of one   *)
(* that was added since and happens to be the same memory.                 *)
CallsTheExpired == loop = "call" => lnode \notin reused

(* "Stop/delete timers before freeing the xact so holding_timeout and      *)
(* friends never hash-lookup a freed transaction" (ogs_gtp_xact_delete):   *)
(* the callback of a timer that was deleted does not run.                  *)
DeletedIsNotCalled == loop = "call" => lnode \in Held

(* The loop does not sleep past a timer, except one that another thread    *)
(* started during the sleep.                                               *)
NeverOversleeps ==
    loop = "asleep" =>
        \A t \in Timers \ late : running[t] => wait <= left[t]

(* An expired timer is called unless it is touched before.                 *)
CalledBack == \A t \in Timers : t \in owed ~> t \notin owed

(* A timer that runs for ever is one that is started again for ever; one   *)
(* that another thread starts while the loop sleeps is not waited for.     *)
Expires ==
    \A u \in Users :
        <>[](handle[u] # Null /\ running[handle[u]] /\ handle[u] \notin late)
            => []<><<\E d \in 1 .. MaxDuration : TimerStart(u, d)>>_timerVars
=============================================================================
