-------------------------------- MODULE Rpc --------------------------------
(***************************************************************************)
(* What the GTP transaction layer promises the applications on both sides  *)
(* of a path, with no messages, timers or retransmissions in it: a request *)
(* has exactly one outcome, it is answered only if the other side was      *)
(* given it, and a side learns that its answer was confirmed only if it    *)
(* was.                                                                    *)
(***************************************************************************)
CONSTANTS Xids, Callers

Nodes == {"a", "b"}
Peer(n) == IF n = "a" THEN "b" ELSE "a"

VARIABLES
    call,       \* call[n][x]: what the application of n knows of its request x
    given,      \* <<n, x>>: the application of n was given request x of its peer
    confirmed   \* <<n, x>>: n's answer to x was confirmed by its peer

vars == <<call, given, confirmed>>

Outcomes == {"answered", "timeout", "dropped"}
States == {"idle", "failed", "waiting", "replied"} \cup Outcomes

Init ==
    /\ call = [n \in Nodes |-> [x \in Xids |-> "idle"]]
    /\ given = {}
    /\ confirmed = {}

Become(n, x, state) ==
    /\ call' = [call EXCEPT ![n][x] = state]
    /\ UNCHANGED <<given, confirmed>>

(* A request is made; it may turn out that it cannot be sent at all.       *)
Call(n, x) ==
    /\ call[n][x] = "idle"
    /\ Become(n, x, "waiting") \/ Become(n, x, "failed")

(* A request that was sent is handed to the application of the other side. *)
Serve(n, x) ==
    /\ call[Peer(n)][x] \notin {"idle", "failed"}
    /\ given' = given \cup {<<n, x>>}
    /\ UNCHANGED <<call, confirmed>>

Answered(n, x) ==
    /\ call[n][x] = "waiting"
    /\ <<Peer(n), x>> \in given
    /\ Become(n, x, "answered")

TimedOut(n, x) ==
    /\ call[n][x] = "waiting"
    /\ Become(n, x, "timeout")

(* A side forgets all its requests: the peer is removed or it restarts.    *)
Drop(n) ==
    /\ call' = [call EXCEPT ![n] = [x \in Xids |->
                    IF call[n][x] = "waiting" THEN "dropped" ELSE call[n][x]]]
    /\ UNCHANGED <<given, confirmed>>

(* The third message of a three-way exchange.                              *)
Reply(n, x) ==
    /\ call[n][x] = "answered"
    /\ Become(n, x, "replied")

Confirm(n, x) ==
    /\ call[Peer(n)][x] = "replied"
    /\ <<n, x>> \in given
    /\ confirmed' = confirmed \cup {<<n, x>>}
    /\ UNCHANGED <<call, given>>

Next ==
    \/ \E n \in Callers, x \in Xids : Call(n, x)
    \/ \E n \in Nodes, x \in Xids :
          \/ Serve(n, x)
          \/ Answered(n, x)
          \/ TimedOut(n, x)
          \/ Reply(n, x)
          \/ Confirm(n, x)
    \/ \E n \in Nodes : Drop(n)

Spec == Init /\ [][Next]_vars
=============================================================================
