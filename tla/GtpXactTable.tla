---------------------------- MODULE GtpXactTable ----------------------------
(***************************************************************************)
(* Where a thread keeps the GTP transactions of one peer (lib/gtp/xact.c,  *)
(* lib/gtp/context.c): the pool they come from, the two intrusive lists    *)
(* and their counters, the hash index that finds one by originator and id, *)
(* and the association of a transaction with the one it was made for.      *)
(*                                                                         *)
(* Every operation of one thread is a step. Lists are modelled by their    *)
(* links, because ogs_list_remove trusts the links of the node it is given.*)
(***************************************************************************)
EXTENDS Integers, Sequences, FiniteSets

CONSTANTS
    Slots,          \* the entries of the pool
    Null,
    NXids,          \* the size of the id space
    TimersSuffice   \* ogs_timer_add always succeeds

ASSUME TableAssumption ==
    /\ Null \notin Slots
    /\ NXids \in Nat \ {0}
    /\ TimersSuffice \in BOOLEAN

Local == "local"
Remote == "remote"
Orgs == {Local, Remote}
Xids == 0 .. NXids - 1

VARIABLES
    xact,       \* the pool: org (Null when free), xid, prev, next, assoc
    gnode,      \* the peer: head, tail and count of each list, and the index
    xactId,     \* the id counter
    aborted     \* ogs_assert failed

vars == <<xact, gnode, xactId, aborted>>

(* Operations are functions on the two structures together.                *)
Table == [x |-> xact, g |-> gnode]

Become(table) == xact' = table.x /\ gnode' = table.g

FreeXact == [org |-> Null, xid |-> 0, prev |-> Null, next |-> Null, assoc |-> Null]

(* ogs_gtp_node_new                                                        *)
Init ==
    /\ xact = [s \in Slots |-> FreeXact]
    /\ gnode = [head |-> [o \in Orgs |-> Null], tail |-> [o \in Orgs |-> Null],
                count |-> [o \in Orgs |-> 0],
                index |-> [k \in Orgs \X Xids |-> Null]]
    /\ xactId \in Xids
    /\ aborted = FALSE

Live == {s \in Slots : xact[s].org # Null}

-----------------------------------------------------------------------------
(* ogs_list_add                                                            *)
ListAdd(t, o, s) ==
    LET last == t.g.tail[o]
        x == [t.x EXCEPT ![s].prev = last, ![s].next = Null]
    IN  IF last # Null
          THEN [x |-> [x EXCEPT ![last].next = s],
                g |-> [t.g EXCEPT !.tail[o] = s]]
          ELSE [x |-> x,
                g |-> [t.g EXCEPT !.head[o] = s, !.tail[o] = s]]

ListRemove_KeepsPrev(t, o, s) ==
    LET prev == t.x[s].prev
        next == t.x[s].next
    IN  [x |-> IF prev # Null THEN [t.x EXCEPT ![prev].next = next] ELSE t.x,
         g |-> [t.g EXCEPT !.head[o] = IF prev = Null THEN next ELSE @,
                           !.tail[o] = IF next = Null THEN prev ELSE @]]

(* ogs_list_remove: a node without a neighbour is taken for an end.        *)
ListRemove(t, o, s) ==
    LET prev == t.x[s].prev
        next == t.x[s].next
        x == IF prev # Null THEN [t.x EXCEPT ![prev].next = next] ELSE t.x
    IN  [x |-> IF next # Null THEN [x EXCEPT ![next].prev = prev] ELSE x,
         g |-> [t.g EXCEPT !.head[o] = IF prev = Null THEN next ELSE @,
                           !.tail[o] = IF next = Null THEN prev ELSE @]]

IndexAdd_CountsFirst(t, o, s) ==
    LET k == <<o, t.x[s].xid>>
    IN  IF t.g.index[k] = Null
          THEN [t EXCEPT !.g.index[k] = s, !.g.count[o] = @ + 1] ELSE t

(* xact_index_add: the first transaction of a key has the slot.            *)
IndexAdd(t, o, s) ==
    LET k == <<o, t.x[s].xid>>
    IN  [t EXCEPT !.g.index[k] = IF @ = Null THEN s ELSE @,
                  !.g.count[o] = @ + 1]

IndexDel_KeepsSlot(t, o, s) == [t EXCEPT !.g.count[o] = @ - 1]

(* xact_index_del. A transaction that was never added has no key.          *)
IndexDel(t, o, s) ==
    LET k == <<o, t.x[s].xid>>
    IN  [t EXCEPT !.g.index[k] = IF @ = s THEN Null ELSE @,
                  !.g.count[o] = @ - 1]

Deleted_KeepsAssoc(t, s) ==
    LET o == t.x[s].org
        removed == ListRemove(IndexDel(t, o, s), o, s)
    IN  [removed EXCEPT !.x[s] = FreeXact]

(* ogs_gtp_xact_delete                                                     *)
Deleted(t, s) ==
    LET o == t.x[s].org
        assoc == t.x[s].assoc
        alone == IF assoc # Null /\ t.x[assoc].org # Null
                   THEN [t EXCEPT !.x[assoc].assoc = Null] ELSE t
        removed == ListRemove(IndexDel(alone, o, s), o, s)
    IN  [removed EXCEPT !.x[s] = FreeXact]

-----------------------------------------------------------------------------
(* A transaction from the pool. When its timers cannot be added it is      *)
(* deleted again, before it was put on its list or into the index.         *)
Created(s, o, x, timers) ==
    LET new == [Table EXCEPT !.x[s] = [FreeXact EXCEPT !.org = o, !.xid = x]]
    IN  IF timers THEN IndexAdd(ListAdd(new, o, s), o, s) ELSE Deleted(new, s)

TimersAdded == IF TimersSuffice THEN {TRUE} ELSE BOOLEAN

(* ogs_gtp1_xact_local_create, ogs_gtp_xact_local_create. When the pool is *)
(* empty they return NULL and change nothing.                              *)
LocalCreate(s, timers) ==
    LET x == (xactId + 1) % NXids
    IN  /\ ~aborted /\ s \notin Live
        /\ Become(Created(s, Local, x, timers))
        /\ xactId' = x
        /\ UNCHANGED aborted

Scan(t, o) ==
    LET RECURSIVE From(_, _)
        From(s, n) == IF s = Null \/ n = 0 THEN << >>
                      ELSE <<s>> \o From(t.x[s].next, n - 1)
    IN  From(t.g.head[o], Cardinality(Slots) + 1)

(* What the list scan would find.                                          *)
FirstOf(o, x) ==
    LET hits == {i \in 1 .. Len(Scan(Table, o)) : xact[Scan(Table, o)[i]].xid = x}
    IN  IF hits = {} THEN Null
        ELSE Scan(Table, o)[CHOOSE i \in hits : \A j \in hits : i <= j]

(* How ogs_gtp1_xact_receive and ogs_gtp_xact_receive find a transaction:  *)
(* by the index, then by a scan of the list.                               *)
Find(o, x) == IF gnode.index[<<o, x>>] # Null THEN gnode.index[<<o, x>>] ELSE FirstOf(o, x)

(* A request arrives: a transaction that is not found is created           *)
(* (ogs_gtp_xact_remote_create), and it is an assertion that it could be.  *)
ReceiveRequest(x) ==
    /\ ~aborted /\ Find(Remote, x) = Null
    /\ \/ \E s \in Slots \ Live, timers \in TimersAdded :
             /\ Become(Created(s, Remote, x, timers))
             /\ aborted' = ~timers
       \/ /\ Live = Slots
          /\ aborted' = TRUE
          /\ UNCHANGED <<xact, gnode>>
    /\ UNCHANGED xactId

(* The end of a transaction, by commit or by a timer.                      *)
Delete(s) ==
    /\ ~aborted /\ s \in Live
    /\ Become(Deleted(Table, s))
    /\ UNCHANGED <<xactId, aborted>>

(* ogs_gtp_xact_associate, ogs_gtp_xact_deassociate                        *)
Associate(r, s) ==
    /\ ~aborted /\ r # s /\ r \in Live /\ s \in Live
    /\ xact[r].assoc = Null /\ xact[s].assoc = Null
    /\ xact' = [xact EXCEPT ![r].assoc = s, ![s].assoc = r]
    /\ UNCHANGED <<gnode, xactId, aborted>>

Deassociate(s) ==
    /\ ~aborted /\ s \in Live /\ xact[s].assoc # Null
    /\ xact' = [xact EXCEPT ![s].assoc = Null, ![xact[s].assoc].assoc = Null]
    /\ UNCHANGED <<gnode, xactId, aborted>>

(* The loop of ogs_gtp_xact_delete_all over one list: the link is read     *)
(* before the transaction is deleted.                                      *)
RECURSIVE Emptied(_, _)
Emptied(t, s) == IF s = Null THEN t ELSE Emptied(Deleted(t, s), t.x[s].next)

DeleteAll_LocalOnly ==
    /\ ~aborted /\ Live # {}
    /\ Become(Emptied(Table, gnode.head[Local]))
    /\ UNCHANGED <<xactId, aborted>>

(* ogs_gtp_xact_delete_all, before ogs_gtp_node_free frees the peer        *)
DeleteAll ==
    LET t == Emptied(Table, gnode.head[Local])
    IN  /\ ~aborted /\ Live # {}
        /\ Become(Emptied(t, t.g.head[Remote]))
        /\ UNCHANGED <<xactId, aborted>>

Next ==
    \/ \E s \in Slots, timers \in TimersAdded : LocalCreate(s, timers)
    \/ \E x \in Xids : ReceiveRequest(x)
    \/ \E s \in Slots : Delete(s) \/ Deassociate(s)
    \/ \E r, s \in Slots : Associate(r, s)
    \/ DeleteAll

Spec == Init /\ [][Next]_vars
-----------------------------------------------------------------------------
(* The variables hold what their declarations say; a counter is the length *)
(* of some list of this pool.                                              *)
TypeOK ==
    LET Ref == Slots \cup {Null}
    IN  /\ xact \in [Slots -> [org : Orgs \cup {Null}, xid : Xids, prev : Ref, next : Ref,
                               assoc : Ref]]
        /\ gnode.head \in [Orgs -> Ref] /\ gnode.tail \in [Orgs -> Ref]
        /\ gnode.count \in [Orgs -> 0 .. Cardinality(Slots)]
        /\ gnode.index \in [Orgs \X Xids -> Ref]
        /\ xactId \in Xids /\ aborted \in BOOLEAN

(* "Counters give O(1) list lengths" (xact_index_add): the counter of a    *)
(* list, which mme_ue_xact_count reads for it, is its length.              *)
CountIsLength == \A o \in Orgs : gnode.count[o] = Len(Scan(Table, o))

(* Each list holds the live transactions of its originator, each once. One *)
(* that is not on its list is "stale" to its own timers                    *)
(* (ogs_gtp_xact_find_by_id_for_timer): it is never retransmitted, its     *)
(* callback never runs and it never returns to the pool.                   *)
Listed ==
    \A o \in Orgs :
        LET list == Scan(Table, o)
        IN  /\ {list[i] : i \in 1 .. Len(list)} = {s \in Live : xact[s].org = o}
            /\ \A i, j \in 1 .. Len(list) : list[i] = list[j] => i = j

(* A transaction in the index is live and has that key, also when ids were *)
(* reused and deleted in another order.                                    *)
IndexIsLive ==
    \A o \in Orgs, x \in Xids :
        LET s == gnode.index[<<o, x>>]
        IN  s # Null => xact[s].org = o /\ xact[s].xid = x

(* An association is mutual and ends with either transaction, so that      *)
(* neither the assertions of ogs_gtp_xact_deassociate fail nor an answer   *)
(* is relayed to a transaction that took the place of the other one.       *)
AssocMutual ==
    \A s \in Live : xact[s].assoc # Null =>
        xact[s].assoc \in Live /\ xact[xact[s].assoc].assoc = s

(* When a peer is removed none of its transactions is left to refer to it. *)
PeerLeavesNothing == [][DeleteAll => Live' = {}]_vars
=============================================================================
