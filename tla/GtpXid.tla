------------------------------- MODULE GtpXid -------------------------------
(***************************************************************************)
(* Transaction ids of the GTP transaction layer (lib/gtp/xact.c): how      *)
(* each thread of a network function allocates them (xact_next_xid), how   *)
(* they are written to and read from the sequence number field of a        *)
(* message, and how the receive path finds the thread, and the list of     *)
(* transactions, that an answer belongs to.                                *)
(*                                                                         *)
(* The widths are constants: a GTPv1 id has NShards * Span1 values         *)
(* (16 * 4096 in the code), a GTPv2 id has NShards * Span2 values below    *)
(* the command bit OGS_GTP_CMD_XACT_ID (16 * 2^19 = 0x800000).             *)
(***************************************************************************)
EXTENDS Integers, FiniteSets

CONSTANTS
    NShards,    \* 2^OGS_WORKER_ID_BITS: main thread and workers
    Span1,      \* GTPv1 ids per shard
    Span2,      \* GTPv2 ids per shard
    Sharded,    \* ogs_worker_shards_active()
    Word,       \* 2^32: the counters are uint32_t
    MaxLive     \* bound: requests outstanding at a time, per thread

ASSUME WidthAssumption ==
    /\ NShards \in Nat \ {0}
    /\ Span1 \in Nat \ {0}
    /\ Span2 \in Nat \ {0, 1}
    /\ Sharded \in BOOLEAN
    /\ Word \in Nat /\ Word > 2 * NShards * Span2 /\ Word > NShards * Span1
    /\ MaxLive \in Nat

OGS_GTP1_MIN_XACT_ID == 0
OGS_GTP1_MAX_XACT_ID == NShards * Span1 - 1
OGS_GTP_MIN_XACT_ID == 1
OGS_GTP_CMD_XACT_ID == NShards * Span2

(* The threads that run transactions: shard 0 is the main thread, and it   *)
(* is the only one unless the function runs protocol shard workers.        *)
Threads == IF Sharded THEN 0 .. NShards - 1 ELSE {0}

VARIABLES
    xactId,     \* xactId[t]: global_xact_id or tls_xact_id of thread t
    live        \* local transactions on some list, as [shard, version, cmd, xid]

xidVars == <<xactId, live>>

-----------------------------------------------------------------------------
(* OGS_NEXT_ID (lib/proto/types.h)                                         *)
NextId(id, min, max) == IF id = max THEN min ELSE (id + 1) % Word

(* Variant: the id space is not split.                                      *)
SpanOf_Whole(min, max) == max - min + 1

(* The size of a shard's window, and the new value of the counter of       *)
(* thread t in xact_next_xid.                                              *)
SpanOf(min, max) == (max - min + 1) \div NShards

NextCounter(t, c, min, max) ==
    IF Sharded
      THEN LET span == SpanOf(min, max)
               base == t * span
               next == (c + 1) % span
           IN  IF base + next < min THEN min - base ELSE next
      ELSE NextId(c, min, max)

(* The id that xact_next_xid returns, given the new value of the counter.  *)
XidOf(t, c, min, max) ==
    IF Sharded THEN t * SpanOf(min, max) + c ELSE c

(* The command bit is or-ed into the id of a command message.              *)
HasCmdBit(x) == (x \div OGS_GTP_CMD_XACT_ID) % 2 = 1

WithCmdBit(x) == IF HasCmdBit(x) THEN x ELSE x + OGS_GTP_CMD_XACT_ID

(* XID_TO_SQN at the sender, SQN_TO_XID at the receiver: GTPv1 keeps the   *)
(* low 16 bits of the id, GTPv2 the low 24.                                *)
OnTheWire(version, x) ==
    IF version = 1 THEN x % (OGS_GTP1_MAX_XACT_ID + 1)
                   ELSE x % (2 * OGS_GTP_CMD_XACT_ID)

(* The messages that answer a local request: a response; to a command, a   *)
(* bearer request that it triggers or a Failure Indication.  A triggered   *)
(* request carries the command bit and is the intermediate stage of the    *)
(* exchange, the other two are its final stage                             *)
(* (ogs_gtp1_xact_get_stage, ogs_gtp2_xact_get_stage).                     *)
AnswersTo(x) == IF x.cmd THEN {"triggered", "failure"} ELSE {"response"}

IsIntermediate(type, x) == type = "triggered" /\ HasCmdBit(x)

IsFinal(type) == type \in {"response", "failure"}

(* ogs_gtp2_xact_is_local_reply; GTPv1 has no command bit.                  *)
IsLocalReply(version, type, x) ==
    \/ IsIntermediate(type, x)
    \/ IsFinal(type) /\ (version = 2 => ~HasCmdBit(x))

NotSteered == -1

(* Variant: one shift for both versions.                                    *)
ReplyShard_OneShift(version, type, x) ==
    IF Sharded /\ IsLocalReply(version, type, x)
      THEN (x \div Span2) % NShards
      ELSE NotSteered

(* ogs_gtp1_rx_reply_shard, ogs_gtp2_rx_reply_shard: the shard that an     *)
(* answer names by its number, or -1 when its number does not decide.      *)
ReplyShard(version, type, x) ==
    IF Sharded /\ IsLocalReply(version, type, x)
      THEN (x \div (IF version = 1 THEN Span1 ELSE Span2)) % NShards
      ELSE NotSteered

(* The list in which ogs_gtp_xact_receive looks for the transaction of a   *)
(* message: a final message with the command bit ends an exchange that the *)
(* peer's command began, unless it is a Failure Indication.                *)
ReplyList(version, type, x) ==
    IF \/ IsIntermediate(type, x)
       \/ IsFinal(type) /\ (version = 2 /\ HasCmdBit(x) => type = "failure")
      THEN "local"
      ELSE "remote"

-----------------------------------------------------------------------------
XidInit ==
    /\ xactId \in [Threads -> 0 .. OGS_GTP1_MAX_XACT_ID]
    /\ live = {}

LiveOf(t) == {x \in live : x.shard = t}

(* ogs_gtp1_xact_local_create                                              *)
Create1(t) ==
    LET c == NextCounter(t, xactId[t], OGS_GTP1_MIN_XACT_ID, OGS_GTP1_MAX_XACT_ID)
    IN  /\ Cardinality(LiveOf(t)) < MaxLive
        /\ xactId' = [xactId EXCEPT ![t] = c]
        /\ live' = live \cup
              {[shard |-> t, version |-> 1, cmd |-> FALSE,
                xid |-> XidOf(t, c, OGS_GTP1_MIN_XACT_ID, OGS_GTP1_MAX_XACT_ID)]}

(* ogs_gtp_xact_local_create                                               *)
Create2(t, cmd) ==
    LET c == NextCounter(t, xactId[t], OGS_GTP_MIN_XACT_ID, OGS_GTP_CMD_XACT_ID)
        x == XidOf(t, c, OGS_GTP_MIN_XACT_ID, OGS_GTP_CMD_XACT_ID)
    IN  /\ Cardinality(LiveOf(t)) < MaxLive
        /\ xactId' = [xactId EXCEPT ![t] = c]
        /\ live' = live \cup
              {[shard |-> t, version |-> 2, cmd |-> cmd,
                xid |-> IF cmd THEN WithCmdBit(x) ELSE x]}

(* ogs_gtp_xact_delete, from whichever path ends the transaction           *)
Delete(x) ==
    /\ live' = live \ {x}
    /\ UNCHANGED xactId

XidNext ==
    \/ \E t \in Threads : Create1(t)
    \/ \E t \in Threads, cmd \in BOOLEAN : Create2(t, cmd)
    \/ \E x \in live : Delete(x)

XidSpec == XidInit /\ [][XidNext]_xidVars

-----------------------------------------------------------------------------
LiveXid == [shard : Threads, version : {1, 2}, cmd : BOOLEAN, xid : Nat]

(* The counter of every thread stays a natural number and the live set     *)
(* holds transaction records.                                              *)
XidTypeOK ==
    /\ xactId \in [Threads -> Nat]
    /\ live \subseteq LiveXid

(* Two threads never have the same sequence number outstanding towards a   *)
(* peer: "concurrent workers can never allocate colliding sequence         *)
(* numbers" (xact_next_xid).                                               *)
ShardsDisjoint ==
    \A x, y \in live :
        x.version = y.version /\ OnTheWire(x.version, x.xid) = OnTheWire(y.version, y.xid)
            => x.shard = y.shard

(* Every outstanding id lies in the window of the thread that allocated    *)
(* it: the invariant that makes the two properties below inductive.        *)
Window(x) ==
    LET span == IF x.version = 1 THEN Span1 ELSE Span2
        seq  == IF x.cmd THEN x.xid - OGS_GTP_CMD_XACT_ID ELSE x.xid
    IN  seq \in x.shard * span .. x.shard * span + span - 1

InWindow == \A x \in live : Window(x) /\ (x.version = 1 => ~x.cmd)

(* An answer to an outstanding request finds the request: the number it    *)
(* echoes reads back as the transaction's own id, it is looked for in the  *)
(* local list and, where the function runs shards, its number leads to the *)
(* thread that holds the transaction.  A Failure Indication is not steered *)
(* by its number (ogs_gtp2_xact_is_local_reply excludes it) but left to    *)
(* the tunnel endpoint it is addressed to.                                 *)
ReplyReachesRequest ==
    \A x \in live : \A type \in AnswersTo(x) :
        LET echoed == OnTheWire(x.version, x.xid)
        IN  /\ echoed = x.xid
            /\ ReplyList(x.version, type, echoed) = "local"
            /\ ReplyShard(x.version, type, echoed) =
                  IF Sharded /\ type # "failure" THEN x.shard ELSE NotSteered

(* The counter "is shared with GTPv2 and wraps within each version's own   *)
(* range on allocation" (ogs_gtp_xact_init).                               *)
XidWithinVersionRange ==
    \A x \in live : x.version = 1 => x.xid <= OGS_GTP1_MAX_XACT_ID
=============================================================================
