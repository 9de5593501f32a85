--------------------------- MODULE TaskstatsReply ---------------------------
(***************************************************************************)
(* How get_task_io_info finds the statistics in a reply: a walk over its   *)
(* attributes and over the ones nested in them (netlink.cpp:43-70).        *)
(*                                                                         *)
(* Offsets and lengths are in words of NLA_ALIGNTO bytes, of which the     *)
(* header of an attribute is one; offset 0 is GENLMSG_DATA.                *)
(*                                                                         *)
(* The kernel is external: a reply is one aggregate with an id and the     *)
(* statistics in it.  On machines that align the statistics it has a NULL  *)
(* attribute too, before the aggregate (up to Linux 4.6) or between the    *)
(* two nested ones (since).                                                *)
(***************************************************************************)
EXTENDS Integers

CONSTANTS
  MaxWords,  \* bound on the length of the id and of the statistics
  MsgWords   \* room in msg.buf

ASSUME ReplyAssumption ==
  /\ MaxWords \in Nat \ {0}
  /\ MsgWords \in Nat
  /\ MsgWords >= 2 * MaxWords + 3

VARIABLES
  reply,     \* lengths of what the kernel has sent, 0 for what is not there
  pc,
  na,        \* offset of the attribute that is looked at next
  len,       \* what the outer loop has passed of the reply
  len2,      \* what the inner loop has passed of the aggregate
  aggr_len,
  filled     \* offset the statistics in *io_stats were copied from

vars == <<reply, pc, na, len, len2, aggr_len, filled>>

-----------------------------------------------------------------------------
(* Replies *)

Replies ==
  [before : 0 .. 1, id : 1 .. MaxWords, between : 0 .. 1, stats : 1 .. MaxWords]

IdAt == reply.before + 1
BetweenAt == IdAt + reply.id
StatsAt == BetweenAt + reply.between
rep_len == StatsAt + reply.stats

Attribute(at, type, words) == [at |-> at, type |-> type, len |-> words]

Attributes ==
  {a \in {Attribute(0, "null", reply.before),
          Attribute(reply.before, "aggregate", rep_len - reply.before),
          Attribute(IdAt, "id", reply.id),
          Attribute(BetweenAt, "null", reply.between),
          Attribute(StatsAt, "stats", reply.stats)} : a.len > 0}

Types == {"null", "aggregate", "id", "stats"}

(* What a read at an offset finds.  A payload, or the part of msg that     *)
(* recv did not write, may look like any attribute.                        *)
Read(o) ==
  LET here == {a \in Attributes : a.at = o}
  IN  IF here # {} THEN here
      ELSE {Attribute(o, type, words) : type \in Types, words \in 0 .. MaxWords}

Nowhere == -1

-----------------------------------------------------------------------------
(* The walk *)

Init ==
  /\ reply \in Replies
  /\ pc = "outer"
  /\ na = 0 /\ len = 0 /\ len2 = 0 /\ aggr_len = 0
  /\ filled = Nowhere

(* Variant: the header of the aggregate counts as payload.                 *)
Outer_HeaderCounts ==
  /\ pc = "outer"
  /\ len < rep_len
  /\ \E a \in Read(na) :
       /\ len' = len + a.len
       /\ IF a.type = "aggregate"
          THEN pc' = "inner" /\ aggr_len' = a.len /\ len2' = 0 /\ na' = na + 1
          ELSE na' = len' /\ UNCHANGED <<pc, aggr_len, len2>>
  /\ UNCHANGED <<reply, filled>>

(* One round of the outer loop, up to the inner one if there is one.       *)
Outer ==
  /\ pc = "outer"
  /\ len < rep_len
  /\ \E a \in Read(na) :
       /\ len' = len + a.len
       /\ IF a.type = "aggregate"
          THEN pc' = "inner" /\ aggr_len' = a.len - 1 /\ len2' = 0 /\ na' = na + 1
          ELSE na' = len' /\ UNCHANGED <<pc, aggr_len, len2>>
  /\ UNCHANGED <<reply, filled>>

(* Variant: one attribute too many is looked at.                           *)
Inner_TooFar ==
  /\ pc = "inner"
  /\ len2 <= aggr_len
  /\ na < MsgWords
  /\ \E a \in Read(na) :
       /\ filled' = IF a.type = "stats" THEN na ELSE filled
       /\ len2' = len2 + a.len
       /\ na' = na + len2'
  /\ UNCHANGED <<reply, pc, len, aggr_len>>

(* Variant: what has been passed is not counted.                           *)
Inner_NotCounted ==
  /\ pc = "inner"
  /\ len2 < aggr_len
  /\ na < MsgWords
  /\ \E a \in Read(na) :
       /\ filled' = IF a.type = "stats" THEN na ELSE filled
       /\ na' = na + len2
  /\ UNCHANGED <<reply, pc, len, len2, aggr_len>>

(* One round of the inner loop.  The pointer moves on by all that has been *)
(* passed of the aggregate, not by the length of the attribute.            *)
Inner ==
  /\ pc = "inner"
  /\ len2 < aggr_len
  /\ na < MsgWords
  /\ \E a \in Read(na) :
       /\ filled' = IF a.type = "stats" THEN na ELSE filled
       /\ len2' = len2 + a.len
       /\ na' = na + len2'
  /\ UNCHANGED <<reply, pc, len, aggr_len>>

(* The inner loop reads beyond msg: nothing can be said of what follows.   *)
InnerLeavesMsg ==
  /\ pc = "inner"
  /\ len2 < aggr_len
  /\ na >= MsgWords
  /\ pc' = "undefined"
  /\ UNCHANGED <<reply, na, len, len2, aggr_len, filled>>

EndInner ==
  /\ pc = "inner"
  /\ len2 >= aggr_len
  /\ pc' = "outer"
  /\ na' = len
  /\ UNCHANGED <<reply, len, len2, aggr_len, filled>>

(* The result is 0 whether or not there were statistics.                   *)
EndOuter ==
  /\ pc = "outer"
  /\ len >= rep_len
  /\ pc' = "done"
  /\ UNCHANGED <<reply, na, len, len2, aggr_len, filled>>

Next == Outer \/ Inner \/ InnerLeavesMsg \/ EndInner \/ EndOuter

Spec == Init /\ [][Next]_vars

(* The thread runs.                                                        *)
FairSpec == Spec /\ WF_vars(Next)

-----------------------------------------------------------------------------
(* Properties *)

(* Types; and the loops never count more than there is of the reply, as    *)
(* long as they are on its attributes.                                     *)
TypeOK ==
  /\ reply \in Replies
  /\ pc \in {"outer", "inner", "done", "undefined"}
  /\ na \in Nat /\ len2 \in Nat
  /\ filled \in Nat \cup {Nowhere}
  /\ len \in 0 .. rep_len
  /\ aggr_len \in 0 .. rep_len - reply.before - 1

(* Replies in which the id and the statistics lie next to each other.      *)
NothingBetween == reply.between = 0

(* In such a reply every offset the walk reads a header from (netlink.cpp  *)
(* lines 48 and 55) is that of an attribute, never of payload or of bytes  *)
(* recv did not write.                                                     *)
ReadsAttributes ==
  /\ NothingBetween
  /\ \/ pc = "outer" /\ len < rep_len
     \/ pc = "inner" /\ len2 < aggr_len
  => na \in {a.at : a \in Attributes}

(* A walk over such a reply that returns 0 has copied the statistics, and  *)
(* nothing over them.                                                      *)
StatisticsFound == NothingBetween /\ pc = "done" => filled = StatsAt

(* And it does return, as no attribute has length 0: the loops have no     *)
(* other bound.                                                            *)
WalkEnds == NothingBetween => <>(pc = "done")
=============================================================================
