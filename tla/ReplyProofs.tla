---------------------------- MODULE ReplyProofs ----------------------------
(***************************************************************************)
(* The walk over a reply finds the statistics, whatever their length and   *)
(* that of the id, if the two lie next to each other.                      *)
(***************************************************************************)
EXTENDS TaskstatsReply, TLAPS

USE ReplyAssumption

(* The outer loop is at the start, behind the padding, or at the end.      *)
OuterOK ==
  /\ pc = "outer" =>
       \/ len = 0 /\ na = 0
       \/ len = reply.before /\ na = reply.before
       \/ len = rep_len
  /\ pc = "inner" =>
       /\ len = rep_len
       /\ aggr_len = rep_len - reply.before - 1
  /\ pc = "done" => len = rep_len

(* Nothing is copied before the statistics are passed, and they are once   *)
(* the aggregate is.                                                       *)
InnerOK ==
  NothingBetween =>
    /\ pc # "undefined"
    /\ pc = "inner" =>
         \/ len2 = 0 /\ na = IdAt
         \/ len2 = reply.id /\ na = StatsAt
         \/ len2 = aggr_len /\ filled = StatsAt
    /\ pc \in {"outer", "done"} /\ len = rep_len => filled = StatsAt

IInv == TypeOK /\ OuterOK /\ InnerOK

(* Where the parts of a reply are.                                         *)
LEMMA Layout ==
  ASSUME reply \in Replies
  PROVE  /\ reply.before \in 0 .. 1 /\ reply.between \in 0 .. 1
         /\ reply.id \in Nat \ {0} /\ reply.stats \in Nat \ {0}
         /\ reply.id <= MaxWords /\ reply.stats <= MaxWords
         /\ IdAt = reply.before + 1
         /\ BetweenAt = reply.before + 1 + reply.id
         /\ StatsAt = reply.before + 1 + reply.id + reply.between
         /\ rep_len = reply.before + 1 + reply.id + reply.between + reply.stats
         /\ rep_len <= MsgWords
BY DEF Replies, IdAt, BetweenAt, StatsAt, rep_len

(* No two attributes begin at the same offset, and a read there finds the  *)
(* one.                                                                    *)
LEMMA ReadsFind ==
  ASSUME reply \in Replies
  PROVE  /\ reply.before = 1 => Read(0) = {Attribute(0, "null", 1)}
         /\ Read(reply.before) =
              {Attribute(reply.before, "aggregate", rep_len - reply.before)}
         /\ Read(IdAt) = {Attribute(IdAt, "id", reply.id)}
         /\ Read(StatsAt) = {Attribute(StatsAt, "stats", reply.stats)}
<1> DEFINE Here(o) == {a \in Attributes : a.at = o}
<1>1. reply.before = 1 => Here(0) = {Attribute(0, "null", 1)}
  BY Layout DEF Attributes, Attribute
<1>2. Here(reply.before) =
        {Attribute(reply.before, "aggregate", rep_len - reply.before)}
  BY Layout DEF Attributes, Attribute
<1>3. Here(IdAt) = {Attribute(IdAt, "id", reply.id)}
  BY Layout DEF Attributes, Attribute
<1>4. Here(StatsAt) = {Attribute(StatsAt, "stats", reply.stats)}
  BY Layout DEF Attributes, Attribute
<1>5. ASSUME NEW o, Here(o) # {}
      PROVE  Read(o) = Here(o)
  BY <1>5 DEF Read
<1>6. QED
  BY <1>1, <1>2, <1>3, <1>4, <1>5

(* Whatever a read finds, it has a type and a length.                      *)
LEMMA ReadsAreAttributes ==
  ASSUME reply \in Replies, NEW o \in Nat, NEW a \in Read(o)
  PROVE  a.type \in Types /\ a.len \in Nat
<1>1. CASE a \in Attributes
  BY <1>1, Layout DEF Attributes, Attribute, Types
<1>2. CASE a \notin Attributes
  BY <1>2 DEF Read, Attribute
<1>3. QED
  BY <1>1, <1>2

LEMMA InitHolds == Init => IInv
<1> SUFFICES ASSUME Init PROVE IInv
  OBVIOUS
<1> QED
  BY Layout DEF Init, IInv, TypeOK, OuterOK, InnerOK, Nowhere

LEMMA OuterHolds ==
  ASSUME IInv, Outer
  PROVE  IInv'
<1>1. PICK a \in Read(na) :
        /\ len' = len + a.len
        /\ IF a.type = "aggregate"
           THEN pc' = "inner" /\ aggr_len' = a.len - 1 /\ len2' = 0 /\ na' = na + 1
           ELSE na' = len' /\ UNCHANGED <<pc, aggr_len, len2>>
  BY DEF Outer
<1>2. reply \in Replies /\ reply' = reply /\ rep_len' = rep_len /\ IdAt' = IdAt
      /\ StatsAt' = StatsAt /\ filled' = filled
  BY DEF Outer, IInv, TypeOK, rep_len, IdAt, StatsAt, BetweenAt
<1>3. CASE reply.before = 1 /\ len = 0 /\ na = 0
  <2>1. a = Attribute(0, "null", 1)
    BY <1>1, <1>2, <1>3, ReadsFind
  <2>2. len' = 1 /\ na' = 1 /\ UNCHANGED <<pc, aggr_len, len2>>
    BY <1>1, <1>3, <2>1 DEF Attribute
  <2>3. QED
    BY <1>2, <1>3, <2>2, Layout
       DEF IInv, TypeOK, OuterOK, InnerOK, NothingBetween, Outer
<1>4. CASE len = reply.before /\ na = reply.before
  <2>1. a = Attribute(reply.before, "aggregate", rep_len - reply.before)
    BY <1>1, <1>2, <1>4, ReadsFind
  <2>2. /\ len' = rep_len
        /\ pc' = "inner"
        /\ aggr_len' = rep_len - reply.before - 1
        /\ len2' = 0
        /\ na' = IdAt
    BY <1>1, <1>2, <1>4, <2>1, Layout DEF Attribute
  <2>3. QED
    BY <1>2, <2>2, Layout DEF IInv, TypeOK, OuterOK, InnerOK, NothingBetween
<1>5. QED
  BY <1>2, <1>3, <1>4, Layout DEF IInv, OuterOK, Outer

LEMMA InnerHolds ==
  ASSUME IInv, Inner
  PROVE  IInv'
<1>1. PICK a \in Read(na) :
        /\ filled' = IF a.type = "stats" THEN na ELSE filled
        /\ len2' = len2 + a.len
        /\ na' = na + len2'
  BY DEF Inner
<1>2. /\ reply \in Replies /\ reply' = reply /\ rep_len' = rep_len
      /\ IdAt' = IdAt /\ StatsAt' = StatsAt
      /\ UNCHANGED <<pc, len, aggr_len>> /\ pc = "inner"
      /\ na \in Nat /\ len2 \in Nat
  BY DEF Inner, IInv, TypeOK, rep_len, IdAt, StatsAt, BetweenAt
<1>3. a.type \in Types /\ a.len \in Nat
  BY <1>1, <1>2, ReadsAreAttributes
<1>4. TypeOK'
  BY <1>1, <1>2, <1>3 DEF IInv, TypeOK
<1>5. OuterOK'
  BY <1>2 DEF IInv, OuterOK
<1>6. ASSUME NothingBetween
      PROVE  \/ len2' = reply.id /\ na' = StatsAt
             \/ len2' = aggr_len /\ filled' = StatsAt
  <2>1. CASE len2 = 0 /\ na = IdAt
    <3>1. a.len = reply.id
      BY <1>1, <1>2, <2>1, ReadsFind DEF Attribute
    <3>2. QED
      BY <1>1, <1>2, <1>6, <2>1, <3>1, Layout DEF NothingBetween
  <2>2. CASE len2 = reply.id /\ na = StatsAt
    <3>1. a.len = reply.stats /\ a.type = "stats"
      BY <1>1, <1>2, <2>2, ReadsFind DEF Attribute
    <3>2. QED
      BY <1>1, <1>2, <1>6, <2>2, <3>1, Layout DEF NothingBetween, IInv, OuterOK
  <2>3. QED
    BY <1>2, <1>6, <2>1, <2>2 DEF IInv, InnerOK, Inner
<1>7. InnerOK'
  BY <1>2, <1>6 DEF InnerOK, NothingBetween
<1>8. QED
  BY <1>4, <1>5, <1>7 DEF IInv

(* Next to each other, the two nested attributes keep the pointer in msg.  *)
LEMMA InnerLeavesMsgHolds ==
  ASSUME IInv, InnerLeavesMsg
  PROVE  IInv'
<1>1. reply \in Replies
  BY DEF IInv, TypeOK
<1>2. ~NothingBetween
  BY <1>1, Layout DEF IInv, TypeOK, InnerOK, InnerLeavesMsg
<1>3. QED
  BY <1>2 DEF InnerLeavesMsg, IInv, TypeOK, OuterOK, InnerOK, NothingBetween,
              rep_len, StatsAt, BetweenAt, IdAt

LEMMA EndsHold ==
  ASSUME IInv, EndInner \/ EndOuter
  PROVE  IInv'
<1>1. /\ reply \in Replies /\ reply' = reply /\ rep_len' = rep_len
      /\ IdAt' = IdAt /\ StatsAt' = StatsAt
  BY DEF EndInner, EndOuter, IInv, TypeOK, rep_len, IdAt, StatsAt, BetweenAt
<1>2. CASE EndInner
  <2>1. TypeOK' /\ OuterOK'
    BY <1>1, <1>2 DEF EndInner, IInv, TypeOK, OuterOK
  <2>2. NothingBetween => filled = StatsAt
    <3> SUFFICES ASSUME NothingBetween PROVE filled = StatsAt
      OBVIOUS
    <3>1. aggr_len = reply.id + reply.stats
      BY <1>1, <1>2, Layout DEF EndInner, IInv, OuterOK, NothingBetween
    <3>2. len2 # 0 /\ len2 # reply.id
      BY <1>1, <1>2, <3>1, Layout DEF EndInner
    <3>3. QED
      BY <1>2, <3>2 DEF EndInner, IInv, InnerOK
  <2>3. InnerOK'
    BY <1>1, <1>2, <2>2 DEF EndInner, InnerOK, NothingBetween
  <2>4. QED
    BY <2>1, <2>3 DEF IInv
<1>3. CASE EndOuter
  BY <1>1, <1>3, Layout DEF EndOuter, IInv, TypeOK, OuterOK, InnerOK, NothingBetween
<1>4. QED
  BY <1>2, <1>3

LEMMA StepHolds == IInv /\ [Next]_vars => IInv'
<1> SUFFICES ASSUME IInv, [Next]_vars PROVE IInv'
  OBVIOUS
<1>1. CASE UNCHANGED vars
  BY <1>1 DEF vars, IInv, TypeOK, OuterOK, InnerOK, NothingBetween, rep_len,
              StatsAt, BetweenAt, IdAt
<1>2. QED
  BY <1>1, OuterHolds, InnerHolds, InnerLeavesMsgHolds, EndsHold DEF Next

LEMMA Inductive == Spec => []IInv
BY InitHolds, StepHolds, PTL DEF Spec

(* The loops count no more than the reply holds.                           *)
THEOREM TypeCorrect == Spec => []TypeOK
<1>1. IInv => TypeOK
  BY DEF IInv
<1>2. QED
  BY <1>1, Inductive, PTL

(* For ids and statistics of any length, the walk looks at attributes only *)
(* (netlink.cpp lines 48 and 55).                                          *)
THEOREM OnlyAttributesRead == Spec => []ReadsAttributes
<1>1. IInv => ReadsAttributes
  <2> SUFFICES ASSUME IInv, NothingBetween,
                      \/ pc = "outer" /\ len < rep_len
                      \/ pc = "inner" /\ len2 < aggr_len
               PROVE  na \in {a.at : a \in Attributes}
    BY DEF ReadsAttributes
  <2>1. reply \in Replies
    BY DEF IInv, TypeOK
  <2> DEFINE Here(o) == {a \in Attributes : a.at = o}
             Offsets == {a.at : a \in Attributes}
  <2>2. /\ reply.before = 1 => 0 \in Offsets
        /\ reply.before \in Offsets /\ IdAt \in Offsets /\ StatsAt \in Offsets
    <3>1. \A o : Here(o) # {} => o \in Offsets
      OBVIOUS
    <3>2. /\ reply.before = 1 => Attribute(0, "null", 1) \in Here(0)
          /\ Attribute(reply.before, "aggregate", rep_len - reply.before) \in Here(reply.before)
          /\ Attribute(IdAt, "id", reply.id) \in Here(IdAt)
          /\ Attribute(StatsAt, "stats", reply.stats) \in Here(StatsAt)
      BY <2>1, Layout DEF Attributes, Attribute
    <3> HIDE DEF Here, Offsets
    <3>3. QED
      BY <3>1, <3>2
  <2>3. reply.before = 0 => 0 \in Offsets
    BY <2>2
  <2>4. na = 0 \/ na = reply.before \/ na = IdAt \/ na = StatsAt
    BY <2>1, Layout DEF IInv, TypeOK, OuterOK, InnerOK
  <2>5. QED
    BY <2>1, <2>2, <2>3, <2>4, Layout
<1>2. QED
  BY <1>1, Inductive, PTL

(* For ids and statistics of any length, a walk that ends has copied the   *)
(* statistics (netlink.cpp lines 55-64).                                   *)
THEOREM StatisticsCopied == Spec => []StatisticsFound
<1>1. IInv => StatisticsFound
  BY DEF IInv, OuterOK, InnerOK, StatisticsFound
<1>2. QED
  BY <1>1, Inductive, PTL
=============================================================================
