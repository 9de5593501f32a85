--------------------------- MODULE NetlinkIoStats ---------------------------
(***************************************************************************)
(* The taskstats client: init opens a generic netlink socket and asks for  *)
(* the id of the TASKSTATS family, get_task_io_info sends a request and    *)
(* receives what the socket holds.  Requests carry no sequence number and  *)
(* replies are not matched to them (netlink.cpp:155, 27-45), so an answer  *)
(* goes to the right row only if the socket is empty when a call begins.   *)
(*                                                                         *)
(* The kernel is external: it answers a request before sendto returns, or  *)
(* not at all.                                                             *)
(***************************************************************************)
EXTENDS Integers, Sequences

CONSTANTS
  Tasks,
  NoTask,
  Pieces,  \* into how many pieces a request may be cut by short sends
  RcvBuf   \* how many replies the socket holds

ASSUME NetlinkAssumption ==
  /\ NoTask \notin Tasks
  /\ Pieces \in Nat \ {0}
  /\ RcvBuf \in Nat \ {0}

VARIABLES
  pc,
  sock,               \* sock_fd_
  netlink_family_id,  \* "none", "zero" or "taskstats"
  full,               \* the kernel takes no request now (EAGAIN)
  left,               \* pieces of the request that are still to be sent
  rcvq,               \* replies in the socket
  asked,              \* the task of the open get_task_io_info call
  row,                \* whose numbers the last call put into *io_stats
  code                \* what the last call returned

clientVars == <<sock, netlink_family_id>>
callVars == <<asked, row, code>>
vars == <<pc, clientVars, full, left, rcvq, callVars>>

-----------------------------------------------------------------------------
(* The kernel *)

Kinds == {"stats", "family", "family_zero", "other", "error", "bad"}

(* "bad" is no complete message (NLMSG_OK fails), "error" an NLMSG_ERROR.  *)
AnswersTo(request) ==
  {[kind |-> k, about |-> request] :
     k \in {"error", "bad"} \cup
           (IF request = NoTask THEN {"family", "family_zero", "other"}
                                ELSE {"stats"})}

(* A whole request is answered or, when the kernel or the socket lacks     *)
(* memory, lost.                                                           *)
(* Pieces of one are no requests: it drops them.                           *)
KernelTakes(request, whole) ==
  \/ /\ whole
     /\ Len(rcvq) < RcvBuf
     /\ \E reply \in AnswersTo(request) : rcvq' = Append(rcvq, reply)
  \/ UNCHANGED rcvq

KernelFills ==
  /\ ~full
  /\ full' = TRUE
  /\ UNCHANGED <<pc, clientVars, left, rcvq, callVars>>

KernelDrains ==
  /\ full
  /\ full' = FALSE
  /\ UNCHANGED <<pc, clientVars, left, rcvq, callVars>>

-----------------------------------------------------------------------------
(* send_netlink_cmd: one sendto call.  A call that is refused with EAGAIN  *)
(* changes nothing and is made again at once.                              *)

SendPart ==
  /\ ~full
  /\ left > 1
  /\ left' = left - 1
  /\ UNCHANGED <<pc, clientVars, full, rcvq, callVars>>

SendRest(request, next) ==
  /\ ~full
  /\ pc' = next
  /\ left' = Pieces
  /\ KernelTakes(request, left = Pieces)
  /\ UNCHANGED <<clientVars, full, callVars>>

-----------------------------------------------------------------------------
(* init *)

Init ==
  /\ pc = "init_sock"
  /\ sock = "none"
  /\ netlink_family_id = "none"
  /\ full \in BOOLEAN
  /\ left = Pieces
  /\ rcvq = <<>>
  /\ asked = NoTask
  /\ row = NoTask
  /\ code = 0

(* Variant: a socket that fcntl could not make nonblocking is used.        *)
InitSock_IgnoresFcntl ==
  /\ pc = "init_sock"
  /\ \/ sock' \in {"nonblocking", "blocking"} /\ pc' = "init_send"
     \/ sock' = "none" /\ pc' = "failed"
  /\ UNCHANGED <<netlink_family_id, full, left, rcvq, callVars>>

(* init_sock: socket, bind and fcntl, any of which may fail; main gives up *)
(* when init does.  Only a failed bind closes the socket.                  *)
InitSock ==
  /\ pc = "init_sock"
  /\ \/ sock' = "nonblocking" /\ pc' = "init_send"
     \/ sock' = "none" /\ pc' = "failed"      \* socket or bind
     \/ sock' = "blocking" /\ pc' = "failed"  \* fcntl
  /\ UNCHANGED <<netlink_family_id, full, left, rcvq, callVars>>

(* init_netlink_family_id                                                  *)
InitSend == pc = "init_send" /\ SendRest(NoTask, "init_recv")

InitSendFails ==
  /\ pc = "init_send"
  /\ ~full
  /\ pc' = "failed"
  /\ left' = Pieces
  /\ UNCHANGED <<clientVars, full, rcvq, callVars>>

(* recv on an empty socket returns at once only if it is nonblocking.      *)
RecvReturns == rcvq # <<>> \/ sock = "nonblocking"

TakeReply == rcvq' = IF rcvq = <<>> THEN <<>> ELSE Tail(rcvq)

HeadIs(kind) == rcvq # <<>> /\ Head(rcvq).kind = kind

(* Variant: a family id of 0 is accepted.                                  *)
InitRecv_AcceptsZero ==
  /\ pc = "init_recv"
  /\ RecvReturns
  /\ TakeReply
  /\ IF HeadIs("family") \/ HeadIs("family_zero")
     THEN /\ pc' = "idle"
          /\ netlink_family_id' = IF HeadIs("family") THEN "taskstats" ELSE "zero"
     ELSE pc' = "failed" /\ UNCHANGED netlink_family_id
  /\ UNCHANGED <<sock, full, left, callVars>>

InitRecv ==
  /\ pc = "init_recv"
  /\ RecvReturns
  /\ TakeReply
  /\ IF HeadIs("family")
     THEN pc' = "idle" /\ netlink_family_id' = "taskstats"
     ELSE /\ pc' = "failed"
          /\ netlink_family_id' = IF HeadIs("family_zero")
                                   THEN "zero" ELSE netlink_family_id
  /\ UNCHANGED <<sock, full, left, callVars>>

-----------------------------------------------------------------------------
(* get_task_io_info *)

BeginQuery(t) ==
  /\ pc = "idle"
  /\ pc' = "send"
  /\ asked' = t
  /\ row' = NoTask
  /\ UNCHANGED <<clientVars, full, left, rcvq, code>>

QuerySend == pc = "send" /\ SendRest(asked, "recv")

Return(res, stats) ==
  /\ pc' = "idle"
  /\ code' = res
  /\ row' = stats
  /\ asked' = NoTask

QuerySendFails ==
  /\ pc = "send"
  /\ ~full
  /\ left' = Pieces
  /\ Return(-2, row)
  /\ UNCHANGED <<clientVars, full, rcvq>>

(* Variant: the call may give up waiting before the answer is read.        *)
QueryRecv_TimesOut ==
  /\ pc = "recv"
  /\ \/ /\ RecvReturns
        /\ TakeReply
        /\ \/ rcvq = <<>> /\ Return(-3, row)
           \/ HeadIs("bad") /\ Return(-4, row)
           \/ HeadIs("error") /\ Return(-5, row)
           \/ HeadIs("stats") /\ Return(0, Head(rcvq).about)
     \/ Return(-3, row) /\ UNCHANGED rcvq
  /\ UNCHANGED <<clientVars, full, left>>

QueryRecv ==
  /\ pc = "recv"
  /\ RecvReturns
  /\ TakeReply
  /\ \/ rcvq = <<>> /\ Return(-3, row)
     \/ HeadIs("bad") /\ Return(-4, row)
     \/ HeadIs("error") /\ Return(-5, row)
     \/ HeadIs("stats") /\ Return(0, Head(rcvq).about)
  /\ UNCHANGED <<clientVars, full, left>>

SendStep ==
  \/ pc \in {"init_send", "send"} /\ SendPart
  \/ InitSend
  \/ InitSendFails
  \/ QuerySend
  \/ QuerySendFails

OwnStep == InitSock \/ InitRecv \/ QueryRecv

Next ==
  \/ SendStep
  \/ OwnStep
  \/ \E t \in Tasks : BeginQuery(t)
  \/ KernelFills
  \/ KernelDrains

Spec == Init /\ [][Next]_vars

-----------------------------------------------------------------------------
(* Properties *)

Reply == [kind : Kinds, about : Tasks \cup {NoTask}]

(* Types; and no query is made before the family id is known.              *)
TypeOK ==
  /\ pc \in {"init_sock", "init_send", "init_recv", "failed", "idle", "send", "recv"}
  /\ sock \in {"none", "blocking", "nonblocking"}
  /\ netlink_family_id \in {"none", "zero", "taskstats"}
  /\ full \in BOOLEAN
  /\ left \in 1 .. Pieces
  /\ rcvq \in Seq(Reply)
  /\ asked \in Tasks \cup {NoTask}
  /\ row \in Tasks \cup {NoTask}
  /\ code \in {0, -2, -3, -4, -5}
  /\ pc \in {"idle", "send", "recv"} => netlink_family_id = "taskstats"
  /\ asked # NoTask <=> pc \in {"send", "recv"}

Query == INSTANCE TaskQuery WITH ok <- code = 0

(* NetlinkIoStats implements TaskQuery: whatever calls went wrong before,  *)
(* a call that reports success has filled in the numbers of the task it    *)
(* was asked about, and one that fails has filled in nothing.              *)
ImplementsTaskQuery == Query!QuerySpec
=============================================================================
