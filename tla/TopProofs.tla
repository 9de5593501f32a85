----------------------------- MODULE TopProofs -----------------------------
(***************************************************************************)
(* Proofs about the client (NetlinkIoStats) and the whole program around   *)
(* it, for any names in /proc, any number of descriptors and any size of   *)
(* terminal: queries get their own answers, a frame has the numbers of its *)
(* tasks and is alone on the screen, the list names the tasks, and no      *)
(* descriptor is lost.                                                     *)
(***************************************************************************)
EXTENDS IoTop, TLAPS

USE NetlinkAssumption

-----------------------------------------------------------------------------
(* The client: it implements TaskQuery for any set of tasks and requests   *)
(* cut into any number of pieces.                                          *)

(* Outside a receive the socket is empty, and a receive finds at most the  *)
(* answer to the request just sent.                                        *)
SocketOK ==
  /\ pc \in {"init_sock", "init_send", "idle", "send"} => rcvq = <<>>
  /\ pc \in {"init_recv", "recv"} =>
       rcvq = <<>> \/ \E reply \in AnswersTo(asked) : rcvq = <<reply>>

RowOK == pc \notin {"idle"} => row = NoTask

IInv == TypeOK /\ SocketOK /\ RowOK

LEMMA KernelAnswers ==
  ASSUME NEW request \in Tasks \cup {NoTask}, NEW whole \in BOOLEAN,
         rcvq = <<>>, KernelTakes(request, whole)
  PROVE  /\ rcvq' = <<>> \/ \E reply \in AnswersTo(request) : rcvq' = <<reply>>
         /\ rcvq' \in Seq(Reply)
<1>1. AnswersTo(request) \subseteq Reply
  BY DEF AnswersTo, Reply, Kinds
<1>2. CASE UNCHANGED rcvq
  BY <1>2
<1>3. ASSUME NEW reply \in AnswersTo(request), rcvq' = Append(rcvq, reply)
      PROVE  rcvq' = <<reply>> /\ rcvq' \in Seq(Reply)
  BY <1>1, <1>3
<1>4. QED
  BY <1>2, <1>3 DEF KernelTakes

LEMMA ReplyTaken ==
  ASSUME TypeOK, SocketOK, pc \in {"init_recv", "recv"}, TakeReply
  PROVE  rcvq' = <<>>
<1>1. CASE rcvq = <<>>
  BY <1>1 DEF TakeReply
<1>2. ASSUME NEW reply \in AnswersTo(asked), rcvq = <<reply>>
      PROVE  rcvq' = <<>>
  BY <1>2 DEF TakeReply
<1>3. QED
  BY <1>1, <1>2 DEF SocketOK

LEMMA InitIInv == Init => IInv
BY DEF Init, IInv, TypeOK, SocketOK, RowOK

LEMMA NextIInv == IInv /\ [Next]_vars => IInv'
<1> SUFFICES ASSUME IInv, Next \/ UNCHANGED vars PROVE IInv'
  OBVIOUS
<1> USE DEF IInv, clientVars, callVars
<1>1. CASE InitSock
  BY <1>1 DEF InitSock, TypeOK, SocketOK, RowOK
<1>2. CASE InitSend
  <2>1. /\ rcvq' = <<>> \/ \E reply \in AnswersTo(NoTask) : rcvq' = <<reply>>
        /\ rcvq' \in Seq(Reply)
    BY <1>2, KernelAnswers DEF InitSend, SendRest, SocketOK
  <2>2. asked = NoTask
    BY <1>2 DEF InitSend, TypeOK
  <2>3. QED
    BY <1>2, <2>1, <2>2 DEF InitSend, SendRest, TypeOK, SocketOK, RowOK, AnswersTo
<1>3. CASE InitSendFails
  BY <1>3 DEF InitSendFails, TypeOK, SocketOK, RowOK
<1>4. CASE InitRecv
  <2>1. rcvq' = <<>>
    BY <1>4, ReplyTaken DEF InitRecv
  <2>2. QED
    BY <1>4, <2>1 DEF InitRecv, TypeOK, SocketOK, RowOK
<1>5. CASE \E t \in Tasks : BeginQuery(t)
  BY <1>5 DEF BeginQuery, TypeOK, SocketOK, RowOK
<1>6. CASE QuerySend
  <2>1. /\ rcvq' = <<>> \/ \E reply \in AnswersTo(asked) : rcvq' = <<reply>>
        /\ rcvq' \in Seq(Reply)
    BY <1>6, KernelAnswers DEF QuerySend, SendRest, SocketOK, TypeOK
  <2>2. QED
    BY <1>6, <2>1 DEF QuerySend, SendRest, TypeOK, SocketOK, RowOK, AnswersTo
<1>7. CASE QuerySendFails
  BY <1>7 DEF QuerySendFails, Return, TypeOK, SocketOK, RowOK
<1>8. CASE QueryRecv
  <2>1. rcvq' = <<>>
    BY <1>8, ReplyTaken DEF QueryRecv
  <2>2. row' \in Tasks \cup {NoTask} /\ code' \in {0, -2, -3, -4, -5}
    <3>1. rcvq # <<>> => Head(rcvq).about = asked
      BY <1>8 DEF QueryRecv, SocketOK, AnswersTo
    <3>2. QED
      BY <1>8, <3>1 DEF QueryRecv, Return, HeadIs, TypeOK
  <2>3. pc' = "idle" /\ asked' = NoTask
    BY <1>8 DEF QueryRecv, Return
  <2>4. QED
    BY <1>8, <2>1, <2>2, <2>3 DEF QueryRecv, TypeOK, SocketOK, RowOK
<1>9. CASE pc \in {"init_send", "send"} /\ SendPart
  BY <1>9 DEF SendPart, TypeOK, SocketOK, RowOK, AnswersTo
<1>10. CASE KernelFills \/ KernelDrains \/ UNCHANGED vars
  BY <1>10 DEF KernelFills, KernelDrains, vars, TypeOK, SocketOK, RowOK, AnswersTo
<1>11. QED
  BY <1>1, <1>2, <1>3, <1>4, <1>5, <1>6, <1>7, <1>8, <1>9, <1>10
  DEF Next, SendStep, OwnStep

(* The states of the client are typed, and queries come only after init    *)
(* got a family id (netlink.cpp:73-83, 137-142).                           *)
THEOREM ClientTypeCorrect == Spec => []TypeOK
<1>1. IInv => TypeOK
  BY DEF IInv
<1>2. QED
  BY <1>1, InitIInv, NextIInv, PTL DEF Spec

(* Replies carry nothing the client matches to its request, and still each *)
(* lands in the row it was asked for (netlink.cpp:17-71), because no path  *)
(* leaves a reply behind.                                                  *)
THEOREM QueryImplementation == Spec => ImplementsTaskQuery
<1>1. Init => Query!QueryInit
  BY DEF Init, Query!QueryInit
<1>2. IInv /\ [Next]_vars => [Query!QueryNext]_Query!queryVars
  <2> SUFFICES ASSUME IInv, Next \/ UNCHANGED vars
               PROVE  Query!QueryNext \/ UNCHANGED Query!queryVars
    OBVIOUS
  <2> USE DEF IInv, clientVars, callVars
  <2>1. CASE \E t \in Tasks : BeginQuery(t)
    BY <2>1 DEF BeginQuery, TypeOK, Query!QueryNext, Query!Ask
  <2>2. CASE QuerySendFails
    BY <2>2 DEF QuerySendFails, Return, TypeOK, RowOK, Query!QueryNext, Query!Reply
  <2>3. CASE QueryRecv
    <3>1. rcvq # <<>> => Head(rcvq).about = asked
      BY <2>3 DEF QueryRecv, SocketOK, AnswersTo
    <3>2. asked # NoTask /\ asked' = NoTask /\ row = NoTask
      BY <2>3 DEF QueryRecv, Return, TypeOK, RowOK
    <3>3. \/ row' = asked /\ code' = 0
          \/ row' = NoTask /\ code' # 0
      BY <2>3, <3>1, <3>2 DEF QueryRecv, Return, HeadIs
    <3>4. QED
      BY <3>2, <3>3 DEF Query!QueryNext, Query!Reply
  <2>4. CASE InitSock \/ InitSend \/ InitSendFails \/ InitRecv \/ QuerySend
             \/ SendPart \/ KernelFills \/ KernelDrains \/ UNCHANGED vars
    BY <2>4 DEF InitSock, InitSend, InitSendFails, InitRecv, QuerySend, SendRest,
       SendPart, KernelFills, KernelDrains, vars, Query!queryVars
  <2>5. QED
    BY <2>1, <2>2, <2>3, <2>4 DEF Next, SendStep, OwnStep
<1>3. QED
  BY <1>1, <1>2, InitIInv, NextIInv, PTL DEF Spec, ImplementsTaskQuery, Query!QuerySpec

-----------------------------------------------------------------------------
(* Frames: the inductive invariant                                         *)

EntryIds == {e.id : e \in Entries}

ListOK ==
  /\ held \subseteq Entries
  /\ unread \in [Levels -> SUBSET Entries]
  /\ task_ids \subseteq EntryIds /\ thread_ids \subseteq EntryIds

(* A query is open only while its row is being made; one that has returned *)
(* success has filled in the numbers of the task the row is for.           *)
CallOK ==
  /\ main_pc \notin {"monitor_init", "ended"} => pc \in {"idle", "send", "recv"}
  /\ pc \in {"send", "recv"} =>
       main_pc \in {"collect", "ended"} /\ handling # NoTask /\ asked = handling.id
  /\ handling # NoTask => main_pc \in {"collect", "ended"} /\ handling.id \in EntryIds
  /\ (handling # NoTask /\ pc = "idle" /\ code = 0) => row = handling.id

RowsOK ==
  /\ \A task \in to_ask : task.id \in EntryIds
  /\ \A r \in rows : r.id \in EntryIds /\ (r.is_updated => r.numbers_of = r.id)
  /\ main_pc \in {"print", "draw", "clear"} =>
       to_ask = {} /\ \A r \in rows : r.is_updated

FrameIInv == IInv /\ ListOK /\ CallOK /\ RowsOK

-----------------------------------------------------------------------------
(* Whatever the program does is to the client a step of its own or none.   *)
LEMMA StepsOfTheClient == [TopNext]_topVars => [Next]_vars
BY DEF TopNext, Program, NetOwn, NetSend, NetFills, NetDrains, MonitorInit, BeginCollect,
       List, Ask, Asks, Emplace, EndCollect, OnScreen, Killed, Next, topVars

(* So the client's own invariant holds in the whole program.               *)
LEMMA ClientIInv == IInv /\ [TopNext]_topVars => IInv'
BY StepsOfTheClient, NextIInv

(* Names that readdir yields come from the directory.                      *)
LEMMA ListIInv ==
  ASSUME ListOK, BeginList \/ \E level \in Levels : ListStep(level)
  PROVE  ListOK'
<1>1. CASE BeginList
  BY <1>1 DEF BeginList, ListOK
<1>2. ASSUME NEW level \in Levels, Open(level) PROVE ListOK'
  BY <1>2 DEF Open, ListOK
<1>3. ASSUME NEW level \in Levels, OpenFails(level) PROVE ListOK'
  BY <1>3 DEF OpenFails, Done, ListOK
<1>4. ASSUME NEW level \in Levels, Fdopendir(level) PROVE ListOK'
  <2>1. PICK entries \in SUBSET Entries : unread' = [unread EXCEPT ![level] = entries]
    BY <1>4 DEF Fdopendir, ListOK
  <2> QED
    BY <1>4, <2>1 DEF Fdopendir, ListOK
<1>5. ASSUME NEW level \in Levels, FdopendirFails(level) PROVE ListOK'
  BY <1>5 DEF FdopendirFails, Done, ListOK
<1>6. ASSUME NEW level \in Levels, ReadEntry(level) PROVE ListOK'
  <2>1. PICK e \in unread[level] :
          /\ unread' = [unread EXCEPT ![level] = unread[level] \ {e}]
          /\ IF ~Accepted(e) THEN UNCHANGED <<list_pc, thread_ids, task_ids>>
             ELSE IF level = "proc"
             THEN thread_ids' = {} /\ task_ids' = task_ids \cup {e.id}
             ELSE thread_ids' = thread_ids \cup {e.id} /\ task_ids' = task_ids
    BY <1>6 DEF ReadEntry
  <2>2. e \in Entries /\ e.id \in EntryIds
    BY <1>6 DEF ListOK, EntryIds
  <2>3. held' = held
    BY <1>6 DEF ReadEntry
  <2> QED
    BY <1>6, <2>1, <2>2, <2>3 DEF ListOK
<1>7. ASSUME NEW level \in Levels, Closedir(level) PROVE ListOK'
  BY <1>7 DEF Closedir, ListOK
<1>8. ASSUME NEW level \in Levels, CloseAgain(level) PROVE ListOK'
  BY <1>8 DEF CloseAgain, Done, ListOK
<1> QED
  BY <1>1, <1>2, <1>3, <1>4, <1>5, <1>6, <1>7, <1>8 DEF ListStep

(* A successful receive fills in the numbers of the task asked for.        *)
LEMMA ReceivesItsNumbers ==
  ASSUME IInv, QueryRecv, code' = 0
  PROVE  row' = asked
<1>1. pc = "recv" /\ HeadIs("stats") /\ row' = Head(rcvq).about /\ asked # NoTask
  BY DEF QueryRecv, Return, IInv, TypeOK
<1>2. PICK reply \in AnswersTo(asked) : rcvq = <<reply>>
  BY <1>1 DEF HeadIs, IInv, SocketOK
<1> QED
  BY <1>1, <1>2 DEF AnswersTo

-----------------------------------------------------------------------------
(* The invariant of frames holds                                           *)

LEMMA InitFrameIInv == TopInit => FrameIInv
<1> SUFFICES ASSUME TopInit PROVE FrameIInv
  OBVIOUS
<1>1. IInv
  BY InitIInv DEF TopInit
<1>2. ListOK
  BY DEF TopInit, ListInit, ListOK
<1>3. CallOK
  BY DEF TopInit, Init, R!Init, CallOK
<1>4. RowsOK
  BY DEF TopInit, R!Init, RowsOK
<1> QED
  BY <1>1, <1>2, <1>3, <1>4 DEF FrameIInv

(* The client's steps.                                                     *)
LEMMA NetFrameIInv ==
  ASSUME FrameIInv, NetOwn \/ NetSend
  PROVE  ListOK' /\ CallOK' /\ RowsOK'
<1> USE DEF FrameIInv
<1>1. /\ main_pc \in {"monitor_init", "collect"}
      /\ UNCHANGED <<main_pc, listVars, to_ask, handling, rows>>
      /\ OwnStep \/ SendStep
  BY DEF NetOwn, NetSend, runnerVars, monitorVars
<1>2. ListOK'
  BY <1>1 DEF ListOK, listVars
<1>3. RowsOK'
  BY <1>1 DEF RowsOK
<1>4. CASE InitSock \/ InitRecv \/ InitSend \/ InitSendFails
  <2>1. main_pc = "monitor_init" /\ handling = NoTask
    BY <1>1, <1>4 DEF InitSock, InitRecv, InitSend, InitSendFails, CallOK
  <2>2. pc' \notin {"send", "recv"}
    BY <1>4 DEF InitSock, InitRecv, InitSend, InitSendFails, SendRest
  <2> QED
    BY <1>1, <1>2, <1>3, <2>1, <2>2 DEF CallOK
<1>5. CASE SendPart
  BY <1>1, <1>2, <1>3, <1>5 DEF SendPart, CallOK, callVars
<1>6. CASE QuerySend
  BY <1>1, <1>2, <1>3, <1>6 DEF QuerySend, SendRest, CallOK, callVars
<1>7. CASE QuerySendFails
  BY <1>1, <1>2, <1>3, <1>7 DEF QuerySendFails, Return, CallOK
<1>8. CASE QueryRecv
  <2>1. code' = 0 => row' = asked
    BY <1>8, ReceivesItsNumbers
  <2>2. pc = "recv" /\ pc' = "idle"
    BY <1>8 DEF QueryRecv, Return
  <2> QED
    BY <1>1, <1>2, <1>3, <2>1, <2>2 DEF CallOK
<1> QED
  BY <1>1, <1>4, <1>5, <1>6, <1>7, <1>8 DEF OwnStep, SendStep

(* The steps of the collection itself.                                     *)
LEMMA MonitorFrameIInv ==
  ASSUME FrameIInv,
         BeginCollect \/ List \/ (\E task \in Asks : Ask(task)) \/ Emplace \/ EndCollect
  PROVE  ListOK' /\ CallOK' /\ RowsOK'
<1> USE DEF FrameIInv
<1>1. CASE BeginCollect
  <2>1. /\ BeginList /\ UNCHANGED <<vars, to_ask, handling>> /\ rows' = {}
        /\ main_pc \in {"close", "sleep"} /\ main_pc' = "collect"
    BY <1>1 DEF BeginCollect, R!CloseTerminal, R!Sleep
  <2> QED
    BY <2>1, ListIInv DEF vars, callVars, CallOK, RowsOK
<1>2. CASE List
  <2>1. /\ main_pc = "collect" /\ UNCHANGED <<main_pc, vars, handling, rows>>
        /\ to_ask' = to_ask \cup [id : task_ids', is_pid : {TRUE}]
                            \cup [id : thread_ids', is_pid : {FALSE}]
    BY <1>2 DEF List, runnerVars
  <2>2. ListOK'
    BY <1>2, ListIInv DEF List
  <2>3. \A task \in to_ask' : task.id \in EntryIds
    BY <2>1, <2>2 DEF ListOK, RowsOK
  <2> QED
    BY <2>1, <2>2, <2>3 DEF vars, callVars, CallOK, RowsOK, EntryIds
<1>3. ASSUME NEW task \in Asks, Ask(task) PROVE ListOK' /\ CallOK' /\ RowsOK'
  <2>1. /\ main_pc = "collect" /\ UNCHANGED <<main_pc, listVars, rows>>
        /\ task \in to_ask /\ handling' = task /\ to_ask' = to_ask \ {task}
        /\ pc' = "send" /\ asked' = task.id /\ task # NoTask
    BY <1>3, TopAssumption DEF Ask, BeginQuery, runnerVars
  <2> QED
    BY <2>1 DEF listVars, ListOK, CallOK, RowsOK
<1>4. CASE Emplace
  <2>1. /\ main_pc = "collect" /\ handling # NoTask /\ pc = "idle" /\ handling' = NoTask
        /\ UNCHANGED <<main_pc, vars, listVars, to_ask>>
        /\ rows' \subseteq rows \cup {NewRow(code = 0)}
    BY <1>4 DEF Emplace, runnerVars
  <2>2. /\ NewRow(code = 0).id \in EntryIds
        /\ NewRow(code = 0).is_updated =>
             NewRow(code = 0).numbers_of = NewRow(code = 0).id
    BY <2>1 DEF NewRow, CallOK
  <2> QED
    BY <2>1, <2>2 DEF vars, callVars, listVars, ListOK, CallOK, RowsOK
<1>5. CASE EndCollect
  <2>1. /\ to_ask = {} /\ handling = NoTask /\ UNCHANGED <<vars, listVars, to_ask, handling>>
        /\ rows' = {r \in rows : r.is_updated} /\ main_pc = "collect" /\ main_pc' = "print"
    BY <1>5 DEF EndCollect, R!Collect
  <2> QED
    BY <2>1 DEF vars, callVars, listVars, ListOK, CallOK, RowsOK
<1> QED
  BY <1>1, <1>2, <1>3, <1>4, <1>5

(* The steps that leave the collection alone.                              *)
LEMMA OtherFrameIInv ==
  ASSUME FrameIInv,
         NetFills \/ NetDrains \/ MonitorInit \/ OnScreen \/ Killed \/ UNCHANGED topVars
  PROVE  ListOK' /\ CallOK' /\ RowsOK'
<1> USE DEF FrameIInv
<1>1. UNCHANGED <<listVars, to_ask, handling, rows, pc, asked, row, code>>
  BY DEF NetFills, NetDrains, KernelFills, KernelDrains, callVars, MonitorInit, OnScreen,
         Killed, topVars, monitorVars, vars
<1>2. \/ main_pc' = main_pc
      \/ main_pc' = "ended"
      \/ main_pc = "monitor_init" /\ main_pc' = "initscr" /\ pc = "idle"
      \/ /\ main_pc \in {"initscr", "set_visibility", "colors", "pairs", "print", "draw",
                        "clear"}
         /\ main_pc' \notin {"monitor_init", "collect", "ended"}
         /\ main_pc' \in {"draw", "clear"} => main_pc \in {"print", "draw"}
         /\ main_pc' # "print"
  <2>1. CASE NetFills \/ NetDrains \/ Killed \/ UNCHANGED topVars
    BY <2>1 DEF NetFills, NetDrains, Killed, topVars, runnerVars, R!Interrupt
  <2>2. CASE MonitorInit
    BY <2>2 DEF MonitorInit, R!InitMonitor
  <2>3. CASE R!SetVisibility
    <3>1. main_pc = "set_visibility" /\ main_pc' \in {"colors", "aborted"}
      BY <2>3 DEF R!SetVisibility, R!ErrorCheck
    <3> QED
      BY <3>1
  <2>4. CASE R!OpenTerminal \/ R!SetColors \/ R!SetPairs \/ R!PrintData \/ R!Draw \/ R!Clear
    BY <2>4 DEF R!OpenTerminal, R!SetColors, R!SetPairs, R!PrintData, R!Draw, R!Clear
  <2> QED
    BY <2>1, <2>2, <2>3, <2>4 DEF OnScreen
<1>3. ListOK'
  BY <1>1 DEF ListOK, listVars
<1>4. CallOK'
  BY <1>1, <1>2 DEF CallOK
<1>5. RowsOK'
  BY <1>1, <1>2 DEF RowsOK
<1> QED
  BY <1>3, <1>4, <1>5

(* Between the question and the row it ends in, the numbers stay those of  *)
(* the task asked for; that is FrameIInv, and every step keeps it.         *)
THEOREM FrameInductive == TopSpec => []FrameIInv
<1>1. FrameIInv /\ [TopNext]_topVars => FrameIInv'
  <2> SUFFICES ASSUME FrameIInv, TopNext \/ UNCHANGED topVars PROVE FrameIInv'
    OBVIOUS
  <2>1. IInv'
    BY ClientIInv DEF FrameIInv
  <2> QED
    BY <2>1, NetFrameIInv, MonitorFrameIInv, OtherFrameIInv DEF FrameIInv, TopNext, Program
<1> QED
  BY <1>1, InitFrameIInv, PTL DEF TopSpec

(* A frame has the numbers of a task in the row of its id, and nothing is  *)
(* left in the socket that the next round might take for its own.          *)
THEOREM FramesHaveTheirNumbers == TopSpec => []FrameHasItsNumbers
<1>1. FrameIInv => FrameHasItsNumbers
  <2> SUFFICES ASSUME FrameIInv, main_pc \in {"print", "draw", "clear"}
               PROVE  /\ rcvq = <<>> /\ to_ask = {}
                      /\ \A r \in rows : r.id \in EntryIds /\ r.numbers_of = r.id
    BY DEF FrameHasItsNumbers, EntryIds
  <2>1. pc = "idle"
    BY DEF FrameIInv, CallOK
  <2> QED
    BY <2>1 DEF FrameIInv, IInv, SocketOK, RowsOK
<1> QED
  BY <1>1, FrameInductive, PTL

(* The client of the whole program is NetlinkIoStats, so it implements     *)
(* TaskQuery there as well.                                                *)
THEOREM ClientImplementation == TopSpec => Spec /\ ImplementsTaskQuery
<1>1. TopInit => Init
  BY DEF TopInit
<1>2. [TopNext]_topVars => [Next]_vars
  BY StepsOfTheClient
<1>3. TopSpec => Spec
  BY <1>1, <1>2, PTL DEF TopSpec, Spec
<1> QED
  BY <1>3, QueryImplementation, PTL

-----------------------------------------------------------------------------
(* The screen                                                              *)

(* Step by step, fairness aside, the program does what IoRunner says.      *)
THEOREM RunnerImplementation == TopSpec => R!Spec
<1>1. TopInit => R!Init
  BY DEF TopInit
<1>2. [TopNext]_topVars => [R!Next]_(R!vars)
  <2> SUFFICES ASSUME TopNext \/ UNCHANGED topVars PROVE R!Next \/ UNCHANGED R!vars
    BY DEF R!vars
  <2>1. CASE \/ NetOwn \/ NetSend \/ NetFills \/ NetDrains \/ List \/ Emplace
             \/ (\E task \in Asks : Ask(task)) \/ UNCHANGED topVars
    BY <2>1 DEF NetOwn, NetSend, NetFills, NetDrains, List, Emplace, Ask, topVars,
                runnerVars, R!vars, terminalVars, R!terminalVars
  <2>2. CASE MonitorInit \/ BeginCollect \/ EndCollect \/ OnScreen \/ Killed
    BY <2>2 DEF MonitorInit, BeginCollect, EndCollect, OnScreen, Killed, R!Next, R!Main
  <2> QED
    BY <2>1, <2>2 DEF TopNext, Program
<1> QED
  BY <1>1, <1>2, PTL DEF TopSpec, R!Spec

(* Either the next refresh paints everything anew, or nobody has printed   *)
(* what curses does not know of.                                           *)
ScreenOK ==
  /\ stdscr \in [text : {"none", "frame"}, message : BOOLEAN]
  /\ shown \in [text : {"shell", "frame"}, message : BOOLEAN, stray : BOOLEAN]
  /\ caps \in R!Caps /\ mode \in {"shell", "curses"}
  /\ started \in BOOLEAN /\ clearok \in BOOLEAN
  /\ main_pc \in {"monitor_init", "initscr", "set_visibility", "colors", "pairs", "close",
                  "collect", "print", "draw", "clear", "sleep", "ended", "aborted"}
  /\ main_pc \in {"collect", "print", "draw", "sleep"} => mode = "shell" \/ clearok
  /\ main_pc = "draw" => stdscr.text = "frame"
  /\ stdscr.message => ~caps.colors
  /\ FrameIsClean

(* Every step of IoRunner keeps what makes a frame clean.                  *)
LEMMA ScreenStep == ScreenOK /\ [R!Next]_(R!vars) => ScreenOK'
<1> SUFFICES ASSUME ScreenOK, R!Next \/ UNCHANGED R!vars PROVE ScreenOK'
  BY DEF R!vars
<1> USE DEF ScreenOK, FrameIsClean, R!FrameIsClean
<1>1. CASE UNCHANGED R!vars
  BY <1>1 DEF R!vars, R!terminalVars
<1>2. CASE R!InitMonitor \/ R!Sleep \/ R!Interrupt
  BY <1>2 DEF R!InitMonitor, R!Sleep, R!Interrupt, R!terminalVars
<1>3. CASE R!OpenTerminal
  BY <1>3 DEF R!OpenTerminal, R!Initscr, R!terminalVars
<1>4. CASE R!SetVisibility
  BY <1>4 DEF R!SetVisibility, R!ErrorCheck, R!terminalVars
<1>5. CASE R!SetColors
  BY <1>5 DEF R!SetColors, R!StartColor, R!PrintMessage, R!ColorPair
<1>11. CASE R!SetPairs
  BY <1>11 DEF R!SetPairs, R!InitColorPair, R!ColorPair
<1>6. CASE R!CloseTerminal
  BY <1>6 DEF R!CloseTerminal, R!DestroyTerminal
<1>7. CASE R!Collect
  BY <1>7 DEF R!Collect, R!StrayText, R!terminalVars
<1>8. CASE R!PrintData
  BY <1>8 DEF R!PrintData, R!PrintFrame, R!ColorPair
<1>9. CASE R!Draw
  BY <1>9 DEF R!Draw, R!Wrefresh
<1>10. CASE R!Clear
  BY <1>10 DEF R!Clear, R!WindowClear, R!Nothing
<1> QED
  BY <1>1, <1>2, <1>3, <1>4, <1>5, <1>6, <1>7, <1>8, <1>9, <1>10, <1>11 DEF R!Next, R!Main

THEOREM ScreenInductive == TopSpec => []ScreenOK
<1>1. R!Init => ScreenOK
  <2> SUFFICES ASSUME R!Init PROVE ScreenOK
    OBVIOUS
  <2>1. stdscr = [text |-> "none", message |-> FALSE]
        /\ shown = [text |-> "shell", message |-> FALSE, stray |-> FALSE]
    BY DEF R!Init, R!TerminalInit, R!Nothing
  <2>2. /\ caps \in R!Caps /\ mode = "shell" /\ started = FALSE /\ clearok = FALSE
        /\ main_pc = "monitor_init"
    BY DEF R!Init, R!TerminalInit
  <2> QED
    BY <2>1, <2>2 DEF ScreenOK, FrameIsClean, R!FrameIsClean
<1> QED
  BY <1>1, ScreenStep, RunnerImplementation, PTL DEF R!Spec

(* A frame that has just been drawn is alone on the screen.                *)
THEOREM FramesAreClean == TopSpec => []FrameIsClean
<1>1. ScreenOK => FrameIsClean
  BY DEF ScreenOK
<1> QED
  BY <1>1, ScreenInductive, PTL

-----------------------------------------------------------------------------
(* The registry of colour pairs                                            *)

Colors == R!Range(R!Foregrounds)

(* What is in the registry, and what curses has made of it; the pairs of   *)
(* the constructor are the first, and come after start_color.              *)
RegistryOK ==
  /\ initialized_pairs \in Seq(Colors)
  /\ pairs \in Seq(Colors \cup {"unset"})
  /\ Len(pairs) = Len(initialized_pairs)
  /\ R!IsInjective(initialized_pairs)
  /\ caps.default_colors => caps.colors /\ pairs = initialized_pairs
  /\ main_pc \in {"monitor_init", "initscr", "set_visibility", "colors"} =>
       initialized_pairs = <<>>
  /\ main_pc = "pairs" => Len(initialized_pairs) < Len(R!Foregrounds)
  /\ caps.colors /\ main_pc \in {"pairs", "close", "collect", "print", "draw", "clear", "sleep"} =>
       started

LEMMA ForegroundsAreColors ==
  /\ Len(R!Foregrounds) = 7
  /\ \A n \in 1 .. 7 : R!Foregrounds[n] \in Colors
  /\ "white" \in Colors
BY DEF Colors, R!Range, R!Foregrounds

(* One more pair leaves the registry without repetitions and in step.      *)
LEMMA ColorPairStep ==
  ASSUME NEW fg \in Colors, R!ColorPair(fg),
         initialized_pairs \in Seq(Colors),
         pairs \in Seq(Colors \cup {"unset"}),
         Len(pairs) = Len(initialized_pairs),
         R!IsInjective(initialized_pairs),
         caps.default_colors => started /\ pairs = initialized_pairs
  PROVE  /\ initialized_pairs' \in Seq(Colors)
         /\ pairs' \in Seq(Colors \cup {"unset"})
         /\ Len(pairs') = Len(initialized_pairs')
         /\ Len(initialized_pairs') \in Len(initialized_pairs) .. Len(initialized_pairs) + 1
         /\ R!IsInjective(initialized_pairs')
         /\ caps.default_colors => pairs' = initialized_pairs'
         /\ started' = started
<1>1. CASE fg \in R!Range(initialized_pairs)
  BY <1>1 DEF R!ColorPair, R!Registered
<1>2. CASE fg \notin R!Range(initialized_pairs)
  <2>1. initialized_pairs' = Append(initialized_pairs, fg) /\ started' = started
    BY <1>2 DEF R!ColorPair, R!Registered
  <2>2. pairs' = Append(pairs, IF started /\ caps.default_colors THEN fg ELSE "unset")
    BY <1>2 DEF R!ColorPair
  <2>3. initialized_pairs' \in Seq(Colors) /\ pairs' \in Seq(Colors \cup {"unset"})
    BY <2>1, <2>2
  <2>4. Len(pairs') = Len(pairs) + 1 /\ Len(initialized_pairs') = Len(initialized_pairs) + 1
    BY <2>1, <2>2
  <2>5. \A n \in DOMAIN initialized_pairs : initialized_pairs[n] # fg
    BY <1>2 DEF R!Range
  <2>6. R!IsInjective(initialized_pairs')
    BY <2>1, <2>5 DEF R!IsInjective
  <2> QED
    BY <2>1, <2>2, <2>3, <2>4, <2>6
<1> QED
  BY <1>1, <1>2

(* Every step of IoRunner keeps the registry in step.                      *)
LEMMA RegistryStep == RegistryOK /\ [R!Next]_(R!vars) => RegistryOK'
<1> SUFFICES ASSUME RegistryOK, R!Next \/ UNCHANGED R!vars PROVE RegistryOK'
  BY DEF R!vars
<1>1. CASE UNCHANGED R!vars
  BY <1>1 DEF RegistryOK, R!vars, R!terminalVars
<1>2. CASE R!InitMonitor \/ R!Sleep \/ R!Interrupt
  BY <1>2 DEF RegistryOK, R!InitMonitor, R!Sleep, R!Interrupt, R!terminalVars
<1>3. CASE R!OpenTerminal
  BY <1>3 DEF RegistryOK, R!OpenTerminal, R!Initscr, R!terminalVars
<1>4. CASE R!SetVisibility
  BY <1>4 DEF RegistryOK, R!SetVisibility, R!ErrorCheck, R!terminalVars
<1>5. CASE R!SetColors
  <2>1. CASE R!StartColor /\ main_pc' = "pairs"
    BY <1>5, <2>1, ForegroundsAreColors DEF RegistryOK, R!SetColors, R!StartColor
  <2>2. CASE R!PrintMessage /\ main_pc' = "close"
    <3>1. R!ColorPair("white") /\ ~caps.colors /\ caps' = caps
      BY <2>2 DEF R!PrintMessage
    <3> QED
      BY <2>2, <3>1, ColorPairStep, ForegroundsAreColors DEF RegistryOK
  <2> QED
    BY <1>5, <2>1, <2>2 DEF R!SetColors
<1>6. CASE R!CloseTerminal
  BY <1>6 DEF RegistryOK, R!CloseTerminal, R!DestroyTerminal
<1>7. CASE R!Collect
  BY <1>7 DEF RegistryOK, R!Collect, R!StrayText, R!terminalVars
<1>8. CASE R!PrintData
  <2>1. R!ColorPair("white") /\ caps' = caps /\ main_pc = "print" /\ main_pc' = "draw"
    BY <1>8 DEF R!PrintData, R!PrintFrame
  <2> QED
    BY <2>1, ColorPairStep, ForegroundsAreColors DEF RegistryOK
<1>9. CASE R!Draw
  BY <1>9 DEF RegistryOK, R!Draw, R!Wrefresh
<1>10. CASE R!Clear
  BY <1>10 DEF RegistryOK, R!Clear, R!WindowClear
<1>11. CASE R!SetPairs
  <2> DEFINE fg == R!Foregrounds[Len(initialized_pairs) + 1]
  <2>1. /\ R!ColorPair(fg) /\ caps' = caps /\ main_pc = "pairs"
        /\ main_pc' = IF Len(initialized_pairs') = Len(R!Foregrounds) THEN "close" ELSE "pairs"
    BY <1>11 DEF R!SetPairs, R!InitColorPair
  <2>2. Len(initialized_pairs) \in Nat /\ Len(initialized_pairs) < 7
    BY <2>1, ForegroundsAreColors DEF RegistryOK
  <2>3. fg \in Colors
    BY <2>2, ForegroundsAreColors
  <2> HIDE DEF fg
  <2>4. /\ initialized_pairs' \in Seq(Colors)
        /\ pairs' \in Seq(Colors \cup {"unset"})
        /\ Len(pairs') = Len(initialized_pairs')
        /\ Len(initialized_pairs') \in Len(initialized_pairs) .. Len(initialized_pairs) + 1
        /\ R!IsInjective(initialized_pairs')
        /\ caps.default_colors => pairs' = initialized_pairs'
        /\ started' = started
    BY <2>1, <2>3, ColorPairStep DEF RegistryOK
  <2>5. main_pc' \in {"pairs", "close"}
        /\ (main_pc' = "pairs" => Len(initialized_pairs') < Len(R!Foregrounds))
    BY <2>1, <2>2, <2>4, ForegroundsAreColors
  <2> QED
    BY <2>1, <2>4, <2>5 DEF RegistryOK
<1> QED
  BY <1>1, <1>2, <1>3, <1>4, <1>5, <1>6, <1>7, <1>8, <1>9, <1>10, <1>11 DEF R!Next, R!Main

THEOREM RegistryInductive == TopSpec => []RegistryOK
<1>1. R!Init => RegistryOK
  BY DEF R!Init, R!TerminalInit, RegistryOK, R!IsInjective
<1> QED
  BY <1>1, RegistryStep, RunnerImplementation, PTL DEF R!Spec

(* Wherever the terminal can have them, curses has the pairs that the      *)
(* registry says are initialised.                                          *)
THEOREM RegistryStaysInStep == TopSpec => []RegistryInStep
<1>1. RegistryOK => RegistryInStep
  BY DEF RegistryOK, RegistryInStep, R!RegistryInStep
<1> QED
  BY <1>1, RegistryInductive, PTL

-----------------------------------------------------------------------------
(* Types                                                                   *)

TypesOK ==
  /\ task_ids \subseteq Tasks /\ thread_ids \subseteq Tasks
  /\ to_ask \subseteq Asks
  /\ handling \in Asks \cup {NoTask}
  /\ handling # NoTask => list_pc = <<"idle", "proc">>
  /\ rows \subseteq [id : Tasks, is_pid : BOOLEAN,
                    numbers_of : Tasks \cup {NoTask}, is_updated : BOOLEAN]

(* A name is taken for a task's just when it is one.                       *)
LEMMA AcceptedTasks ==
  ASSUME NEW e \in Entries
  PROVE  Accepted(e) <=> NamesTask(e)
<1>1. e.type \in {"DT_DIR", "DT_UNKNOWN", "DT_REG"}
  BY TaskListAssumption, Zenon
<1> QED
  BY <1>1 DEF Accepted, NamesTask

(* A list gets the ids of the entries that are taken for tasks.            *)
LEMMA ListedAreTasks ==
  ASSUME ListOK, NEW level \in Levels, ListStep(level),
         task_ids \subseteq Tasks, thread_ids \subseteq Tasks
  PROVE  task_ids' \subseteq Tasks /\ thread_ids' \subseteq Tasks
<1>1. CASE ReadEntry(level)
  <2>1. PICK e \in unread[level] :
          IF ~Accepted(e) THEN UNCHANGED <<list_pc, thread_ids, task_ids>>
          ELSE IF level = "proc"
          THEN thread_ids' = {} /\ task_ids' = task_ids \cup {e.id}
          ELSE thread_ids' = thread_ids \cup {e.id} /\ task_ids' = task_ids
    BY <1>1 DEF ReadEntry
  <2>2. Accepted(e) => e.id \in Tasks
    BY TopAssumption, AcceptedTasks DEF ListOK
  <2> QED
    BY <2>1, <2>2
<1>2. CASE ~ReadEntry(level)
  BY <1>2 DEF ListStep, Open, OpenFails, Fdopendir, FdopendirFails, Closedir, CloseAgain, Done
<1> QED
  BY <1>1, <1>2

LEMMA TypesStep ==
  ASSUME FrameIInv, TypesOK, TopNext \/ UNCHANGED topVars
  PROVE  TypesOK'
<1>1. CASE BeginCollect
  <2>1. /\ BeginList /\ UNCHANGED <<to_ask, handling>> /\ rows' = {}
        /\ main_pc \in {"close", "sleep"}
    BY <1>1 DEF BeginCollect, R!CloseTerminal, R!Sleep
  <2>2. handling = NoTask
    BY <2>1 DEF FrameIInv, CallOK
  <2> QED
    BY <2>1, <2>2 DEF TypesOK, BeginList
<1>2. CASE List
  <2>1. PICK level \in Levels : ListStep(level)
    BY <1>2 DEF List
  <2>2. /\ UNCHANGED <<handling, rows>>
        /\ to_ask' = to_ask \cup [id : task_ids', is_pid : {TRUE}]
                            \cup [id : thread_ids', is_pid : {FALSE}]
    BY <1>2 DEF List
  <2>3. task_ids' \subseteq Tasks /\ thread_ids' \subseteq Tasks
    BY <2>1, ListedAreTasks DEF FrameIInv, TypesOK
  <2>4. list_pc # <<"idle", "proc">>
    BY <2>1 DEF ListStep, Open, OpenFails, Fdopendir, FdopendirFails, ReadEntry, Closedir,
                CloseAgain
  <2>5. to_ask' \subseteq Asks
    BY <2>2, <2>3 DEF TypesOK, Asks
  <2> QED
    BY <2>2, <2>3, <2>4, <2>5 DEF TypesOK
<1>3. ASSUME NEW task \in Asks, Ask(task) PROVE TypesOK'
  BY <1>3 DEF Ask, TypesOK, listVars
<1>4. CASE Emplace
  <2>1. /\ handling # NoTask /\ handling' = NoTask
        /\ UNCHANGED <<listVars, to_ask>>
        /\ rows' \subseteq rows \cup {NewRow(code = 0)}
    BY <1>4 DEF Emplace
  <2>2. row \in Tasks \cup {NoTask}
    BY DEF FrameIInv, IInv, TypeOK
  <2>3. handling.id \in Tasks /\ handling.is_pid \in BOOLEAN
    BY <2>1 DEF TypesOK, Asks
  <2>4. NewRow(code = 0) \in [id : Tasks, is_pid : BOOLEAN,
                             numbers_of : Tasks \cup {NoTask}, is_updated : BOOLEAN]
    BY <2>2, <2>3 DEF NewRow
  <2> QED
    BY <2>1, <2>4 DEF TypesOK, listVars
<1>5. CASE EndCollect
  BY <1>5 DEF EndCollect, TypesOK, listVars
<1>6. CASE \/ NetOwn \/ NetSend \/ NetFills \/ NetDrains \/ MonitorInit \/ OnScreen \/ Killed
           \/ UNCHANGED topVars
  <2>1. UNCHANGED <<listVars, to_ask, handling, rows>>
    BY <1>6 DEF NetOwn, NetSend, NetFills, NetDrains, MonitorInit, OnScreen, Killed, topVars,
                monitorVars
  <2> QED
    BY <2>1 DEF TypesOK, listVars
<1> QED
  BY <1>1, <1>2, <1>3, <1>4, <1>5, <1>6 DEF TopNext, Program

THEOREM TypesInductive == TopSpec => []TypesOK
<1>1. TopInit => TypesOK
  BY DEF TopInit, ListInit, TypesOK
<1>2. FrameIInv /\ TypesOK /\ [TopNext]_topVars => TypesOK'
  BY TypesStep
<1> QED
  BY <1>1, <1>2, FrameInductive, PTL DEF TopSpec

(* The whole program's state is well formed: the registry has every colour *)
(* once, and the client is at work only for the row being made, in a       *)
(* collection whose lists are finished.                                    *)
THEOREM TopTypeCorrect == TopSpec => []TopTypeOK
<1>1. FrameIInv /\ ScreenOK /\ RegistryOK /\ TypesOK => TopTypeOK
  <2> SUFFICES ASSUME FrameIInv, ScreenOK, RegistryOK, TypesOK PROVE TopTypeOK
    OBVIOUS
  <2>1. R!Range(initialized_pairs) \subseteq R!Range(R!Foregrounds)
    BY DEF RegistryOK, R!Range, Colors
  <2>2. DOMAIN pairs = DOMAIN initialized_pairs /\ R!IsInjective(initialized_pairs)
    BY DEF RegistryOK
  <2>3. R!TypeOK
    BY <2>1, <2>2 DEF ScreenOK, R!TypeOK
  <2>4. asked # NoTask => /\ main_pc \in {"collect", "ended"} /\ handling.id = asked
                          /\ list_pc = <<"idle", "proc">>
    BY DEF FrameIInv, IInv, TypeOK, CallOK, TypesOK
  <2>5. main_pc \notin {"monitor_init", "ended"} =>
          pc \notin {"init_sock", "init_send", "init_recv", "failed"}
    BY DEF FrameIInv, CallOK
  <2> QED
    BY <2>3, <2>4, <2>5 DEF TopTypeOK, TypesOK
<1> QED
  BY <1>1, FrameInductive, ScreenInductive, RegistryInductive, TypesInductive, PTL

-----------------------------------------------------------------------------
(* The descriptors and the lists: none is lost or closed for somebody      *)
(* else, and the list names the tasks.                                     *)

Phases == {"idle", "open", "fdopendir", "read", "close"}

At(phase, level) == list_pc = <<phase, level>>

(* Which directories are open, and which have been.                        *)
IsOpen(level) ==
  \/ At("fdopendir", level) \/ At("read", level)
  \/ level = "proc" /\ (\E phase \in Phases : At(phase, "task"))
HasOpened(level) == IsOpen(level) \/ At("close", level)

Spare(fd) == fd \in Fds /\ AtRest[fd] = "free"

(* The descriptors are those at rest and those of the open directories.    *)
FdsOK ==
  /\ \E phase \in Phases, level \in Levels : At(phase, level)
  /\ ~At("idle", "task")
  /\ fds = [fd \in Fds |->
              IF IsOpen("task") /\ fd = dir_fd["task"] THEN "task"
              ELSE IF IsOpen("proc") /\ fd = dir_fd["proc"] THEN "proc"
              ELSE AtRest[fd]]
  /\ \A level \in Levels : HasOpened(level) => Spare(dir_fd[level])
  /\ HasOpened("task") => dir_fd["task"] # dir_fd["proc"]
  /\ dir_fd \in [Levels -> Int]

(* The socket has its descriptor.                                          *)
LEMMA ThereIsASocket == 3 \in Fds /\ AtRest[3] = "socket"
<1>1. MaxFd \in Nat /\ MaxFd >= 3
  BY TaskListAssumption, Zenon
<1> QED
  BY <1>1 DEF Fds, AtRest

LEMMA InitFds == ListInit => FdsOK
<1> SUFFICES ASSUME ListInit PROVE FdsOK
  OBVIOUS
<1>1. At("idle", "proc") /\ ~HasOpened("proc") /\ ~HasOpened("task")
  BY DEF ListInit, At, HasOpened, IsOpen
<1>2. fds = AtRest /\ dir_fd \in [Levels -> Int] /\ AtRest = [fd \in Fds |-> AtRest[fd]]
  BY DEF ListInit, AtRest
<1> QED
  BY <1>1, <1>2 DEF FdsOK, HasOpened, At, Phases, Levels

(* What each descriptor is, one by one.                                    *)
LEMMA Descriptors ==
  ASSUME FdsOK
  PROVE  /\ fds = [fd \in Fds |-> fds[fd]]
         /\ \A fd \in Fds :
              fds[fd] = IF IsOpen("task") /\ fd = dir_fd["task"] THEN "task"
                        ELSE IF IsOpen("proc") /\ fd = dir_fd["proc"] THEN "proc"
                        ELSE AtRest[fd]
BY DEF FdsOK

LEMMA FdsImply == FdsOK => DescriptorsKept
<1> SUFFICES ASSUME FdsOK PROVE DescriptorsKept
  OBVIOUS
<1>1. fds[3] = "socket"
  BY ThereIsASocket DEF FdsOK, HasOpened, Spare, Levels
<1>2. ASSUME NEW level \in Levels, At("fdopendir", level) \/ At("read", level)
      PROVE  fds[dir_fd[level]] = level
  BY <1>2 DEF FdsOK, HasOpened, IsOpen, Spare, At, Levels
<1>3. ASSUME NEW level \in Levels, At("close", level)
      PROVE  fds[dir_fd[level]] = "free"
  BY <1>3 DEF FdsOK, HasOpened, IsOpen, Spare, At, Levels, Phases
<1>4. ASSUME list_pc[2] = "task" PROVE fds[dir_fd["proc"]] = "proc"
  BY <1>4 DEF FdsOK, HasOpened, IsOpen, Spare, At, Levels, Phases
<1>5. ASSUME At("idle", "proc") PROVE fds = AtRest
  BY <1>5 DEF FdsOK, IsOpen, At, Levels, Phases, AtRest
<1> QED
  BY <1>1, <1>2, <1>3, <1>4, <1>5 DEF DescriptorsKept, At

(* The new descriptor was free, so it is neither a standard one, nor the   *)
(* socket's, nor the other level's.                                        *)
LEMMA OpenFds ==
  ASSUME FdsOK, NEW level \in Levels, Open(level)
  PROVE  FdsOK'
<1>1. PICK fd \in Free : fds' = [fds EXCEPT ![fd] = level] /\ dir_fd' = [dir_fd EXCEPT ![level] = fd]
  BY DEF Open
<1>2. At("open", level) /\ At("fdopendir", level)'
  BY DEF Open, At
<1>3. fd \in Fds /\ fds[fd] = "free" /\ fd \in Int
  BY DEF Free, Fds
<1>4. Spare(fd) /\ (level = "task" => fd # dir_fd["proc"])
  BY <1>2, <1>3 DEF FdsOK, HasOpened, IsOpen, Spare, At, Levels, Phases
<1> QED
  BY <1>1, <1>2, <1>3, <1>4 DEF FdsOK, HasOpened, IsOpen, Spare, At, Levels, Phases

LEMMA FdopendirFds ==
  ASSUME FdsOK, NEW level \in Levels, Fdopendir(level)
  PROVE  FdsOK'
<1>1. At("fdopendir", level) /\ At("read", level)'
  BY DEF Fdopendir, At
<1>2. fds' = fds /\ dir_fd' = dir_fd
  BY DEF Fdopendir
<1> QED
  BY <1>1, <1>2 DEF FdsOK, HasOpened, IsOpen, Spare, At, Levels, Phases

(* closedir frees the level's descriptor, which no other directory has.    *)
LEMMA ClosedirFds ==
  ASSUME FdsOK, NEW level \in Levels, Closedir(level)
  PROVE  FdsOK'
<1>1. At("read", level) /\ At("close", level)'
  BY DEF Closedir, At
<1>2. fds' = [fds EXCEPT ![dir_fd[level]] = "free"] /\ dir_fd' = dir_fd
  BY DEF Closedir, Closed
<1>3. AtRest[dir_fd[level]] = "free" /\ dir_fd[level] \in Fds
  BY <1>1 DEF FdsOK, HasOpened, IsOpen, Spare, At, Levels, Phases
<1>4. level = "task" => dir_fd["task"] # dir_fd["proc"]
  BY <1>1 DEF FdsOK, HasOpened, IsOpen, At, Levels
<1> QED
  BY <1>1, <1>2, <1>3, <1>4 DEF FdsOK, HasOpened, IsOpen, Spare, At, Levels, Phases

(* The end of a level whose directory is closed.                           *)
LEMMA DoneFds ==
  ASSUME FdsOK, NEW level \in Levels, Done(level),
         \/ At("open", level) /\ fds' = fds
         \/ (At("fdopendir", level) \/ At("close", level)) /\ fds' = Closed(dir_fd[level])
  PROVE  FdsOK'
<1>1. dir_fd' = [dir_fd EXCEPT ![level] = -1]
      /\ (level = "proc" => At("idle", "proc")') /\ (level = "task" => At("read", "proc")')
  BY DEF Done, At, Levels
<1>2. ASSUME At("open", level) PROVE FdsOK'
  <2>1. fds' = fds
    BY <1>2 DEF At
  <2> QED
    BY <1>1, <1>2, <2>1 DEF FdsOK, HasOpened, IsOpen, Spare, At, Levels, Phases
<1>3. ASSUME At("fdopendir", level) \/ At("close", level) PROVE FdsOK'
  <2>1. fds' = [fds EXCEPT ![dir_fd[level]] = "free"]
    BY <1>3 DEF At, Closed
  <2>2. AtRest[dir_fd[level]] = "free" /\ dir_fd[level] \in Fds
    BY <1>3 DEF FdsOK, HasOpened, IsOpen, Spare, At, Levels, Phases
  <2>3. level = "task" => dir_fd["task"] # dir_fd["proc"]
    BY <1>3 DEF FdsOK, HasOpened, IsOpen, At, Levels
  <2>4. CASE level = "proc"
    <3>1. At("idle", "proc")' /\ ~HasOpened("proc")' /\ ~HasOpened("task")'
      BY <1>1, <2>4 DEF At, HasOpened, IsOpen
    <3>2. ~IsOpen("task")
      BY <1>3, <2>4 DEF At, IsOpen
    <3>3. fds' = AtRest
      <4>1. \A fd \in Fds : fds'[fd] = AtRest[fd]
        BY <2>1, <2>2, <2>4, <3>2, Descriptors
      <4>2. fds' = [fd \in Fds |-> fds'[fd]] /\ AtRest = [fd \in Fds |-> AtRest[fd]]
        BY <2>1, Descriptors DEF AtRest
      <4> QED
        BY <4>1, <4>2
    <3>4. dir_fd' \in [Levels -> Int] /\ AtRest = [fd \in Fds |-> AtRest[fd]]
      BY <1>1 DEF FdsOK, AtRest
    <3> QED
      BY <3>1, <3>3, <3>4 DEF FdsOK, HasOpened, At, Levels, Phases
  <2>5. CASE level = "task"
    <3>1. At("read", "proc")' /\ IsOpen("proc")' /\ ~HasOpened("task")'
      BY <1>1, <2>5 DEF At, HasOpened, IsOpen
    <3>2. HasOpened("proc") /\ IsOpen("proc")
      BY <1>3, <2>5 DEF At, HasOpened, IsOpen, Phases
    <3>3. dir_fd'["proc"] = dir_fd["proc"] /\ Spare(dir_fd["proc"]) /\ dir_fd' \in [Levels -> Int]
      BY <1>1, <2>5, <3>2 DEF FdsOK, Levels
    <3>4. fds' = [fd \in Fds |-> IF fd = dir_fd'["proc"] THEN "proc" ELSE AtRest[fd]]
      <4>1. \A fd \in Fds : fds'[fd] = IF fd = dir_fd'["proc"] THEN "proc" ELSE AtRest[fd]
        BY <2>1, <2>2, <2>3, <2>5, <3>2, <3>3, Descriptors
      <4>2. fds' = [fd \in Fds |-> fds'[fd]]
        BY <2>1, Descriptors
      <4> QED
        BY <4>1, <4>2
    <3> QED
      BY <3>1, <3>3, <3>4 DEF FdsOK, HasOpened, IsOpen, Spare, At, Levels, Phases
  <2> QED
    BY <2>4, <2>5 DEF Levels
<1> QED
  BY <1>2, <1>3

(* Reading leaves the descriptors alone; a process's threads are next.     *)
LEMMA ReadEntryFds ==
  ASSUME FdsOK, NEW level \in Levels, ReadEntry(level)
  PROVE  FdsOK'
<1>1. fds' = fds /\ dir_fd' = dir_fd /\ At("read", level)
  BY DEF ReadEntry, At
<1>2. At("read", level)' \/ (level = "proc" /\ At("open", "task")')
  BY DEF ReadEntry, At
<1> QED
  BY <1>1, <1>2 DEF FdsOK, HasOpened, IsOpen, Spare, At, Levels, Phases

LEMMA BeginListFds ==
  ASSUME FdsOK, BeginList
  PROVE  FdsOK'
<1>1. fds' = fds /\ dir_fd' = dir_fd /\ At("idle", "proc") /\ At("open", "proc")'
  BY DEF BeginList, At
<1> QED
  BY <1>1 DEF FdsOK, HasOpened, IsOpen, Spare, At, Levels, Phases

(* Every step of either level keeps the descriptors in order.              *)
LEMMA ListStepFds ==
  ASSUME FdsOK, NEW level \in Levels, ListStep(level)
  PROVE  FdsOK'
<1>1. CASE Open(level)
  BY <1>1, OpenFds
<1>2. CASE OpenFails(level)
  BY <1>2, DoneFds DEF OpenFails, At
<1>3. CASE Fdopendir(level)
  BY <1>3, FdopendirFds
<1>4. CASE FdopendirFails(level)
  BY <1>4, DoneFds DEF FdopendirFails, At
<1>5. CASE ReadEntry(level)
  BY <1>5, ReadEntryFds
<1>6. CASE Closedir(level)
  BY <1>6, ClosedirFds
<1>7. CASE CloseAgain(level)
  BY <1>7, DoneFds DEF CloseAgain, At
<1> QED
  BY <1>1, <1>2, <1>3, <1>4, <1>5, <1>6, <1>7 DEF ListStep

(* What leaves the lists alone.                                            *)
LEMMA ListStays == FdsOK /\ UNCHANGED listVars => FdsOK'
  BY DEF listVars, FdsOK, HasOpened, IsOpen, At

-----------------------------------------------------------------------------
(* What has been listed                                                    *)

NowReading ==
  \/ At("read", "proc") \/ At("close", "proc")
  \/ \E phase \in Phases : At(phase, "task")

(* The tasks among the names that readdir has come to.                     *)
IdsOK ==
  /\ unread \in [Levels -> SUBSET Entries]
  /\ At("open", "proc") \/ At("fdopendir", "proc") => task_ids = {}
  /\ NowReading =>
       /\ unread["proc"] \subseteq held
       /\ held \subseteq Entries
       /\ task_ids = {e.id : e \in {e \in held \ unread["proc"] : Accepted(e)}}
  /\ At("fdopendir", "proc") \/ At("open", "proc") => held \subseteq Entries
  /\ At("close", "proc") => unread["proc"] = {}

LEMMA InitIds == ListInit => IdsOK
  BY DEF ListInit, IdsOK, NowReading, At, Phases, Levels

LEMMA IdsImply == IdsOK => ListsTheTasks
<1> SUFFICES ASSUME IdsOK, At("close", "proc")
             PROVE  task_ids = {e.id : e \in {e \in held : NamesTask(e)}}
  BY DEF ListsTheTasks, At
<1>1. task_ids = {e.id : e \in {e \in held : Accepted(e)}} /\ held \subseteq Entries
  BY DEF IdsOK, NowReading
<1>2. {e \in held : Accepted(e)} = {e \in held : NamesTask(e)}
  BY <1>1, AcceptedTasks
<1> QED
  BY <1>1, <1>2

(* Of the names of /proc one more has been read, and its id is in the list *)
(* if and only if it is a task's; names of threads are not in it.          *)
LEMMA ReadEntryIds ==
  ASSUME IdsOK, NEW level \in Levels, ReadEntry(level)
  PROVE  IdsOK'
<1>1. PICK e \in unread[level] :
        /\ unread' = [unread EXCEPT ![level] = @ \ {e}]
        /\ IF ~Accepted(e) THEN UNCHANGED <<list_pc, thread_ids, task_ids>>
           ELSE IF level = "proc"
           THEN /\ list_pc' = <<"open", "task">>
                /\ thread_ids' = {}
                /\ task_ids' = task_ids \cup {e.id}
           ELSE /\ thread_ids' = thread_ids \cup {e.id}
                /\ UNCHANGED <<list_pc, task_ids>>
  BY DEF ReadEntry
<1>2. At("read", level) /\ held' = held
  BY DEF ReadEntry, At
<1>3. NowReading /\ NowReading'
  BY <1>1, <1>2 DEF NowReading, At, Phases, Levels
<1>4. unread' \in [Levels -> SUBSET Entries]
  BY <1>1 DEF IdsOK
<1>5. ~At("open", "proc")' /\ ~At("fdopendir", "proc")' /\ ~At("close", "proc")'
  BY <1>1, <1>2 DEF At
<1>6. CASE level = "task"
  <2>1. unread'["proc"] = unread["proc"] /\ task_ids' = task_ids
    BY <1>1, <1>6 DEF IdsOK, Levels
  <2> QED
    BY <1>2, <1>3, <1>4, <1>5, <2>1 DEF IdsOK, Accepted
<1>7. CASE level = "proc"
  <2>1. unread'["proc"] = unread["proc"] \ {e} /\ e \in held
    BY <1>1, <1>3, <1>7 DEF IdsOK, Levels
  <2>2. task_ids' = IF Accepted(e) THEN task_ids \cup {e.id} ELSE task_ids
    BY <1>1, <1>7
  <2>3. held \ unread'["proc"] = (held \ unread["proc"]) \cup {e}
    BY <2>1
  <2>4. task_ids' = {d.id : d \in {d \in held \ unread'["proc"] : Accepted(d)}}
    BY <1>3, <2>2, <2>3 DEF IdsOK
  <2> QED
    BY <1>2, <1>3, <1>4, <1>5, <2>1, <2>4 DEF IdsOK, Accepted
<1> QED
  BY <1>6, <1>7 DEF Levels

(* Every step of either level keeps the list in step with what was read.   *)
LEMMA ListStepIds ==
  ASSUME IdsOK, NEW level \in Levels, ListStep(level)
  PROVE  IdsOK'
<1>1. CASE Open(level)
  BY <1>1 DEF Open, IdsOK, NowReading, At, Levels, Phases, Accepted
<1>2. CASE OpenFails(level)
  BY <1>2 DEF OpenFails, Done, IdsOK, NowReading, At, Levels, Phases, Accepted
<1>3. CASE Fdopendir(level)
  <2>1. PICK entries \in IF level = "proc" THEN {held} ELSE SUBSET Entries :
          unread' = [unread EXCEPT ![level] = entries]
    BY <1>3 DEF Fdopendir
  <2>2. At("fdopendir", level) /\ At("read", level)' /\ held' = held /\ task_ids' = task_ids
    BY <1>3 DEF Fdopendir, At
  <2>3. CASE level = "proc"
    <3>1. unread'["proc"] = held /\ task_ids' = {} /\ held \subseteq Entries
          /\ unread' \in [Levels -> SUBSET Entries]
      BY <2>1, <2>2, <2>3 DEF IdsOK, Levels
    <3>2. {e.id : e \in {e \in held \ held : Accepted(e)}} = {}
      OBVIOUS
    <3> QED
      BY <2>2, <2>3, <3>1, <3>2 DEF IdsOK, NowReading, At, Accepted
  <2>4. CASE level = "task"
    <3>1. unread'["proc"] = unread["proc"] /\ unread' \in [Levels -> SUBSET Entries]
      BY <2>1, <2>4 DEF IdsOK, Levels
    <3> QED
      BY <2>2, <2>4, <3>1 DEF IdsOK, NowReading, At, Accepted, Phases
  <2> QED
    BY <2>3, <2>4 DEF Levels
<1>4. CASE FdopendirFails(level)
  BY <1>4 DEF FdopendirFails, Done, IdsOK, NowReading, At, Levels, Phases, Accepted
<1>5. CASE ReadEntry(level)
  BY <1>5, ReadEntryIds
<1>6. CASE Closedir(level)
  BY <1>6 DEF Closedir, IdsOK, NowReading, At, Levels, Phases, Accepted
<1>7. CASE CloseAgain(level)
  BY <1>7 DEF CloseAgain, Done, IdsOK, NowReading, At, Levels, Phases, Accepted
<1> QED
  BY <1>1, <1>2, <1>3, <1>4, <1>5, <1>6, <1>7 DEF ListStep

LEMMA BeginListIds ==
  ASSUME IdsOK, BeginList
  PROVE  IdsOK'
  BY DEF BeginList, IdsOK, NowReading, At, Phases, Accepted

LEMMA ListStaysIds == IdsOK /\ UNCHANGED listVars => IdsOK'
  BY DEF listVars, IdsOK, NowReading, At, Accepted

-----------------------------------------------------------------------------
(* The theorems                                                            *)

(* The lists move with List, and begin with BeginCollect.                  *)
LEMMA ListMoves ==
  ASSUME [TopNext]_topVars
  PROVE  \/ UNCHANGED listVars
         \/ BeginList
         \/ \E level \in Levels : ListStep(level)
<1>1. CASE UNCHANGED topVars
  BY <1>1 DEF topVars
<1>2. CASE Program
  <2>1. NetOwn \/ MonitorInit \/ (\E task \in Asks : Ask(task)) \/ Emplace \/ EndCollect \/ OnScreen
        => UNCHANGED listVars
    BY DEF NetOwn, MonitorInit, Ask, Emplace, EndCollect, OnScreen
  <2>2. BeginCollect => BeginList
    BY DEF BeginCollect
  <2>3. List => \E level \in Levels : ListStep(level)
    BY DEF List
  <2> QED
    BY <1>2, <2>1, <2>2, <2>3 DEF Program
<1>3. CASE NetSend \/ NetFills \/ NetDrains \/ Killed
  BY <1>3 DEF NetSend, NetFills, NetDrains, Killed
<1> QED
  BY <1>1, <1>2, <1>3 DEF TopNext

(* Whatever fails while the directories of the tasks are read, each        *)
(* descriptor is closed, once, and nobody else's is (util.cpp:205-293).    *)
THEOREM DescriptorsAreKept == TopSpec => []DescriptorsKept
<1>1. TopInit => FdsOK
  BY InitFds DEF TopInit
<1>2. FdsOK /\ [TopNext]_topVars => FdsOK'
  BY ListMoves, ListStays, BeginListFds, ListStepFds
<1> QED
  BY <1>1, <1>2, FdsImply, PTL DEF TopSpec

(* Whatever the names in /proc are, the list that get_all_task_id makes has*)
(* the numbers of the tasks and nothing else (util.cpp:218-243).           *)
THEOREM TasksAreListed == TopSpec => []ListsTheTasks
<1>1. TopInit => IdsOK
  BY InitIds DEF TopInit
<1>2. IdsOK /\ [TopNext]_topVars => IdsOK'
  BY ListMoves, ListStaysIds, BeginListIds, ListStepIds
<1> QED
  BY <1>1, <1>2, IdsImply, PTL DEF TopSpec
=============================================================================
