------------------------ MODULE FcgiResponses_Proofs ------------------------
(***************************************************************************)
(* The way back, for every value of the constants and peers that send one  *)
(* request on each connection and wait for its response: only complete     *)
(* requests are answered, and each response ends one request that its peer *)
(* has open.                                                               *)
(***************************************************************************)
EXTENDS FcgiWorkers_Proofs

USE DEF poolVars, connVars, objVars, outVars, closeVars, waitVars, listVars, ioVars,
        taskVars, wakeVars, peerVars, envVars

-----------------------------------------------------------------------------
(* Peers that send what they have to and stay *)

\* No peer aborts, closes or breaks the protocol, and no request runs out of time.
Patient == Env \cap {"abort", "bad", "close", "timeout"} = {}

\* Records that end neither a request nor the connection.
Mild(s) == \A x \in Items(s) : x.type \notin {"ABORT", "BAD"}

Unhurt(fd) ==
  /\ ~conn[fd].closed /\ ~sock[fd].eof /\ ~sock[fd].hup
  /\ Mild(conn[fd].in_buf) /\ Mild(sock[fd].rx)

\* Nothing ends a connection early.
Unbroken == (\A fd \in Fds : Unhurt(fd)) /\ \A e \in batch : ~e.hup

\* A connection that gets no other records and is not ended.
LEMMA UnhurtKept ==
  ASSUME NEW fd \in Fds, Unhurt(fd),
         conn'[fd].closed = conn[fd].closed, sock'[fd].eof = sock[fd].eof,
         sock'[fd].hup = sock[fd].hup,
         Items(conn'[fd].in_buf) \cup Items(sock'[fd].rx)
           \subseteq Items(conn[fd].in_buf) \cup Items(sock[fd].rx)
  PROVE  Unhurt(fd)'
BY DEF Unhurt, Mild

\* Flushing, and what the other steps that read nothing change.
LEMMA StillUnhurt ==
  ASSUME TypeOK, Tended, Wire, Loops, Apart, TypeOK', NEW fd \in Fds, Unhurt(fd),
         \/ Aside \/ Flushing \/ Writing \/ Taking \/ ParseDefer \/ SweepErase
         \/ \E t \in running : TaskLeave(t)
  PROVE  Unhurt(fd)'
<1>1. SameWire(fd)
  BY StillWire
<1>2. conn \in [Fds -> Connection] /\ sock \in [Fds -> Socket] /\ req \in [Arena -> Request]
  BY DEF TypeOK, ObjTypeOK, EnvTypeOK
<1>3. CASE Aside
  BY <1>1, <1>3, AsideSteps, UnhurtKept DEF SameWire
<1>4. CASE Flushing
  <2> DEFINE gd == Top.fd
  <2>1. Flush(gd, conn[gd]) /\ gd \in Fds
    BY <1>4, FlushingIs
  <2>2. fd = gd => ~sock[gd].hup
    BY DEF Unhurt
  <2> HIDE DEF gd
  <2>3. UNCHANGED sock \/ \E tx : sock' = [sock EXCEPT ![gd].tx = tx]
    BY <2>1 DEF Flush, FlushAll, FlushSome, FlushError
  <2>4. sock'[fd].eof = sock[fd].eof /\ sock'[fd].hup = sock[fd].hup
    BY <1>2, <2>3 DEF Socket
  <2>5. \/ FlushError(gd, conn[gd])
        \/ \E out, b : conn' = [conn EXCEPT ![gd] = [conn[gd] EXCEPT !.out_buf = out, !.epollout = b]]
    BY <2>1 DEF Flush, FlushAll, FlushSome
  <2>6. conn'[fd].closed = conn[fd].closed
    <3>1. CASE FlushError(gd, conn[gd])
      <4>1. conn' = [conn EXCEPT ![gd] = [conn[gd] EXCEPT !.closed = TRUE]] /\ sock[gd].hup
        BY <3>1 DEF FlushError
      <4>2. fd # gd
        BY <2>2, <4>1
      <4> QED BY <1>2, <4>1, <4>2
    <3>2. ASSUME NEW out, NEW b,
                 conn' = [conn EXCEPT ![gd] = [conn[gd] EXCEPT !.out_buf = out, !.epollout = b]]
          PROVE  conn'[fd].closed = conn[fd].closed
      BY <1>2, <2>1, <3>2 DEF Connection
    <3> QED BY <2>5, <3>1, <3>2
  <2> QED BY <1>1, <2>4, <2>6, UnhurtKept DEF SameWire
<1>5. CASE Writing
  <2>1. UNCHANGED sock
    BY <1>5 DEF Writing, PendingAnswer, Expire
  <2>2. ASSUME PendingAnswer PROVE conn'[fd].closed = conn[fd].closed
    <3> DEFINE a == Head(taken).arena
               gd == req[a].conn_ptr
               out == Append(conn[gd].out_buf, req[a].id)
               b == conn[gd].epollout \/ conn[gd].out_buf = <<>>
    <3>1. conn' = [conn EXCEPT ![gd].out_buf = out, ![gd].epollout = b]
      BY <2>2 DEF PendingAnswer, Answer
    <3> HIDE DEF gd, out, b
    <3> QED BY <1>2, <3>1 DEF Connection
  <2>3. ASSUME NEW gd \in Fds, NEW id \in Ids, Expire(gd, id)
        PROVE  conn'[fd].closed = conn[fd].closed
    <3> DEFINE out == Append(conn[gd].out_buf, req[conn[gd].requests[id]].id)
    <3>1. conn' = [conn EXCEPT ![gd].out_buf = out]
      BY <2>3 DEF Expire
    <3> HIDE DEF out
    <3> QED BY <1>2, <3>1 DEF Connection
  <2>4. conn'[fd].closed = conn[fd].closed
    BY <1>5, <2>2, <2>3 DEF Writing
  <2> QED BY <1>1, <2>1, <2>4, UnhurtKept DEF SameWire
<1>6. CASE Taking
  <2>1. UNCHANGED sock
    BY <1>6 DEF Taking, ParseNew, ParseKnown
  <2> QED BY <1>1, <1>6, <2>1, TakingConns, UnhurtKept DEF SameWire
<1>7. CASE ParseDefer \/ SweepErase \/ \E t \in running : TaskLeave(t)
  <2>1. /\ UNCHANGED sock
        /\ \E gd, id, n : \/ conn' = [conn EXCEPT ![gd].waiting_for_arena = TRUE]
                          \/ conn' = [conn EXCEPT ![gd].requests[id] = NoArena]
                          \/ conn' = [conn EXCEPT ![gd].active_workers = n]
    BY <1>7 DEF ParseDefer, SweepErase, TaskLeave
  <2>2. PICK gd, id, n : \/ conn' = [conn EXCEPT ![gd].waiting_for_arena = TRUE]
                         \/ conn' = [conn EXCEPT ![gd].requests[id] = NoArena]
                         \/ conn' = [conn EXCEPT ![gd].active_workers = n]
    BY <2>1
  <2>3. conn'[fd].closed = conn[fd].closed
    <3>1. CASE conn' = [conn EXCEPT ![gd].waiting_for_arena = TRUE]
      BY <1>2, <3>1 DEF Connection
    <3>2. CASE conn' = [conn EXCEPT ![gd].requests[id] = NoArena]
      BY <1>2, <3>2 DEF Connection
    <3>3. CASE conn' = [conn EXCEPT ![gd].active_workers = n]
      BY <1>2, <3>3 DEF Connection
    <3> QED BY <2>2, <3>1, <3>2, <3>3
  <2> QED BY <1>1, <2>1, <2>3, UnhurtKept DEF SameWire
<1> QED BY <1>3, <1>4, <1>5, <1>6, <1>7

\* A peer sends nothing that ends a request or the connection.
LEMMA SendUnhurt ==
  ASSUME TypeOK, NEW cfd \in Fds, NEW recs \in Seq(Record), Send(cfd, recs), Mild(recs),
         \A fd \in Fds : Unhurt(fd)
  PROVE  \A fd \in Fds : Unhurt(fd)'
<1>1. sock \in [Fds -> Socket] /\ UNCHANGED conn /\ sock[cfd].rx \in Seq(Record)
  BY DEF Send, TypeOK, EnvTypeOK, Socket
<1> DEFINE rx == Joined(sock[cfd].rx, recs)
           used == sock[cfd].used \/ recs[Len(recs)].type = "BEGIN"
           bad == recs[Len(recs)].type = "BAD"
<1>2. sock' = [sock EXCEPT ![cfd].rx = rx, ![cfd].used = used, ![cfd].bad = bad]
  BY DEF Send
<1>3. Items(rx) \subseteq Items(sock[cfd].rx) \cup Items(recs)
  BY <1>1, JoinedOrder
<1> HIDE DEF rx, used, bad
<1>4. /\ \A fd \in Fds : sock'[fd].eof = sock[fd].eof /\ sock'[fd].hup = sock[fd].hup
      /\ \A fd \in Fds \ {cfd} : sock'[fd].rx = sock[fd].rx
      /\ sock'[cfd].rx = rx
  BY <1>1, <1>2 DEF Socket
<1>5. \A fd \in Fds : Mild(sock'[fd].rx)
  BY <1>3, <1>4 DEF Unhurt, Mild
<1> QED BY <1>1, <1>4, <1>5 DEF Unhurt

LEMMA PeerUnhurt ==
  ASSUME TypeOK, Patient, NEW cfd \in Fds, Peer(cfd), \A fd \in Fds : Unhurt(fd)
  PROVE  \A fd \in Fds : Unhurt(fd)'
<1>1. sock \in [Fds -> Socket] /\ UNCHANGED conn
  BY PeerUnchanged DEF TypeOK, EnvTypeOK
<1>2. ASSUME NEW rec \in Record, Send(cfd, <<rec>>), rec.type \notin {"ABORT", "BAD"}
      PROVE  \A fd \in Fds : Unhurt(fd)'
  <2>1. <<rec>> \in Seq(Record) /\ Items(<<rec>>) = {rec}
    BY OneRecord
  <2>2. Mild(<<rec>>)
    BY <1>2, <2>1 DEF Mild
  <2> QED BY <1>2, <2>1, <2>2, SendUnhurt
<1>3. CASE \E keep \in KeepFlags : PeerConnect(cfd, keep)
  <2>1. PICK keep \in KeepFlags : PeerConnect(cfd, keep)
    BY <1>3
  <2>2. sock' = [sock EXCEPT ![cfd] = [FreeSock EXCEPT !.st = "backlog", !.keep = keep,
                                                       !.serial = connects + 1]]
    BY <2>1 DEF PeerConnect
  <2>3. ~sock'[cfd].eof /\ ~sock'[cfd].hup /\ Items(sock'[cfd].rx) = {}
    BY <1>1, <2>2, NoItems DEF FreeSock
  <2>4. \A fd \in Fds \ {cfd} : sock'[fd] = sock[fd]
    BY <1>1, <2>2
  <2> QED BY <1>1, <2>3, <2>4 DEF Unhurt, Mild
<1>4. ASSUME NEW id \in Ids, PeerBegin(cfd, id)
      PROVE  \A fd \in Fds : Unhurt(fd)'
  <2> DEFINE rec == Rec("BEGIN", id, 8, sock[cfd].keep)
             other == Bare("OTHER")
  <2>1. rec \in Record /\ other \in Record
    BY <1>1, RecType DEF Socket
  <2>2. rec.type = "BEGIN" /\ other.type = "OTHER"
    BY DEF Rec, Bare
  <2>3. PICK before \in {<<>>, <<other>>} : Send(cfd, before \o <<rec>>)
    BY <1>4 DEF PeerBegin
  <2> HIDE DEF rec, other
  <2>4. CASE before = <<>>
    <3>1. before \o <<rec>> = <<rec>>
      BY <2>4
    <3> QED BY <1>2, <2>1, <2>2, <2>3, <3>1
  <2>5. CASE before = <<other>>
    <3> DEFINE recs == before \o <<rec>>
    <3>1. recs \in Seq(Record) /\ Len(recs) = 2 /\ recs[1] = other /\ recs[2] = rec
      BY <2>1, <2>5
    <3> HIDE DEF recs
    <3>2. Mild(recs)
      BY <2>2, <3>1 DEF Mild, Items
    <3>3. Send(cfd, recs)
      BY <2>3 DEF recs
    <3> QED BY <3>1, <3>2, <3>3, SendUnhurt
  <2> QED BY <2>3, <2>4, <2>5
<1>5. ASSUME NEW id \in Ids, PeerStream(cfd, id)
      PROVE  \A fd \in Fds : Unhurt(fd)'
  <2>1. \E type \in {"PARAMS", "STDIN"} : \E len \in ParamLens \cup StdinLens \cup {0} :
          Send(cfd, <<Rec(type, id, len, FALSE)>>)
    BY <1>5 DEF PeerStream
  <2>2. PICK type \in {"PARAMS", "STDIN"}, len \in ParamLens \cup StdinLens \cup {0} :
          Send(cfd, <<Rec(type, id, len, FALSE)>>)
    BY <2>1
  <2>3. len \in Nat
    BY ConstantsAssumption
  <2>4. Rec(type, id, len, FALSE) \in Record
    BY <2>3, RecType
  <2>5. Rec(type, id, len, FALSE).type = type
    BY DEF Rec
  <2> QED BY <1>2, <2>2, <2>4, <2>5
<1>6. CASE PeerPartial(cfd)
  <2>1. Bare("PARTIAL") \in Record /\ Bare("PARTIAL").type = "PARTIAL"
    BY RecType DEF Bare, Rec
  <2> QED BY <1>2, <1>6, <2>1 DEF PeerPartial
<1>7. CASE PeerRead(cfd)
  <2>1. sock' = [sock EXCEPT ![cfd].tx = <<>>]
    BY <1>7 DEF PeerRead
  <2>2. \A fd \in Fds : /\ sock'[fd].eof = sock[fd].eof /\ sock'[fd].hup = sock[fd].hup
                        /\ sock'[fd].rx = sock[fd].rx
    BY <1>1, <2>1 DEF Socket
  <2> QED BY <1>1, <2>2 DEF Unhurt
<1>8. /\ \A id \in Ids : ~PeerAbort(cfd, id)
      /\ ~PeerBad(cfd) /\ \A hup \in BOOLEAN : ~PeerClose(cfd, hup)
  BY DEF Patient, PeerAbort, PeerBad, PeerClose
<1> QED BY <1>3, <1>4, <1>5, <1>6, <1>7, <1>8 DEF Peer

\* Only epoll_wait makes events.
LEMMA BatchSteps ==
  ASSUME TypeOK, [Next]_vars
  PROVE  batch' \subseteq batch \/ EpollWait
<1>1. CASE Aside
  <2>1. CASE \E e \in batch : ListenEvent(e) \/ EventFdEvent(e) \/ TimerEvent(e) \/ IoStale(e)
    BY <2>1 DEF ListenEvent, EventFdEvent, TimerEvent, IoStale, Dispatching
  <2>2. ASSUME ~EpollWait,
               ~\E e \in batch : ListenEvent(e) \/ EventFdEvent(e) \/ TimerEvent(e) \/ IoStale(e)
        PROVE  batch' \subseteq batch
    BY <1>1, <2>2 DEF Aside, AcceptDone,
       SwapPending, PendingSkip, PendingFault, PendingDone, ParseSkip, SweepDone, CloseQueued,
       CloseQueueDone, ParseFault, SweepKeep, SweepFree, CleanupOne, ReleaseRequest, ExpireDone,
       HousekeepingDone, HousekeepingClose,
       WaitingNext, WaitingDone, WaitedAgain, TaskStart, TaskFault, TaskPush, TaskInactive,
       WsThreads, WsGet, WsRelease, TimerTick, Undefined, vars
  <2> QED BY <2>1, <2>2
<1>2. CASE Flushing \/ Writing
  BY <1>2 DEF Flushing, AfterParse, OutFlush, WaitedServed, Writing, PendingAnswer, Expire
<1>3. CASE Taking
  BY <1>3 DEF Taking, ParseNew, ParseKnown
<1>4. ASSUME NEW fd \in Fds, AcceptOne(fd) \/ Peer(fd) PROVE batch' \subseteq batch
  BY <1>4, PeerUnchanged DEF AcceptOne
<1>5. ASSUME NEW e \in batch, IoEvent(e) PROVE batch' \subseteq batch
  BY <1>5 DEF IoEvent, Dispatching
<1>6. CASE \/ ParseEnd \/ ParseBad \/ ParseDefer \/ SweepErase \/ CloseFd
           \/ \E t \in running : TaskLeave(t)
  BY <1>6 DEF ParseEnd, ParseBad, ParseDefer, SweepErase, CloseFd, TaskLeave
<1> QED BY <1>1, <1>2, <1>3, <1>4, <1>5, <1>6, StepCases

\* What wakes the server up is input or output, and never a hang-up.
LEMMA BatchUnhurt ==
  ASSUME TypeOK, Unbroken, [Next]_vars
  PROVE  /\ \A e \in batch' : ~e.hup
         /\ \A e \in batch' : e.src = "conn" => e \in batch \/ e.in \/ e.out
<1>1. CASE batch' \subseteq batch
  BY <1>1 DEF Unbroken
<1>2. CASE EpollWait
  <2>1. ready \subseteq Fds /\ batch' \subseteq ReadyEvents
    BY <1>2 DEF EpollWait, TypeOK, EnvTypeOK
  <2>2. \A fd \in ready : ~IoEventOf(fd).hup
    BY <2>1 DEF IoEventOf, Unbroken, Unhurt
  <2>3. \A src : Event(src, NoFd).src = src /\ ~Event(src, NoFd).hup
    BY DEF Event
  <2>4. ASSUME NEW e \in ReadyEvents
        PROVE  ~e.hup /\ (e.src = "conn" => e.in \/ e.out)
    <3>1. \/ \E src \in {"listen", "eventfd", "timer"} : e = Event(src, NoFd)
          \/ (e.in \/ e.out \/ e.hup) /\ \E fd \in ready : e = IoEventOf(fd)
      BY <2>4 DEF ReadyEvents
    <3> QED BY <2>2, <2>3, <3>1
  <2> QED BY <2>1, <2>4
<1> QED BY <1>1, <1>2, BatchSteps

LEMMA UnbrokenNext ==
  ASSUME TypeOK, TypeOK', Patient, Loops, Tended, Linked, Wire, Apart, Unbroken, [Next]_vars
  PROVE  Unbroken'
<1>1. \A fd \in Fds : Unhurt(fd)
  BY DEF Unbroken
<1>2. conn \in [Fds -> Connection] /\ sock \in [Fds -> Socket]
  BY DEF TypeOK, ObjTypeOK, EnvTypeOK
<1>3. CASE \/ Aside \/ Flushing \/ Writing \/ Taking \/ ParseDefer \/ SweepErase
           \/ \E t \in running : TaskLeave(t)
  BY <1>1, <1>3, BatchUnhurt, StillUnhurt DEF Unbroken
<1>4. CASE ParseEnd \/ ParseBad
  <2>1. ~ParseBad
    <3> SUFFICES ASSUME ParseBad PROVE FALSE
      OBVIOUS
    <3>1. Top.fd \in Fds /\ NextRecord \in Items(conn[Top.fd].in_buf)
      BY RecordIs DEF ParseBad, Items
    <3> QED BY <1>1, <3>1 DEF ParseBad, Unhurt, Mild
  <2> DEFINE cfd == Top.fd
             old == conn[cfd].in_buf
             rest == conn'[cfd].in_buf
             n == Top.n
  <2>2. /\ cfd \in Fds /\ n \in Nat /\ UNCHANGED sock /\ rest \in Seq(Record)
        /\ \A i \in 1 .. Len(rest) : i + n \in 1 .. Len(old) /\ rest[i] = old[i + n]
        /\ \A fd \in Fds \ {cfd} : conn'[fd] = conn[fd]
    BY <1>4, ReturnIs
  <2>3. conn'[cfd].closed = conn[cfd].closed
    <3> DEFINE left == Consumed
    <3>1. conn' = [conn EXCEPT ![cfd].in_buf = left, ![cfd].waiting_for_arena = FALSE]
      BY <1>4, <2>1 DEF ParseEnd
    <3> HIDE DEF left, cfd
    <3> QED BY <1>2, <2>2, <3>1 DEF Connection
  <2> HIDE DEF rest, old, n
  <2>4. Items(rest) \subseteq Items(old)
    BY <2>2 DEF Items
  <2> HIDE DEF cfd
  <2>5. \A fd \in Fds : Unhurt(fd)'
    <3> SUFFICES ASSUME NEW fd \in Fds PROVE Unhurt(fd)'
      OBVIOUS
    <3>1. CASE fd = cfd
      BY <1>1, <2>2, <2>3, <2>4, <3>1, UnhurtKept DEF rest, old
    <3>2. CASE fd # cfd
      BY <1>1, <2>2, <3>2, UnhurtKept
    <3> QED BY <3>1, <3>2
  <2> QED BY <2>5, BatchUnhurt DEF Unbroken
<1>5. ASSUME NEW e \in batch, IoEvent(e) PROVE \A fd \in Fds : Unhurt(fd)'
  <2> DEFINE cfd == e.fd
             shut == conn[cfd].closed \/ e.hup \/ (e.in /\ sock[cfd].eof)
             in == IF e.in THEN Joined(conn[cfd].in_buf, sock[cfd].rx) ELSE conn[cfd].in_buf
  <2>1. /\ cfd \in Fds /\ \A fd \in Fds \ {cfd} : conn'[fd] = conn[fd] /\ sock'[fd] = sock[fd]
        /\ \/ /\ conn'[cfd].in_buf = conn[cfd].in_buf /\ sock'[cfd].rx = sock[cfd].rx
           \/ /\ conn'[cfd].in_buf = Joined(conn[cfd].in_buf, sock[cfd].rx)
              /\ sock'[cfd].rx = <<>>
    BY <1>5, IoEventIs
  <2>2. ~shut
    BY <1>1, <2>1 DEF Unbroken, Unhurt
  <2>3. /\ conn' = [conn EXCEPT ![cfd] = [conn[cfd] EXCEPT !.closed = shut, !.in_buf = in]]
        /\ sock' = IF e.in THEN [sock EXCEPT ![cfd].rx = <<>>] ELSE sock
    BY <1>5 DEF IoEvent
  <2> HIDE DEF cfd, shut, in
  <2>4. ~conn'[cfd].closed
    BY <1>2, <2>1, <2>2, <2>3 DEF Connection
  <2>5. sock'[cfd].eof = sock[cfd].eof /\ sock'[cfd].hup = sock[cfd].hup
    BY <1>2, <2>1, <2>3 DEF Socket
  <2>6. conn[cfd].in_buf \in Seq(Record) /\ sock[cfd].rx \in Seq(Record)
    BY <1>2, <2>1 DEF Connection, Socket
  <2>7. Items(conn'[cfd].in_buf) \cup Items(sock'[cfd].rx)
          \subseteq Items(conn[cfd].in_buf) \cup Items(sock[cfd].rx)
    BY <2>1, <2>6, JoinedOrder, NoItems
  <2> SUFFICES ASSUME NEW fd \in Fds PROVE Unhurt(fd)'
    OBVIOUS
  <2>8. CASE fd = cfd
    <3>1. Unhurt(fd)
      BY <1>1
    <3>2. conn'[fd].closed = conn[fd].closed
      <4>1. conn[fd].closed \in BOOLEAN /\ conn'[fd].closed \in BOOLEAN
        BY DEF TypeOK, ObjTypeOK, Connection
      <4> QED BY <2>4, <2>8, <3>1, <4>1 DEF Unhurt
    <3> QED BY <2>5, <2>7, <2>8, <3>1, <3>2, UnhurtKept
  <2>9. CASE fd # cfd
    BY <1>1, <2>1, <2>9, UnhurtKept
  <2> QED BY <2>8, <2>9
<1>6. ASSUME NEW cfd \in Fds, AcceptOne(cfd) PROVE \A fd \in Fds : Unhurt(fd)'
  <2>1. sock' = [sock EXCEPT ![cfd].st = "conn"]
        /\ conn' = [conn EXCEPT ![cfd] = NewConnection(sock[cfd].serial)]
    BY <1>6 DEF AcceptOne
  <2>2. ~conn'[cfd].closed /\ Items(conn'[cfd].in_buf) = {}
    BY <1>2, <2>1, NoItems DEF NewConnection
  <2>3. \A fd \in Fds \ {cfd} : conn'[fd] = conn[fd]
    BY <1>2, <2>1
  <2>4. \A fd \in Fds : /\ sock'[fd].eof = sock[fd].eof /\ sock'[fd].hup = sock[fd].hup
                        /\ sock'[fd].rx = sock[fd].rx
    BY <1>2, <2>1 DEF Socket
  <2> QED BY <1>1, <2>2, <2>3, <2>4 DEF Unhurt, Mild
<1>7. ASSUME CloseFd PROVE \A fd \in Fds : Unhurt(fd)'
  <2> DEFINE cfd == Top.fd
  <2>1. /\ stack # <<>> /\ Top.pc = "cleanup"
        /\ conn' = [conn EXCEPT ![cfd] = NewConnection(0)]
        /\ sock' = [sock EXCEPT ![cfd] = FreeSock]
    BY <1>7 DEF CloseFd, At, Top
  <2>2. cfd \in Fds
    BY <2>1, TopServed DEF FdPC, TypeOK, ObjTypeOK
  <2> HIDE DEF cfd
  <2>3. /\ ~conn'[cfd].closed /\ Items(conn'[cfd].in_buf) = {}
        /\ ~sock'[cfd].eof /\ ~sock'[cfd].hup /\ Items(sock'[cfd].rx) = {}
    BY <1>2, <2>1, <2>2, NoItems DEF NewConnection, FreeSock
  <2>4. \A fd \in Fds \ {cfd} : conn'[fd] = conn[fd] /\ sock'[fd] = sock[fd]
    BY <1>2, <2>1
  <2> QED BY <1>1, <2>3, <2>4 DEF Unhurt, Mild
<1>8. ASSUME NEW cfd \in Fds, Peer(cfd) PROVE \A fd \in Fds : Unhurt(fd)'
  BY <1>1, <1>8, PeerUnhurt
<1> QED BY <1>3, <1>4, <1>5, <1>6, <1>7, <1>8, BatchUnhurt, StepCases DEF Unbroken

LEMMA InitUnbroken == Init => Unbroken
<1> SUFFICES ASSUME Init PROVE Unbroken
  OBVIOUS
<1>1. batch = {} /\ \A fd \in Fds : /\ ~conn[fd].closed /\ conn[fd].in_buf = <<>>
                                    /\ ~sock[fd].eof /\ ~sock[fd].hup /\ sock[fd].rx = <<>>
  BY DEF Init, NewConnection, FreeSock
<1> QED BY <1>1, NoItems DEF Unbroken, Unhurt, Mild

-----------------------------------------------------------------------------
(* The requests that are handed back *)

\* What is inductive for such peers.
Waited == Protected /\ Unbroken

\* Request a has been sent as a whole and is not answered.
Answerable(a) == req[a].live /\ Complete(req[a]) /\ ~Responded(req[a])

\* It stays as it is until the user's callback answers it.
LEMMA StillOwed ==
  ASSUME TypeOK, TypeOK', OneId, OneShot, Patient, Waited, [Next]_vars,
         NEW a \in Arena, Answerable(a), PendingAnswer => Head(taken).arena # a
  PROVE  /\ Answerable(a)' /\ req'[a].serial = req[a].serial /\ req'[a].flags = req[a].flags
         /\ \A r, go : ~(Taking /\ Applies(a, r, go))
<1> USE DEF Waited, Protected, OneEach
<1>0. req \in [Arena -> Request]
  BY DEF TypeOK, ObjTypeOK
<1>1. ASSUME NEW r, NEW go, Taking, Applies(a, r, go) PROVE FALSE
  <2>1. r = req[a] /\ "INPUT_COMPLETE" \in req[a].flags
    BY <1>1 DEF Applies, Answerable, Complete
  <2>2. NextRecord.type = "ABORT" /\ Top.fd \in Fds /\ NextRecord \in Items(conn[Top.fd].in_buf)
    BY <1>1, <2>1, LateRecord
  <2> QED BY <2>2 DEF Unbroken, Unhurt, Mild
<1>2. SUFFICES /\ req'[a].live /\ req'[a].serial = req[a].serial
               /\ req'[a].flags = req[a].flags
  BY <1>1 DEF Answerable, Complete, Responded
<1>3. CASE Taking
  <2>1. PICK b \in Arena, r \in Request, go \in BOOLEAN : Applies(b, r, go)
    BY <1>3, TakingIs DEF Flow
  <2>2. a # b
    BY <1>1, <1>3, <2>1
  <2>3. req'[a] = req[a]
    BY <2>1, <2>2 DEF Applies, Delivered
  <2> QED BY <2>3 DEF Answerable
<1>4. CASE Writing
  <2>1. PendingAnswer
    BY <1>4 DEF Writing, Expire, Patient
  <2> DEFINE b == Head(taken).arena
             n == req[b].ends + 1
             f == req[b].flags \cup {"RESPONDED"}
  <2>2. req' = [req EXCEPT ![b].flags = f, ![b].ends = n]
    BY <2>1 DEF PendingAnswer, Answer
  <2>3. a # b
    BY <2>1
  <2> HIDE DEF b, n, f
  <2>4. req'[a] = req[a]
    BY <1>0, <2>2, <2>3
  <2> QED BY <2>4 DEF Answerable
<1>5. CASE UNCHANGED req
  BY <1>5 DEF Answerable
<1>6. ASSUME NEW t \in running, TaskInactive(t)
      PROVE  /\ req'[a].live /\ req'[a].serial = req[a].serial
             /\ req'[a].flags = req[a].flags
  BY <1>0, <1>6 DEF TaskInactive, Request, Answerable
<1>7. ASSUME NEW id \in Ids, SweepFree(id) \/ CleanupOne(id)
      PROVE  /\ req'[a].live /\ req'[a].serial = req[a].serial
             /\ req'[a].flags = req[a].flags
  <2>1. PICK b \in Arena, under \in StackFrame : Releases(b, id, under)
    BY <1>7, Releasing
  <2>2. ~req'[b].live /\ \A c \in Arena \ {b} : req'[c] = req[c]
    BY <2>1, Freed DEF Releases
  <2>3. req[a].conn_ptr \in Fds
    BY StillThere DEF Answerable, TypeOK, ObjTypeOK
  <2>4. ~conn[req[a].conn_ptr].closed
    BY <2>3 DEF Unbroken, Unhurt
  <2>5. req'[a].live
    BY <2>4, ReleasedSafely DEF ReleasesSafely, Answerable
  <2>6. req'[a] = req[a]
    BY <2>2, <2>5
  <2> QED BY <2>6 DEF Answerable
<1> QED BY <1>3, <1>4, <1>5, <1>6, <1>7, ReqSteps

\* While process_pending_output answers, the IO thread does nothing else.
LEMMA PendingSteps ==
  ASSUME At("pending"), [Next]_vars
  PROVE  PendingStep \/ UNCHANGED stack
<1>1. stack # <<>> /\ Head(stack).pc = "pending" /\ Top.pc = "pending"
  BY DEF At, Top
<1>2. ~LoopStep /\ ~TimerTick
  BY <1>1 DEF LoopStep, EpollWait, Dispatching, ListenEvent, EventFdEvent, TimerEvent, IoEvent,
     IoStale, TimerTick
<1>3. ~AcceptStep /\ ~ParseStep
  BY <1>1 DEF AcceptStep, AcceptDone, AcceptOne, ParseStep, ParseEnd, ParseBad, ParseDefer,
     ParseSkip, ParseNew, ParseKnown, ParseFault, At
<1>4. ~HandleStep /\ ~CloseStep
  BY <1>1 DEF HandleStep, AfterParse, OutFlush, SweepErase, SweepDone, SweepFree, SweepKeep,
     CloseStep, CloseQueued, CloseQueueDone, CloseFd, CleanupOne, At
<1>5. ~HousekeepingStep /\ ~WaitingStep
  BY <1>1 DEF HousekeepingStep, ExpireDone, HousekeepingDone, HousekeepingClose, Expire,
     WaitingStep, WaitingNext, WaitingDone, WaitedServed, WaitedAgain, At
<1>6. ~AtSystemCall
  BY <1>1 DEF AtSystemCall
<1>7. Workers \/ WsThreads \/ Undefined \/ UNCHANGED vars => UNCHANGED stack
  BY DEF Workers, TaskStart, TaskFault, TaskPush, TaskInactive, TaskLeave, WsThreads, WsGet,
     WsRelease, Undefined, vars
<1> QED BY <1>2, <1>3, <1>4, <1>5, <1>6, <1>7 DEF Next, IoThread

\* Who moves what is handed back.
Fetches == taken = <<>> /\ taken' = g_pending_output /\ g_pending_output' = <<>>

Drops ==
  /\ taken # <<>> /\ taken' = Tail(taken) /\ UNCHANGED g_pending_output
  /\ PendingAnswer \/ PendingSkip

LEMMA OutSteps ==
  ASSUME TypeOK, taken # <<>> => At("pending"), [Next]_vars
  PROVE  /\ taken' # <<>> => At("pending")'
         /\ \/ UNCHANGED outVars
            \/ Fetches \/ Drops
            \/ \E t \in running : TaskPush(t)
<1>1. CASE SwapPending
  <2>1. taken = <<>>
    BY <1>1 DEF SwapPending, At
  <2>2. At("pending")'
    BY <1>1 DEF SwapPending, Become, Frame, At
  <2> QED BY <1>1, <2>1, <2>2 DEF SwapPending, Fetches
<1>2. CASE PendingAnswer \/ PendingSkip
  BY <1>2 DEF PendingAnswer, PendingSkip, Drops, At
<1>3. ASSUME NEW t \in running, TaskPush(t)
      PROVE  taken' # <<>> => At("pending")'
  BY <1>3 DEF TaskPush, At
<1>4. CASE UNCHANGED outVars /\ ~SwapPending
  <2> SUFFICES ASSUME taken # <<>> PROVE At("pending")'
    BY <1>4
  <2>1. PendingStep => UNCHANGED stack
    BY <1>4 DEF PendingStep, PendingAnswer, PendingSkip, PendingFault, PendingDone
  <2> QED BY <2>1, PendingSteps DEF At
<1>5. ASSUME Aside, ~SwapPending, ~PendingSkip, ~\E t \in running : TaskPush(t)
      PROVE  UNCHANGED outVars
  BY <1>5 DEF Aside, EpollWait, AcceptDone, ListenEvent, EventFdEvent, TimerEvent, IoStale,
     PendingFault, PendingDone, ParseSkip, SweepDone, CloseQueued, CloseQueueDone, ParseFault,
     SweepKeep, SweepFree, CleanupOne, ReleaseRequest, ExpireDone, HousekeepingDone,
     HousekeepingClose, WaitingNext, WaitingDone, WaitedAgain, TaskStart, TaskFault,
     TaskInactive, WsThreads, WsGet, WsRelease, TimerTick, Undefined, vars
<1>6. ASSUME Flushing \/ Taking \/ \E fd \in Fds, id \in Ids : Expire(fd, id)
      PROVE  UNCHANGED outVars
  BY <1>6 DEF Flushing, AfterParse, OutFlush, WaitedServed, Expire, Taking, ParseNew, ParseKnown
<1>7. ASSUME NEW fd \in Fds, AcceptOne(fd) \/ Peer(fd) PROVE UNCHANGED outVars
  BY <1>7, PeerUnchanged DEF AcceptOne
<1>8. ASSUME NEW e \in batch, IoEvent(e) PROVE UNCHANGED outVars
  BY <1>8 DEF IoEvent
<1>9. ASSUME \/ ParseEnd \/ ParseBad \/ ParseDefer \/ SweepErase \/ CloseFd
             \/ \E t \in running : TaskLeave(t)
      PROVE  UNCHANGED outVars
  BY <1>9 DEF ParseEnd, ParseBad, ParseDefer, SweepErase, CloseFd, TaskLeave
<1> QED BY <1>1, <1>2, <1>3, <1>4, <1>5, <1>6, <1>7, <1>8, <1>9, StepCases DEF Writing

\* No arena is handed back twice.
Distinct(s) == \A i, j \in 1 .. Len(s) : s[i].arena = s[j].arena => i = j

LEMMA DistinctTail ==
  ASSUME NEW S, NEW s \in Seq(S), s # <<>>, Distinct(s)
  PROVE  /\ Distinct(Tail(s)) /\ Items(Tail(s)) \subseteq Items(s) /\ Head(s) \in Items(s)
         /\ \A h \in Items(Tail(s)) : h.arena # Head(s).arena
<1> DEFINE u == Tail(s)
<1>1. /\ Len(s) \in Nat /\ Len(s) >= 1 /\ Head(s) = s[1]
      /\ u \in Seq(S) /\ Len(u) = Len(s) - 1 /\ \A i \in 1 .. Len(u) : u[i] = s[i + 1]
  OBVIOUS
<1> HIDE DEF u
<1>2. \A i \in 1 .. Len(u) : i + 1 \in 1 .. Len(s) /\ i + 1 # 1
  BY <1>1
<1>3. Distinct(u)
  <2> SUFFICES ASSUME NEW i \in 1 .. Len(u), NEW j \in 1 .. Len(u), u[i].arena = u[j].arena
               PROVE  i = j
    BY DEF Distinct
  <2>1. i + 1 = j + 1
    BY <1>1, <1>2 DEF Distinct
  <2> QED BY <2>1
<1>4. 1 \in 1 .. Len(s)
  BY <1>1
<1>5. \A i \in 1 .. Len(u) : u[i].arena # s[1].arena
  BY <1>1, <1>2, <1>4 DEF Distinct
<1> QED BY <1>1, <1>2, <1>3, <1>4, <1>5 DEF Items, u

LEMMA DistinctAppend ==
  ASSUME NEW S, NEW s \in Seq(S), NEW h \in S, Distinct(s), \A x \in Items(s) : x.arena # h.arena
  PROVE  Distinct(Append(s, h)) /\ Items(Append(s, h)) = Items(s) \cup {h}
<1> DEFINE u == Append(s, h)
<1>1. /\ Len(s) \in Nat /\ Len(u) = Len(s) + 1 /\ u[Len(s) + 1] = h
      /\ \A i \in 1 .. Len(s) : u[i] = s[i]
  OBVIOUS
<1> HIDE DEF u
<1>2. \A i \in 1 .. Len(u) : i \in 1 .. Len(s) \/ i = Len(s) + 1
  BY <1>1
<1>3. \A i \in 1 .. Len(s) : u[i].arena # h.arena
  BY <1>1 DEF Items
<1>4. Distinct(u)
  <2> SUFFICES ASSUME NEW i \in 1 .. Len(u), NEW j \in 1 .. Len(u), u[i].arena = u[j].arena
               PROVE  i = j
    BY DEF Distinct
  <2> QED BY <1>1, <1>2, <1>3 DEF Distinct
<1> QED BY <1>4, LongQueue DEF u

\* What handed names, its arena holds, to be answered.
Owing(h) == Answerable(h.arena) /\ req[h.arena].serial = h.serial

HandedBack == Items(taken) \cup Items(g_pending_output)

Awaited ==
  /\ taken # <<>> => At("pending")
  /\ \A h \in HandedBack : Owing(h)
  /\ Distinct(taken) /\ Distinct(g_pending_output)
  /\ \A x \in Items(taken), y \in Items(g_pending_output) : x.arena # y.arena
  /\ \A t \in Tasks : t.at = "parsing" => Owing(t) /\ \A h \in HandedBack : h.arena # t.arena

LEMMA HandbackTypes ==
  ASSUME TypeOK
  PROVE  /\ taken \in Seq(Handback) /\ g_pending_output \in Seq(Handback)
         /\ HandedBack \subseteq Handback
<1>1. taken \in Seq(Handback) /\ g_pending_output \in Seq(Handback)
  BY DEF TypeOK, ListTypeOK
<1> QED BY <1>1 DEF HandedBack, Items

\* A request that is owed stays so until it is answered.
LEMMA OwingNext ==
  ASSUME TypeOK, TypeOK', OneId, OneShot, Patient, Waited, [Next]_vars,
         NEW h, h.arena \in Arena, Owing(h), PendingAnswer => Head(taken).arena # h.arena
  PROVE  Owing(h)'
BY StillOwed DEF Owing, Answerable

\* The list of the requests handed back.
LEMMA HandedNext ==
  ASSUME TypeOK, TypeOK', OneId, OneShot, Patient, Waited, Awaited, [Next]_vars
  PROVE  /\ taken' # <<>> => At("pending")'
         /\ \A h \in HandedBack' : Owing(h)'
         /\ Distinct(taken)' /\ Distinct(g_pending_output)'
         /\ \A x \in Items(taken'), y \in Items(g_pending_output') : x.arena # y.arena
         /\ \A h \in HandedBack' :
              \/ h \in HandedBack /\ (PendingAnswer => Head(taken).arena # h.arena)
              \/ \E t \in running : TaskPush(t) /\ h.arena = t.arena
<1>0. /\ taken \in Seq(Handback) /\ g_pending_output \in Seq(Handback)
      /\ HandedBack \subseteq Handback /\ Items(<<>>) = {} /\ Distinct(<<>>)
  BY HandbackTypes DEF Items, Distinct
<1>1. taken' # <<>> => At("pending")'
  BY OutSteps DEF Awaited
<1>2. ASSUME NEW h \in HandedBack, PendingAnswer => Head(taken).arena # h.arena
      PROVE  Owing(h)'
  BY <1>0, <1>2, OwingNext DEF Awaited, Handback
<1>3. PendingAnswer => Drops
  BY OutSteps DEF PendingAnswer, Drops
<1>4. CASE UNCHANGED outVars
  <2>1. ~PendingAnswer
    <3>1. ASSUME PendingAnswer PROVE FALSE
      <4>1. taken # <<>> /\ taken' = Tail(taken) /\ Len(Tail(taken)) = Len(taken) - 1 /\ Len(taken) \in Nat
        BY <1>0, <3>1 DEF PendingAnswer
      <4> QED BY <1>4, <4>1
    <3> QED BY <3>1
  <2>2. /\ HandedBack' = HandedBack
        /\ Distinct(taken)' /\ Distinct(g_pending_output)'
        /\ Items(taken') = Items(taken) /\ Items(g_pending_output') = Items(g_pending_output)
    BY <1>4 DEF HandedBack, Awaited
  <2> QED BY <1>1, <1>2, <2>1, <2>2 DEF Awaited
<1>5. CASE Fetches
  <2>1. /\ Items(taken') = Items(g_pending_output) /\ Items(g_pending_output') = {}
        /\ Items(taken) = {}
        /\ Distinct(taken)' /\ Distinct(g_pending_output)' /\ ~PendingAnswer
    BY <1>0, <1>5 DEF Fetches, Awaited, PendingAnswer
  <2>2. HandedBack' = HandedBack
    BY <2>1 DEF HandedBack
  <2> QED BY <1>1, <1>2, <2>1, <2>2
<1>6. CASE Drops
  <2>1. /\ taken # <<>> /\ taken' = Tail(taken) /\ UNCHANGED g_pending_output /\ Distinct(taken)
    BY <1>6 DEF Drops, Awaited
  <2>2. /\ Distinct(taken') /\ Items(taken') \subseteq Items(taken) /\ Head(taken) \in Items(taken)
        /\ \A h \in Items(taken') : h.arena # Head(taken).arena
    BY <1>0, <2>1, DistinctTail
  <2>3. \A y \in Items(g_pending_output) : y.arena # Head(taken).arena
    BY <2>2 DEF Awaited
  <2>4. /\ HandedBack' \subseteq HandedBack
        /\ \A h \in HandedBack' : h.arena # Head(taken).arena
        /\ Items(g_pending_output') = Items(g_pending_output) /\ Distinct(g_pending_output)'
    BY <2>1, <2>2, <2>3 DEF HandedBack, Awaited
  <2>5. Distinct(taken)'
    BY <2>2 DEF Distinct
  <2>6. \A x \in Items(taken'), y \in Items(g_pending_output') : x.arena # y.arena
    BY <2>2, <2>4 DEF Awaited
  <2> QED BY <1>1, <1>2, <2>4, <2>5, <2>6
<1>7. ASSUME NEW t \in running, TaskPush(t)
      PROVE  /\ \A h \in HandedBack' : Owing(h)'
             /\ Distinct(taken)' /\ Distinct(g_pending_output)'
             /\ \A x \in Items(taken'), y \in Items(g_pending_output') : x.arena # y.arena
             /\ \A h \in HandedBack' : h \in HandedBack \/ h.arena = t.arena
             /\ ~PendingAnswer
  <2> DEFINE h0 == [arena |-> t.arena, serial |-> t.serial]
  <2>1. /\ t.at = "parsing" /\ g_pending_output' = Append(g_pending_output, h0) /\ UNCHANGED taken
        /\ t \in Tasks /\ t \in Closure
    BY <1>7, ClosureTypes DEF TaskPush
  <2>2. h0 \in Handback /\ h0.arena = t.arena /\ h0.serial = t.serial
    BY <2>1 DEF Closure, Handback
  <2>3. Owing(t) /\ \A h \in HandedBack : h.arena # t.arena
    BY <2>1 DEF Awaited
  <2>4. ~PendingAnswer
    <3>1. ASSUME PendingAnswer PROVE FALSE
      <4>1. UNCHANGED g_pending_output
        BY <3>1 DEF PendingAnswer
      <4>2. Len(g_pending_output') = Len(g_pending_output) + 1 /\ Len(g_pending_output) \in Nat
        BY <1>0, <2>1, <2>2
      <4> QED BY <4>1, <4>2
    <3> QED BY <3>1
  <2> HIDE DEF h0
  <2>5. Owing(h0)'
    <3>1. Owing(h0)
      BY <2>2, <2>3 DEF Owing
    <3> QED BY <2>1, <2>2, <2>4, <3>1, OwingNext DEF Closure
  <2>6. /\ Distinct(g_pending_output') /\ Items(g_pending_output') = Items(g_pending_output) \cup {h0}
    BY <1>0, <2>1, <2>2, <2>3, DistinctAppend DEF Awaited, HandedBack
  <2>7. Items(taken') = Items(taken) /\ Distinct(taken)' /\ Distinct(g_pending_output)'
    BY <2>1, <2>6 DEF Awaited, Distinct
  <2>8. HandedBack' = HandedBack \cup {h0}
    BY <2>6, <2>7 DEF HandedBack
  <2>9. \A h \in HandedBack' : Owing(h)'
    BY <1>2, <2>4, <2>5, <2>8
  <2>10. \A x \in Items(taken'), y \in Items(g_pending_output') : x.arena # y.arena
    BY <2>2, <2>3, <2>6, <2>7 DEF Awaited, HandedBack
  <2> QED BY <2>2, <2>4, <2>7, <2>8, <2>9, <2>10
<1>8. CASE \E t \in running : TaskPush(t)
  BY <1>1, <1>7, <1>8
<1> QED BY <1>4, <1>5, <1>6, <1>8, OutSteps DEF Awaited

\* What is not handed back yet, and will be.
LEMMA ToBeHanded ==
  ASSUME TypeOK, TypeOK', OneId, OneShot, Patient, Waited, Awaited, [Next]_vars,
         NEW t \in Tasks', t.at = "parsing"
  PROVE  Owing(t)' /\ \A h \in HandedBack' : h.arena # t.arena
<1> USE DEF Waited, Protected, OneEach
<1>0. HandedBack \subseteq Handback /\ Tasks \subseteq Closure /\ running \subseteq Tasks
  BY HandbackTypes, ClosureTypes
<1>1. PendingAnswer => Head(taken) \in HandedBack
  <2> SUFFICES ASSUME PendingAnswer PROVE Head(taken) \in HandedBack
    OBVIOUS
  <2>1. taken # <<>> /\ taken \in Seq(Handback)
    BY HandbackTypes DEF PendingAnswer
  <2>2. Head(taken) \in Items(taken)
    BY <2>1, DistinctTail DEF Awaited
  <2> QED BY <2>2 DEF HandedBack
<1>2. CASE t \in Tasks
  <2>1. t \in Closure /\ Owing(t) /\ \A h \in HandedBack : h.arena # t.arena
    BY <1>0, <1>2 DEF Awaited
  <2>2. Owing(t)'
    BY <1>1, <2>1, OwingNext DEF Closure
  <2>3. ASSUME NEW u \in running, TaskPush(u), u.arena = t.arena PROVE FALSE
    <3>1. /\ u.at = "parsing" /\ running' = (running \ {u}) \cup {[u EXCEPT !.at = "parsed"]}
          /\ UNCHANGED queue /\ u \in Tasks /\ u \in Closure /\ u \notin Items(queue)
      BY <1>0, <2>3 DEF TaskPush, Move, Counted, Once
    <3>2. t.serial = u.serial
      BY <2>1, <2>3, <3>1 DEF Awaited, Owing
    <3>3. t.nth = u.nth
      BY <1>2, <3>1 DEF Holders, Holds
    <3>4. t = u
      BY <1>2, <3>1, <3>2, <3>3 DEF Counted, Once, Same
    <3>5. [u EXCEPT !.at = "parsed"].at = "parsed"
      BY <3>1 DEF Closure
    <3>6. Tasks' = running' \cup Items(queue)
      BY <3>1, TasksAre
    <3> QED BY <3>1, <3>4, <3>5, <3>6
  <2>4. ASSUME NEW h \in HandedBack' PROVE h.arena # t.arena
    BY <2>1, <2>3, HandedNext
  <2> QED BY <2>2, <2>4
<1>3. CASE ~Taking
  <2>1. Older(t)
    BY <1>3, TasksNext DEF Counted, Holders
  <2>2. \A u \in Tasks : [u EXCEPT !.at = "parsed"].at = "parsed"
                         /\ [u EXCEPT !.at = "leaving"].at = "leaving"
    BY <1>0 DEF Closure
  <2>3. t \in Tasks
    BY <1>0, <2>1, <2>2 DEF Older
  <2> QED BY <1>2, <2>3
<1>4. CASE Taking /\ t \notin Tasks
  <2>1. PICK a \in Arena, r \in Request, go \in BOOLEAN : Applies(a, r, go)
    BY <1>4, TakingIs DEF Flow
  <2> DEFINE c == ClosureOf(a, r)
  <2>2. queue' = (IF go THEN Append(queue, c) ELSE queue) /\ UNCHANGED running
    BY <2>1 DEF Applies, Delivered
  <2>3. Top.fd \in Fds /\ queue \in Seq(Closure)
    <3>1. Top.fd \in g_conns
      BY <1>4, TopServed DEF Taking, ParseNew, ParseKnown, At, Top, FdPC
    <3> QED BY <3>1 DEF TypeOK, ObjTypeOK, TaskTypeOK
  <2>4. c \in Closure /\ c.arena = a /\ c.serial = r.serial
    BY <2>1, <2>3 DEF Applies, ClosureOf, Closure, Request
  <2> HIDE DEF c
  <2>5. go /\ t = c
    <3>1. CASE go
      <4>1. Items(queue') = Items(queue) \cup {c}
        BY <2>2, <2>3, <2>4, <3>1, LongQueue
      <4> QED BY <1>4, <2>2, <3>1, <4>1, TasksAre
    <3>2. CASE ~go
      <4>1. Items(queue') = Items(queue)
        BY <2>2, <3>2
      <4> QED BY <1>4, <2>2, <4>1, TasksAre
    <3> QED BY <3>1, <3>2
  <2>6. Owing(t)'
    <3>1. Ready(ApplyRecord(r, NextRecord)) /\ req'[a].flags = ApplyRecord(r, NextRecord).flags
      BY <2>1, <2>5 DEF Applies
    <3>2. Complete(req'[a]) /\ ~Responded(req'[a])
      BY <3>1 DEF Ready, Complete, Responded
    <3>3. req'[a].live /\ req'[a].serial = r.serial
      BY <2>1 DEF Applies, Delivered, SameRequest
    <3> QED BY <2>4, <2>5, <3>2, <3>3 DEF Owing, Answerable
  <2>7. UNCHANGED outVars /\ ~PendingAnswer
    BY <1>4 DEF Taking, ParseNew, ParseKnown, PendingAnswer, At
  <2>8. HandedBack' = HandedBack
    BY <2>7 DEF HandedBack
  <2>9. ASSUME NEW h \in HandedBack, h.arena = a PROVE FALSE
    <3>1. Answerable(a)
      BY <2>9 DEF Awaited, Owing
    <3> QED BY <1>4, <2>1, <2>7, <3>1, StillOwed
  <2> QED BY <2>4, <2>5, <2>6, <2>8, <2>9
<1> QED BY <1>2, <1>3, <1>4

LEMMA AwaitedNext ==
  ASSUME TypeOK, TypeOK', OneId, OneShot, Patient, Waited, Awaited, [Next]_vars
  PROVE  Awaited'
BY HandedNext, ToBeHanded DEF Awaited

\* What is inductive for peers that are patient.
Returned == Waited /\ Awaited

LEMMA ReturnedNext ==
  ASSUME TypeOK, TypeOK', OneId, OneShot, Patient, Returned, [Next]_vars
  PROVE  Returned'
<1>1. Waited'
  BY ProtectedNext, UnbrokenNext DEF Returned, Waited, Protected, OneEach, Flow, Counted
<1>2. Awaited'
  BY AwaitedNext DEF Returned
<1> QED BY <1>1, <1>2 DEF Returned

LEMMA InitReturned == Init => Returned
<1> SUFFICES ASSUME Init PROVE Returned
  OBVIOUS
<1>1. taken = <<>> /\ g_pending_output = <<>> /\ running = {} /\ queue = <<>>
  BY DEF Init
<1>2. HandedBack = {} /\ Tasks = {}
  BY <1>1, NoItems, TasksAre DEF HandedBack
<1>3. Awaited
  BY <1>1, <1>2, NoItems DEF Awaited, Distinct
<1> QED BY <1>3, InitProtected, InitUnbroken DEF Returned, Waited

LEMMA AnsweredComplete ==
  ASSUME TypeOK, TypeOK', OneId, OneShot, Patient, Returned, [Next]_vars
  PROVE  AnswersComplete
<1> USE DEF Returned, Waited, Protected, OneEach
<1> SUFFICES ASSUME NEW a \in Arena, req[a].live, req'[a].ends > req[a].ends
             PROVE  /\ ~Responded(req[a]) /\ Responded(req'[a])
                    /\ "FAILED" \in req'[a].flags \/ Complete(req[a])
  BY DEF AnswersComplete
<1>0. req \in [Arena -> Request] /\ req[a].ends \in Nat /\ ~(req[a].ends > req[a].ends)
  BY DEF TypeOK, ObjTypeOK, Request
<1>1. CASE Taking
  <2>1. PICK b \in Arena, r \in Request, go \in BOOLEAN : Applies(b, r, go) /\ Tells(b, r)
    BY <1>1, TakingIs DEF Flow
  <2>2. a = b /\ r = req[a]
    BY <1>0, <2>1 DEF Applies, Delivered
  <2>3. EndsRequest(r, ApplyRecord(r, NextRecord))
    BY <1>0, <2>1, <2>2 DEF Tells
  <2>4. req'[a].flags = ApplyRecord(r, NextRecord).flags
    BY <2>1, <2>2 DEF Applies
  <2> QED BY <2>2, <2>3, <2>4, ApplyEnds DEF EndsRequest, Responded
<1>2. CASE Writing
  <2>1. PendingAnswer
    BY <1>2 DEF Writing, Expire, Patient
  <2> DEFINE b == Head(taken).arena
             n == req[b].ends + 1
             f == req[b].flags \cup {"RESPONDED"}
  <2>2. req' = [req EXCEPT ![b].flags = f, ![b].ends = n] /\ ~PassOver(req[b])
        /\ taken # <<>> /\ taken \in Seq(Handback)
    BY <2>1, HandbackTypes DEF PendingAnswer, Answer
  <2>3. "RESPONDED" \in f
    OBVIOUS
  <2> HIDE DEF n, f
  <2>4. a = b
    <3> HIDE DEF b
    <3> QED BY <1>0, <2>2
  <2>5. req'[a].flags = f
    <3> HIDE DEF b
    <3> QED BY <1>0, <2>2, <2>4 DEF Request
  <2>6. Head(taken) \in HandedBack
    BY <2>2, DistinctTail DEF Awaited, HandedBack
  <2> QED BY <2>2, <2>3, <2>4, <2>5, <2>6 DEF Awaited, Owing, Answerable, PassOver, Responded
<1>3. CASE UNCHANGED req
  BY <1>0, <1>3
<1>4. ASSUME NEW t \in running, TaskInactive(t) PROVE FALSE
  BY <1>0, <1>4 DEF TaskInactive, Request
<1>5. ASSUME NEW id \in Ids, SweepFree(id) \/ CleanupOne(id) PROVE FALSE
  <2>1. PICK b \in Arena, under \in StackFrame : Releases(b, id, under)
    BY <1>5, Releasing
  <2>2. req' = [req EXCEPT ![b] = Destroyed(req[b])]
    BY <2>1 DEF Releases, ReleaseRequest
  <2>3. Destroyed(req[b]).ends = 0
    BY DEF Destroyed, NewRequest
  <2> QED BY <1>0, <2>2, <2>3
<1> QED BY <1>1, <1>2, <1>3, <1>4, <1>5, ReqSteps

(***************************************************************************)
(* When peers send one request on a connection, keep it open until it is   *)
(* answered and are served in time, a response is written only for a       *)
(* request whose two streams are complete and that was not ended before,   *)
(* unless it is the END_REQUEST of fail_request: what                      *)
(* process_pending_output takes was complete when it was handed over, and  *)
(* is the same request still.                                              *)
(***************************************************************************)
THEOREM AnswersAreComplete ==
  ASSUME OneId, OneShot, Patient
  PROVE  Spec => OnlyCompleteAnswered
<1>1. Init => Returned
  BY InitReturned
<1>2. TypeOK /\ TypeOK' /\ Returned /\ [Next]_vars => Returned'
  BY ReturnedNext
<1>3. TypeOK /\ TypeOK' /\ Returned /\ [Next]_vars => [AnswersComplete]_vars
  BY AnsweredComplete
<1> QED BY <1>1, <1>2, <1>3, TypeCorrect, PTL DEF Spec, OnlyCompleteAnswered

-----------------------------------------------------------------------------
(* What the peers have been answered, and what is still to be begun *)

LEMMA JoinedItems ==
  ASSUME NEW in \in Seq(Record), NEW rx \in Seq(Record)
  PROVE  \A x \in Items(in) \cup Items(rx) : x.type # "PARTIAL" => x \in Items(Joined(in, rx))
<1> DEFINE n == IF EndsPartial(in) /\ rx # <<>> THEN Len(in) - 1 ELSE Len(in)
           s == Joined(in, rx)
<1>1. n \in Nat /\ n <= Len(in)
  BY DEF EndsPartial
<1>2. \A i \in 1 .. Len(in) : in[i].type # "PARTIAL" => i <= n
  BY DEF EndsPartial
<1>3. /\ Len(s) = n + Len(rx)
      /\ \A i \in 1 .. Len(s) : IF i <= n THEN s[i] = in[i] ELSE s[i] = rx[i - n]
  BY <1>1 DEF Joined, EndsPartial
<1> HIDE DEF n, s
<1>4. ASSUME NEW i \in 1 .. Len(in), in[i].type # "PARTIAL"
      PROVE  i \in 1 .. Len(s) /\ s[i] = in[i]
  BY <1>1, <1>2, <1>3, <1>4
<1>5. ASSUME NEW j \in 1 .. Len(rx)
      PROVE  n + j \in 1 .. Len(s) /\ s[n + j] = rx[j]
  <2> DEFINE k == n + j
  <2>1. k \in 1 .. Len(s) /\ ~(k <= n) /\ k - n = j
    BY <1>1, <1>3
  <2> HIDE DEF k
  <2>2. s[k] = rx[j]
    BY <1>3, <2>1
  <2> QED BY <2>1, <2>2 DEF k
<1>6. ASSUME NEW x \in Items(in) \cup Items(rx), x.type # "PARTIAL"
      PROVE  x \in Items(s)
  <2>1. CASE x \in Items(in)
    BY <1>4, <1>6, <2>1 DEF Items
  <2>2. CASE x \in Items(rx)
    BY <1>5, <2>2 DEF Items
  <2> QED BY <1>6, <2>1, <2>2
<1> QED BY <1>6 DEF s

\* The request that the connection is for has been begun, and its response,
\* if there was one, has not been read.
Open(fd) == \A id \in Ids : phase[fd][id] # "idle"

\* What a peer has sent stays sent, and what it has begun, with a BEGIN_REQUEST.
Grown(fd) ==
  /\ \A x \in Items(sock[fd].rx) : x.type # "PARTIAL" => x \in Items(sock'[fd].rx)
  /\ sock'[fd].used =>
       sock[fd].used \/ (Open(fd)' /\ \E x \in Items(sock'[fd].rx) : x.type = "BEGIN")

LEMMA SendIs ==
  ASSUME TypeOK, NEW cfd \in Fds, NEW recs \in Seq(Record), recs # <<>>, Send(cfd, recs),
         recs[Len(recs)].type = "BEGIN" => Open(cfd)'
  PROVE  /\ \A fd \in Fds \ {cfd} : sock'[fd] = sock[fd]
         /\ sock'[cfd].tx = sock[cfd].tx /\ Grown(cfd)
<1>1. sock \in [Fds -> Socket] /\ sock[cfd].rx \in Seq(Record)
  BY DEF TypeOK, EnvTypeOK, Socket
<1> DEFINE rx == Joined(sock[cfd].rx, recs)
           used == sock[cfd].used \/ recs[Len(recs)].type = "BEGIN"
           bad == recs[Len(recs)].type = "BAD"
<1>2. sock' = [sock EXCEPT ![cfd].rx = rx, ![cfd].used = used, ![cfd].bad = bad]
  BY DEF Send
<1>3. \A x \in Items(sock[cfd].rx) \cup Items(recs) : x.type # "PARTIAL" => x \in Items(rx)
  BY <1>1, JoinedItems
<1>4. used => sock[cfd].used \/ recs[Len(recs)].type = "BEGIN"
  OBVIOUS
<1>5. recs[Len(recs)] \in Items(recs)
  BY DEF Items
<1> HIDE DEF rx, used, bad
<1>6. /\ \A fd \in Fds \ {cfd} : sock'[fd] = sock[fd]
      /\ sock'[cfd].tx = sock[cfd].tx /\ sock'[cfd].rx = rx /\ sock'[cfd].used = used
  BY <1>1, <1>2 DEF Socket
<1> QED BY <1>3, <1>4, <1>5, <1>6 DEF Grown

\* What a step of a patient peer does to its connection.
Connects(fd) == /\ fd \notin g_conns /\ ~sock'[fd].used /\ sock'[fd].tx = <<>>
                /\ phase'[fd] = phase[fd]

SendsMore(fd) == sock'[fd].tx = sock[fd].tx /\ Grown(fd) /\ (Open(fd) => Open(fd)')

Reads(fd) ==
  /\ sock[fd].tx # <<>> /\ sock'[fd].tx = <<>>
  /\ sock'[fd].rx = sock[fd].rx /\ sock'[fd].used = sock[fd].used

LEMMA PeerIs ==
  ASSUME TypeOK, OneId, Patient, Linked, NEW cfd \in Fds, Peer(cfd)
  PROVE  /\ \A fd \in Fds \ {cfd} : sock'[fd] = sock[fd] /\ phase'[fd] = phase[fd]
         /\ Connects(cfd) \/ SendsMore(cfd) \/ Reads(cfd)
<1>1. sock \in [Fds -> Socket]
  BY DEF TypeOK, EnvTypeOK
<1> DEFINE Others == \A fd \in Fds \ {cfd} : sock'[fd] = sock[fd] /\ phase'[fd] = phase[fd]
<1>2. ASSUME NEW rec \in Record, Send(cfd, <<rec>>), rec.type # "BEGIN",
             UNCHANGED phase \/ \E id \in Ids, p \in Phase \ {"idle"} : Enter(cfd, id, p)
      PROVE  Others /\ SendsMore(cfd)
  <2>1. /\ <<rec>> \in Seq(Record) /\ <<rec>> # <<>> /\ <<rec>>[Len(<<rec>>)] = rec
    BY OneRecord
  <2>2. /\ \A fd \in Fds \ {cfd} : sock'[fd] = sock[fd]
        /\ sock'[cfd].tx = sock[cfd].tx /\ Grown(cfd)
    BY <1>2, <2>1, SendIs
  <2>3. /\ \A fd \in Fds \ {cfd} : phase'[fd] = phase[fd]
        /\ Open(cfd) => Open(cfd)'
    <3>1. CASE UNCHANGED phase
      BY <3>1 DEF Open
    <3>2. CASE \E id \in Ids, p \in Phase \ {"idle"} : Enter(cfd, id, p)
      BY <3>2, Entered DEF Open, OneId
    <3> QED BY <1>2, <3>1, <3>2
  <2> QED BY <2>2, <2>3 DEF SendsMore
<1>3. CASE \E keep \in KeepFlags : PeerConnect(cfd, keep)
  <2>1. PICK keep \in KeepFlags : PeerConnect(cfd, keep)
    BY <1>3
  <2>2. /\ sock' = [sock EXCEPT ![cfd] = [FreeSock EXCEPT !.st = "backlog", !.keep = keep,
                                                          !.serial = connects + 1]]
        /\ UNCHANGED phase /\ sock[cfd].st = "free"
    BY <2>1 DEF PeerConnect
  <2>3. sock'[cfd].tx = <<>> /\ ~sock'[cfd].used
    BY <1>1, <2>2 DEF FreeSock
  <2>4. \A fd \in Fds \ {cfd} : sock'[fd] = sock[fd]
    BY <1>1, <2>2
  <2>5. cfd \notin g_conns
    BY <2>2 DEF Linked
  <2> QED BY <2>2, <2>3, <2>4, <2>5 DEF Connects
<1>4. ASSUME NEW id \in Ids, PeerBegin(cfd, id)
      PROVE  Others /\ SendsMore(cfd)
  <2> DEFINE rec == Rec("BEGIN", id, 8, sock[cfd].keep)
             other == Bare("OTHER")
  <2>1. rec \in Record /\ other \in Record
    BY <1>1, RecType DEF Socket
  <2>2. PICK before \in {<<>>, <<other>>} : Send(cfd, before \o <<rec>>)
    BY <1>4 DEF PeerBegin
  <2> DEFINE recs == before \o <<rec>>
  <2> HIDE DEF rec, other
  <2>3. recs \in Seq(Record) /\ recs # <<>>
    <3>1. CASE before = <<>>
      <4>1. recs = <<rec>>
        BY <3>1
      <4> QED BY <2>1, <4>1, OneRecord
    <3>2. CASE before = <<other>>
      <4>1. recs \in Seq(Record) /\ Len(recs) = 2
        BY <2>1, <3>2
      <4> QED BY <4>1
    <3> QED BY <2>2, <3>1, <3>2
  <2>4. Enter(cfd, id, "begun")
    BY <1>4 DEF PeerBegin
  <2>5. Open(cfd)' /\ \A fd \in Fds \ {cfd} : phase'[fd] = phase[fd]
    BY <2>4, Entered DEF Open, OneId
  <2> HIDE DEF recs
  <2>6. Send(cfd, recs)
    BY <2>2 DEF recs
  <2> QED BY <2>3, <2>5, <2>6, SendIs DEF SendsMore
<1>5. ASSUME NEW id \in Ids, PeerStream(cfd, id)
      PROVE  Others /\ SendsMore(cfd)
  <2>1. PICK type \in {"PARAMS", "STDIN"}, len \in ParamLens \cup StdinLens \cup {0} :
          Send(cfd, <<Rec(type, id, len, FALSE)>>)
    BY <1>5 DEF PeerStream
  <2>2. \E p \in Phase \ {"idle"} : Enter(cfd, id, p)
    BY <1>5 DEF PeerStream, Phase
  <2>3. len \in Nat
    BY ConstantsAssumption
  <2>4. Rec(type, id, len, FALSE) \in Record
    BY <2>3, RecType
  <2>5. Rec(type, id, len, FALSE).type # "BEGIN"
    BY DEF Rec
  <2> QED BY <1>2, <2>1, <2>2, <2>4, <2>5
<1>6. CASE PeerPartial(cfd)
  <2>1. Bare("PARTIAL") \in Record /\ Bare("PARTIAL").type # "BEGIN"
    BY RecType DEF Bare, Rec
  <2> QED BY <1>2, <1>6, <2>1 DEF PeerPartial
<1>7. CASE PeerRead(cfd)
  <2>1. sock' = [sock EXCEPT ![cfd].tx = <<>>] /\ sock[cfd].tx # <<>>
    BY <1>7 DEF PeerRead
  <2>2. /\ \A fd \in Fds \ {cfd} : sock'[fd] = sock[fd]
        /\ Reads(cfd)
    BY <1>1, <2>1 DEF Socket, Reads
  <2>3. \A fd \in Fds \ {cfd} : phase'[fd] = phase[fd]
    <3>1. \E f : phase' = [phase EXCEPT ![cfd] = f]
      <4> DEFINE f == [id \in Ids |->
           IF \E i \in 1 .. Len(sock[cfd].tx) : sock[cfd].tx[i] = id THEN "idle"
           ELSE phase[cfd][id]]
      <4>1. phase' = [phase EXCEPT ![cfd] = f]
        BY <1>1, <1>7 DEF PeerRead, TypeOK, EnvTypeOK
      <4> QED BY <4>1
    <3> QED BY <3>1 DEF TypeOK, EnvTypeOK
  <2> QED BY <2>2, <2>3
<1>8. /\ \A id \in Ids : ~PeerAbort(cfd, id)
      /\ ~PeerBad(cfd) /\ \A hup \in BOOLEAN : ~PeerClose(cfd, hup)
  BY DEF Patient, PeerAbort, PeerBad, PeerClose
<1> QED BY <1>3, <1>4, <1>5, <1>6, <1>7, <1>8 DEF Peer

\* The BEGIN_REQUEST that is to come, or none was sent.
Coming(fd) ==
  /\ \A x \in ToCome(fd) : x.type = "BEGIN" => x \in ToCome(fd)'
  /\ sock'[fd].used => sock[fd].used \/ \E x \in Items(sock'[fd].rx) : x.type = "BEGIN"

LEMMA ComingStays ==
  ASSUME NEW fd, Virgin(fd), Coming(fd) \/ ~sock'[fd].used
  PROVE  Virgin(fd)'
BY DEF Virgin, Coming, ToCome

LEMMA MoreToCome ==
  ASSUME TypeOK, NEW fd \in Fds, Past(fd) \in Nat, Past(fd)' \in Nat, Past(fd)' <= Past(fd),
         conn'[fd].in_buf = conn[fd].in_buf, sock'[fd].rx = sock[fd].rx,
         sock'[fd].used = sock[fd].used
  PROVE  Coming(fd)
<1> DEFINE in == conn[fd].in_buf
           p == Past(fd)
           q == Past(fd)'
<1>1. /\ Unread(fd) = {in[k] : k \in p + 1 .. Len(in)}
      /\ Unread(fd)' = {in[k] : k \in q + 1 .. Len(in)}
  BY DEF Unread
<1>2. p \in Nat /\ q \in Nat /\ q <= p /\ Len(in) \in Nat
  BY DEF TypeOK, ObjTypeOK, Connection
<1> HIDE DEF in, p, q
<1>3. \A k \in p + 1 .. Len(in) : k \in q + 1 .. Len(in)
  BY <1>2
<1>4. Unread(fd) \subseteq Unread(fd)'
  BY <1>1, <1>3
<1> QED BY <1>4 DEF Coming, ToCome

LEMMA ComingParse ==
  ASSUME TypeOK, TypeOK', Loops, Tended, ParseSkip \/ ParseEnd \/ ParseBad
  PROVE  \A fd \in Fds : Coming(fd)
<1>1. ParseStep
  BY DEF ParseStep
<1>2. At("fcgi") /\ Top.fd \in Fds /\ Top.n \in Nat /\ stack # <<>> /\ UNCHANGED sock
  BY <1>1, PastParse DEF StackFrame, FrameOf, ParseSkip, ParseEnd, ParseBad
<1>3. \A fd \in Fds : Past(fd) \in Nat /\ (fd # Top.fd => Past(fd) = 0 /\ Past(fd)' = 0)
  BY <1>1, PastParse, PastIs DEF Past
<1>4. ASSUME NEW fd \in Fds, fd # Top.fd
      PROVE  Coming(fd)
  <2>1. conn'[fd] = conn[fd]
    BY <1>4 DEF ParseSkip, ParseEnd, ParseBad, TypeOK, ObjTypeOK
  <2> QED BY <1>2, <1>3, <1>4, <2>1, MoreToCome
<1>5. ASSUME NEW fd \in Fds, fd = Top.fd
      PROVE  Coming(fd)
  <2> DEFINE n == Top.n
             in == conn[fd].in_buf
             new == conn'[fd].in_buf
  <2>1. n \in Nat /\ in \in Seq(Record) /\ Past(fd) = n
    BY <1>2, <1>5 DEF Past, TypeOK, ObjTypeOK, Connection
  <2>2. Unread(fd) = {in[k] : k \in n + 1 .. Len(in)}
    BY <2>1 DEF Unread
  <2>3. CASE ParseSkip
    <3>1. Past(fd)' = n + 1 /\ new = in
      BY <1>1, <1>5, <2>1, <2>3, PastParse DEF ParseSkip
    <3>2. Unread(fd)' = {in[k] : k \in (n + 1) + 1 .. Len(in)}
      BY <3>1 DEF Unread
    <3>3. in[n + 1].type # "BEGIN"
      BY <1>5, <2>3 DEF ParseSkip, NextRecord, InBuf
    <3> HIDE DEF n, in, new
    <3>4. \A k \in n + 1 .. Len(in) : k = n + 1 \/ k \in (n + 1) + 1 .. Len(in)
      BY <2>1
    <3>5. \A x \in Unread(fd) : x.type = "BEGIN" => x \in Unread(fd)'
      BY <2>2, <3>2, <3>3, <3>4
    <3> QED BY <1>2, <3>5 DEF Coming, ToCome
  <2>4. CASE ParseEnd \/ ParseBad
    <3>1. Past(fd)' = 0
      BY <1>1, <2>4, PastParse
    <3>2. new = SubSeq(in, n + 1, Len(in))
      BY <1>5, <2>4 DEF ParseEnd, ParseBad, Consumed, InBuf, TypeOK, ObjTypeOK, Connection
    <3>3. Unread(fd)' = {new[k] : k \in 0 + 1 .. Len(new)}
      BY <3>1 DEF Unread
    <3> HIDE DEF n, in, new
    <3>4. ASSUME NEW k \in n + 1 .. Len(in)
          PROVE  \E j \in 0 + 1 .. Len(new) : in[k] = new[j]
      <4> DEFINE j == k - n
      <4>1. j \in 0 + 1 .. Len(new) /\ new[j] = in[j + n] /\ j + n = k
        BY <2>1, <3>2, <3>4
      <4> QED BY <4>1
    <3>5. Unread(fd) \subseteq Unread(fd)'
      BY <2>2, <3>3, <3>4
    <3> QED BY <1>2, <3>5 DEF Coming, ToCome
  <2> QED BY <2>3, <2>4
<1> QED BY <1>4, <1>5

LEMMA ComingIo ==
  ASSUME TypeOK, TypeOK', Loops, Tended, [Next]_vars, NEW e \in batch, IoEvent(e)
  PROVE  \A fd \in Fds : Coming(fd)
<1>1. stack = <<>> /\ ~ParseStep
  BY IoEntry, PastParse
<1>2. \A fd \in Fds : Past(fd) = 0 /\ Past(fd)' = 0
  BY <1>1, PastSteps DEF Past, At
<1>3. /\ \A fd \in Fds \ {e.fd} : conn'[fd] = conn[fd] /\ sock'[fd] = sock[fd]
      /\ \A fd \in Fds : sock'[fd].used = sock[fd].used
      /\ e.fd \in Fds
      /\ \/ /\ conn'[e.fd].in_buf = conn[e.fd].in_buf /\ sock'[e.fd].rx = sock[e.fd].rx
         \/ /\ conn'[e.fd].in_buf = Joined(conn[e.fd].in_buf, sock[e.fd].rx)
            /\ sock'[e.fd].rx = <<>>
  BY IoEventIs
<1>4. \A fd \in Fds : /\ ToCome(fd) = Items(conn[fd].in_buf) \cup Items(sock[fd].rx)
                      /\ ToCome(fd)' = Items(conn'[fd].in_buf) \cup Items(sock'[fd].rx)
  <2>1. \A s : {s[k] : k \in 0 + 1 .. Len(s)} = Items(s)
    BY DEF Items
  <2>2. \A fd \in Fds : Unread(fd) = {conn[fd].in_buf[k] : k \in 0 + 1 .. Len(conn[fd].in_buf)}
    BY <1>2 DEF Unread
  <2>3. \A fd \in Fds : Unread(fd)' = {conn'[fd].in_buf[k] : k \in 0 + 1 .. Len(conn'[fd].in_buf)}
    BY <1>2 DEF Unread
  <2>4. \A fd \in Fds : Unread(fd) = Items(conn[fd].in_buf) /\ Unread(fd)' = Items(conn'[fd].in_buf)
    BY <2>1, <2>2, <2>3, Zenon
  <2> QED BY <2>4 DEF ToCome
<1>5. \A x \in ToCome(e.fd) : x.type = "BEGIN" => x \in ToCome(e.fd)'
  <2>1. conn[e.fd].in_buf \in Seq(Record) /\ sock[e.fd].rx \in Seq(Record)
    BY <1>3 DEF TypeOK, ObjTypeOK, EnvTypeOK, Connection, Socket
  <2>2. CASE conn'[e.fd].in_buf = Joined(conn[e.fd].in_buf, sock[e.fd].rx)
    BY <1>3, <1>4, <2>1, <2>2, JoinedItems
  <2>3. CASE conn'[e.fd].in_buf = conn[e.fd].in_buf /\ sock'[e.fd].rx = sock[e.fd].rx
    BY <1>3, <1>4, <2>3
  <2> QED BY <1>3, <2>2, <2>3
<1> QED BY <1>3, <1>4, <1>5 DEF Coming

LEMMA ComingOn ==
  ASSUME TypeOK, TypeOK', OneId, Patient, Loops, Tended, Linked, Wire, [Next]_vars
  PROVE  \A fd \in Fds : \/ Coming(fd) \/ ~sock'[fd].used
                         \/ Taking /\ Top.fd = fd
<1>1. \A fd \in Fds : Past(fd) \in Nat
  BY PastIs
<1>2. CASE Taking
  <2>1. ParseStep
    BY <1>2 DEF ParseStep, Taking
  <2>2. \A fd \in Fds : fd # Top.fd => Past(fd) = 0 /\ Past(fd)' = 0
    BY <1>2, <2>1, PastParse DEF Past
  <2>3. \A fd \in Fds : SameWire(fd)
    BY <1>2, StillWire
  <2> QED BY <1>1, <1>2, <2>2, <2>3, MoreToCome DEF SameWire
<1>3. CASE ~ParseStep /\ \/ Aside \/ Flushing \/ Writing \/ SweepErase
                         \/ \E t \in running : TaskLeave(t)
  <2>1. \A fd \in Fds : SameWire(fd)
    BY <1>3, StillWire
  <2>2. \A fd \in Fds : Past(fd)' = Past(fd) /\ Past(fd)' <= Past(fd)
    BY <1>1, <1>3, PastSteps
  <2> QED BY <1>1, <2>1, <2>2, MoreToCome DEF SameWire
<1>4. CASE \E a \in Arena : ParseFault(a)
  <2>1. UNCHANGED <<stack, conn, sock, phase>>
    BY <1>4 DEF ParseFault
  <2>2. \A fd \in Fds : ToCome(fd)' = ToCome(fd)
    BY <2>1 DEF ToCome, Unread, Past, At, Top
  <2> QED BY <2>1, <2>2 DEF Coming
<1>5. CASE ParseSkip \/ ParseEnd \/ ParseBad
  BY <1>5, ComingParse
<1>6. CASE ParseDefer
  <2>1. ParseStep
    BY <1>6 DEF ParseStep
  <2>2. \A fd \in Fds : Past(fd)' \in Nat /\ Past(fd)' <= Past(fd)
    BY <1>1, <1>6, <2>1, PastParse
  <2>3. \A fd \in Fds : SameWire(fd)
    BY <1>6, StillWire
  <2> QED BY <1>1, <2>2, <2>3, MoreToCome DEF SameWire
<1>7. CASE \E e \in batch : IoEvent(e)
  BY <1>7, ComingIo
<1>8. CASE ~ParseStep /\ \E gd \in Fds : AcceptOne(gd)
  <2>1. PICK gd \in Fds : AcceptOne(gd)
    BY <1>8
  <2>2. /\ sock[gd].st = "backlog"
        /\ sock' = [sock EXCEPT ![gd].st = "conn"]
        /\ conn' = [conn EXCEPT ![gd] = NewConnection(sock[gd].serial)]
    BY <2>1 DEF AcceptOne, Backlog
  <2>3. /\ \A fd \in Fds : sock'[fd].used = sock[fd].used /\ sock'[fd].rx = sock[fd].rx
        /\ \A fd \in Fds \ {gd} : conn'[fd] = conn[fd]
        /\ conn'[gd].in_buf = <<>>
    BY <2>2 DEF TypeOK, EnvTypeOK, ObjTypeOK, Socket, NewConnection
  <2>4. \A fd \in Fds : Past(fd)' = Past(fd) /\ Past(fd)' <= Past(fd)
    BY <1>1, <1>8, PastSteps
  <2>5. conn[gd].in_buf = <<>>
    BY <2>2 DEF Linked, Wire, Unused
  <2> QED BY <1>1, <2>3, <2>4, <2>5, MoreToCome
<1>9. CASE ~ParseStep /\ \E gd \in Fds : Peer(gd)
  <2>1. PICK gd \in Fds : Peer(gd)
    BY <1>9
  <2>2. UNCHANGED <<conn, g_conns, stack>>
    BY <2>1, PeerUnchanged
  <2>3. \A fd \in Fds : Unread(fd)' = Unread(fd)
    BY <2>2 DEF Unread, Past, At, Top
  <2>4. /\ \A fd \in Fds \ {gd} : sock'[fd] = sock[fd]
        /\ Connects(gd) \/ SendsMore(gd) \/ Reads(gd)
    BY <2>1, PeerIs
  <2>5. Coming(gd) \/ ~sock'[gd].used
    BY <2>3, <2>4 DEF Connects, SendsMore, Reads, Grown, Coming, ToCome
  <2>6. \A fd \in Fds \ {gd} : Coming(fd)
    BY <2>3, <2>4 DEF Coming, ToCome
  <2> QED BY <2>5, <2>6
<1>10. CASE ~ParseStep /\ CloseFd
  <2>1. Top.fd \in g_conns /\ Top.fd \in Fds
    BY <1>10, TopServed DEF CloseFd, At, Top, FdPC, TypeOK, ObjTypeOK
  <2>2. /\ ~sock'[Top.fd].used
        /\ \A fd \in Fds \ {Top.fd} : conn'[fd] = conn[fd] /\ sock'[fd] = sock[fd]
    BY <1>10, <2>1 DEF CloseFd, TypeOK, EnvTypeOK, ObjTypeOK, FreeSock
  <2>3. \A fd \in Fds : Past(fd)' = Past(fd) /\ Past(fd)' <= Past(fd)
    BY <1>1, <1>10, PastSteps
  <2> QED BY <1>1, <2>2, <2>3, MoreToCome
<1>11. ParseStep => \/ Taking \/ ParseSkip \/ ParseEnd \/ ParseBad \/ ParseDefer
                    \/ \E a \in Arena : ParseFault(a)
  BY DEF ParseStep, Taking
<1> QED BY <1>2, <1>3, <1>4, <1>5, <1>6, <1>7, <1>8, <1>9, <1>10, <1>11, StepCases

\* A connection on which nothing was begun stays so, but for a BEGIN_REQUEST
\* that is taken.
LEMMA VirginStays ==
  ASSUME TypeOK, TypeOK', OneId, Patient, Loops, Tended, Linked, Wire, [Next]_vars
  PROVE  \A fd \in Fds :
           /\ Virgin(fd) => Virgin(fd)' \/ (Taking /\ Top.fd = fd)
           /\ ParseDefer /\ Top.fd = fd => Virgin(fd)'
<1>1. \A fd \in Fds : Virgin(fd) => Virgin(fd)' \/ (Taking /\ Top.fd = fd)
  BY ComingOn, ComingStays
<1>2. ASSUME ParseDefer, NEW fd \in Fds, Top.fd = fd
      PROVE  Virgin(fd)'
  <2>1. Virgin(fd)
    BY <1>2, DeferVirgin
  <2>2. ~Taking
    <3>1. ParseStep /\ Past(fd) \in Nat
      BY <1>2, PastIs DEF ParseStep
    <3>2. Past(fd)' = 0 /\ (Taking => Past(fd)' = Past(fd) + 1)
      BY <1>2, <3>1, PastParse
    <3> QED BY <3>1, <3>2
  <2> QED BY <1>1, <1>2, <2>1, <2>2
<1> QED BY <1>1, <1>2

-----------------------------------------------------------------------------
(* The responses on their way *)

Clear(fd) == sock[fd].tx = <<>> /\ conn[fd].out_buf = <<>>

\* One response at most, and it is for a request of the connection.
Lean(fd) ==
  /\ Len(sock[fd].tx) + Len(conn[fd].out_buf) <= 1
  /\ Items(sock[fd].tx) \cup Items(conn[fd].out_buf) \subseteq Ids

Singly == \A fd \in Fds : Lean(fd) /\ (Clear(fd) \/ Open(fd))

Unopened == \A fd \in Fds \ g_conns : Virgin(fd)

\* What is on its way and what is begun stay as they are.
SameOut(fd) ==
  /\ sock'[fd].tx = sock[fd].tx /\ conn'[fd].out_buf = conn[fd].out_buf
  /\ sock'[fd].used = sock[fd].used /\ phase'[fd] = phase[fd]

KeepsOut(fd) ==
  /\ Clear(fd)' <=> Clear(fd)
  /\ Lean(fd) => Lean(fd)'
  /\ Open(fd) => Open(fd)'
  /\ sock'[fd].used => sock[fd].used \/ Open(fd)'

ReadsOut(fd) == /\ ~Clear(fd) /\ Clear(fd)' /\ sock'[fd].used = sock[fd].used
                /\ \E gd \in Fds : Peer(gd)

ClosesOut(fd) == fd \in g_conns \ g_conns' /\ Clear(fd)' /\ ~sock'[fd].used

\* A request of the connection has been answered.
EndsOut(fd) ==
  \E a \in Arena, id \in Ids :
    /\ sock'[fd].tx = sock[fd].tx /\ conn'[fd].out_buf = Append(conn[fd].out_buf, id)
    /\ sock'[fd].used = sock[fd].used /\ phase'[fd] = phase[fd]
    /\ req'[a].live /\ req'[a].conn_ptr = fd /\ Responded(req'[a])
    /\ (Kindred(a, fd) /\ ~Responded(req[a])) \/ (Taking /\ ~req[a].live)
    /\ Taking => Top.fd = fd

LEMMA SameKeeps ==
  ASSUME NEW fd, SameOut(fd)
  PROVE  KeepsOut(fd)
BY DEF SameOut, KeepsOut, Clear, Lean, Open

LEMMA OneOrNone ==
  ASSUME NEW S, NEW s \in Seq(S), NEW t \in Seq(S), Len(s) + Len(t) <= 1
  PROVE  /\ s = <<>> \/ t = <<>>
         /\ \A n \in Nat \ {0} : Len(t) <= n - Len(s)
OBVIOUS

LEMMA FlushOut ==
  ASSUME TypeOK, NEW cfd \in Fds, Flush(cfd, conn[cfd]), Lean(cfd), ~sock[cfd].eof, ~sock[cfd].hup,
         UNCHANGED phase, \A fd \in Fds : sock'[fd].used = sock[fd].used
  PROVE  (\A fd \in Fds : KeepsOut(fd)) /\ conn'[cfd].out_buf = <<>>
<1> DEFINE tx == sock[cfd].tx
           out == conn[cfd].out_buf
           c == [conn[cfd] EXCEPT !.out_buf = <<>>, !.epollout = FALSE]
<1>1. /\ sock \in [Fds -> Socket] /\ conn \in [Fds -> Connection]
      /\ tx \in Seq(Ids \cup {NoId}) /\ out \in Seq(Ids \cup {NoId})
  BY DEF TypeOK, EnvTypeOK, ObjTypeOK, Socket, Connection, Sent
<1>2. /\ Len(out) <= SndBuf - Len(tx)
      /\ tx = <<>> \/ out = <<>>
  <2>1. Len(tx) + Len(out) <= 1
    BY DEF Lean
  <2>2. SndBuf \in Nat \ {0}
    BY ConstantsAssumption
  <2> HIDE DEF tx, out
  <2> QED BY <1>1, <2>1, <2>2, OneOrNone
<1>3. ~FlushSome(cfd, conn[cfd]) /\ ~FlushError(cfd, conn[cfd])
  <2>1. ~(Len(out) > SndBuf - Len(tx))
    <3>1. Len(out) \in Int /\ SndBuf - Len(tx) \in Int
      BY <1>1, ConstantsAssumption
    <3> HIDE DEF tx, out
    <3> QED BY <1>2, <3>1
  <2> QED BY <2>1 DEF FlushSome, FlushError
<1>4. /\ conn' = [conn EXCEPT ![cfd] = c]
      /\ sock' = [sock EXCEPT ![cfd].tx = tx \o out]
  BY <1>3 DEF Flush, FlushAll
<1>5. c.out_buf = <<>>
  BY <1>1 DEF Connection
<1> HIDE DEF c
<1>6. /\ conn'[cfd].out_buf = <<>> /\ sock'[cfd].tx = tx \o out
      /\ \A fd \in Fds \ {cfd} : conn'[fd] = conn[fd] /\ sock'[fd].tx = sock[fd].tx
  BY <1>1, <1>4, <1>5 DEF Socket
<1>7. \A fd \in Fds \ {cfd} : KeepsOut(fd)
  BY <1>6, SameKeeps DEF SameOut
<1>8. KeepsOut(cfd)
  <2>1. CASE out = <<>>
    <3>1. tx \o out = tx
      BY <1>1, <2>1
    <3> QED BY <1>6, <2>1, <3>1, SameKeeps DEF SameOut
  <2>2. CASE out # <<>>
    <3>1. tx = <<>>
      BY <1>2, <2>2
    <3>2. tx \o out = out
      BY <1>1, <3>1
    <3>3. (Clear(cfd)' <=> Clear(cfd)) /\ Lean(cfd)'
      BY <1>6, <3>1, <3>2 DEF Clear, Lean
    <3> QED BY <3>3 DEF KeepsOut, Open
  <2> QED BY <2>1, <2>2
<1> QED BY <1>6, <1>7, <1>8

\* An answer to a request that lives and that nobody has answered.
LEMMA AnswerEnds ==
  ASSUME TypeOK, Owned, ~Taking, NEW a \in Arena, req[a].live, ~Responded(req[a]),
         UNCHANGED <<sock, phase>>, Responded(req'[a]), SameRequest(req[a], req'[a]),
         \A fd \in Fds : IF fd = req[a].conn_ptr
                           THEN conn'[fd].out_buf = Append(conn[fd].out_buf, req[a].id)
                           ELSE conn'[fd].out_buf = conn[fd].out_buf
  PROVE  \A fd \in Fds : SameOut(fd) \/ EndsOut(fd)
<1>1. req[a].id \in Ids
  BY DEF Owned, Reaches, Reached
<1>2. ASSUME NEW fd \in Fds, fd # req[a].conn_ptr
      PROVE  SameOut(fd)
  BY <1>2 DEF SameOut
<1>3. ASSUME NEW fd \in Fds, fd = req[a].conn_ptr
      PROVE  EndsOut(fd)
  <2>1. /\ conn'[fd].out_buf = Append(conn[fd].out_buf, req[a].id)
        /\ sock'[fd] = sock[fd] /\ phase'[fd] = phase[fd]
        /\ req'[a].live /\ req'[a].conn_ptr = fd /\ Kindred(a, fd)
    BY <1>3 DEF SameRequest, Kindred
  <2>2. /\ sock'[fd].tx = sock[fd].tx /\ sock'[fd].used = sock[fd].used
        /\ (Kindred(a, fd) /\ ~Responded(req[a])) \/ (Taking /\ ~req[a].live)
    BY <2>1
  <2> QED BY <1>1, <2>1, <2>2, Zenon DEF EndsOut
<1> QED BY <1>2, <1>3

LEMMA WritingOut ==
  ASSUME TypeOK, Loops, Tended, Owned, Writing, ~Taking
  PROVE  \A fd \in Fds : SameOut(fd) \/ EndsOut(fd)
<1>1. /\ conn \in [Fds -> Connection] /\ req \in [Arena -> Request] /\ g_conns \subseteq Fds
  BY DEF TypeOK, ObjTypeOK
<1>2. CASE PendingAnswer
  <2> DEFINE a == Head(taken).arena
             gd == req[a].conn_ptr
  <2>1. a \in Arena
    <3>1. taken # <<>> /\ taken \in Seq(Handback)
      BY <1>2, HandbackTypes DEF PendingAnswer
    <3>2. Head(taken) \in Handback
      BY <3>1
    <3> QED BY <3>2 DEF Handback
  <2>2. /\ req[a].live /\ ~Responded(req[a]) /\ gd \in Fds
        /\ UNCHANGED <<sock, phase>> /\ Answer(a)
    BY <1>1, <1>2 DEF PendingAnswer, PassOver, ConnGone
  <2>3. \E want : conn' = [conn EXCEPT ![gd].out_buf = Append(@, req[a].id), ![gd].epollout = want]
    BY <2>2 DEF Answer
  <2>4. Responded(req'[a]) /\ SameRequest(req[a], req'[a])
    <3>1. req' = [req EXCEPT ![a].flags = @ \cup {"RESPONDED"}, ![a].ends = @ + 1]
      BY <2>2 DEF Answer
    <3> HIDE DEF a
    <3> QED BY <1>1, <2>1, <3>1 DEF Request, Responded, SameRequest
  <2> HIDE DEF a, gd
  <2>5. \A fd \in Fds : IF fd = gd
                          THEN conn'[fd].out_buf = Append(conn[fd].out_buf, req[a].id)
                          ELSE conn'[fd].out_buf = conn[fd].out_buf
    BY <1>1, <2>2, <2>3 DEF Connection
  <2> QED BY <2>1, <2>2, <2>4, <2>5, AnswerEnds DEF gd
<1>3. ASSUME NEW gd \in Fds, NEW id \in Ids, Expire(gd, id)
      PROVE  \A fd \in Fds : SameOut(fd) \/ EndsOut(fd)
  <2> DEFINE a == conn[gd].requests[id]
  <2>1. /\ At("expire") /\ gd \in g_conns /\ a # NoArena /\ ~Responded(req[a])
        /\ UNCHANGED <<sock, phase>>
        /\ req' = [req EXCEPT ![a].flags = @ \cup {"FAILED", "RESPONDED"}, ![a].ends = @ + 1]
        /\ conn' = [conn EXCEPT ![gd].out_buf = Append(@, req[a].id)]
    BY <1>3 DEF Expire
  <2>2. a \in Arena
    BY <1>1, <2>1 DEF Connection
  <2>3. req[a].live /\ req[a].conn_ptr = gd
    <3>1. stack # <<>> /\ Top \in Frames /\ Top.pc = "expire"
      BY <2>1, TopFrame DEF At, Top, Frames, Items, TypeOK, IoTypeOK
    <3>2. \A f \in Frames : ~Dooms(f, gd, id)
      BY <3>1, FramesOnce DEF Dooms, CallsOn
    <3> QED BY <2>1, <3>2 DEF Tended, Entries, EntryLives
  <2> HIDE DEF a
  <2>4. Responded(req'[a]) /\ SameRequest(req[a], req'[a])
    BY <1>1, <2>1, <2>2 DEF Request, Responded, SameRequest
  <2>5. \A fd \in Fds : IF fd = gd
                          THEN conn'[fd].out_buf = Append(conn[fd].out_buf, req[a].id)
                          ELSE conn'[fd].out_buf = conn[fd].out_buf
    BY <1>1, <2>1 DEF Connection
  <2> QED BY <2>1, <2>2, <2>3, <2>4, <2>5, AnswerEnds
<1> QED BY <1>2, <1>3 DEF Writing

LEMMA TakingOut ==
  ASSUME TypeOK, Tended, Apart, Owned', Taking
  PROVE  \A fd \in Fds : SameOut(fd) \/ EndsOut(fd)
<1>1. PICK a \in Arena, r \in Request, go \in BOOLEAN : Applies(a, r, go) /\ Tells(a, r)
  BY TakingIs
<1>2. UNCHANGED <<sock, phase>>
  BY DEF Taking, ParseNew, ParseKnown
<1>3. /\ r.live /\ r.conn_ptr = Top.fd /\ (r = req[a] \/ ~req[a].live)
      /\ req'[a].live /\ req'[a].conn_ptr = Top.fd /\ req'[a].id = r.id
      /\ req'[a].flags = ApplyRecord(r, NextRecord).flags
  BY <1>1 DEF Applies, Delivered, SameRequest
<1>4. r.id \in Ids
  BY <1>3 DEF Owned, Reaches, Reached
<1>5. ASSUME NEW fd \in Fds, ~EndsRequest(r, ApplyRecord(r, NextRecord)) \/ fd # Top.fd
      PROVE  SameOut(fd)
  BY <1>1, <1>2, <1>5 DEF Tells, SameOut
<1>6. ASSUME NEW fd \in Fds, EndsRequest(r, ApplyRecord(r, NextRecord)), fd = Top.fd
      PROVE  EndsOut(fd)
  <2>1. conn'[fd].out_buf = Append(conn[fd].out_buf, r.id)
    BY <1>1, <1>6 DEF Tells
  <2>2. ~Responded(r) /\ Responded(req'[a])
    BY <1>3, <1>6 DEF EndsRequest, Responded
  <2> QED BY <1>2, <1>3, <1>4, <1>6, <2>1, <2>2 DEF EndsOut, Kindred
<1> QED BY <1>5, <1>6

LEMMA OutNext ==
  ASSUME TypeOK, TypeOK', OneId, OneShot, Patient, Waited, Singly, Unopened,
         \A fd \in Fds : Virgin(fd) => Clear(fd), [Next]_vars
  PROVE  \A fd \in Fds : KeepsOut(fd) \/ ReadsOut(fd) \/ ClosesOut(fd) \/ EndsOut(fd)
<1>0. /\ Loops /\ Tended /\ Linked /\ Owned /\ Apart /\ Unbroken /\ Owned'
      /\ sock \in [Fds -> Socket] /\ conn \in [Fds -> Connection]
  BY OneEachNext DEF Waited, Protected, OneEach, Counted, Flow, TypeOK, EnvTypeOK, ObjTypeOK
<1>1. CASE Aside
  BY <1>1, AsideSteps, SameKeeps DEF SameOut
<1>2. CASE Flushing
  <2>1. /\ Top.fd \in Fds /\ Flush(Top.fd, conn[Top.fd]) /\ UNCHANGED phase
        /\ \A fd \in Fds : sock'[fd].used = sock[fd].used
    BY <1>2, FlushingIs
  <2> QED BY <1>0, <2>1, FlushOut DEF Singly, Unbroken, Unhurt
<1>3. CASE Taking
  BY <1>0, <1>3, TakingOut, SameKeeps
<1>4. CASE Writing /\ ~Taking
  BY <1>0, <1>4, WritingOut, SameKeeps
<1>5. CASE \/ ParseEnd \/ ParseBad \/ ParseDefer \/ SweepErase
           \/ \E t \in running : TaskLeave(t)
  <2>1. UNCHANGED <<sock, phase>>
    BY <1>5 DEF ParseEnd, ParseBad, ParseDefer, SweepErase, TaskLeave
  <2>2. \A fd \in Fds : conn'[fd].out_buf = conn[fd].out_buf
    <3>1. CASE ParseEnd \/ ParseBad
      BY <1>0, <3>1, ReturnIs DEF Connection
    <3>2. CASE ParseDefer
      BY <1>0, <3>2 DEF ParseDefer, Connection
    <3>3. CASE SweepErase
      BY <1>0, <3>3 DEF SweepErase, Connection
    <3>4. CASE \E t \in running : TaskLeave(t)
      BY <1>0, <3>4 DEF TaskLeave, Connection
    <3> QED BY <1>5, <3>1, <3>2, <3>3, <3>4
  <2> QED BY <2>1, <2>2, SameKeeps DEF SameOut
<1>6. CASE \E e \in batch : IoEvent(e)
  <2>1. PICK e \in batch : IoEvent(e)
    BY <1>6
  <2>2. sock' = sock \/ sock' = [sock EXCEPT ![e.fd].rx = <<>>]
    BY <2>1 DEF IoEvent
  <2>3. \A fd \in Fds : sock'[fd].tx = sock[fd].tx
    BY <1>0, <2>2 DEF Socket
  <2> QED BY <2>1, <2>3, IoEventIs, SameKeeps DEF SameOut
<1>7. CASE \E gd \in Fds : AcceptOne(gd)
  <2>1. PICK gd \in Fds : AcceptOne(gd)
    BY <1>7
  <2>2. /\ sock[gd].st = "backlog" /\ UNCHANGED phase
        /\ sock' = [sock EXCEPT ![gd].st = "conn"]
        /\ conn' = [conn EXCEPT ![gd] = NewConnection(sock[gd].serial)]
    BY <2>1 DEF AcceptOne, Backlog
  <2>3. /\ \A fd \in Fds : sock'[fd].used = sock[fd].used /\ sock'[fd].tx = sock[fd].tx
        /\ \A fd \in Fds \ {gd} : conn'[fd] = conn[fd]
        /\ conn'[gd].out_buf = <<>>
    BY <1>0, <2>2 DEF Socket, NewConnection
  <2>4. gd \notin g_conns
    BY <1>0, <2>2 DEF Linked
  <2>5. conn[gd].out_buf = <<>>
    BY <2>4 DEF Unopened, Clear
  <2> QED BY <2>2, <2>3, <2>5, SameKeeps DEF SameOut
<1>8. CASE \E gd \in Fds : Peer(gd)
  <2>1. PICK gd \in Fds : Peer(gd)
    BY <1>8
  <2>2. UNCHANGED conn
    BY <2>1, PeerUnchanged
  <2>3. /\ \A fd \in Fds \ {gd} : sock'[fd] = sock[fd] /\ phase'[fd] = phase[fd]
        /\ Connects(gd) \/ SendsMore(gd) \/ Reads(gd)
    BY <1>0, <2>1, PeerIs
  <2>4. \A fd \in Fds \ {gd} : KeepsOut(fd)
    BY <2>2, <2>3, SameKeeps DEF SameOut
  <2>5. CASE Connects(gd)
    <3>1. Clear(gd)
      BY <2>5 DEF Connects, Unopened
    <3>2. KeepsOut(gd)
      BY <2>2, <2>5, <3>1 DEF Connects, KeepsOut, Clear, Lean, Open
    <3> QED BY <2>4, <3>2
  <2>6. CASE SendsMore(gd)
    <3>1. KeepsOut(gd)
      BY <2>2, <2>6 DEF SendsMore, Grown, KeepsOut, Clear, Lean
    <3> QED BY <2>4, <3>1
  <2>7. CASE Reads(gd)
    <3>1. /\ sock[gd].tx \in Seq(Ids \cup {NoId}) /\ conn[gd].out_buf \in Seq(Ids \cup {NoId})
          /\ Len(sock[gd].tx) + Len(conn[gd].out_buf) <= 1
      BY <1>0 DEF Socket, Sent, Connection, Singly, Lean
    <3>2. sock[gd].tx = <<>> \/ conn[gd].out_buf = <<>>
      BY <3>1, OneOrNone
    <3>3. conn[gd].out_buf = <<>>
      BY <2>7, <3>2 DEF Reads
    <3>4. ReadsOut(gd)
      BY <2>1, <2>2, <2>7, <3>3 DEF Reads, ReadsOut, Clear
    <3> QED BY <2>4, <3>4
  <2> QED BY <2>3, <2>5, <2>6, <2>7
<1>9. CASE CloseFd
  <2>1. /\ g_conns' = g_conns \ {Top.fd}
        /\ conn' = [conn EXCEPT ![Top.fd] = NewConnection(0)]
        /\ sock' = [sock EXCEPT ![Top.fd] = FreeSock]
        /\ phase' = [phase EXCEPT ![Top.fd] = [id \in Ids |-> "idle"]]
        /\ stack # <<>> /\ Top.pc = "cleanup"
    BY <1>9 DEF CloseFd, At, Top
  <2>2. Top.fd \in g_conns /\ Top.fd \in Fds /\ phase \in [Fds -> [Ids -> Phase]]
    BY <1>0, <2>1, TopServed DEF FdPC, TypeOK, ObjTypeOK, EnvTypeOK
  <2>3. ASSUME NEW fd \in Fds, fd # Top.fd
        PROVE  KeepsOut(fd)
    BY <1>0, <2>1, <2>2, <2>3, SameKeeps DEF SameOut
  <2>4. ASSUME NEW fd \in Fds, fd = Top.fd
        PROVE  ClosesOut(fd)
    <3>1. conn'[fd].out_buf = <<>> /\ sock'[fd].tx = <<>> /\ ~sock'[fd].used
      BY <1>0, <2>1, <2>2, <2>4 DEF FreeSock, NewConnection
    <3> QED BY <2>1, <2>2, <2>4, <3>1 DEF ClosesOut, Clear
  <2> QED BY <2>3, <2>4
<1> QED BY <1>1, <1>2, <1>3, <1>4, <1>5, <1>6, <1>7, <1>8, <1>9, StepCases

-----------------------------------------------------------------------------
(* Connections that are used, and those that have been swept empty *)

\* A connection that workers use has brought its request to the end.
Busy == \A fd \in g_conns : conn[fd].active_workers # 0 => Through(fd)

\* A connection that waits for an arena has not begun its request.
Parked == \A fd \in g_conns : OpenWaiting(fd) => Reading(fd) \/ Virgin(fd)

\* Only output and input wake the server for a connection.
Woken == \A e \in batch : e.src = "conn" => e.in \/ e.out

LEMMA BusyNext ==
  ASSUME TypeOK, TypeOK', OneId, OneShot, Protected, Busy, [Next]_vars
  PROVE  Busy'
<1> SUFFICES ASSUME NEW fd \in g_conns', conn'[fd].active_workers # 0
             PROVE  Through(fd)'
  BY DEF Busy
<1>0. /\ Loops /\ Tended /\ Counted /\ Owned /\ Wire /\ Flow /\ Linked /\ Finished'
      /\ Apart /\ Virgins
  BY ProtectedNext DEF Protected, OneEach, Counted, Flow
<1>1. fd \in Fds /\ fd \in g_conns
  BY NewConns, FreshConn DEF Untouched, TypeOK, ObjTypeOK
<1>2. ASSUME conn[fd].active_workers # 0
      PROVE  Through(fd)'
  <2>1. Through(fd)
    BY <1>1, <1>2 DEF Busy
  <2>2. ~(ParseDefer /\ Top.fd = fd)
    BY <1>0, <1>1, <1>2, DeferVirgin DEF Virgins, Untouched
  <2> QED BY <1>0, <1>1, <2>1, <2>2, ComingBack
<1>3. CASE ~Taking
  BY <1>0, <1>1, <1>2, <1>3, StaysSteps DEF Stays
<1>4. CASE Taking
  <2>1. PICK a \in Arena, r \in Request, go \in BOOLEAN : Applies(a, r, go)
    BY <1>0, <1>4, TakingIs
  <2>2. CASE go /\ fd = r.conn_ptr
    <3>1. req'[a].live /\ req'[a].conn_ptr = fd /\ "INPUT_COMPLETE" \in req'[a].flags
      BY <2>1, <2>2 DEF Applies, Delivered, SameRequest, Ready, Complete
    <3>2. \A gd : gd = req'[a].conn_ptr => Through(gd)'
      BY <1>0, <3>1 DEF Finished
    <3> QED BY <3>1, <3>2
  <2>3. CASE ~(go /\ fd = r.conn_ptr)
    BY <1>1, <1>2, <2>1, <2>3 DEF Applies, Delivered
  <2> QED BY <2>2, <2>3
<1> QED BY <1>3, <1>4

\* Parsing that leaves a connection waiting has not returned, or defers it.
LEMMA ReadingEnds ==
  ASSUME TypeOK, TypeOK', Loops, Tended, Counted, Owned, Wire, Flow, [Next]_vars,
         NEW fd \in g_conns', OpenWaiting(fd)', ~Reading(fd)', Reading(fd)
  PROVE  ParseDefer /\ Top.fd = fd
<1>1. At("fcgi") /\ Top.fd = fd
  BY DEF Reading
<1>2. ~UNCHANGED stack
  BY DEF Reading, At, Top
<1>3. ParseStep
  BY <1>1, <1>2, FcgiSteps
<1>4. ~ParseSkip /\ ~Taking
  <2>1. ASSUME ParseSkip \/ Taking PROVE FALSE
    <3>1. At("fcgi")' /\ Top' = [Top EXCEPT !.n = @ + 1] /\ Top \in StackFrame
      BY <1>3, <2>1, PastParse
    <3>2. Top'.fd = fd
      BY <1>1, <3>1 DEF StackFrame, FrameOf
    <3> QED BY <3>1, <3>2 DEF Reading
  <2> QED BY <2>1
<1>5. ~\E a \in Arena : ParseFault(a)
  BY <1>2 DEF ParseFault
<1>6. ~(ParseEnd \/ ParseBad)
  <2>1. ASSUME ParseEnd \/ ParseBad PROVE FALSE
    <3>1. ~conn'[fd].waiting_for_arena
      BY <1>1, <2>1, ReturnIs
    <3> QED BY <3>1 DEF OpenWaiting
  <2> QED BY <2>1
<1> QED BY <1>1, <1>3, <1>4, <1>5, <1>6 DEF ParseStep, Taking

LEMMA ParkedNext ==
  ASSUME TypeOK, TypeOK', OneId, Patient, Protected, Parked, [Next]_vars
  PROVE  Parked'
<1> SUFFICES ASSUME NEW fd \in g_conns', OpenWaiting(fd)', ~Reading(fd)'
             PROVE  Virgin(fd)'
  BY DEF Parked
<1>0. Loops /\ Tended /\ Counted /\ Owned /\ Wire /\ Flow /\ Linked
  BY DEF Protected, OneEach, Counted
<1>1. /\ fd \in Fds /\ fd \in g_conns
      /\ OpenWaiting(fd) \/ (ParseDefer /\ Top.fd = fd)
  BY <1>0, WaitingBack DEF TypeOK, ObjTypeOK
<1>2. CASE ParseDefer /\ Top.fd = fd
  BY <1>0, <1>1, <1>2, VirginStays
<1>3. CASE OpenWaiting(fd) /\ ~(ParseDefer /\ Top.fd = fd)
  <2>1. ~Reading(fd)
    BY <1>0, <1>1, <1>3, ReadingEnds
  <2>2. Virgin(fd) /\ ~(Taking /\ Top.fd = fd)
    BY <1>1, <1>3, <2>1 DEF Parked, Reading, Taking, ParseNew, ParseKnown
  <2> QED BY <1>0, <1>1, <2>2, VirginStays
<1> QED BY <1>1, <1>2, <1>3

\* Outside a loop nobody closes, so a connection that is not served is unused.
LEMMA UnopenedNext ==
  ASSUME TypeOK, TypeOK', OneId, Patient, Loops, Tended, Linked, Wire, Unopened, [Next]_vars
  PROVE  Unopened'
<1> SUFFICES ASSUME NEW fd \in Fds \ g_conns' PROVE Virgin(fd)'
  BY DEF Unopened
<1>1. CASE fd \in g_conns
  <2>1. CloseFd /\ Top.fd = fd
    BY <1>1, ConnsLeave
  <2>2. ~sock'[fd].used
    BY <2>1 DEF CloseFd, TypeOK, EnvTypeOK, FreeSock
  <2> QED BY <2>2 DEF Virgin
<1>2. CASE fd \notin g_conns
  <2>1. ~(Taking /\ Top.fd = fd)
    BY <1>2, TopServed DEF Taking, ParseNew, ParseKnown, At, Top, FdPC
  <2> QED BY <1>2, <2>1, VirginStays DEF Unopened
<1> QED BY <1>1, <1>2

\* The functions that release requests that were answered.
SweepPC == {"sweep", "erase"}

\* They begin with nothing left to send.
Swept == \A f \in Frames : f.pc \in SweepPC => conn[f.fd].out_buf = <<>>

SweepersBack ==
  \A f \in Frames' : f.pc \in SweepPC => \E g \in Frames : g.pc \in SweepPC /\ g.fd = f.fd

LEMMA SweepStacks ==
  ASSUME TypeOK, TypeOK'
  PROVE  /\ UNCHANGED stack => SweepersBack
         /\ \A g : Call(<<g>>) /\ g.pc \notin SweepPC => SweepersBack
         /\ stack # <<>> =>
              /\ Return => SweepersBack
              /\ \A f : Become(f) /\ (f.pc \in SweepPC => Top.pc \in SweepPC /\ f.fd = Top.fd)
                          => SweepersBack
              /\ \A f, g : CallFrom(f, <<g>>) /\ f.pc \notin SweepPC /\ g.pc \notin SweepPC
                             => SweepersBack
<1>1. UNCHANGED stack => SweepersBack
  BY CallFrames DEF SweepersBack
<1>2. ASSUME NEW g, Call(<<g>>), g.pc \notin SweepPC PROVE SweepersBack
  BY <1>2, CallFrames, IntoStack DEF SweepersBack
<1>3. ASSUME stack # <<>>, Return PROVE SweepersBack
  BY <1>3, StackFrames DEF SweepersBack
<1>4. ASSUME stack # <<>>, NEW f, Become(f), f.pc \in SweepPC => Top.pc \in SweepPC /\ f.fd = Top.fd
      PROVE  SweepersBack
  <2>1. Frames = {Top} \cup Below /\ Frames' = {f} \cup Below
    BY <1>4, IntoStack, StackFrames
  <2> QED BY <1>4, <2>1 DEF SweepersBack
<1>5. ASSUME stack # <<>>, NEW f, NEW g, CallFrom(f, <<g>>), f.pc \notin SweepPC,
             g.pc \notin SweepPC
      PROVE  SweepersBack
  <2>1. Frames = {Top} \cup Below /\ Frames' = {f, g} \cup Below
    BY <1>5, IntoStack, StackFrames
  <2> QED BY <1>5, <2>1 DEF SweepersBack
<1> QED BY <1>1, <1>2, <1>3, <1>4, <1>5

\* The sweep begins when the connection has just been flushed.
LEMMA SweepBegins ==
  ASSUME TypeOK, TypeOK', Loops, Tended, Woken, [Next]_vars
  PROVE  \/ SweepersBack
         \/ /\ AfterParse \/ OutFlush
            /\ \A f \in Frames' : f.pc \in SweepPC => f.fd = Top.fd
<1> USE DEF SweepPC
<1>1. \A pc, fd : Frame(pc, fd).pc = pc
  BY DEF Frame
<1>2. CASE UNCHANGED stack
  BY <1>2, SweepStacks
<1>3. CASE Minor \/ Serving
  <2>1. \/ \E g : Call(<<g>>) /\ g.pc \notin SweepPC
        \/ stack # <<>> /\ (Return \/ \E f : Become(f) /\ f.pc \notin SweepPC)
    BY <1>3 DEF Minor, Serving, MinorPC
  <2> QED BY <2>1, SweepStacks
<1>4. CASE ParseStep
  <2>1. stack # <<>> /\ Top.pc = "fcgi"
    BY <1>4 DEF ParseStep, ParseEnd, ParseBad, ParseDefer, ParseSkip, ParseNew, ParseKnown,
                ParseFault, At, Top
  <2>2. UNCHANGED stack \/ Return \/ Become([Top EXCEPT !.n = @ + 1])
    BY <1>4 DEF ParseStep, ParseEnd, ParseBad, ParseDefer, ParseSkip, ParseNew, ParseKnown,
                ParseFault, Deliver
  <2>3. [Top EXCEPT !.n = @ + 1].pc = "fcgi"
    BY <2>1, TopFrame DEF StackFrame, FrameOf
  <2> QED BY <2>1, <2>2, <2>3, SweepStacks
<1>5. CASE WaitingNext
  <2> DEFINE fd == Head(g_waiting_conns)
             was == conn[fd].waiting_for_arena
             next == [Top EXCEPT !.m = @ - 1]
             serve == [next EXCEPT !.pc = "waited", !.fd = fd, !.was = was]
  <2>1. /\ stack # <<>> /\ Top.pc = "waiting"
        /\ Become(next) \/ CallFrom(serve, <<Frame("fcgi", fd)>>)
    BY <1>5 DEF WaitingNext, At, Top
  <2>2. next.pc = "waiting"
    BY <2>1, TopFrame DEF StackFrame, FrameOf
  <2>3. serve.pc = "waited"
    <3> HIDE DEF fd, was
    <3> QED BY <2>1, TopFrame DEF StackFrame, FrameOf
  <2> HIDE DEF next, serve, fd
  <2> QED BY <1>1, <2>1, <2>2, <2>3, SweepStacks
<1>6. ASSUME NEW e \in batch, IoEvent(e) PROVE SweepersBack
  <2>1. CASE ~e.in
    <3>1. Call(<<Frame("outflush", e.fd)>>)
      BY <1>6, <2>1 DEF IoEvent, Woken
    <3> QED BY <1>1, <3>1, SweepStacks
  <2>2. ASSUME NEW x, x.pc = "parsed", stack' = <<x>> \/ stack' = <<Frame("fcgi", e.fd)>> \o <<x>>
        PROVE  SweepersBack
    <3> DEFINE g == Frame("fcgi", e.fd)
               S == {x, g}
    <3>1. g.pc = "fcgi"
      BY <1>1
    <3>2. x \in S /\ g \in S
      OBVIOUS
    <3>3. stack' = <<x>> \/ stack' = <<g>> \o <<x>>
      BY <2>2
    <3> HIDE DEF S, g
    <3>4. Items(<<x>>) = {x} /\ Items(<<g>> \o <<x>>) = {g, x}
      BY <3>2, FewFrames
    <3>5. Frames' = Items(stack')
      BY DEF Frames
    <3>6. Frames' = {x} \/ Frames' = {g, x}
      <4> HIDE DEF Items
      <4> QED BY <3>3, <3>4, <3>5, Zenon
    <3> QED BY <2>2, <3>1, <3>6 DEF SweepersBack
  <2> QED BY <1>6, <2>1, <2>2, IoEventStack
<1>7. CASE AfterParse \/ OutFlush
  <2>1. stack # <<>> /\ Top.pc \in {"parsed", "outflush"}
    BY <1>7 DEF AfterParse, OutFlush, At, Top
  <2>2. Below = {}
    BY <2>1, AloneFrames
  <2>3. \E x : Become(x) /\ x.fd = Top.fd
    BY <1>7 DEF AfterParse, OutFlush, Frame, SweepFrame
  <2>4. \A f \in Frames' : f.fd = Top.fd
    BY <2>1, <2>2, <2>3, IntoStack, StackFrames
  <2> QED BY <1>7, <2>4
<1>8. CASE SweepDone
  BY <1>1, <1>8, SweepStacks DEF SweepDone, At
<1>9. CASE SweepErase \/ \E id \in Ids : SweepKeep(id)
  <2>1. /\ stack # <<>> /\ Top.pc \in SweepPC
        /\ \/ Become([Top EXCEPT !.pc = "sweep", !.id = NoId])
           \/ \E id \in Ids : Become([Top EXCEPT !.ids = @ \ {id}])
    BY <1>9 DEF SweepErase, SweepKeep, At, Top
  <2>2. /\ [Top EXCEPT !.pc = "sweep", !.id = NoId].fd = Top.fd
        /\ \A id : [Top EXCEPT !.ids = @ \ {id}].fd = Top.fd
    BY <2>1, TopFrame DEF StackFrame, FrameOf
  <2> QED BY <2>1, <2>2, SweepStacks
<1>10. ASSUME NEW id \in Ids, SweepFree(id) \/ CleanupOne(id) PROVE SweepersBack
  <2>1. PICK a \in Arena, under \in StackFrame :
          Releases(a, id, under) /\ (under.pc = "cleanup" \/ Top.pc = "sweep")
    BY <1>10, SweepFreeIs, CleanupOneIs
  <2>2. Frames = {Top} \cup Below
    BY <2>1, StackFrames DEF Releases
  <2> QED BY <2>1, <2>2 DEF Releases, SweepersBack
<1>11. CASE CloseQueued \/ \E fd \in Fds : HousekeepingClose(fd)
  <2>1. UNCHANGED stack \/ \E fd : Call(<<CleanupFrame(fd)>>)
    BY <1>11 DEF CloseQueued, HousekeepingClose
  <2>2. \A fd : CleanupFrame(fd).pc = "cleanup"
    BY DEF CleanupFrame, Frame
  <2> QED BY <2>1, <2>2, SweepStacks
<1>12. CASE CloseQueueDone \/ CloseFd
  BY <1>12, SweepStacks DEF CloseQueueDone, CloseFd, At
<1> QED BY <1>2, <1>3, <1>4, <1>5, <1>6, <1>7, <1>8, <1>9, <1>10, <1>11, <1>12, StackCases

LEMMA SweepOnTop ==
  ASSUME TypeOK, Loops, NEW f \in Frames, f.pc = "sweep"
  PROVE  f = Top
<1> DEFINE n == Len(stack)
<1>1. PICK i \in 1 .. n : f = stack[i]
  BY DEF Frames, Items
<1>2. n \in Nat
  BY DEF TypeOK, IoTypeOK
<1>3. \A k \in 1 .. n - 1 : <<stack[k].pc, stack[k + 1].pc>> \in Calls
  BY DEF Loops, StackShape
<1> HIDE DEF n
<1>4. i = 1
  <2> SUFFICES ASSUME i # 1 PROVE FALSE
    OBVIOUS
  <2> DEFINE k == i - 1
  <2>1. k \in 1 .. n - 1 /\ k + 1 = i
    BY <1>2
  <2> HIDE DEF k
  <2>2. <<stack[k].pc, "sweep">> \in Calls
    BY <1>1, <1>3, <2>1
  <2> QED BY <2>2 DEF Calls
<1> QED BY <1>1, <1>4 DEF Top

\* Who writes into an empty buffer.
LEMMA OutGrows ==
  ASSUME TypeOK, Tended, Apart, [Next]_vars, ~Writing
  PROVE  \A fd \in Fds : conn[fd].out_buf = <<>> =>
           conn'[fd].out_buf = <<>> \/ (Taking /\ Top.fd = fd)
<1>0. conn \in [Fds -> Connection]
  BY DEF TypeOK, ObjTypeOK
<1>1. CASE Aside
  BY <1>1, AsideSteps
<1>2. CASE Flushing
  BY <1>2, FlushingIs, FlushEmpties
<1>3. CASE Taking
  BY <1>3, TakingIs DEF Tells
<1>4. CASE ParseEnd \/ ParseBad
  BY <1>4, ReturnIs
<1>5. CASE ParseDefer
  BY <1>0, <1>5 DEF ParseDefer, Connection
<1>6. CASE \E e \in batch : IoEvent(e)
  BY <1>6, IoEventIs
<1>7. CASE \E gd \in Fds : AcceptOne(gd)
  BY <1>0, <1>7 DEF AcceptOne, NewConnection
<1>8. CASE \E gd \in Fds : Peer(gd)
  BY <1>8, PeerUnchanged
<1>9. CASE SweepErase
  BY <1>0, <1>9 DEF SweepErase, Connection
<1>10. CASE CloseFd
  BY <1>0, <1>10 DEF CloseFd, NewConnection
<1>11. CASE \E t \in running : TaskLeave(t)
  BY <1>0, <1>11 DEF TaskLeave, Connection
<1> QED BY <1>1, <1>2, <1>3, <1>4, <1>5, <1>6, <1>7, <1>8, <1>9, <1>10, <1>11, StepCases

LEMMA SweptNext ==
  ASSUME TypeOK, TypeOK', Waited, Singly, Woken, Swept, [Next]_vars
  PROVE  Swept'
<1>0. Loops /\ Tended /\ Apart /\ Unbroken
  BY DEF Waited, Protected, OneEach, Flow
<1> SUFFICES ASSUME NEW f \in Frames', f.pc \in SweepPC, NEW fd, fd = f.fd
             PROVE  conn'[fd].out_buf = <<>>
  BY DEF Swept
<1>1. CASE SweepersBack
  <2>1. PICK g \in Frames : g.pc \in SweepPC /\ g.fd = fd
    BY <1>1 DEF SweepersBack
  <2>2. /\ stack # <<>> /\ Top \in Frames /\ g \in {Top} \cup Below
        /\ g \in StackFrame /\ fd \in Fds
    <3>1. stack # <<>>
      BY CallFrames
    <3>2. Frames = {Top} \cup Below /\ Frames \subseteq StackFrame
      BY <3>1, StackFrames
    <3>3. g.fd \in g_conns
      BY <1>0, <2>1 DEF Tended, Served, ServesConn, SweepPC, FdPC
    <3> QED BY <2>1, <3>1, <3>2, <3>3 DEF TypeOK, ObjTypeOK
  <2>3. conn[fd].out_buf = <<>>
    BY <2>1 DEF Swept
  <2>4. ~Writing
    <3>1. ASSUME Writing PROVE FALSE
      <4>1. Top.pc \in {"pending", "expire"}
        BY <3>1 DEF Writing, PendingAnswer, Expire, At, Top
      <4>2. g = Top
        BY <1>0, <2>1, <2>2, <4>1, FramesOnce DEF CallsOn, SweepPC
      <4> QED BY <2>1, <4>1, <4>2 DEF SweepPC
    <3> QED BY <3>1
  <2>5. ~(Taking /\ Top.fd = fd)
    <3>1. ASSUME Taking, Top.fd = fd PROVE FALSE
      <4>1. At("fcgi") /\ Exists /\ Top.pc = "fcgi"
        BY <3>1 DEF Taking, ParseNew, ParseKnown, At, Top
      <4>2. g.pc = "erase" /\ g \in Below
        BY <1>0, <2>1, <2>2, <4>1, SweepOnTop DEF SweepPC
      <4> QED BY <1>0, <2>1, <3>1, <4>1, <4>2 DEF Apart, EndPC
    <3> QED BY <3>1
  <2> QED BY <1>0, <2>2, <2>3, <2>4, <2>5, OutGrows
<1>2. CASE /\ AfterParse \/ OutFlush
           /\ fd = Top.fd
  <2>1. /\ Flushing /\ Top.fd \in Fds /\ Flush(Top.fd, conn[Top.fd]) /\ UNCHANGED phase
        /\ \A gd \in Fds : sock'[gd].used = sock[gd].used
    BY <1>2, FlushingIs DEF Flushing
  <2>2. conn'[Top.fd].out_buf = <<>>
    BY <1>0, <2>1, FlushOut DEF Singly, Unbroken, Unhurt
  <2> QED BY <1>2, <2>2
<1> QED BY <1>0, <1>1, <1>2, SweepBegins

\* Only the sweep takes entries out of a requests map that goes on being used.
LEMMA MapSteps ==
  ASSUME TypeOK, TypeOK', Tended, Linked, [Next]_vars
  PROVE  \A fd \in g_conns \cap g_conns' :
           \/ conn'[fd].requests = conn[fd].requests
           \/ Taking \/ (SweepErase /\ Top.fd = fd)
<1>0. g_conns \subseteq Fds /\ conn \in [Fds -> Connection]
  BY DEF TypeOK, ObjTypeOK
<1>1. CASE Aside
  BY <1>1, AsideSteps
<1>2. CASE Flushing \/ Writing
  <2>1. Conns
    BY <1>2, FlushingIs, FlushSteady, AnswerSteady DEF Writing
  <2> QED BY <1>0, <2>1 DEF Conns, SteadyConn
<1>3. CASE ParseEnd \/ ParseBad
  BY <1>0, <1>3, ReturnIs
<1>4. CASE ParseDefer
  BY <1>0, <1>4 DEF ParseDefer, Connection
<1>5. CASE \E e \in batch : IoEvent(e)
  BY <1>0, <1>5, IoEventIs
<1>6. ASSUME NEW gd \in Fds, AcceptOne(gd)
      PROVE  \A fd \in g_conns : conn'[fd] = conn[fd]
  <2>1. gd \notin g_conns
    BY <1>6 DEF AcceptOne, Backlog, Linked
  <2> QED BY <1>0, <1>6, <2>1 DEF AcceptOne
<1>7. ASSUME NEW gd \in Fds, Peer(gd) PROVE UNCHANGED conn
  BY <1>7, PeerUnchanged
<1>8. CASE SweepErase
  <2>1. \A fd \in Fds \ {Top.fd} : conn'[fd] = conn[fd]
    BY <1>0, <1>8 DEF SweepErase
  <2> QED BY <1>0, <1>8, <2>1
<1>9. CASE CloseFd
  <2>1. \A fd \in Fds \ {Top.fd} : conn'[fd] = conn[fd]
    BY <1>0, <1>9 DEF CloseFd
  <2>2. Top.fd \notin g_conns'
    BY <1>9 DEF CloseFd
  <2> QED BY <1>0, <2>1, <2>2
<1>10. CASE \E t \in running : TaskLeave(t)
  BY <1>0, <1>10 DEF TaskLeave, Connection
<1> QED BY <1>1, <1>2, <1>3, <1>4, <1>5, <1>6, <1>7, <1>8, <1>9, <1>10, StepCases

\* Taking a record leaves the connection with a request.
LEMMA TakenMaps ==
  ASSUME TypeOK, TypeOK', Loops, Tended, Wire, Apart, Taking
  PROVE  \A fd \in Fds : IF fd = Top.fd THEN Mapped(conn'[fd]) # {}
                          ELSE Mapped(conn'[fd]) = Mapped(conn[fd])
<1>1. PICK a \in Arena, r \in Request, go \in BOOLEAN : Applies(a, r, go)
  BY TakingIs
<1>2. NextRecord \in Record /\ Rank(NextRecord) \in 1 .. 6
  BY AfterRecord, RecordIs, TakingConns
<1>3. NextRecord.id \in Ids
  BY <1>2, Named
<1>4. \A fd \in Fds, id \in Ids : conn'[fd].requests[id] =
        IF fd = Top.fd /\ id = NextRecord.id THEN a ELSE conn[fd].requests[id]
  BY <1>1 DEF Applies, Delivered
<1>5. a # NoArena
  BY NArenasAssumption DEF Arena, NoArena
<1> QED BY <1>3, <1>4, <1>5 DEF Mapped

\* The request has come and gone, and the connection is about to be closed.
Left(fd) == Handled(fd) /\ Untouched(conn[fd]) /\ ~(Reading(fd) /\ Exists)

Emptied ==
  \A fd \in g_conns : Mapped(conn[fd]) = {} => Virgin(fd) \/ Through(fd) \/ Left(fd)

Paced == Busy /\ Parked /\ Woken /\ Swept /\ Unopened /\ Emptied

LEMMA LeftNext ==
  ASSUME TypeOK, TypeOK', OneId, Waited, Parked, [Next]_vars, NEW fd \in g_conns, fd \in g_conns',
         Left(fd), ~Virgin(fd)
  PROVE  Left(fd)'
<1>0. /\ Loops /\ Tended /\ Counted /\ Owned /\ Wire /\ Flow /\ Nested /\ Flushed /\ Apart
      /\ fd \in Fds
  BY DEF Waited, Protected, OneEach, Flow, Waiting, TypeOK, ObjTypeOK
<1>1. Handled(fd)'
  BY <1>0, HandledNext DEF Left
<1>2. Untouched(conn'[fd])
  <2>1. CASE ~Taking
    BY <1>0, <2>1, LaterSteps DEF Left
  <2>2. CASE Taking
    <3>1. fd # Top.fd
      BY <1>0, <2>2, TakingConns DEF Left, Reading
    <3> QED BY <1>0, <2>2, <3>1, TakingConns DEF Left, Later
  <2> QED BY <2>1, <2>2
<1>3. ASSUME Reading(fd)', Exists' PROVE FALSE
  <2>1. ~(Reading(fd) /\ Exists)
    BY DEF Left
  <2>2. stack # <<>>
    BY CallFrames DEF Left, Handled
  <2>3. Top.pc = "waiting" /\ OpenWaiting(fd)
    BY <1>0, <1>3, <2>1, <2>2, ReadingBack
  <2>4. Reading(fd)
    BY <2>3 DEF Parked
  <2> QED BY <2>3, <2>4 DEF Reading, At, Top
<1> QED BY <1>1, <1>2, <1>3 DEF Left, Untouched, Mapped

LEMMA EmptiedNext ==
  ASSUME TypeOK, TypeOK', OneId, OneShot, Patient, Waited, Paced, [Next]_vars
  PROVE  Emptied'
<1> SUFFICES ASSUME NEW fd \in g_conns', Mapped(conn'[fd]) = {}
             PROVE  Virgin(fd)' \/ Through(fd)' \/ Left(fd)'
  BY DEF Emptied, Mapped
<1>0. /\ Loops /\ Tended /\ Counted /\ Owned /\ Wire /\ Flow /\ Linked /\ Apart
      /\ fd \in Fds
      /\ Busy /\ Parked /\ Swept /\ Unopened /\ Emptied
  BY DEF Waited, Protected, OneEach, Counted, Flow, Paced, TypeOK, ObjTypeOK
<1>1. ~(Taking /\ Top.fd = fd)
  BY <1>0, TakenMaps
<1>2. Virgin(fd) => Virgin(fd)'
  BY <1>0, <1>1, VirginStays
<1>3. Through(fd) => Through(fd)' \/ Virgin(fd)'
  BY <1>0, ComingBack, VirginStays
<1>4. CASE fd \notin g_conns
  BY <1>0, <1>2, <1>4 DEF Unopened
<1>5. CASE fd \in g_conns /\ Mapped(conn[fd]) = {}
  BY <1>0, <1>2, <1>3, <1>5, LeftNext DEF Emptied
<1>6. CASE fd \in g_conns /\ Mapped(conn[fd]) # {}
  <2>1. SweepErase /\ Top.fd = fd
    <3>1. conn'[fd].requests # conn[fd].requests
      BY <1>6 DEF Mapped
    <3>2. ~Taking
      <4>1. ASSUME Taking PROVE FALSE
        <5>1. fd # Top.fd
          BY <1>1, <4>1
        <5> QED BY <1>0, <1>6, <4>1, <5>1, TakenMaps
      <4> QED BY <4>1
    <3> QED BY <1>0, <1>6, <3>1, <3>2, MapSteps
  <2>2. /\ stack # <<>> /\ Top.pc = "erase" /\ Top \in Frames
        /\ Become([Top EXCEPT !.pc = "sweep", !.id = NoId])
    BY <2>1, StackFrames DEF SweepErase, At, Top
  <2>3. conn[fd].out_buf = <<>>
    BY <1>0, <2>1, <2>2 DEF Swept, SweepPC
  <2>4. conn'[fd].out_buf = <<>> /\ conn'[fd].active_workers = conn[fd].active_workers
    BY <1>0, <2>1, <2>3 DEF SweepErase, TypeOK, ObjTypeOK, Connection
  <2>5. CASE conn[fd].active_workers # 0
    BY <1>0, <1>3, <1>6, <2>5 DEF Busy
  <2>6. CASE conn[fd].active_workers = 0
    <3>1. Untouched(conn'[fd])
      BY <2>4, <2>6 DEF Untouched
    <3>2. \E x \in Frames' : x.pc = "sweep" /\ x.fd = fd
      <4> DEFINE x == [Top EXCEPT !.pc = "sweep", !.id = NoId]
      <4>1. x.pc = "sweep" /\ x.fd = fd
        BY <2>1, <2>2, TopFrame DEF StackFrame, FrameOf
      <4>2. x \in Frames'
        BY <2>2, IntoStack, StackFrames
      <4> QED BY <4>1, <4>2
    <3>3. ~At("fcgi")'
      <4>1. stack' = <<[Top EXCEPT !.pc = "sweep", !.id = NoId]>> \o Tail(stack)
        BY <2>2 DEF Become
      <4>2. [Top EXCEPT !.pc = "sweep", !.id = NoId].pc = "sweep"
        BY <2>2, TopFrame DEF StackFrame, FrameOf
      <4>3. \A f : Become(f) => f \in StackFrame
        BY <2>2, IntoStack
      <4>4. Top' = [Top EXCEPT !.pc = "sweep", !.id = NoId]
        BY <2>2, <4>3, NewTop, FramesAre
      <4> QED BY <4>2, <4>4 DEF At, Top
    <3> QED BY <3>1, <3>2, <3>3 DEF Left, Handled, HandlePC, Reading, Untouched, Mapped
  <2> QED BY <2>5, <2>6
<1> QED BY <1>4, <1>5, <1>6

LEMMA PacedNext ==
  ASSUME TypeOK, TypeOK', OneId, OneShot, Patient, Waited, Singly, Paced, [Next]_vars
  PROVE  Paced'
<1>0. /\ Protected /\ Unbroken /\ Loops /\ Tended /\ Linked /\ Wire
      /\ Busy /\ Parked /\ Woken /\ Swept /\ Unopened
  BY DEF Waited, Protected, OneEach, Counted, Paced
<1>1. Busy' /\ Parked' /\ Unopened'
  BY <1>0, BusyNext, ParkedNext, UnopenedNext
<1>2. Woken'
  BY <1>0, BatchUnhurt DEF Woken
<1>3. Swept'
  BY <1>0, SweptNext
<1>4. Emptied'
  BY EmptiedNext
<1> QED BY <1>1, <1>2, <1>3, <1>4 DEF Paced

-----------------------------------------------------------------------------
(* The requests that are not answered, and those that are still to be begun *)

\* Nothing is on its way on the connection of a request that is not answered.
Unanswered ==
  \A a \in Arena : req[a].live /\ ~Responded(req[a]) =>
    Clear(req[a].conn_ptr) /\ Open(req[a].conn_ptr)

Unbegun == \A fd \in Fds : Virgin(fd) => Clear(fd) /\ (sock[fd].used => Open(fd))

\* What is inductive for the responses.
Responsive == Waited /\ Paced /\ Singly /\ Unanswered /\ Unbegun

\* A request is constructed on a connection that has none.
LEMMA NewMaps ==
  ASSUME TypeOK, OneId, Tended, Apart, Taking, NEW a \in Arena, ~req[a].live, req'[a].live
  PROVE  req'[a].conn_ptr = Top.fd /\ Mapped(conn[Top.fd]) = {}
<1>1. PICK b \in Arena, r \in Request, go \in BOOLEAN : Applies(b, r, go)
  BY TakingIs
<1>2. a = b /\ req'[a].conn_ptr = Top.fd
  BY <1>1 DEF Applies, Delivered, SameRequest
<1>3. PICK c \in Arena : ParseNew(c) \/ ParseKnown(c)
  BY DEF Taking
<1>4. ASSUME ParseKnown(c) PROVE FALSE
  <2>1. req[c].live /\ Deliver(c, req[c], NextRecord)
    BY <1>4 DEF ParseKnown
  <2>2. \E r1 : req' = [req EXCEPT ![c] = r1]
    BY <2>1 DEF Deliver
  <2>3. req'[a] = req[a]
    BY <2>1, <2>2 DEF TypeOK, ObjTypeOK
  <2> QED BY <2>3
<1>5. conn[Top.fd].requests[NextRecord.id] = NoArena
  BY <1>3, <1>4 DEF ParseNew, EntryOf
<1>6. NextRecord.id \in Ids
  <2>1. At("fcgi") /\ Exists /\ NamesRequest(NextRecord)
    BY DEF Taking, ParseNew, ParseKnown
  <2>2. NextRecord \in Record
    BY <2>1, RecordIs
  <2> QED BY <2>1, <2>2 DEF Record, RecordOf, NamesRequest
<1> QED BY <1>2, <1>5, <1>6 DEF Mapped, OneId

\* And nothing is on its way there: the request that it had, if it had one, is
\* gone together with the records that named it.
LEMMA NewClear ==
  ASSUME TypeOK, TypeOK', OneId, Waited, Paced, Unbegun, Taking,
         NEW fd \in Fds, fd = Top.fd, Mapped(conn[fd]) = {}
  PROVE  Clear(fd) /\ Open(fd)
<1>0. Loops /\ Tended /\ Wire /\ Apart /\ Unbroken /\ Emptied
  BY DEF Waited, Protected, OneEach, Flow, Paced
<1>1. At("fcgi") /\ Exists /\ UNCHANGED sock
  BY DEF Taking, ParseNew, ParseKnown
<1>2. fd \in g_conns
  BY <1>0, <1>1, TopServed DEF At, Top, FdPC
<1>3. Rank(NextRecord) \in 1 .. 6 /\ sock[fd].used
  BY <1>0, <1>1, AfterRecord
<1>4. Top.n \in Nat /\ Top.n + 1 \in 1 .. Len(conn[fd].in_buf) /\ NextRecord = conn[fd].in_buf[Top.n + 1]
  BY <1>1, RecordIs
<1>5. CASE Virgin(fd)
  BY <1>3, <1>5 DEF Unbegun
<1>6. ASSUME Through(fd) PROVE FALSE
  <2>1. Past(fd) = Top.n
    BY <1>1 DEF Past
  <2>2. Top.n + 1 \in Past(fd) + 1 .. Len(conn[fd].in_buf)
    BY <1>4, <2>1
  <2>3. NextRecord \in ToCome(fd)
    BY <1>4, <2>2 DEF ToCome, Unread
  <2>4. Rank(NextRecord) = 6
    BY <1>3, <1>6, <2>3 DEF Through
  <2>5. NextRecord.type = "ABORT"
    BY <2>4 DEF Rank
  <2> QED BY <1>0, <1>4, <2>5 DEF Unbroken, Unhurt, Mild, Items
<1>7. ~Left(fd)
  BY <1>1 DEF Left, Reading
<1> QED BY <1>0, <1>2, <1>5, <1>6, <1>7 DEF Emptied

\* The connection of a request that is ended.
LEMMA EndsClear ==
  ASSUME TypeOK, TypeOK', OneId, Responsive, NEW fd \in Fds, EndsOut(fd)
  PROVE  Clear(fd) /\ Open(fd)
<1>1. PICK a \in Arena :
        /\ req'[a].live /\ req'[a].conn_ptr = fd
        /\ (Kindred(a, fd) /\ ~Responded(req[a])) \/ (Taking /\ ~req[a].live)
        /\ Taking => Top.fd = fd
  BY DEF EndsOut
<1>2. CASE Kindred(a, fd) /\ ~Responded(req[a])
  BY <1>2 DEF Responsive, Unanswered, Kindred
<1>3. CASE Taking /\ ~req[a].live
  <2>1. Mapped(conn[fd]) = {}
    BY <1>1, <1>3, NewMaps DEF Responsive, Waited, Protected, OneEach, Flow
  <2> QED BY <1>1, <1>3, <2>1, NewClear DEF Responsive
<1> QED BY <1>1, <1>2, <1>3

LEMMA SinglyNext ==
  ASSUME TypeOK, TypeOK', OneId, OneShot, Patient, Responsive, [Next]_vars
  PROVE  Singly'
<1>0. \A fd \in Fds : KeepsOut(fd) \/ ReadsOut(fd) \/ ClosesOut(fd) \/ EndsOut(fd)
  BY OutNext DEF Responsive, Unbegun, Paced
<1> SUFFICES ASSUME NEW fd \in Fds PROVE Lean(fd)' /\ (Clear(fd)' \/ Open(fd)')
  BY DEF Singly
<1>1. Lean(fd) /\ (Clear(fd) \/ Open(fd))
  BY DEF Responsive, Singly
<1>2. CASE KeepsOut(fd)
  BY <1>1, <1>2 DEF KeepsOut
<1>3. CASE ReadsOut(fd) \/ ClosesOut(fd)
  <2>1. Clear(fd)'
    BY <1>3 DEF ReadsOut, ClosesOut
  <2>2. sock'[fd].tx = <<>> /\ conn'[fd].out_buf = <<>>
    BY <2>1 DEF Clear
  <2>3. Lean(fd)'
    BY <2>2, NoItems DEF Lean
  <2> QED BY <2>1, <2>3
<1>4. CASE EndsOut(fd)
  <2>1. Clear(fd) /\ Open(fd)
    BY <1>4, EndsClear
  <2>2. PICK id \in Ids : /\ sock'[fd].tx = sock[fd].tx /\ phase'[fd] = phase[fd]
                          /\ conn'[fd].out_buf = Append(conn[fd].out_buf, id)
    BY <1>4 DEF EndsOut
  <2>3. sock'[fd].tx = <<>> /\ conn'[fd].out_buf = <<id>>
    BY <2>1, <2>2 DEF Clear
  <2>4. Items(<<id>>) = {id} /\ Items(<<>>) = {}
    BY NoItems DEF Items
  <2>5. Lean(fd)'
    BY <2>3, <2>4 DEF Lean
  <2> QED BY <2>1, <2>2, <2>5 DEF Open
<1> QED BY <1>0, <1>2, <1>3, <1>4

\* A request that lives after a step lived before it, or has just been constructed.
LEMMA LiveBefore ==
  ASSUME TypeOK, TypeOK', Loops, Tended, Apart, [Next]_vars, NEW a \in Arena, req'[a].live
  PROVE  \/ /\ req[a].live /\ req'[a].conn_ptr = req[a].conn_ptr
            /\ Responded(req[a]) => Responded(req'[a])
         \/ Taking /\ ~req[a].live /\ req'[a].conn_ptr = Top.fd
<1>1. CASE Taking
  <2>1. PICK b \in Arena, r \in Request, go \in BOOLEAN : Applies(b, r, go)
    BY <1>1, TakingIs
  <2>2. CASE a = b
    <3>1. /\ r \in Request /\ r.conn_ptr = Top.fd /\ (r = req[a] \/ ~req[a].live)
          /\ req'[a].conn_ptr = r.conn_ptr /\ r.live
          /\ req'[a].flags = ApplyRecord(r, NextRecord).flags
      BY <2>1, <2>2 DEF Applies, Delivered, SameRequest
    <3>2. r.flags \subseteq ApplyRecord(r, NextRecord).flags
      BY <3>1, ApplyFlags
    <3> QED BY <1>1, <3>1, <3>2 DEF Responded
  <2>3. CASE a # b
    <3>1. req'[a] = req[a]
      BY <2>1, <2>3 DEF Applies, Delivered
    <3> QED BY <3>1
  <2> QED BY <2>2, <2>3
<1>2. SameWork(a) => /\ req[a].live /\ req'[a].conn_ptr = req[a].conn_ptr
                     /\ Responded(req[a]) => Responded(req'[a])
  BY DEF SameWork, SameRequest
<1>3. ASSUME NEW t \in running, TaskInactive(t) PROVE SameWork(a)
  BY <1>3, InactiveWork
<1>4. ASSUME NEW id \in Ids, SweepFree(id) \/ CleanupOne(id) PROVE req'[a] = req[a]
  <2>1. PICK b \in Arena, under \in StackFrame : Releases(b, id, under)
    BY <1>4, Releasing
  <2>2. ~req'[b].live /\ \A c \in Arena \ {b} : req'[c] = req[c]
    BY <2>1, Freed DEF Releases
  <2> QED BY <2>2
<1> QED BY <1>1, <1>2, <1>3, <1>4, WorkSteps

LEMMA UnansweredNext ==
  ASSUME TypeOK, TypeOK', OneId, OneShot, Patient, Responsive, [Next]_vars
  PROVE  Unanswered'
<1> SUFFICES ASSUME NEW a \in Arena, req'[a].live, ~Responded(req'[a]),
                    NEW fd, fd = req'[a].conn_ptr
             PROVE  Clear(fd)' /\ Open(fd)'
  <2>1. \A a \in Arena : req'[a].live /\ ~Responded(req'[a]) =>
          \A fd : fd = req'[a].conn_ptr => Clear(fd)' /\ Open(fd)'
    OBVIOUS
  <2> QED BY <2>1 DEF Unanswered, Clear, Open
<1>0. /\ Loops /\ Tended /\ Apart
      /\ \A gd \in Fds : KeepsOut(gd) \/ ReadsOut(gd) \/ ClosesOut(gd) \/ EndsOut(gd)
  BY OutNext DEF Responsive, Unbegun, Paced, Waited, Protected, OneEach, Flow
<1>1. Owned'
  BY ProtectedNext DEF Responsive, Waited, Protected, OneEach
<1>2. \A b \in Arena : req'[b].live =>
        /\ req'[b].conn_ptr \in g_conns' /\ req'[b].id \in Ids
        /\ conn'[req'[b].conn_ptr].requests[req'[b].id] = b
  BY <1>1 DEF Owned, Reaches, Reached
<1>3. fd \in g_conns' /\ fd \in Fds
  BY <1>2 DEF TypeOK, ObjTypeOK
<1>4. Clear(fd) /\ Open(fd)
  <2>1. CASE /\ req[a].live /\ req'[a].conn_ptr = req[a].conn_ptr
             /\ Responded(req[a]) => Responded(req'[a])
    BY <2>1 DEF Responsive, Unanswered
  <2>2. CASE Taking /\ ~req[a].live /\ req'[a].conn_ptr = Top.fd
    <3>1. Mapped(conn[fd]) = {}
      BY <1>0, <2>2, NewMaps DEF Responsive, Waited, Protected, OneEach
    <3> QED BY <1>3, <2>2, <3>1, NewClear DEF Responsive
  <2> QED BY <1>0, <2>1, <2>2, LiveBefore
<1>5. ~EndsOut(fd)
  <2> SUFFICES ASSUME EndsOut(fd) PROVE FALSE
    OBVIOUS
  <2>1. PICK b \in Arena : req'[b].live /\ req'[b].conn_ptr = fd /\ Responded(req'[b])
    BY DEF EndsOut
  <2>2. req'[a].id = req'[b].id
    BY <1>2, <2>1 DEF OneId
  <2>3. a = b
    BY <1>2, <2>1, <2>2
  <2> QED BY <2>1, <2>3
<1> QED BY <1>0, <1>3, <1>4, <1>5 DEF KeepsOut, ReadsOut, ClosesOut

LEMMA UnbegunNext ==
  ASSUME TypeOK, TypeOK', OneId, OneShot, Patient, Responsive, [Next]_vars
  PROVE  Unbegun'
<1> SUFFICES ASSUME NEW fd \in Fds, Virgin(fd)'
             PROVE  Clear(fd)' /\ (sock'[fd].used => Open(fd)')
  BY DEF Unbegun
<1>0. /\ Loops /\ Tended /\ Apart /\ Linked /\ Wire /\ Virgins /\ Reaches /\ Unopened
      /\ KeepsOut(fd) \/ ReadsOut(fd) \/ ClosesOut(fd) \/ EndsOut(fd)
  BY OutNext DEF Responsive, Unbegun, Paced, Waited, Protected, OneEach, Flow, Counted, Owned
<1>1. CASE Virgin(fd)
  <2>1. Clear(fd) /\ (sock[fd].used => Open(fd))
    BY <1>1 DEF Responsive, Unbegun
  <2>2. ~EndsOut(fd)
    <3> SUFFICES ASSUME EndsOut(fd) PROVE FALSE
      OBVIOUS
    <3>1. PICK a \in Arena : \/ Kindred(a, fd)
                             \/ Taking /\ Top.fd = fd
      BY DEF EndsOut
    <3>2. ASSUME Kindred(a, fd) PROVE FALSE
      <4>1. Reached(a) /\ req[a].conn_ptr = fd
        BY <1>0, <3>2 DEF Reaches, Kindred
      <4>2. a # NoArena
        BY NArenasAssumption DEF Arena, NoArena
      <4> QED BY <1>0, <1>1, <4>1, <4>2 DEF Reached, Virgins, Untouched, Mapped
    <3>3. ASSUME Taking, Top.fd = fd PROVE FALSE
      BY <1>0, <3>3, TakingConns
    <3> QED BY <3>1, <3>2, <3>3
  <2> QED BY <1>0, <2>1, <2>2 DEF KeepsOut, ReadsOut, ClosesOut
<1>2. CASE fd \in g_conns'
  <2>1. Virgin(fd)
    BY <1>0, <1>2, ComingBack, DeferVirgin
  <2> QED BY <1>1, <2>1
<1>3. CASE fd \notin g_conns' /\ fd \in g_conns
  <2>1. CloseFd /\ Top.fd = fd
    BY <1>3, ConnsLeave
  <2>2. sock' = [sock EXCEPT ![fd] = FreeSock] /\ conn' = [conn EXCEPT ![fd] = NewConnection(0)]
    BY <2>1 DEF CloseFd
  <2>3. /\ ~sock'[fd].used /\ sock'[fd].tx = <<>> /\ conn'[fd].out_buf = <<>>
    BY <2>2 DEF TypeOK, EnvTypeOK, ObjTypeOK, FreeSock, NewConnection
  <2> QED BY <2>3 DEF Clear
<1>4. CASE fd \notin g_conns
  BY <1>0, <1>1, <1>4 DEF Unopened
<1> QED BY <1>2, <1>3, <1>4

LEMMA ResponsiveNext ==
  ASSUME TypeOK, TypeOK', OneId, OneShot, Patient, Responsive, [Next]_vars
  PROVE  Responsive'
<1>1. Waited'
  BY ProtectedNext, UnbrokenNext DEF Responsive, Waited, Protected, OneEach, Flow, Counted
<1>2. Paced' /\ Singly'
  BY PacedNext, SinglyNext DEF Responsive
<1>3. Unanswered' /\ Unbegun'
  BY UnansweredNext, UnbegunNext
<1> QED BY <1>1, <1>2, <1>3 DEF Responsive

LEMMA InitResponsive == Init => Responsive
<1> SUFFICES ASSUME Init PROVE Responsive
  OBVIOUS
<1>1. Waited
  BY InitProtected, InitUnbroken DEF Waited
<1>2. /\ g_conns = {} /\ batch = {} /\ Frames = {}
      /\ \A fd \in Fds : ~sock[fd].used /\ sock[fd].tx = <<>> /\ conn[fd].out_buf = <<>>
      /\ \A a \in Arena : ~req[a].live
  BY FramesAre DEF Init, Frames, FreeSock, NewConnection, NoRequest, Destroyed, NewRequest
<1>3. \A fd \in Fds : Clear(fd) /\ Virgin(fd) /\ Lean(fd)
  <2> SUFFICES ASSUME NEW fd \in Fds PROVE Clear(fd) /\ Virgin(fd) /\ Lean(fd)
    OBVIOUS
  <2>1. sock[fd].tx = <<>> /\ conn[fd].out_buf = <<>> /\ ~sock[fd].used
    BY <1>2
  <2>2. Items(sock[fd].tx) \cup Items(conn[fd].out_buf) \subseteq Ids
    BY <2>1, NoItems
  <2>3. Len(sock[fd].tx) + Len(conn[fd].out_buf) <= 1
    BY <2>1
  <2> QED BY <2>1, <2>2, <2>3 DEF Clear, Virgin, Lean
<1>4. Paced
  BY <1>2, <1>3 DEF Paced, Busy, Parked, Woken, Swept, Unopened, Emptied
<1> QED BY <1>1, <1>2, <1>3, <1>4 DEF Responsive, Singly, Unanswered, Unbegun

LEMMA OneAtMost ==
  ASSUME NEW S, NEW s \in Seq(S), NEW t \in Seq(S), Len(s) + Len(t) <= 1
  PROVE  LET out == s \o t IN
         \A i \in 1 .. Len(out) : /\ out[i] \in Items(s) \cup Items(t)
                                  /\ s # <<>> \/ t # <<>>
                                  /\ \A j \in 1 .. Len(out) : i = j
<1> DEFINE out == s \o t
<1>1. Len(out) = Len(s) + Len(t) /\ Len(s) \in Nat /\ Len(t) \in Nat
  OBVIOUS
<1>2. \A i \in 1 .. Len(out) : out[i] = IF i <= Len(s) THEN s[i] ELSE t[i - Len(s)]
  BY <1>1
<1>3. \A i \in 1 .. Len(out) : i \in 1 .. Len(s) \/ (i > Len(s) /\ i - Len(s) \in 1 .. Len(t))
  BY <1>1
<1> HIDE DEF out
<1>4. ASSUME NEW i \in 1 .. Len(out)
      PROVE  out[i] \in Items(s) \cup Items(t) /\ (s # <<>> \/ t # <<>>)
  <2>1. out[i] \in Items(s) \cup Items(t)
    BY <1>1, <1>2, <1>3 DEF Items
  <2> QED BY <2>1, NoItems
<1>5. \A i, j \in 1 .. Len(out) : i = j
  BY <1>1
<1> QED BY <1>4, <1>5 DEF out

(***************************************************************************)
(* With the same peers, each response on its way to a peer ends a request  *)
(* that the peer has open on that connection, and none is on its way       *)
(* twice: it is written when nothing else is, for a request of which the   *)
(* peer has read no response, and such a request is not constructed again  *)
(* of records that come after the sweep has destroyed it.                  *)
(***************************************************************************)
THEOREM ResponsesAreSafe ==
  ASSUME OneId, OneShot, Patient
  PROVE  Spec => []ResponsesAreOwed
<1>1. Init => Responsive
  BY InitResponsive
<1>2. TypeOK /\ TypeOK' /\ Responsive /\ [Next]_vars => Responsive'
  BY ResponsiveNext
<1>3. TypeOK /\ Responsive => ResponsesAreOwed
  <2> SUFFICES ASSUME TypeOK, Responsive, NEW fd \in Fds, NEW out,
                      out = sock[fd].tx \o conn[fd].out_buf, NEW i \in 1 .. Len(out)
               PROVE  /\ phase[fd][out[i]] # "idle"
                      /\ \A j \in 1 .. Len(out) : i = j
    BY DEF ResponsesAreOwed
  <2>1. /\ sock[fd].tx \in Seq(Ids \cup {NoId}) /\ conn[fd].out_buf \in Seq(Ids \cup {NoId})
        /\ Lean(fd) /\ (Clear(fd) \/ Open(fd))
    BY DEF TypeOK, EnvTypeOK, ObjTypeOK, Socket, Connection, Sent, Responsive, Singly
  <2>2. /\ out[i] \in Items(sock[fd].tx) \cup Items(conn[fd].out_buf) /\ ~Clear(fd)
        /\ \A j \in 1 .. Len(out) : i = j
    BY <2>1, OneAtMost DEF Lean, Clear
  <2>3. out[i] \in Ids /\ \A id \in Ids : phase[fd][id] # "idle"
    BY <2>1, <2>2 DEF Lean, Open
  <2> QED BY <2>2, <2>3
<1> QED BY <1>1, <1>2, <1>3, TypeCorrect, PTL DEF Spec

=============================================================================
