------------------------- MODULE FcgiSafety_Proofs -------------------------
(***************************************************************************)
(* Safety theorems of the FastCGI server, for every value of the constants *)
(* and every environment: type correctness; the loops over a requests map  *)
(* stay valid across the calls nested in them, while it has room; the      *)
(* pool's unlocked counter is exact; accept() is paused only while no      *)
(* arena is free; and no hand-back of a worker is lost.                    *)
(*                                                                         *)
(* Types come first: one lemma per action of FcgiConnection, each of the   *)
(* seven parts of TypeOK on its own where the action disturbs it.  The     *)
(* argument of the next two: a step either keeps every entry of the maps,  *)
(* or it erases one while the erasing function stands alone on the stack,  *)
(* which StackShape shows; so what a loop has still to visit stays mapped, *)
(* and every release names an arena.                                       *)
(***************************************************************************)
EXTENDS FcgiProperties, ArenaPool_Proofs

USE DEF poolVars, connVars, objVars, outVars, closeVars, waitVars, listVars, ioVars,
        taskVars, wakeVars, peerVars, envVars

-----------------------------------------------------------------------------
(* Values *)

\* A sequence of one frame.
LEMMA Singleton ==
  ASSUME NEW S, NEW e \in S
  PROVE  <<e>> \in Seq(S) /\ <<e>> # <<>>
OBVIOUS

\* A Connection as handle_new_connections makes it.
LEMMA NewConnectionType ==
  ASSUME NEW n \in Nat
  PROVE  NewConnection(n) \in Connection
BY DEF NewConnection, Connection, Record, NoArena

\* A Request built in an arena (allocate_request).
LEMMA NewRequestType ==
  ASSUME NEW n \in Nat, NEW fd \in Fds \cup {NoFd}, NEW m \in Nat, NEW id \in Ids \cup {NoId}
  PROVE  NewRequest(n, fd, m, id) \in Request
BY DEF NewRequest, Request

\* What a stale pointer reads of a destroyed Request.
LEMMA DestroyedType ==
  ASSUME NEW r \in Request
  PROVE  Destroyed(r) \in Request
BY DEF Destroyed, NewRequest, Request

\* fail_request only adds flags.
LEMMA FailRequestType ==
  ASSUME NEW r \in Request
  PROVE  FailRequest(r) \in Request
BY DEF FailRequest, Request, Flag

\* A record leaves a Request a Request, whatever its type.
LEMMA ApplyRecordType ==
  ASSUME NEW r \in Request, NEW rec \in Record
  PROVE  ApplyRecord(r, rec) \in Request
<1>1. /\ rec.len \in Nat /\ rec.keep \in BOOLEAN
  BY DEF Record, RecordOf
<1>2. ApplyBegin(r, rec) \in Request
  BY <1>1 DEF ApplyBegin, Request, Flag
<1>3. ApplyParams(r, rec) \in Request
  BY <1>1, FailRequestType DEF ApplyParams, Request, Flag
<1>4. ApplyStdin(r, rec) \in Request
  BY <1>1, FailRequestType DEF ApplyStdin, Request, Flag
<1>5. ApplyAbort(r) \in Request
  <2>1. [r EXCEPT !.flags = @ \cup {"ABORTED"}] \in Request
    BY DEF Request, Flag
  <2> QED BY <2>1, FailRequestType DEF ApplyAbort
<1> QED BY <1>2, <1>3, <1>4, <1>5 DEF ApplyRecord

\* Bytes received are appended as records, completing an unfinished one.
LEMMA JoinedType ==
  ASSUME NEW in \in Seq(Record), NEW rx \in Seq(Record)
  PROVE  Joined(in, rx) \in Seq(Record)
BY DEF Joined, EndsPartial

\* A descriptor nobody uses.
LEMMA FreeSockType == FreeSock \in Socket
BY ConstantsAssumption DEF FreeSock, Socket, Sent

\* create_arenas and the globals before the first event.
LEMMA InitType == Init => TypeOK
<1> SUFFICES ASSUME Init PROVE TypeOK OBVIOUS
<1>1. PoolTypeOK
  BY NArenasAssumption DEF Init, PoolInit, PoolTypeOK
<1>2. ObjTypeOK
  <2>1. NoRequest \in Request
    BY NewRequestType, DestroyedType DEF NoRequest
  <2> QED BY <2>1, NewConnectionType DEF Init, ObjTypeOK
<1>4. EnvTypeOK
  BY FreeSockType DEF Init, EnvTypeOK, Phase
<1>5. ListTypeOK
  <2>1. g_pending_output \in Seq(Handback) /\ taken \in Seq(Handback)
    BY DEF Init
  <2>2. g_close_queue \in Seq(Fds) /\ closing \in Seq(Fds) /\ g_waiting_conns \in Seq(Fds)
    BY DEF Init
  <2> QED BY <2>1, <2>2 DEF Init, ListTypeOK
<1>6. IoTypeOK
  <2>1. stack = <<>> /\ batch = {}
    BY DEF Init
  <2> QED BY <2>1 DEF IoTypeOK
<1>7. TaskTypeOK
  <2>1. queue = <<>> /\ running = {}
    BY DEF Init
  <2> QED BY <2>1 DEF TaskTypeOK
<1> QED BY <1>1, <1>2, <1>4, <1>5, <1>6, <1>7 DEF Init, TypeOK

\* The changes active_workers and the pool go through keep its type.
LEMMA WorkersType ==
  ASSUME NEW c \in Connection
  PROVE  /\ c.active_workers \in Int
         /\ \A n \in Int : [c EXCEPT !.active_workers = n] \in Connection
<1>1. c.active_workers \in Int
  BY DEF Connection
<1>2. ASSUME NEW n \in Int PROVE [c EXCEPT !.active_workers = n] \in Connection
  BY DEF Connection
<1> QED BY <1>1, <1>2

\* The updates flush_connection makes to a connection.
LEMMA DrainedType ==
  ASSUME NEW c \in Connection
  PROVE  [c EXCEPT !.out_buf = <<>>, !.epollout = FALSE] \in Connection
<1> DEFINE none == <<>>
<1>1. none \in Seq(Ids \cup {NoId})
  OBVIOUS
<1> HIDE DEF none
<1>2. [c EXCEPT !.out_buf = none, !.epollout = FALSE] \in Connection
  BY <1>1 DEF Connection
<1> QED BY <1>2 DEF none

\* Output, write interest and closed may be set to anything of their types.
LEMMA ConnectionUpdates ==
  ASSUME NEW c \in Connection, NEW out \in Seq(Ids \cup {NoId}), NEW b \in BOOLEAN
  PROVE  /\ [c EXCEPT !.out_buf = out, !.epollout = b] \in Connection
         /\ [c EXCEPT !.closed = b] \in Connection
BY DEF Connection

\* What send() takes from out_buf still fits the socket.
LEMMA SendType ==
  ASSUME NEW s \in Socket, NEW tx \in Sent
  PROVE  [s EXCEPT !.tx = tx] \in Socket
BY DEF Socket

\* flush_connection, in its three outcomes.
LEMMA FlushType ==
  ASSUME TypeOK, NEW fd \in Fds, NEW c \in Connection, Flush(fd, c)
  PROVE  /\ conn' \in [Fds -> Connection]
         /\ sock' \in [Fds -> Socket]
         /\ g_close_queue' \in Seq(Fds)
         /\ ready' \subseteq Fds
<1>1. /\ conn \in [Fds -> Connection] /\ sock \in [Fds -> Socket]
      /\ g_close_queue \in Seq(Fds) /\ ready \subseteq Fds
  BY DEF TypeOK, ObjTypeOK, ListTypeOK, EnvTypeOK
<1> DEFINE tx == sock[fd].tx
           out == c.out_buf
           room == SndBuf - Len(tx)
<1>2. sock[fd] \in Socket
  BY <1>1
<1>3. tx \in Seq(Ids \cup {NoId}) /\ Len(tx) <= SndBuf
  BY <1>2 DEF Socket, Sent
<1>4. out \in Seq(Ids \cup {NoId})
  BY DEF Connection
<1>5. SndBuf \in Nat
  BY ConstantsAssumption
<1>6. CASE FlushAll(fd, c)
  <2>1. ~sock[fd].eof => [sock[fd] EXCEPT !.tx = tx \o out] \in Socket
    <3> HIDE DEF tx, out
    <3> SUFFICES ASSUME ~sock[fd].eof PROVE tx \o out \in Sent
      BY <1>2, SendType
    <3>1. out = <<>> \/ Len(tx) + Len(out) <= SndBuf
      BY <1>6 DEF FlushAll, tx, out
    <3> QED BY <3>1, <1>3, <1>4, <1>5 DEF Sent
  <2>2. sock' \in [Fds -> Socket]
    BY <1>1, <1>6, <2>1 DEF FlushAll
  <2>3. [c EXCEPT !.out_buf = <<>>, !.epollout = FALSE] \in Connection
    BY DrainedType
  <2>4. conn' \in [Fds -> Connection]
    BY <1>1, <1>6, <2>3 DEF FlushAll
  <2> QED BY <1>1, <1>6, <2>2, <2>4 DEF FlushAll, Rearm
<1>7. CASE FlushSome(fd, c)
  <2>1. room \in Nat /\ room < Len(out)
    BY <1>3, <1>4, <1>5, <1>7 DEF FlushSome
  <2>2. /\ SubSeq(out, room + 1, Len(out)) \in Seq(Ids \cup {NoId})
        /\ tx \o SubSeq(out, 1, room) \in Sent
    <3> HIDE DEF room, tx, out
    <3>1. /\ SubSeq(out, 1, room) \in Seq(Ids \cup {NoId})
          /\ Len(SubSeq(out, 1, room)) = room
      BY <1>4, <2>1
    <3>2. Len(tx) + room = SndBuf
      BY <1>3, <1>5 DEF room
    <3> QED BY <1>3, <1>4, <2>1, <3>1, <3>2 DEF Sent
  <2>3. sock' \in [Fds -> Socket]
    BY <1>1, <1>2, <1>7, <2>2, SendType DEF FlushSome
  <2>4. conn' \in [Fds -> Connection]
    BY <1>1, <1>7, <2>2, ConnectionUpdates DEF FlushSome
  <2> QED BY <1>1, <1>7, <2>3, <2>4 DEF FlushSome, Rearm
<1>8. CASE FlushError(fd, c)
  <2>1. [c EXCEPT !.closed = TRUE] \in Connection
    BY DEF Connection
  <2> QED BY <1>1, <1>8, <2>1 DEF FlushError
<1> QED BY <1>6, <1>7, <1>8 DEF Flush

-----------------------------------------------------------------------------
(* The call stack *)

\* A fresh frame.
LEMMA FrameType ==
  ASSUME NEW pc, NEW fd,
         \/ pc \in FdPC /\ fd \in Fds
         \/ pc \in LoopPC /\ fd = NoFd
  PROVE  Frame(pc, fd) \in StackFrame
BY DEF Frame, StackFrame, FrameOf

\* The frame on top, and the stack below it.
LEMMA TopType ==
  ASSUME IoTypeOK, stack # <<>>
  PROVE  /\ Top \in StackFrame
         /\ Tail(stack) \in Seq(StackFrame)
         /\ Top.pc \in FdPC \cup {"waited"} => Top.fd \in Fds
         /\ Top.pc \in LoopPC => Top.fd = NoFd
         /\ Top.n \in Nat /\ Top.m \in Nat
         /\ Top.id \in Ids \cup {NoId} /\ Top.ids \subseteq Ids
         /\ Top.was \in BOOLEAN /\ Top.out \in BOOLEAN
<1>1. Top \in StackFrame /\ Tail(stack) \in Seq(StackFrame)
  BY DEF IoTypeOK, Top
<1> QED BY <1>1 DEF StackFrame, FrameOf, FdPC, LoopPC

\* A function goes on in another frame.
LEMMA BecomeType ==
  ASSUME IoTypeOK, stack # <<>>, NEW f \in StackFrame, Become(f)
  PROVE  stack' \in Seq(StackFrame)
BY TopType DEF Become

\* A function returns to its caller.
LEMMA ReturnType ==
  ASSUME IoTypeOK, stack # <<>>, Return
  PROVE  stack' \in Seq(StackFrame)
BY TopType DEF Return

\* A function calls others and goes on in another frame.
LEMMA CallFromType ==
  ASSUME IoTypeOK, stack # <<>>, NEW f \in StackFrame, NEW fs \in Seq(StackFrame),
         CallFrom(f, fs)
  PROVE  stack' \in Seq(StackFrame)
<1>1. Tail(stack) \in Seq(StackFrame)
  BY TopType
<1> QED BY <1>1 DEF CallFrom

\* A function, or the event loop, calls others.
LEMMA CallType ==
  ASSUME IoTypeOK, NEW fs \in Seq(StackFrame), Call(fs)
  PROVE  stack' \in Seq(StackFrame)
BY DEF Call, IoTypeOK

-----------------------------------------------------------------------------
(* The environment *)

\* What a send of any peer changes.
LEMMA SendPeerType ==
  ASSUME TypeOK, NEW fd \in Fds, NEW recs \in Seq(Record), recs # <<>>, Send(fd, recs),
         phase' \in [Fds -> [Ids -> Phase]], begun' \in Nat
  PROVE  TypeOK'
<1>1. sock \in [Fds -> Socket] /\ ready \subseteq Fds
  BY DEF TypeOK, EnvTypeOK
<1>2. sock[fd].rx \in Seq(Record) /\ recs[Len(recs)] \in Record
  <2>1. sock[fd] \in Socket BY <1>1
  <2> QED BY <2>1 DEF Socket
<1>3. Joined(sock[fd].rx, recs) \in Seq(Record)
  BY <1>2, JoinedType
<1>4. sock' \in [Fds -> Socket]
  <2> DEFINE rx == Joined(sock[fd].rx, recs)
             used == sock[fd].used \/ recs[Len(recs)].type = "BEGIN"
             bad == recs[Len(recs)].type = "BAD"
  <2>1. sock[fd] \in Socket /\ used \in BOOLEAN /\ bad \in BOOLEAN
    BY <1>1
  <2>2. sock' = [sock EXCEPT ![fd] = [sock[fd] EXCEPT !.rx = rx, !.used = used, !.bad = bad]]
    BY <1>1 DEF Send
  <2> HIDE DEF rx, used, bad
  <2>3. [sock[fd] EXCEPT !.rx = rx, !.used = used, !.bad = bad] \in Socket
    BY <1>3, <2>1 DEF Socket, rx
  <2> QED BY <1>1, <2>2, <2>3
<1>5. ready' \subseteq Fds
  BY <1>1 DEF Send, Wake
<1>6. EnvTypeOK'
  BY <1>4, <1>5 DEF TypeOK, EnvTypeOK, Send
<1>7. UNCHANGED <<objVars, listVars, ioVars, taskVars, fault>>
  BY DEF Send
<1> QED BY <1>6, <1>7 DEF TypeOK, PoolTypeOK, ObjTypeOK, ListTypeOK, IoTypeOK, TaskTypeOK

\* A peer's request enters another phase.
LEMMA EnterType ==
  ASSUME TypeOK, NEW fd \in Fds, NEW id \in Ids, NEW p \in Phase, Enter(fd, id, p)
  PROVE  phase' \in [Fds -> [Ids -> Phase]]
BY DEF TypeOK, EnvTypeOK, Enter

\* Records of a request, and records without one.
LEMMA RecType ==
  /\ \A type \in {"BEGIN", "PARAMS", "STDIN", "ABORT"}, id \in Ids, len \in Nat, keep \in BOOLEAN :
       Rec(type, id, len, keep) \in Record
  /\ \A type \in {"OTHER", "BAD", "PARTIAL"} : Bare(type) \in Record
BY DEF Record, RecordOf, Rec, Bare

\* A peer begins a request, after a management record perhaps.
LEMMA PeerBeginType ==
  ASSUME TypeOK, NEW fd \in Fds, NEW id \in Ids, PeerBegin(fd, id)
  PROVE TypeOK'
<1>1. begun' \in Nat
  BY DEF PeerBegin, TypeOK, EnvTypeOK
<1>2. phase' \in [Fds -> [Ids -> Phase]]
  BY EnterType DEF PeerBegin, Phase
<1>3. PICK before \in {<<>>} \cup {<<Bare("OTHER")>>} :
        Send(fd, before \o <<Rec("BEGIN", id, 8, sock[fd].keep)>>)
  BY DEF PeerBegin
<1>4. sock[fd].keep \in BOOLEAN
  <2>1. sock[fd] \in Socket BY DEF TypeOK, EnvTypeOK
  <2> QED BY <2>1 DEF Socket
<1>5. Rec("BEGIN", id, 8, sock[fd].keep) \in Record
  BY <1>4, RecType
<1>7. before \in Seq(Record)
  <2>1. Bare("OTHER") \in Record
    BY RecType
  <2>2. CASE before = <<>>
    BY <2>2
  <2>3. CASE before = <<Bare("OTHER")>>
    BY <2>1, <2>3
  <2> QED BY <2>2, <2>3
<1>6. /\ before \o <<Rec("BEGIN", id, 8, sock[fd].keep)>> \in Seq(Record)
      /\ before \o <<Rec("BEGIN", id, 8, sock[fd].keep)>> # <<>>
  BY <1>5, <1>7
<1> QED BY <1>1, <1>2, <1>3, <1>6, SendPeerType

\* A peer sends the next record of a stream.
LEMMA PeerStreamType ==
  ASSUME TypeOK, NEW fd \in Fds, NEW id \in Ids, PeerStream(fd, id)
  PROVE TypeOK'
<1>1. begun' \in Nat
  BY DEF PeerStream, TypeOK, EnvTypeOK
<1>2. phase' \in [Fds -> [Ids -> Phase]]
  BY EnterType DEF PeerStream, Phase
<1>3. PICK type \in {"PARAMS", "STDIN"}, len \in Nat :
        Send(fd, <<Rec(type, id, len, FALSE)>>)
  BY ConstantsAssumption DEF PeerStream
<1>4. Rec(type, id, len, FALSE) \in Record
  BY RecType
<1>5. /\ <<Rec(type, id, len, FALSE)>> \in Seq(Record)
      /\ <<Rec(type, id, len, FALSE)>> # <<>>
  BY <1>4, Singleton
<1> QED BY <1>1, <1>2, <1>3, <1>5, SendPeerType

\* A peer aborts, sends nonsense, or sends half a record.
LEMMA OtherSendsType ==
  ASSUME TypeOK, NEW fd \in Fds,
         \/ \E id \in Ids : PeerAbort(fd, id)
         \/ PeerBad(fd)
         \/ PeerPartial(fd)
  PROVE TypeOK'
<1>1. begun' \in Nat
  BY DEF PeerAbort, PeerBad, PeerPartial, TypeOK, EnvTypeOK
<1>2. phase' \in [Fds -> [Ids -> Phase]]
  <2>1. CASE \E id \in Ids : PeerAbort(fd, id)
    BY <2>1, EnterType DEF PeerAbort, Phase
  <2> QED BY <2>1 DEF PeerBad, PeerPartial, TypeOK, EnvTypeOK
<1>3. PICK rec \in Record : Send(fd, <<rec>>)
  BY RecType DEF PeerAbort, PeerBad, PeerPartial
<1>4. <<rec>> \in Seq(Record) /\ <<rec>> # <<>>
  OBVIOUS
<1> QED BY <1>4, <1>1, <1>2, <1>3, SendPeerType

\* A peer connects.
LEMMA PeerConnectType ==
  ASSUME TypeOK, NEW fd \in Fds, NEW keep \in BOOLEAN, PeerConnect(fd, keep)
  PROVE  TypeOK'
<1>1. connects \in Nat /\ sock \in [Fds -> Socket]
  BY DEF TypeOK, EnvTypeOK
<1>2. [FreeSock EXCEPT !.st = "backlog", !.keep = keep, !.serial = connects + 1] \in Socket
  <2>1. \A s \in Socket, n \in Nat :
          [s EXCEPT !.st = "backlog", !.keep = keep, !.serial = n] \in Socket
    BY DEF Socket
  <2>2. connects + 1 \in Nat
    BY <1>1
  <2> QED BY <2>1, <2>2, FreeSockType, Zenon
<1>3. EnvTypeOK'
  BY <1>1, <1>2 DEF PeerConnect, TypeOK, EnvTypeOK
<1> QED
  BY <1>3 DEF PeerConnect, TypeOK, PoolTypeOK, ObjTypeOK, ListTypeOK, IoTypeOK, TaskTypeOK

\* A peer reads what it was sent.
LEMMA PeerReadType ==
  ASSUME TypeOK, NEW fd \in Fds, PeerRead(fd)
  PROVE  TypeOK'
<1>1. /\ sock \in [Fds -> Socket] /\ phase \in [Fds -> [Ids -> Phase]]
      /\ ready \subseteq Fds
  BY DEF TypeOK, EnvTypeOK
<1>2. phase' \in [Fds -> [Ids -> Phase]]
  BY <1>1 DEF PeerRead, Phase
<1>3. sock' \in [Fds -> Socket]
  <2>1. sock[fd] \in Socket /\ <<>> \in Sent
    BY <1>1, ConstantsAssumption DEF Sent
  <2>2. [sock[fd] EXCEPT !.tx = <<>>] \in Socket
    BY <2>1, SendType
  <2> QED BY <1>1, <2>2 DEF PeerRead
<1>4. EnvTypeOK'
  BY <1>1, <1>2, <1>3 DEF PeerRead, TypeOK, EnvTypeOK
<1> QED
  BY <1>4 DEF PeerRead, TypeOK, PoolTypeOK, ObjTypeOK, ListTypeOK, IoTypeOK, TaskTypeOK

\* A peer closes or resets the connection.
LEMMA PeerCloseType ==
  ASSUME TypeOK, NEW fd \in Fds, NEW hup \in BOOLEAN, PeerClose(fd, hup)
  PROVE  TypeOK'
<1>1. sock \in [Fds -> Socket] /\ ready \subseteq Fds
  BY DEF TypeOK, EnvTypeOK
<1>2. sock' \in [Fds -> Socket]
  <2>1. sock[fd] \in Socket /\ <<>> \in Sent
    BY <1>1, ConstantsAssumption DEF Sent
  <2>2. [sock[fd] EXCEPT !.eof = TRUE, !.hup = hup, !.tx = <<>>] \in Socket
    BY <2>1 DEF Socket
  <2> QED BY <1>1, <2>2 DEF PeerClose
<1>3. EnvTypeOK'
  BY <1>1, <1>2 DEF PeerClose, Wake, TypeOK, EnvTypeOK
<1> QED
  BY <1>3 DEF PeerClose, TypeOK, PoolTypeOK, ObjTypeOK, ListTypeOK, IoTypeOK, TaskTypeOK

\* Every step of a peer.
LEMMA PeerType ==
  ASSUME TypeOK, NEW fd \in Fds, Peer(fd)
  PROVE  TypeOK'
BY PeerConnectType, PeerBeginType, PeerStreamType, OtherSendsType, PeerReadType,
   PeerCloseType, ConstantsAssumption DEF Peer

\* The 100 ms timer.
LEMMA TimerTickType ==
  ASSUME TypeOK, TimerTick
  PROVE  TypeOK'
BY DEF TimerTick, TypeOK, PoolTypeOK, ObjTypeOK, ListTypeOK, IoTypeOK, TaskTypeOK,
       EnvTypeOK

\* The WebSocket threads take and give back arenas.
LEMMA WsType ==
  ASSUME TypeOK, WsThreads
  PROVE  TypeOK'
<1>1. PICK a \in Arena : WsGet(a) \/ WsRelease(a)
  BY DEF WsThreads
<1>2. PoolTypeOK'
  BY <1>1, PoolStepType DEF WsGet, WsRelease, TypeOK
<1>3. EnvTypeOK'
  BY <1>1 DEF WsGet, WsRelease, TypeOK, EnvTypeOK
<1> QED
  BY <1>1, <1>2, <1>3
  DEF WsGet, WsRelease, TypeOK, ObjTypeOK, ListTypeOK, IoTypeOK, TaskTypeOK

-----------------------------------------------------------------------------
(* The event loop and accept() *)

\* epoll_wait reports descriptors that exist.
LEMMA EpollWaitType ==
  ASSUME TypeOK, EpollWait
  PROVE  TypeOK'
<1>1. ReadyEvents \subseteq EpollEvent
  <2>1. \A fd \in ready : IoEventOf(fd) \in EpollEvent
    <3> SUFFICES ASSUME NEW fd \in ready PROVE IoEventOf(fd) \in EpollEvent
      OBVIOUS
    <3>1. fd \in Fds
      BY DEF TypeOK, EnvTypeOK
    <3>2. sock[fd] \in Socket /\ conn[fd] \in Connection
      BY <3>1 DEF TypeOK, EnvTypeOK, ObjTypeOK
    <3>3. sock[fd].eof \in BOOLEAN /\ sock[fd].hup \in BOOLEAN /\ conn[fd].epollout \in BOOLEAN
      BY <3>2 DEF Socket, Connection
    <3> QED BY <3>1, <3>3 DEF IoEventOf, EpollEvent, EventOf
  <2>2. \A src \in {"listen", "eventfd", "timer"} : Event(src, NoFd) \in EpollEvent
    BY DEF Event, EpollEvent, EventOf
  <2> QED BY <2>1, <2>2 DEF ReadyEvents
<1>2. IoTypeOK'
  <2>1. batch' \subseteq ReadyEvents
    BY DEF EpollWait
  <2> QED BY <1>1, <2>1 DEF EpollWait, TypeOK, IoTypeOK
<1> QED
  BY <1>2 DEF EpollWait, TypeOK, PoolTypeOK, ObjTypeOK, ListTypeOK, TaskTypeOK, EnvTypeOK

\* handle_new_connections is called, or accept() paused.
LEMMA ListenEventType ==
  ASSUME TypeOK, NEW e \in batch, ListenEvent(e)
  PROVE  TypeOK'
<1>1. IoTypeOK'
  <2>1. batch' \subseteq EpollEvent
    BY DEF ListenEvent, Dispatching, TypeOK, IoTypeOK
  <2>2. <<Frame("accept", NoFd)>> \in Seq(StackFrame)
    BY FrameType DEF LoopPC
  <2>3. stack' \in Seq(StackFrame)
    BY <2>2, CallType DEF ListenEvent, TypeOK, IoTypeOK
  <2> QED BY <2>1, <2>3 DEF IoTypeOK
<1>2. ListTypeOK'
  BY DEF ListenEvent, TypeOK, ListTypeOK
<1> QED
  BY <1>1, <1>2 DEF ListenEvent, TypeOK, PoolTypeOK, ObjTypeOK, TaskTypeOK, EnvTypeOK

\* One accept() and its Connection.
LEMMA AcceptOneType ==
  ASSUME TypeOK, NEW fd \in Fds, AcceptOne(fd)
  PROVE  TypeOK'
<1>1. sock[fd] \in Socket
  BY DEF TypeOK, EnvTypeOK
<1>2. ObjTypeOK'
  <2>1. NewConnection(sock[fd].serial) \in Connection
    BY <1>1, NewConnectionType DEF Socket
  <2> QED BY <2>1 DEF AcceptOne, TypeOK, ObjTypeOK
<1>3. EnvTypeOK'
  <2>1. [sock[fd] EXCEPT !.st = "conn"] \in Socket
    BY <1>1 DEF Socket
  <2> QED BY <2>1 DEF AcceptOne, TypeOK, EnvTypeOK
<1>4. stack' \in Seq(StackFrame)
  BY ReturnType DEF AcceptOne, At, TypeOK, IoTypeOK
<1>5. IoTypeOK' /\ ListTypeOK'
  BY <1>4 DEF AcceptOne, TypeOK, IoTypeOK, ListTypeOK
<1> QED
  BY <1>2, <1>3, <1>5 DEF AcceptOne, TypeOK, PoolTypeOK, TaskTypeOK

\* Steps that only return.
LEMMA ReturnsType ==
  ASSUME TypeOK, stack # <<>>, Return,
         UNCHANGED <<objVars, listVars, batch, taskVars, envVars, fault>>
  PROVE  TypeOK'
BY ReturnType DEF TypeOK, PoolTypeOK, ObjTypeOK, ListTypeOK, IoTypeOK, TaskTypeOK, EnvTypeOK

\* Steps that only go on in another frame.
LEMMA BecomesType ==
  ASSUME TypeOK, stack # <<>>, NEW f \in StackFrame, Become(f),
         UNCHANGED <<objVars, listVars, batch, taskVars, envVars, fault>>
  PROVE  TypeOK'
BY BecomeType DEF TypeOK, PoolTypeOK, ObjTypeOK, ListTypeOK, IoTypeOK, TaskTypeOK, EnvTypeOK

\* Steps that only run into undefined behaviour.
LEMMA FaultType ==
  ASSUME TypeOK, fault' \in {"worker", "pending", "record", "rehash"},
         UNCHANGED <<objVars, listVars, ioVars, taskVars, envVars>>
  PROVE  TypeOK'
BY DEF TypeOK, PoolTypeOK, ObjTypeOK, ListTypeOK, IoTypeOK, TaskTypeOK, EnvTypeOK

-----------------------------------------------------------------------------
(* The workers *)

\* A worker takes the oldest closure.
LEMMA TaskStartType ==
  ASSUME TypeOK, TaskStart
  PROVE  TypeOK'
<1>1. Head(queue) \in Closure /\ Tail(queue) \in Seq(Closure)
  BY DEF TaskStart, TypeOK, TaskTypeOK
<1>2. [Head(queue) EXCEPT !.at = "parsed"] \in Closure
  BY <1>1 DEF Closure
<1>3. TaskTypeOK'
  BY <1>1, <1>2 DEF TaskStart, TypeOK, TaskTypeOK
<1> QED
  BY <1>3 DEF TaskStart, TypeOK, PoolTypeOK, ObjTypeOK, ListTypeOK, IoTypeOK, EnvTypeOK

\* A worker's closure goes on to its next statement.
LEMMA MoveType ==
  ASSUME TaskTypeOK, NEW t \in running, NEW at \in {"parsing", "parsed", "leaving"},
         Move(t, at), UNCHANGED queue
  PROVE  TaskTypeOK'
<1>1. t \in Closure
  BY DEF TaskTypeOK
<1>2. [t EXCEPT !.at = at] \in Closure
  BY <1>1 DEF Closure
<1> QED BY <1>2 DEF Move, TaskTypeOK

\* The closure pushes its request and writes the eventfd.
LEMMA TaskPushType ==
  ASSUME TypeOK, NEW t \in running, TaskPush(t)
  PROVE  TypeOK'
<1>1. TaskTypeOK'
  BY MoveType DEF TaskPush, TypeOK
<1>2. ListTypeOK'
  <2>1. t \in Closure
    BY DEF TypeOK, TaskTypeOK
  <2>2. [arena |-> t.arena, serial |-> t.serial] \in Handback
    BY <2>1 DEF Closure, Handback
  <2>3. g_pending_output' \in Seq(Handback)
    BY <2>2 DEF TaskPush, TypeOK, ListTypeOK
  <2> QED BY <2>3 DEF TaskPush, TypeOK, ListTypeOK
<1> QED
  BY <1>1, <1>2 DEF TaskPush, TypeOK, PoolTypeOK, ObjTypeOK, IoTypeOK, EnvTypeOK

\* The closure clears worker_active.
LEMMA TaskInactiveType ==
  ASSUME TypeOK, NEW t \in running, TaskInactive(t)
  PROVE  TypeOK'
<1>1. TaskTypeOK'
  BY MoveType DEF TaskInactive, TypeOK
<1>2. ObjTypeOK'
  <2>1. \A r \in Request : [r EXCEPT !.worker_active = FALSE] \in Request
    BY DEF Request
  <2>2. req' \in [Arena -> Request]
    BY <2>1 DEF TaskInactive, TypeOK, ObjTypeOK
  <2> QED BY <2>2 DEF TaskInactive, TypeOK, ObjTypeOK
<1> QED
  BY <1>1, <1>2 DEF TaskInactive, TypeOK, PoolTypeOK, ListTypeOK, IoTypeOK, EnvTypeOK

\* The closure leaves its connection.
LEMMA TaskLeaveType ==
  ASSUME TypeOK, NEW t \in running, TaskLeave(t)
  PROVE  TypeOK'
<1>1. TaskTypeOK'
  BY DEF TaskLeave, TypeOK, TaskTypeOK
<1>2. ObjTypeOK'
  <2>1. \A c \in Connection : [c EXCEPT !.active_workers = c.active_workers - 1] \in Connection
    <3> SUFFICES ASSUME NEW c \in Connection
                 PROVE  [c EXCEPT !.active_workers = c.active_workers - 1] \in Connection
      OBVIOUS
    <3>1. c.active_workers - 1 \in Int
      BY WorkersType
    <3> QED BY <3>1, WorkersType
  <2>2. conn' \in [Fds -> Connection]
    BY <2>1 DEF TaskLeave, TypeOK, ObjTypeOK
  <2> QED BY <2>2 DEF TaskLeave, TypeOK, ObjTypeOK
<1> QED
  BY <1>1, <1>2 DEF TaskLeave, TypeOK, PoolTypeOK, ListTypeOK, IoTypeOK, EnvTypeOK

-----------------------------------------------------------------------------
(* Events, and process_pending_output *)

\* An event that calls a function of no connection.
LEMMA EventCallType ==
  ASSUME TypeOK, NEW e \in batch, Dispatching(e), NEW pc \in LoopPC,
         Call(<<Frame(pc, NoFd)>>)
  PROVE  IoTypeOK'
<1>1. <<Frame(pc, NoFd)>> \in Seq(StackFrame)
  BY FrameType
<1>2. stack' \in Seq(StackFrame)
  BY <1>1, CallType DEF TypeOK
<1> QED BY <1>2 DEF Dispatching, TypeOK, IoTypeOK

\* The eventfd is drained.
LEMMA EventFdEventType ==
  ASSUME TypeOK, NEW e \in batch, EventFdEvent(e)
  PROVE  TypeOK'
<1>1. IoTypeOK'
  BY EventCallType DEF EventFdEvent, LoopPC
<1> QED
  BY <1>1
  DEF EventFdEvent, TypeOK, PoolTypeOK, ObjTypeOK, ListTypeOK, TaskTypeOK, EnvTypeOK

\* The timerfd is read.
LEMMA TimerEventType ==
  ASSUME TypeOK, NEW e \in batch, TimerEvent(e)
  PROVE  TypeOK'
<1>1. IoTypeOK'
  BY EventCallType DEF TimerEvent, LoopPC
<1> QED
  BY <1>1
  DEF TimerEvent, TypeOK, PoolTypeOK, ObjTypeOK, ListTypeOK, TaskTypeOK, EnvTypeOK

\* An event of a connection that is gone.
LEMMA IoStaleType ==
  ASSUME TypeOK, NEW e \in batch, IoStale(e)
  PROVE  TypeOK'
<1>1. IoTypeOK'
  BY DEF IoStale, Dispatching, TypeOK, IoTypeOK
<1> QED
  BY <1>1
  DEF IoStale, TypeOK, PoolTypeOK, ObjTypeOK, ListTypeOK, TaskTypeOK, EnvTypeOK

\* process_pending_output takes the list.
LEMMA SwapPendingType ==
  ASSUME TypeOK, SwapPending
  PROVE  TypeOK'
<1>1. IoTypeOK'
  <2>1. Frame("pending", NoFd) \in StackFrame
    BY FrameType DEF LoopPC
  <2>2. stack' \in Seq(StackFrame)
    BY <2>1, BecomeType DEF SwapPending, At, TypeOK
  <2> QED BY <2>2 DEF SwapPending, TypeOK, IoTypeOK
<1>2. ListTypeOK'
  BY DEF SwapPending, TypeOK, ListTypeOK
<1> QED
  BY <1>1, <1>2
  DEF SwapPending, TypeOK, PoolTypeOK, ObjTypeOK, TaskTypeOK, EnvTypeOK

\* END_REQUEST for a request of an existing connection.
LEMMA EndType ==
  ASSUME NEW r \in Request, NEW c \in Connection, NEW id \in Ids \cup {NoId},
         NEW want \in BOOLEAN
  PROVE  /\ [r EXCEPT !.flags = @ \cup {"RESPONDED"}, !.ends = @ + 1] \in Request
         /\ [r EXCEPT !.flags = @ \cup {"FAILED", "RESPONDED"}, !.ends = @ + 1] \in Request
         /\ [c EXCEPT !.out_buf = Append(@, id), !.epollout = want] \in Connection
         /\ [c EXCEPT !.out_buf = Append(@, id)] \in Connection
<1>1. \A flags \in SUBSET Flag, n \in Nat :
        [r EXCEPT !.flags = flags, !.ends = n] \in Request
  BY DEF Request
<1>2. /\ r.flags \cup {"RESPONDED"} \in SUBSET Flag
      /\ r.flags \cup {"FAILED", "RESPONDED"} \in SUBSET Flag
      /\ r.ends + 1 \in Nat
  BY DEF Request, Flag
<1>6. /\ [r EXCEPT !.flags = @ \cup {"RESPONDED"}, !.ends = @ + 1] \in Request
      /\ [r EXCEPT !.flags = @ \cup {"FAILED", "RESPONDED"}, !.ends = @ + 1] \in Request
  BY <1>1, <1>2, Zenon
<1> DEFINE out == Append(c.out_buf, id)
<1>3. out \in Seq(Ids \cup {NoId})
  BY DEF Connection
<1> HIDE DEF out
<1>4. [c EXCEPT !.out_buf = out, !.epollout = want] \in Connection
  BY <1>3 DEF Connection
<1>5. [c EXCEPT !.out_buf = out] \in Connection
  BY <1>3 DEF Connection
<1> QED BY <1>4, <1>5, <1>6 DEF out

\* The user's callback answers a request.
LEMMA PendingAnswerType ==
  ASSUME TypeOK, PendingAnswer
  PROVE  TypeOK'
<1> DEFINE a == Head(taken).arena
           fd == req[a].conn_ptr
           want == conn[fd].epollout \/ conn[fd].out_buf = <<>>
<1>1. a \in Arena /\ Tail(taken) \in Seq(Handback)
  <2>1. Head(taken) \in Handback /\ Tail(taken) \in Seq(Handback)
    BY DEF PendingAnswer, TypeOK, ListTypeOK
  <2> QED BY <2>1 DEF Handback
<1>2. req[a] \in Request /\ fd \in Fds /\ conn[fd] \in Connection /\ want \in BOOLEAN
  <2>1. req[a] \in Request
    BY <1>1 DEF TypeOK, ObjTypeOK
  <2>2. fd \in Fds
    BY DEF PendingAnswer, ConnGone, TypeOK, ObjTypeOK
  <2>3. conn[fd] \in Connection
    BY <2>2 DEF TypeOK, ObjTypeOK
  <2> QED BY <2>1, <2>2, <2>3 DEF Connection
<1>3. ObjTypeOK'
  <2>1. req[a].id \in Ids \cup {NoId}
    BY <1>2 DEF Request
  <2>2. req' \in [Arena -> Request]
    BY <1>1, <1>2, EndType DEF PendingAnswer, Answer, TypeOK, ObjTypeOK
  <2>3. conn' \in [Fds -> Connection]
    <3>1. [conn[fd] EXCEPT !.out_buf = Append(@, req[a].id), !.epollout = want] \in Connection
      BY <1>2, <2>1, EndType
    <3> QED BY <1>2, <3>1 DEF PendingAnswer, Answer, TypeOK, ObjTypeOK
  <2> QED BY <2>2, <2>3 DEF PendingAnswer, TypeOK, ObjTypeOK
<1>4. ListTypeOK'
  BY <1>1 DEF PendingAnswer, TypeOK, ListTypeOK
<1>5. EnvTypeOK'
  BY <1>2 DEF PendingAnswer, Answer, Rearm, TypeOK, EnvTypeOK
<1> QED
  BY <1>3, <1>4, <1>5 DEF PendingAnswer, TypeOK, PoolTypeOK, IoTypeOK, TaskTypeOK

\* A request handed back is passed over.
LEMMA PendingSkipType ==
  ASSUME TypeOK, PendingSkip
  PROVE  TypeOK'
<1>1. ListTypeOK'
  BY DEF PendingSkip, TypeOK, ListTypeOK
<1> QED
  BY <1>1
  DEF PendingSkip, TypeOK, PoolTypeOK, ObjTypeOK, IoTypeOK, TaskTypeOK, EnvTypeOK

-----------------------------------------------------------------------------
(* process_buffer *)

\* The next record of the input, if there is one.
LEMMA InBufType ==
  ASSUME TypeOK, At("fcgi")
  PROVE  /\ Top.fd \in Fds /\ Top.n \in Nat
         /\ conn[Top.fd] \in Connection
         /\ InBuf \in Seq(Record)
         /\ Consumed \in Seq(Record)
         /\ Exists => NextRecord \in Record
<1>1. Top.fd \in Fds /\ Top.n \in Nat
  BY TopType DEF At, Top, FdPC, TypeOK
<1>2. conn[Top.fd] \in Connection
  BY <1>1 DEF TypeOK, ObjTypeOK
<1>3. InBuf \in Seq(Record)
  BY <1>2 DEF InBuf, Connection
<1> HIDE DEF InBuf
<1>4. Consumed \in Seq(Record)
  BY <1>1, <1>3 DEF Consumed
<1>5. Exists => NextRecord \in Record
  BY <1>1, <1>3 DEF Exists, NextRecord
<1> QED BY <1>1, <1>2, <1>3, <1>4, <1>5

\* process_buffer returns, its input consumed or kept.
LEMMA ParseReturnsType ==
  ASSUME TypeOK, ParseEnd \/ ParseBad \/ ParseDefer
  PROVE  TypeOK'
<1>1. At("fcgi") /\ Return
  BY DEF ParseEnd, ParseBad, ParseDefer
<1>2. /\ Top.fd \in Fds /\ conn \in [Fds -> Connection]
      /\ conn[Top.fd] \in Connection /\ Consumed \in Seq(Record)
  BY <1>1, InBufType DEF TypeOK, ObjTypeOK
<1>3. conn' \in [Fds -> Connection]
  <2> DEFINE fd == Top.fd
             in == Consumed
  <2>1. fd \in Fds /\ conn[fd] \in Connection /\ in \in Seq(Record)
    BY <1>2
  <2>2. \/ conn' = [conn EXCEPT ![fd] =
                     [conn[fd] EXCEPT !.in_buf = in, !.waiting_for_arena = FALSE]]
        \/ conn' = [conn EXCEPT ![fd] =
                     [conn[fd] EXCEPT !.in_buf = in, !.waiting_for_arena = FALSE,
                                      !.closed = TRUE]]
        \/ conn' = [conn EXCEPT ![fd] = [conn[fd] EXCEPT !.waiting_for_arena = TRUE]]
    BY <1>2 DEF ParseEnd, ParseBad, ParseDefer
  <2> HIDE DEF fd, in
  <2>3. /\ [conn[fd] EXCEPT !.in_buf = in, !.waiting_for_arena = FALSE] \in Connection
        /\ [conn[fd] EXCEPT !.in_buf = in, !.waiting_for_arena = FALSE, !.closed = TRUE]
              \in Connection
        /\ [conn[fd] EXCEPT !.waiting_for_arena = TRUE] \in Connection
    BY <2>1 DEF Connection
  <2> QED BY <1>2, <2>1, <2>2, <2>3
<1>4. ObjTypeOK'
  BY <1>3 DEF ParseEnd, ParseBad, ParseDefer, TypeOK, ObjTypeOK
<1>5. IoTypeOK'
  <2>1. stack' \in Seq(StackFrame)
    BY <1>1, ReturnType DEF At, TypeOK
  <2> QED BY <2>1 DEF ParseEnd, ParseBad, ParseDefer, TypeOK, IoTypeOK
<1> QED
  BY <1>4, <1>5
  DEF ParseEnd, ParseBad, ParseDefer, TypeOK, PoolTypeOK, ListTypeOK, TaskTypeOK, EnvTypeOK

\* Changes of single fields of the top frame.
LEMMA TopChangesType ==
  ASSUME TypeOK, stack # <<>>
  PROVE  /\ \A n \in Nat : [Top EXCEPT !.n = n] \in FrameOf(FdPC, Fds, Nat)
                             \/ Top.pc \notin FdPC
         /\ Top.pc \in FdPC => \A ids \in SUBSET Ids : [Top EXCEPT !.ids = ids] \in StackFrame
<1>1. Top \in StackFrame
  BY TopType DEF TypeOK
<1>2. Top.pc \in FdPC => Top \in FrameOf(FdPC, Fds, Nat)
  BY <1>1 DEF StackFrame, FrameOf, FdPC, LoopPC
<1>3. \A f \in FrameOf(FdPC, Fds, Nat), n \in Nat, ids \in SUBSET Ids :
        /\ [f EXCEPT !.n = n] \in FrameOf(FdPC, Fds, Nat)
        /\ [f EXCEPT !.ids = ids] \in FrameOf(FdPC, Fds, Nat)
  BY DEF FrameOf
<1> QED BY <1>2, <1>3 DEF StackFrame

\* One more record consumed.
LEMMA NextFrameType ==
  ASSUME TypeOK, At("fcgi")
  PROVE  [Top EXCEPT !.n = @ + 1] \in StackFrame
<1>1. Top.pc \in FdPC /\ Top.n + 1 \in Nat /\ stack # <<>>
  BY InBufType DEF At, Top, FdPC
<1>2. [Top EXCEPT !.n = Top.n + 1] \in FrameOf(FdPC, Fds, Nat)
  BY <1>1, TopChangesType
<1> QED BY <1>2 DEF StackFrame

\* A record without effect.
LEMMA ParseSkipType ==
  ASSUME TypeOK, ParseSkip
  PROVE  TypeOK'
<1>1. [Top EXCEPT !.n = @ + 1] \in StackFrame
  BY NextFrameType DEF ParseSkip
<1> QED BY <1>1, BecomesType DEF ParseSkip, At

\* A record delivered to a request, new or found in the map.
LEMMA DeliverType ==
  ASSUME TypeOK, At("fcgi"), Exists, NEW a \in Arena, NEW r \in Request,
         NamesRequest(NextRecord), r.conn_ptr \in Fds, Deliver(a, r, NextRecord)
  PROVE  /\ req' \in [Arena -> Request] /\ conn' \in [Fds -> Connection]
         /\ TaskTypeOK' /\ stack' \in Seq(StackFrame)
<1> DEFINE rec == NextRecord
           after == ApplyRecord(r, rec)
           ended == EndsRequest(r, after)
           go == Ready(after)
           final == [after EXCEPT !.ends = IF ended THEN @ + 1 ELSE @,
                                  !.worker_active = @ \/ go,
                                  !.dispatches = IF go THEN @ + 1 ELSE @]
           fd == Top.fd
           to == r.conn_ptr
<1>1. /\ fd \in Fds /\ rec \in Record /\ conn \in [Fds -> Connection]
      /\ req \in [Arena -> Request]
  BY InBufType DEF TypeOK, ObjTypeOK
<1>2. rec.id \in Ids
  BY <1>1 DEF NamesRequest, Record, RecordOf
<1>3. after \in Request
  BY <1>1, ApplyRecordType
<1>4. ended \in BOOLEAN /\ go \in BOOLEAN
  BY DEF EndsRequest, Ready
<1>5. final \in Request
  <2> DEFINE ends == IF ended THEN after.ends + 1 ELSE after.ends
             active == after.worker_active \/ go
             nth == IF go THEN after.dispatches + 1 ELSE after.dispatches
  <2>1. ends \in Nat /\ active \in BOOLEAN /\ nth \in Nat
    <3> HIDE DEF after, ended, go
    <3> QED BY <1>3, <1>4 DEF Request
  <2>2. final = [after EXCEPT !.ends = ends, !.worker_active = active, !.dispatches = nth]
    OBVIOUS
  <2> HIDE DEF after, final, ends, active, nth
  <2> QED BY <1>3, <2>1, <2>2 DEF Request
<1>6. final.conn_ptr = to
  <2>1. after.conn_ptr = to
    BY DEF ApplyRecord, ApplyBegin, ApplyParams, ApplyStdin, ApplyAbort, FailRequest,
           Request
  <2> HIDE DEF ended, go, after
  <2> QED BY <1>3, <2>1 DEF Request
<1>7. req' \in [Arena -> Request]
  <2>1. req' = [req EXCEPT ![a] = final]
    BY DEF Deliver
  <2> HIDE DEF final
  <2> QED BY <1>1, <1>5, <2>1
<1>8. conn' \in [Fds -> Connection]
  <2> DEFINE out == IF ended THEN Append(conn[fd].out_buf, r.id) ELSE conn[fd].out_buf
             c == [conn[fd] EXCEPT !.requests[rec.id] = a, !.out_buf = out]
             mid == [conn EXCEPT ![fd] = c]
             n == IF go THEN mid[to].active_workers + 1 ELSE mid[to].active_workers
  <2>1. conn' = [mid EXCEPT ![to] = [mid[to] EXCEPT !.active_workers = n]]
    BY <1>1 DEF Deliver
  <2>2. out \in Seq(Ids \cup {NoId})
    <3>1. conn[fd].out_buf \in Seq(Ids \cup {NoId}) /\ r.id \in Ids \cup {NoId}
      <4>1. conn[fd] \in Connection BY <1>1
      <4> QED BY <4>1 DEF Connection, Request
    <3> HIDE DEF ended, fd
    <3> QED BY <3>1, <1>4
  <2>3. c \in Connection
    <3>1. conn[fd] \in Connection
      BY <1>1
    <3> HIDE DEF out, rec, fd
    <3> QED BY <1>2, <2>2, <3>1 DEF Connection
  <2>4. mid \in [Fds -> Connection]
    <3> HIDE DEF c, fd
    <3> QED BY <1>1, <2>3
  <2>5. mid[to] \in Connection
    <3> HIDE DEF mid
    <3> QED BY <2>4
  <2>6. [mid[to] EXCEPT !.active_workers = n] \in Connection
    <3> HIDE DEF mid, go
    <3>1. n \in Int
      BY <2>5, WorkersType
    <3> HIDE DEF n
    <3> QED BY <2>5, <3>1, WorkersType
  <2> HIDE DEF mid, n
  <2> QED BY <2>1, <2>4, <2>6
<1>9. TaskTypeOK'
  <2>1. Task(a, final) \in Closure
    <3> HIDE DEF final
    <3> QED BY <1>5, <1>6 DEF Task, Closure, Request
  <2>2. queue' = IF go THEN Append(queue, Task(a, final)) ELSE queue
    BY DEF Deliver
  <2>3. UNCHANGED running
    BY DEF Deliver
  <2> HIDE DEF final, go
  <2> QED BY <2>1, <2>2, <2>3 DEF TypeOK, TaskTypeOK
<1>10. stack' \in Seq(StackFrame)
  <2>1. Become([Top EXCEPT !.n = @ + 1])
    BY DEF Deliver
  <2> QED BY <2>1, NextFrameType, BecomeType DEF At, TypeOK
<1> QED BY <1>7, <1>8, <1>9, <1>10

\* A record of a new request or of a known one.
LEMMA ParseRecordType ==
  ASSUME TypeOK, NEW a \in Arena, ParseNew(a) \/ ParseKnown(a)
  PROVE  TypeOK'
<1>1. At("fcgi") /\ Exists /\ NamesRequest(NextRecord)
  BY DEF ParseNew, ParseKnown
<1>2. CASE ParseNew(a)
  <2> DEFINE r == NewRequest(built + 1, Top.fd, conn[Top.fd].serial, NextRecord.id)
  <2>1. /\ Top.fd \in Fds /\ NextRecord.id \in Ids \cup {NoId}
        /\ conn[Top.fd].serial \in Nat /\ built + 1 \in Nat
    BY <1>1, InBufType DEF Connection, Record, RecordOf, TypeOK, ObjTypeOK
  <2>2. r \in Request
    BY <2>1, NewRequestType
  <2>3. r.conn_ptr \in Fds
    BY <2>1 DEF NewRequest
  <2>4. Deliver(a, r, NextRecord)
    BY <1>2 DEF ParseNew
  <2> HIDE DEF r
  <2>5. /\ req' \in [Arena -> Request] /\ conn' \in [Fds -> Connection]
        /\ TaskTypeOK' /\ stack' \in Seq(StackFrame)
    BY <1>1, <2>2, <2>3, <2>4, DeliverType
  <2>6. PoolTypeOK'
    BY <1>2, PoolStepType DEF ParseNew, TypeOK
  <2> QED
    BY <1>2, <2>1, <2>5, <2>6
    DEF ParseNew, TypeOK, ObjTypeOK, ListTypeOK, IoTypeOK, EnvTypeOK
<1>3. CASE ParseKnown(a)
  <2>1. req[a] \in Request /\ req[a].conn_ptr \in Fds
    BY <1>3 DEF ParseKnown, ConnGone, TypeOK, ObjTypeOK
  <2>2. Deliver(a, req[a], NextRecord)
    BY <1>3 DEF ParseKnown
  <2>3. /\ req' \in [Arena -> Request] /\ conn' \in [Fds -> Connection]
        /\ TaskTypeOK' /\ stack' \in Seq(StackFrame)
    BY <1>1, <2>1, <2>2, DeliverType
  <2> QED
    BY <1>3, <2>3
    DEF ParseKnown, TypeOK, PoolTypeOK, ObjTypeOK, ListTypeOK, IoTypeOK, EnvTypeOK
<1> QED BY <1>2, <1>3

-----------------------------------------------------------------------------
(* handle_io and the sweep *)

\* The loops over a requests map start on ids.
LEMMA SweepFrameType ==
  ASSUME NEW fd \in Fds
  PROVE  SweepFrame(fd) \in StackFrame /\ CleanupFrame(fd) \in StackFrame
<1>1. /\ Frame("sweep", fd) \in FrameOf(FdPC, Fds, Nat)
      /\ Frame("cleanup", fd) \in FrameOf(FdPC, Fds, Nat)
  BY DEF Frame, FrameOf, FdPC
<1>2. \A f \in FrameOf(FdPC, Fds, Nat), ids \in SUBSET Ids :
        [f EXCEPT !.ids = ids] \in FrameOf(FdPC, Fds, Nat)
  BY DEF FrameOf
<1>3. Mapped(conn'[fd]) \in SUBSET Ids /\ Mapped(conn[fd]) \in SUBSET Ids
  BY DEF Mapped
<1> QED BY <1>1, <1>2, <1>3 DEF SweepFrame, CleanupFrame, StackFrame

\* handle_io receives and calls process_fcgi.
LEMMA IoEventType ==
  ASSUME TypeOK, NEW e \in batch, IoEvent(e)
  PROVE  TypeOK'
<1> DEFINE fd == e.fd
           shut == conn[fd].closed \/ e.hup \/ (e.in /\ sock[fd].eof)
           in == IF e.in THEN Joined(conn[fd].in_buf, sock[fd].rx) ELSE conn[fd].in_buf
           c == [conn[fd] EXCEPT !.closed = shut, !.in_buf = in]
           parsed == [Frame("parsed", fd) EXCEPT !.was = c.waiting_for_arena, !.out = e.out]
           frames == IF e.in THEN ProcessFcgi(c, fd) \o <<parsed>>
                     ELSE <<IF e.out THEN Frame("outflush", fd) ELSE SweepFrame(fd)>>
<1>1. /\ fd \in Fds /\ conn[fd] \in Connection /\ sock[fd] \in Socket
      /\ conn \in [Fds -> Connection] /\ sock \in [Fds -> Socket]
      /\ e.in \in BOOLEAN /\ e.out \in BOOLEAN /\ e.hup \in BOOLEAN
  <2>1. fd \in Fds
    BY DEF IoEvent, TypeOK, ObjTypeOK
  <2>2. e.in \in BOOLEAN /\ e.out \in BOOLEAN /\ e.hup \in BOOLEAN
    BY DEF TypeOK, IoTypeOK, EpollEvent, EventOf
  <2> QED BY <2>1, <2>2 DEF TypeOK, ObjTypeOK, EnvTypeOK
<1>2. c \in Connection
  <2>1. /\ conn[fd].in_buf \in Seq(Record) /\ sock[fd].rx \in Seq(Record)
        /\ conn[fd].closed \in BOOLEAN /\ sock[fd].eof \in BOOLEAN
    BY <1>1 DEF Connection, Socket
  <2>2. in \in Seq(Record)
    BY <2>1, JoinedType
  <2>3. shut \in BOOLEAN
    BY <1>1, <2>1
  <2> HIDE DEF fd, in, shut
  <2> QED BY <1>1, <2>2, <2>3 DEF Connection
<1>3. ObjTypeOK'
  <2>1. conn' = [conn EXCEPT ![fd] = c]
    BY DEF IoEvent
  <2>2. conn' \in [Fds -> Connection]
    <3> HIDE DEF c, fd
    <3> QED BY <1>1, <1>2, <2>1
  <2> QED BY <2>2 DEF IoEvent, TypeOK, ObjTypeOK
<1>4. EnvTypeOK'
  <2>1. [sock[fd] EXCEPT !.rx = <<>>] \in Socket
    <3> DEFINE none == <<>>
    <3>1. none \in Seq(Record)
      OBVIOUS
    <3> HIDE DEF none, fd
    <3>2. [sock[fd] EXCEPT !.rx = none] \in Socket
      BY <1>1, <3>1 DEF Socket
    <3> QED BY <3>2 DEF none
  <2>2. sock' = IF e.in THEN [sock EXCEPT ![fd] = [sock[fd] EXCEPT !.rx = <<>>]] ELSE sock
    BY DEF IoEvent
  <2>3. sock' \in [Fds -> Socket]
    <3> HIDE DEF fd
    <3> QED BY <1>1, <2>1, <2>2
  <2> QED BY <2>3 DEF IoEvent, TypeOK, EnvTypeOK
<1>5. IoTypeOK'
  <2>1. Call(frames)
    BY DEF IoEvent
  <2>2. parsed \in StackFrame
    <3>1. c.waiting_for_arena \in BOOLEAN
      <4> HIDE DEF c
      <4> QED BY <1>2 DEF Connection
    <3> HIDE DEF c, fd
    <3>2. Frame("parsed", fd) \in FrameOf(FdPC, Fds, Nat)
      BY <1>1 DEF Frame, FrameOf, FdPC
    <3>3. \A f \in FrameOf(FdPC, Fds, Nat), was \in BOOLEAN, out \in BOOLEAN :
            [f EXCEPT !.was = was, !.out = out] \in FrameOf(FdPC, Fds, Nat)
      BY DEF FrameOf
    <3>4. parsed \in FrameOf(FdPC, Fds, Nat)
      BY <1>1, <3>1, <3>2, <3>3
    <3> QED BY <3>4 DEF StackFrame
  <2>3. /\ Frame("fcgi", fd) \in StackFrame /\ Frame("outflush", fd) \in StackFrame
        /\ SweepFrame(fd) \in StackFrame
    BY <1>1, FrameType, SweepFrameType DEF FdPC
  <2>4. ProcessFcgi(c, fd) \in Seq(StackFrame)
    BY <2>3 DEF ProcessFcgi
  <2>5. ProcessFcgi(c, fd) \o <<parsed>> \in Seq(StackFrame)
    <3> HIDE DEF c, parsed
    <3> QED BY <2>2, <2>4
  <2>6. <<IF e.out THEN Frame("outflush", fd) ELSE SweepFrame(fd)>> \in Seq(StackFrame)
    <3> DEFINE g == IF e.out THEN Frame("outflush", fd) ELSE SweepFrame(fd)
    <3>1. g \in StackFrame
      BY <2>3
    <3> HIDE DEF g
    <3>2. <<g>> \in Seq(StackFrame)
      BY <3>1
    <3> QED BY <3>2 DEF g
  <2>7. frames \in Seq(StackFrame)
    BY <2>5, <2>6
  <2> HIDE DEF frames
  <2>8. stack' \in Seq(StackFrame)
    BY <2>1, <2>7, CallType DEF TypeOK
  <2> QED BY <2>8 DEF IoEvent, Dispatching, TypeOK, IoTypeOK
<1> QED
  BY <1>3, <1>4, <1>5 DEF IoEvent, TypeOK, PoolTypeOK, ListTypeOK, TaskTypeOK

\* Steps that flush a connection and change frames.
LEMMA FlushStepType ==
  ASSUME TypeOK, NEW fd \in Fds, Flush(fd, conn[fd]),
         stack' \in Seq(StackFrame), g_waiting_conns' \in Seq(Fds),
         UNCHANGED <<poolVars, g_conns, req, built, outVars, closing, to_close,
                     g_accept_paused, batch, taskVars, eventfd, timer, phase, begun,
                     connects, ws, fault>>
  PROVE  TypeOK'
<1>1. conn[fd] \in Connection
  BY DEF TypeOK, ObjTypeOK
<1>2. /\ conn' \in [Fds -> Connection] /\ sock' \in [Fds -> Socket]
      /\ g_close_queue' \in Seq(Fds) /\ ready' \subseteq Fds
  BY <1>1, FlushType
<1>3. ListTypeOK'
  BY <1>2 DEF TypeOK, ListTypeOK
<1>4. EnvTypeOK'
  BY <1>2 DEF TypeOK, EnvTypeOK
<1> QED BY <1>2, <1>3, <1>4 DEF TypeOK, PoolTypeOK, ObjTypeOK, IoTypeOK, TaskTypeOK

\* handle_io after process_fcgi: the waiting list, then flush_connection.
LEMMA AfterParseType ==
  ASSUME TypeOK, AfterParse
  PROVE  TypeOK'
<1>1. stack # <<>> /\ Top.fd \in Fds
  BY TopType DEF AfterParse, At, Top, FdPC, TypeOK
<1>2. g_waiting_conns' \in Seq(Fds)
  BY <1>1 DEF AfterParse, TypeOK, ListTypeOK
<1>3. stack' \in Seq(StackFrame)
  <2>1. Frame("outflush", Top.fd) \in StackFrame /\ SweepFrame(Top.fd) \in StackFrame
    BY <1>1, FrameType, SweepFrameType DEF FdPC
  <2> QED BY <1>1, <2>1, BecomeType DEF AfterParse, TypeOK
<1>4. Flush(Top.fd, conn[Top.fd])
  BY DEF AfterParse
<1> QED BY <1>1, <1>2, <1>3, <1>4, FlushStepType DEF AfterParse

\* The EPOLLOUT branch of handle_io.
LEMMA OutFlushType ==
  ASSUME TypeOK, OutFlush
  PROVE  TypeOK'
<1>1. stack # <<>> /\ Top.fd \in Fds
  BY TopType DEF OutFlush, At, Top, FdPC, TypeOK
<1>2. stack' \in Seq(StackFrame)
  BY <1>1, SweepFrameType, BecomeType DEF OutFlush, TypeOK
<1>3. g_waiting_conns' \in Seq(Fds)
  BY DEF OutFlush, TypeOK, ListTypeOK
<1> QED BY <1>1, <1>2, <1>3, FlushStepType DEF OutFlush

\* release_request.
LEMMA ReleaseRequestType ==
  ASSUME TypeOK, stack # <<>>, NEW a, NEW under \in StackFrame, ReleaseRequest(a, under)
  PROVE  TypeOK'
<1>1. PoolTypeOK'
  BY PoolStepType DEF ReleaseRequest, TypeOK
<1>2. ObjTypeOK'
  <2>1. req' \in [Arena -> Request]
    BY DestroyedType DEF ReleaseRequest, TypeOK, ObjTypeOK
  <2> QED BY <2>1 DEF ReleaseRequest, TypeOK, ObjTypeOK
<1>3. ListTypeOK'
  BY DEF ReleaseRequest, TypeOK, ListTypeOK
<1>4. stack' \in Seq(StackFrame)
  <2>1. WaitingFrames \in Seq(StackFrame)
    <3> DEFINE f == [Frame("waiting", NoFd) EXCEPT !.n = available_count',
                                                   !.m = Len(g_waiting_conns)]
    <3>1. CASE available_count' > 0
      <4>1. Frame("waiting", NoFd) \in FrameOf(LoopPC, {NoFd}, Nat)
        BY DEF Frame, FrameOf, LoopPC
      <4>2. \A g \in FrameOf(LoopPC, {NoFd}, Nat), n \in Nat, m \in Nat :
              [g EXCEPT !.n = n, !.m = m] \in FrameOf(LoopPC, {NoFd}, Nat)
        BY DEF FrameOf
      <4>3. available_count' \in Nat /\ Len(g_waiting_conns) \in Nat
        BY <1>1, <3>1 DEF PoolTypeOK, TypeOK, ListTypeOK
      <4>4. f \in FrameOf(LoopPC, {NoFd}, Nat)
        BY <4>1, <4>2, <4>3
      <4>5. f \in StackFrame
        BY <4>4 DEF StackFrame
      <4> HIDE DEF f
      <4>6. <<f>> \in Seq(StackFrame)
        BY <4>5
      <4> QED BY <4>6 DEF WaitingFrames, f
    <3>2. CASE ~(available_count' > 0)
      BY <3>2 DEF WaitingFrames
    <3> QED BY <3>1, <3>2
  <2> QED BY <2>1, CallFromType DEF ReleaseRequest, TypeOK
<1> QED
  BY <1>1, <1>2, <1>3, <1>4 DEF ReleaseRequest, TypeOK, IoTypeOK, TaskTypeOK, EnvTypeOK

\* A release of the sweep or of the cleanup, or an entry passed over.
LEMMA SweepType ==
  ASSUME TypeOK, NEW id \in Ids, SweepFree(id) \/ SweepKeep(id) \/ CleanupOne(id)
  PROVE  TypeOK'
<1> DEFINE ids == Top.ids \ {id}
           kept == [Top EXCEPT !.ids = ids]
           erase == [Top EXCEPT !.pc = "erase", !.id = id, !.ids = ids]
<1>1. stack # <<>> /\ Top.pc \in FdPC /\ ids \in SUBSET Ids
  BY TopType DEF SweepFree, SweepKeep, CleanupOne, At, Top, FdPC, TypeOK
<1>2. Top \in FrameOf(FdPC, Fds, Nat)
  BY <1>1, TopType DEF TypeOK, StackFrame, FrameOf, FdPC, LoopPC
<1>3. kept \in StackFrame /\ erase \in StackFrame
  <2> HIDE DEF ids
  <2>1. kept \in FrameOf(FdPC, Fds, Nat)
    BY <1>1, <1>2 DEF FrameOf
  <2>2. erase \in FrameOf(FdPC, Fds, Nat)
    BY <1>1, <1>2 DEF FrameOf, FdPC
  <2> QED BY <2>1, <2>2 DEF StackFrame
<1>4. CASE SweepFree(id)
  <2>1. PICK a : ReleaseRequest(a, erase)
    BY <1>4 DEF SweepFree
  <2> QED BY <1>1, <1>3, <2>1, ReleaseRequestType
<1>5. CASE SweepKeep(id)
  <2>1. Become(kept)
    BY <1>5 DEF SweepKeep
  <2> QED BY <1>1, <1>3, <1>5, <2>1, BecomesType DEF SweepKeep
<1>6. CASE CleanupOne(id)
  <2>1. PICK a : ReleaseRequest(a, kept)
    BY <1>6 DEF CleanupOne
  <2> QED BY <1>1, <1>3, <2>1, ReleaseRequestType
<1> QED BY <1>4, <1>5, <1>6

\* The sweep erases the entry of the request it freed.
LEMMA SweepEraseType ==
  ASSUME TypeOK, SweepErase
  PROVE  TypeOK'
<1>1. stack # <<>> /\ Top.fd \in Fds /\ Top \in FrameOf(FdPC, Fds, Nat)
  BY TopType DEF SweepErase, At, Top, FdPC, LoopPC, TypeOK, StackFrame, FrameOf
<1>2. [Top EXCEPT !.pc = "sweep", !.id = NoId] \in StackFrame
  <2>1. [Top EXCEPT !.pc = "sweep", !.id = NoId] \in FrameOf(FdPC, Fds, Nat)
    BY <1>1 DEF FrameOf, FdPC
  <2> QED BY <2>1 DEF StackFrame
<1>3. stack' \in Seq(StackFrame)
  BY <1>1, <1>2, BecomeType DEF SweepErase, TypeOK
<1>4. ObjTypeOK'
  <2>1. conn[Top.fd] \in Connection
    BY <1>1 DEF TypeOK, ObjTypeOK
  <2>2. [conn[Top.fd] EXCEPT !.requests[Top.id] = NoArena] \in Connection
    BY <2>1 DEF Connection
  <2> QED BY <1>1, <2>2 DEF SweepErase, TypeOK, ObjTypeOK
<1> QED
  BY <1>3, <1>4
  DEF SweepErase, TypeOK, PoolTypeOK, ListTypeOK, IoTypeOK, TaskTypeOK, EnvTypeOK

\* The sweep ends and takes over the deferred closes.
LEMMA SweepDoneType ==
  ASSUME TypeOK, SweepDone
  PROVE  TypeOK'
<1>1. stack # <<>> /\ Top.fd \in Fds
  BY TopType DEF SweepDone, At, Top, FdPC, TypeOK
<1>2. stack' \in Seq(StackFrame)
  <2>1. Frame("closing", NoFd) \in StackFrame
    BY FrameType DEF LoopPC
  <2> QED BY <1>1, <2>1, BecomeType DEF SweepDone, TypeOK
<1>3. ListTypeOK'
  <2>1. g_close_queue' \in Seq(Fds) /\ closing' \in Seq(Fds)
    BY <1>1 DEF SweepDone, TypeOK, ListTypeOK
  <2> QED BY <2>1 DEF SweepDone, TypeOK, ListTypeOK
<1> QED
  BY <1>2, <1>3
  DEF SweepDone, TypeOK, PoolTypeOK, ObjTypeOK, IoTypeOK, TaskTypeOK, EnvTypeOK

-----------------------------------------------------------------------------
(* Closing and housekeeping *)

\* The next of the deferred closes.
LEMMA CloseQueuedType ==
  ASSUME TypeOK, CloseQueued
  PROVE  TypeOK'
<1>1. closing \in Seq(Fds) /\ closing # <<>>
  BY DEF CloseQueued, TypeOK, ListTypeOK
<1>2. Head(closing) \in Fds /\ Tail(closing) \in Seq(Fds)
  BY <1>1
<1>3. stack' \in Seq(StackFrame)
  <2>1. <<CleanupFrame(Head(closing))>> \in Seq(StackFrame)
    BY <1>2, SweepFrameType
  <2> QED BY <2>1, CallType DEF CloseQueued, TypeOK, IoTypeOK
<1>4. ListTypeOK'
  BY <1>2 DEF CloseQueued, TypeOK, ListTypeOK
<1> QED
  BY <1>3, <1>4
  DEF CloseQueued, TypeOK, PoolTypeOK, ObjTypeOK, IoTypeOK, TaskTypeOK, EnvTypeOK

\* The descriptor is closed and the connection erased.
LEMMA CloseFdType ==
  ASSUME TypeOK, CloseFd
  PROVE  TypeOK'
<1>1. stack # <<>> /\ Return
  BY DEF CloseFd, At
<1>2. stack' \in Seq(StackFrame)
  BY <1>1, ReturnType DEF TypeOK
<1>3. ObjTypeOK'
  <2>1. NewConnection(0) \in Connection
    BY NewConnectionType
  <2> QED BY <2>1 DEF CloseFd, TypeOK, ObjTypeOK
<1>4. EnvTypeOK'
  <2>1. sock' \in [Fds -> Socket]
    BY FreeSockType DEF CloseFd, TypeOK, EnvTypeOK
  <2>2. phase' \in [Fds -> [Ids -> Phase]]
    BY DEF CloseFd, TypeOK, EnvTypeOK, Phase
  <2> QED BY <2>1, <2>2 DEF CloseFd, TypeOK, EnvTypeOK
<1> QED
  BY <1>2, <1>3, <1>4 DEF CloseFd, TypeOK, PoolTypeOK, ListTypeOK, IoTypeOK, TaskTypeOK

\* A request has passed its time limit.
LEMMA ExpireType ==
  ASSUME TypeOK, NEW fd \in Fds, NEW id \in Ids, Expire(fd, id)
  PROVE  TypeOK'
<1> DEFINE a == conn[fd].requests[id]
<1>1. conn[fd] \in Connection
  BY DEF TypeOK, ObjTypeOK
<1>2. a \in Arena
  BY <1>1 DEF Expire, Connection
<1>3. req[a] \in Request
  BY <1>2 DEF TypeOK, ObjTypeOK
<1>4. req[a].id \in Ids \cup {NoId}
  BY <1>3 DEF Request
<1>5. /\ [req[a] EXCEPT !.flags = @ \cup {"FAILED", "RESPONDED"}, !.ends = @ + 1] \in Request
      /\ [conn[fd] EXCEPT !.out_buf = Append(@, req[a].id)] \in Connection
  BY <1>1, <1>3, <1>4, EndType
<1>6. ObjTypeOK'
  BY <1>2, <1>5 DEF Expire, TypeOK, ObjTypeOK
<1> QED
  BY <1>6 DEF Expire, TypeOK, PoolTypeOK, ListTypeOK, IoTypeOK, TaskTypeOK, EnvTypeOK

\* housekeeping_close_idle lists what it will close.
LEMMA ExpireDoneType ==
  ASSUME TypeOK, ExpireDone
  PROVE  TypeOK'
<1>1. stack' \in Seq(StackFrame)
  <2>1. Frame("housekeeping", NoFd) \in StackFrame
    BY FrameType DEF LoopPC
  <2> QED BY <2>1, BecomeType DEF ExpireDone, At, TypeOK
<1>2. ListTypeOK'
  BY DEF ExpireDone, TypeOK, ListTypeOK, ObjTypeOK
<1> QED
  BY <1>1, <1>2
  DEF ExpireDone, TypeOK, PoolTypeOK, ObjTypeOK, IoTypeOK, TaskTypeOK, EnvTypeOK

\* It closes one of them.
LEMMA HousekeepingCloseType ==
  ASSUME TypeOK, NEW fd \in Fds, HousekeepingClose(fd)
  PROVE  TypeOK'
<1>1. stack' \in Seq(StackFrame)
  <2>1. <<CleanupFrame(fd)>> \in Seq(StackFrame)
    BY SweepFrameType
  <2> QED BY <2>1, CallType DEF HousekeepingClose, TypeOK, IoTypeOK
<1>2. ListTypeOK'
  BY DEF HousekeepingClose, TypeOK, ListTypeOK
<1> QED
  BY <1>1, <1>2
  DEF HousekeepingClose, TypeOK, PoolTypeOK, ObjTypeOK, IoTypeOK, TaskTypeOK, EnvTypeOK

-----------------------------------------------------------------------------
(* process_waiting_connections *)

\* The frame of process_waiting_connections between two connections.
LEMMA WaitingFrameType ==
  ASSUME NEW n \in Nat, NEW m \in Nat
  PROVE  [Frame("waiting", NoFd) EXCEPT !.n = n, !.m = m] \in StackFrame
<1>1. Frame("waiting", NoFd) \in FrameOf(LoopPC, {NoFd}, Nat)
  BY DEF Frame, FrameOf, LoopPC
<1>2. [Frame("waiting", NoFd) EXCEPT !.n = n, !.m = m] \in FrameOf(LoopPC, {NoFd}, Nat)
  BY <1>1 DEF FrameOf
<1> QED BY <1>2 DEF StackFrame

\* process_waiting_connections takes the next connection of the list.
LEMMA WaitingNextType ==
  ASSUME TypeOK, WaitingNext
  PROVE  TypeOK'
<1> DEFINE fd == Head(g_waiting_conns)
           next == [Top EXCEPT !.m = @ - 1]
           waited == [next EXCEPT !.pc = "waited", !.fd = fd, !.was = conn[fd].waiting_for_arena]
<1>1. /\ fd \in Fds /\ Tail(g_waiting_conns) \in Seq(Fds)
  <2>1. g_waiting_conns \in Seq(Fds) /\ g_waiting_conns # <<>>
    BY DEF WaitingNext, MoreWaiting, TypeOK, ListTypeOK
  <2> QED BY <2>1
<1>2. /\ stack # <<>> /\ Top \in FrameOf(LoopPC, {NoFd}, Nat)
      /\ Top.n \in Nat \ {0} /\ Top.m - 1 \in Nat
  <2>1. stack # <<>> /\ Top.pc = "waiting" /\ Top.n > 0 /\ Top.m > 0
    BY DEF WaitingNext, MoreWaiting, At, Top
  <2>2. Top \in StackFrame /\ Top.n \in Nat /\ Top.m \in Nat
    BY <2>1, TopType DEF TypeOK
  <2>3. Top \in FrameOf(LoopPC, {NoFd}, Nat)
    BY <2>1, <2>2 DEF StackFrame, FrameOf, FdPC, LoopPC
  <2> QED BY <2>1, <2>2, <2>3
<1>3. next \in FrameOf(LoopPC, {NoFd}, Nat) /\ next.n \in Nat \ {0}
  BY <1>2 DEF FrameOf
<1>4. waited \in FrameOf({"waited"}, Fds, Nat \ {0})
  <2>1. conn[fd].waiting_for_arena \in BOOLEAN
    <3>1. conn[fd] \in Connection
      BY <1>1 DEF TypeOK, ObjTypeOK
    <3> QED BY <3>1 DEF Connection
  <2> HIDE DEF next, fd
  <2>2. \A was \in BOOLEAN : [next EXCEPT !.pc = "waited", !.fd = fd, !.was = was]
          \in FrameOf({"waited"}, Fds, Nat \ {0})
    BY <1>1, <1>3 DEF FrameOf
  <2> QED BY <2>1, <2>2
<1>5. next \in StackFrame /\ waited \in StackFrame /\ <<Frame("fcgi", fd)>> \in Seq(StackFrame)
  <2>1. Frame("fcgi", fd) \in StackFrame
    BY <1>1, FrameType DEF FdPC
  <2> HIDE DEF next, waited
  <2> QED BY <1>3, <1>4, <2>1 DEF StackFrame
<1>6. Become(next) \/ CallFrom(waited, <<Frame("fcgi", fd)>>)
  BY DEF WaitingNext
<1>7. stack' \in Seq(StackFrame)
  <2> HIDE DEF next, waited
  <2> QED BY <1>2, <1>5, <1>6, BecomeType, CallFromType DEF TypeOK
<1>8. ListTypeOK'
  BY <1>1 DEF WaitingNext, TypeOK, ListTypeOK
<1> QED
  BY <1>7, <1>8
  DEF WaitingNext, TypeOK, PoolTypeOK, ObjTypeOK, IoTypeOK, TaskTypeOK, EnvTypeOK

\* It flushes the one it served, or puts it back.
LEMMA WaitedType ==
  ASSUME TypeOK, WaitedServed \/ WaitedAgain
  PROVE  TypeOK'
<1>1. stack # <<>> /\ Top.pc = "waited"
  BY DEF WaitedServed, WaitedAgain, At, Top
<1>2. Top.fd \in Fds /\ Top.n \in Nat /\ Top.m \in Nat /\ Top.n - 1 \in Nat
  <2>1. Top \in StackFrame
    BY <1>1, TopType DEF TypeOK
  <2>2. Top \in FrameOf({"waited"}, Fds, Nat \ {0})
    BY <1>1, <2>1 DEF StackFrame, FrameOf, FdPC, LoopPC
  <2> QED BY <2>2 DEF FrameOf
<1>3. CASE WaitedServed
  <2>1. [Frame("waiting", NoFd) EXCEPT !.n = Top.n - 1, !.m = Top.m] \in StackFrame
    BY <1>2, WaitingFrameType
  <2>2. Become([Frame("waiting", NoFd) EXCEPT !.n = Top.n - 1, !.m = Top.m])
    BY <1>3 DEF WaitedServed
  <2>3. stack' \in Seq(StackFrame)
    BY <1>1, <2>1, <2>2, BecomeType DEF TypeOK
  <2>4. g_waiting_conns' \in Seq(Fds)
    BY <1>3 DEF WaitedServed, TypeOK, ListTypeOK
  <2> QED BY <1>2, <1>3, <2>3, <2>4, FlushStepType DEF WaitedServed
<1>4. CASE WaitedAgain
  <2>1. [Frame("waiting", NoFd) EXCEPT !.n = Top.n, !.m = Top.m] \in StackFrame
    BY <1>2, WaitingFrameType
  <2>2. Become([Frame("waiting", NoFd) EXCEPT !.n = Top.n, !.m = Top.m])
    BY <1>4 DEF WaitedAgain
  <2>3. stack' \in Seq(StackFrame)
    BY <1>1, <2>1, <2>2, BecomeType DEF TypeOK
  <2>4. ListTypeOK'
    BY <1>2, <1>4 DEF WaitedAgain, TypeOK, ListTypeOK
  <2> QED
    BY <1>4, <2>3, <2>4
    DEF WaitedAgain, TypeOK, PoolTypeOK, ObjTypeOK, IoTypeOK, TaskTypeOK, EnvTypeOK
<1> QED BY <1>3, <1>4

-----------------------------------------------------------------------------
(***************************************************************************)
(* Every step of every process keeps the types.                            *)
(***************************************************************************)
LEMMA NextType ==
  ASSUME TypeOK, [Next]_vars
  PROVE  TypeOK'
<1>1. CASE UNCHANGED vars
  BY <1>1
  DEF vars, TypeOK, PoolTypeOK, ObjTypeOK, ListTypeOK, IoTypeOK, TaskTypeOK, EnvTypeOK
<1>2. CASE Undefined
  BY <1>1, <1>2 DEF Undefined
<1>3. CASE LoopStep
  BY <1>3, EpollWaitType, ListenEventType, EventFdEventType, TimerEventType, IoEventType,
     IoStaleType DEF LoopStep
<1>4. CASE AcceptStep
  <2>1. CASE AcceptDone
    BY <2>1, ReturnsType DEF AcceptDone, At
  <2> QED BY <1>4, <2>1, AcceptOneType DEF AcceptStep
<1>5. CASE PendingStep
  <2>1. CASE PendingFault
    BY <2>1, FaultType DEF PendingFault
  <2>2. CASE PendingDone
    BY <2>2, ReturnsType DEF PendingDone, At
  <2> QED
    BY <1>5, <2>1, <2>2, SwapPendingType, PendingAnswerType, PendingSkipType
    DEF PendingStep
<1>6. CASE ParseStep
  <2>1. CASE \E a \in Arena : ParseFault(a)
    BY <2>1, FaultType DEF ParseFault
  <2> QED BY <1>6, <2>1, ParseReturnsType, ParseSkipType, ParseRecordType DEF ParseStep
<1>7. CASE HandleStep
  BY <1>7, AfterParseType, OutFlushType, SweepEraseType, SweepDoneType, SweepType
  DEF HandleStep
<1>8. CASE CloseStep
  <2>1. CASE CloseQueueDone
    BY <2>1, ReturnsType DEF CloseQueueDone, At
  <2> QED BY <1>8, <2>1, CloseQueuedType, CloseFdType, SweepType DEF CloseStep
<1>9. CASE HousekeepingStep
  <2>1. CASE HousekeepingDone
    BY <2>1, ReturnsType DEF HousekeepingDone, At
  <2> QED
    BY <1>9, <2>1, ExpireDoneType, HousekeepingCloseType, ExpireType DEF HousekeepingStep
<1>10. CASE WaitingStep
  <2>1. CASE WaitingDone
    BY <2>1, ReturnsType DEF WaitingDone, At
  <2> QED BY <1>10, <2>1, WaitingNextType, WaitedType DEF WaitingStep
<1>11. CASE Workers
  <2>1. CASE TaskFault
    BY <2>1, FaultType DEF TaskFault
  <2> QED
    BY <1>11, <2>1, TaskStartType, TaskPushType, TaskInactiveType, TaskLeaveType
    DEF Workers
<1> QED
  BY <1>1, <1>2, <1>3, <1>4, <1>5, <1>6, <1>7, <1>8, <1>9, <1>10, <1>11, PeerType,
     WsType, TimerTickType DEF Next, IoThread

(***************************************************************************)
(* Every reachable state is well typed: the handlers of fcgi-connection.cpp*)
(* only ever work on descriptors, ids, arenas and frames that exist, the   *)
(* socket never holds more than its buffer, and a connection is served     *)
(* from the waiting list only while process_waiting_connections has budget.*)
(***************************************************************************)
THEOREM TypeCorrect == Spec => []TypeOK
<1>1. Init => TypeOK
  BY InitType
<1>2. TypeOK /\ [Next]_vars => TypeOK'
  BY NextType
<1> QED BY <1>1, <1>2, PTL DEF Spec

-----------------------------------------------------------------------------
(* The call stack, and the entries its loops visit *)

\* The inductive form of LoopsStayValid.
Loops == StackShape /\ LoopsStayValid

\* Stacks of one or two frames.
LEMMA SmallStacks ==
  ASSUME NEW S
  PROVE  /\ \A x \in S, y \in S : /\ <<x>> \o <<>> = <<x>> /\ <<>> \o <<x>> = <<x>>
                                /\ (<<y>> \o <<x>>) \o <<>> = <<y>> \o <<x>>
         /\ \A s \in Seq(S) : Len(s) = 1 => Tail(s) = <<>>
         /\ \A s \in Seq(S) : Len(s) = 2 =>
              Tail(s) \in Seq(S) /\ Len(Tail(s)) = 1 /\ Tail(s)[1] = s[2]
<1>1. \A x \in S, y \in S : /\ <<x>> \o <<>> = <<x>> /\ <<>> \o <<x>> = <<x>>
                          /\ (<<y>> \o <<x>>) \o <<>> = <<y>> \o <<x>>
  OBVIOUS
<1>2. ASSUME NEW s \in Seq(S), Len(s) = 1 PROVE Tail(s) = <<>>
  <2>1. s # <<>>
    BY <1>2
  <2>2. Tail(s) \in Seq(S) /\ Len(Tail(s)) = 0
    BY <1>2, <2>1
  <2>3. \A t \in Seq(S) : Len(t) = 0 => t = <<>>
    OBVIOUS
  <2> QED BY <2>2, <2>3, Zenon
<1>3. ASSUME NEW s \in Seq(S), Len(s) = 2
      PROVE  Tail(s) \in Seq(S) /\ Len(Tail(s)) = 1 /\ Tail(s)[1] = s[2]
  <2>1. s # <<>>
    BY <1>3
  <2> QED BY <1>3, <2>1
<1> QED BY <1>1, <1>2, <1>3

\* No entry of a requests map goes away in the step.
Kept == \A fd \in Fds : Mapped(conn[fd]) \subseteq Mapped(conn'[fd])

\* A frame of a loop stays valid while entries are kept.
LEMMA KeptFrame ==
  ASSUME Kept, NEW f \in StackFrame, VisitsMapped(f, conn)
  PROVE  VisitsMapped(f, conn')
<1>1. f.pc \in {"sweep", "erase", "cleanup"} => f.fd \in Fds
  BY DEF StackFrame, FrameOf, LoopPC
<1> QED BY <1>1 DEF Kept, VisitsMapped

\* The function on top was called from the one below it.
LEMMA FirstCall ==
  ASSUME IoTypeOK, StackShape, Len(stack) > 1
  PROVE  <<Top.pc, stack[2].pc>> \in Calls
<1>1. stack \in Seq(StackFrame)
  BY DEF IoTypeOK
<1>2. 1 \in 1 .. Len(stack) - 1 /\ Top = stack[1]
  BY <1>1 DEF Top
<1> QED BY <1>2 DEF StackShape

\* Functions that are never called by another stand alone on the stack.
LEMMA Alone ==
  ASSUME IoTypeOK, StackShape, stack # <<>>,
         Top.pc \notin {"fcgi", "cleanup", "waiting", "waited"}
  PROVE  Len(stack) = 1
<1>1. stack \in Seq(StackFrame) /\ Len(stack) \in Nat /\ Len(stack) # 0
  BY DEF IoTypeOK
<1>2. ~(Len(stack) > 1)
  BY FirstCall DEF Calls
<1> DEFINE n == Len(stack)
<1>3. n \in Nat /\ n # 0 /\ ~(n > 1)
  BY <1>1, <1>2
<1> HIDE DEF n
<1>4. n = 1
  BY <1>3
<1> QED BY <1>4 DEF n

\* A stack is well nested and its loops are valid for the connections cs.
Good(s, cs) ==
  /\ s \in Seq(StackFrame)
  /\ \A i \in 1 .. Len(s) - 1 : <<s[i].pc, s[i + 1].pc>> \in Calls
  /\ \A i \in 1 .. Len(s) : VisitsMapped(s[i], cs)

\* A stack that does not change stays good while entries are kept.
LEMMA KeptStack ==
  ASSUME IoTypeOK, Loops, Kept
  PROVE  Good(stack, conn')
<1>1. stack \in Seq(StackFrame)
  BY DEF IoTypeOK
<1>2. ASSUME NEW i \in 1 .. Len(stack) PROVE VisitsMapped(stack[i], conn')
  <2> DEFINE f == stack[i]
  <2>1. f \in StackFrame /\ VisitsMapped(f, conn)
    BY <1>1 DEF Loops, LoopsStayValid
  <2> QED
    BY <2>1, KeptFrame
<1> QED BY <1>1, <1>2 DEF Loops, StackShape, Good

\* A good stack without its top is good.
LEMMA TailGood ==
  ASSUME NEW s, NEW cs, Good(s, cs), s # <<>>
  PROVE  Good(Tail(s), cs)
<1>1. /\ s \in Seq(StackFrame) /\ Tail(s) \in Seq(StackFrame)
      /\ Len(s) \in Nat \ {0} /\ Len(Tail(s)) = Len(s) - 1
      /\ \A i \in 1 .. Len(s) - 1 : Tail(s)[i] = s[i + 1]
  BY DEF Good
<1>2. ASSUME NEW i \in 1 .. Len(Tail(s)) PROVE VisitsMapped(Tail(s)[i], cs)
  <2>1. i + 1 \in 1 .. Len(s) /\ Tail(s)[i] = s[i + 1]
    BY <1>1
  <2> QED BY <2>1 DEF Good
<1>3. ASSUME NEW i \in 1 .. Len(Tail(s)) - 1
      PROVE  <<Tail(s)[i].pc, Tail(s)[i + 1].pc>> \in Calls
  <2>1. i + 1 \in 1 .. Len(s) - 1 /\ Tail(s)[i] = s[i + 1] /\ Tail(s)[i + 1] = s[i + 2]
    BY <1>1
  <2> QED BY <2>1 DEF Good
<1> QED BY <1>1, <1>2, <1>3 DEF Good

\* A call of g by the function on top of s.
LEMMA PushGood ==
  ASSUME NEW s, NEW cs, Good(s, cs), NEW g \in StackFrame, VisitsMapped(g, cs),
         s # <<>> => <<g.pc, s[1].pc>> \in Calls
  PROVE  Good(<<g>> \o s, cs)
<1> DEFINE t == <<g>> \o s
<1>1. /\ t \in Seq(StackFrame) /\ Len(t) = Len(s) + 1 /\ Len(s) \in Nat
      /\ t[1] = g /\ \A i \in 2 .. Len(t) : t[i] = s[i - 1]
  BY DEF Good
<1> HIDE DEF t
<1>2. ASSUME NEW i \in 1 .. Len(t) PROVE VisitsMapped(t[i], cs)
  <2>1. CASE i = 1
    BY <1>1, <2>1
  <2>2. CASE i # 1
    <3>1. i - 1 \in 1 .. Len(s) /\ t[i] = s[i - 1]
      BY <1>1, <2>2
    <3> QED BY <3>1 DEF Good
  <2> QED BY <2>1, <2>2
<1>3. ASSUME NEW i \in 1 .. Len(t) - 1 PROVE <<t[i].pc, t[i + 1].pc>> \in Calls
  <2>1. CASE i = 1
    <3>1. s # <<>> /\ t[i + 1] = s[1]
      BY <1>1, <2>1 DEF Good
    <3> QED BY <1>1, <2>1, <3>1
  <2>2. CASE i # 1
    <3>1. i - 1 \in 1 .. Len(s) - 1 /\ t[i] = s[i - 1] /\ t[i + 1] = s[i]
      BY <1>1, <2>2
    <3> QED BY <3>1 DEF Good
  <2> QED BY <2>1, <2>2
<1>4. Good(t, cs)
  BY <1>1, <1>2, <1>3 DEF Good
<1> QED BY <1>4 DEF t

\* Good(stack, conn), in the next state, is Loops.
LEMMA GoodLoops ==
  ASSUME Good(stack', conn')
  PROVE  Loops'
BY DEF Good, Loops, StackShape, LoopsStayValid

\* The function on top returns.
LEMMA ReturnLoops ==
  ASSUME IoTypeOK, Loops, Kept, stack # <<>>, Return
  PROVE  Loops'
BY KeptStack, TailGood, GoodLoops DEF Return

\* The function on top goes on in frame f.
LEMMA BecomeLoops ==
  ASSUME IoTypeOK, Loops, Kept, stack # <<>>, NEW f \in StackFrame, VisitsMapped(f, conn'),
         f.pc = Top.pc \/ Len(stack) = 1 \/ <<f.pc, stack[2].pc>> \in Calls
  PROVE  /\ Become(f) => Loops'
         /\ CallFrom(f, <<>>) => Loops'
         /\ \A g \in StackFrame :
              g.pc \notin {"sweep", "erase", "cleanup"} /\ <<g.pc, f.pc>> \in Calls
                /\ CallFrom(f, <<g>>) => Loops'
<1> DEFINE below == Tail(stack)
           s == <<f>> \o below
<1>1. Good(below, conn')
  BY KeptStack, TailGood
<1>2. below # <<>> => Len(stack) > 1 /\ below[1] = stack[2]
  BY DEF IoTypeOK
<1>3. below # <<>> => <<f.pc, below[1].pc>> \in Calls
  BY <1>2, FirstCall DEF Loops
<1>4. Good(s, conn')
  <2> HIDE DEF below
  <2> QED BY <1>1, <1>3, PushGood
<1>5. Become(f) => Loops'
  BY <1>4, GoodLoops DEF Become
<1>6. CallFrom(f, <<>>) => Loops'
  <2>1. <<>> \o <<f>> \o below = s
    BY <1>1 DEF Good
  <2> QED BY <1>4, <2>1, GoodLoops DEF CallFrom
<1>7. ASSUME NEW g \in StackFrame, g.pc \notin {"sweep", "erase", "cleanup"},
             <<g.pc, f.pc>> \in Calls, CallFrom(f, <<g>>)
      PROVE  Loops'
  <2>1. stack' = <<g>> \o s
    BY <1>1, <1>7 DEF CallFrom, Good
  <2>2. s # <<>> /\ s[1] = f
    BY <1>1 DEF Good
  <2>3. VisitsMapped(g, conn')
    BY <1>7 DEF VisitsMapped
  <2> HIDE DEF s
  <2>4. Good(<<g>> \o s, conn')
    BY <1>4, <1>7, <2>2, <2>3, PushGood
  <2> QED BY <2>1, <2>4, GoodLoops
<1> QED BY <1>5, <1>6, <1>7

\* A function called from the one on top, or by the event loop.
LEMMA CallLoops ==
  ASSUME IoTypeOK, Loops, Kept, NEW g \in StackFrame, VisitsMapped(g, conn'), Call(<<g>>),
         stack # <<>> => <<g.pc, Top.pc>> \in Calls
  PROVE  Loops'
<1>1. Good(stack, conn')
  BY KeptStack
<1>2. stack # <<>> => Top = stack[1]
  BY DEF Top, IoTypeOK
<1>3. Good(<<g>> \o stack, conn')
  BY <1>1, <1>2, PushGood
<1> QED BY <1>3, GoodLoops DEF Call

\* Steps that leave the stack and keep the entries.
LEMMA LoopsUnchanged ==
  ASSUME IoTypeOK, Loops, UNCHANGED stack, Kept
  PROVE  Loops'
<1>1. Good(stack', conn')
  BY KeptStack
<1> QED BY <1>1, GoodLoops

\* Entries are kept by a step that changes no map.
LEMMA SameRequests ==
  ASSUME \A fd \in Fds : conn'[fd].requests = conn[fd].requests
  PROVE  Kept
BY DEF Kept, Mapped

\* A step that changes no connection keeps every entry.
LEMMA ConnUnchanged ==
  ASSUME UNCHANGED conn
  PROVE  Kept
BY DEF Kept

\* Both conn and conn' are functions of Connections (TypeOK and TypeOK').
SameMaps == \A fd \in Fds : conn'[fd].requests = conn[fd].requests

\* flush_connection does not touch the map.
LEMMA FlushKept ==
  ASSUME TypeOK, NEW fd \in Fds, Flush(fd, conn[fd])
  PROVE  Kept
<1>1. conn \in [Fds -> Connection]
  BY DEF TypeOK, ObjTypeOK
<1>2. SameMaps
  <2>1. CASE FlushAll(fd, conn[fd])
    BY <1>1, <2>1 DEF FlushAll, SameMaps, Connection
  <2>2. CASE FlushSome(fd, conn[fd])
    BY <1>1, <2>2 DEF FlushSome, SameMaps, Connection
  <2>3. CASE FlushError(fd, conn[fd])
    BY <1>1, <2>3 DEF FlushError, SameMaps, Connection
  <2> QED BY <2>1, <2>2, <2>3 DEF Flush
<1> QED BY <1>2, SameRequests DEF SameMaps

\* A peer reaches the server through its socket only.
LEMMA PeerUnchanged ==
  ASSUME NEW fd \in Fds, Peer(fd)
  PROVE  UNCHANGED <<objVars, listVars, ioVars, taskVars, eventfd, ws, fault>>
<1>1. ASSUME NEW recs, Send(fd, recs)
      PROVE  UNCHANGED <<objVars, listVars, ioVars, taskVars, eventfd, ws, fault>>
  BY <1>1 DEF Send
<1>2. ASSUME NEW id \in Ids, PeerBegin(fd, id) \/ PeerStream(fd, id) \/ PeerAbort(fd, id)
      PROVE  \E recs : Send(fd, recs)
  <2>1. CASE PeerBegin(fd, id)
    BY <2>1 DEF PeerBegin
  <2>2. CASE PeerStream(fd, id)
    BY <2>2 DEF PeerStream
  <2>3. CASE PeerAbort(fd, id)
    BY <2>3 DEF PeerAbort
  <2> QED BY <1>2, <2>1, <2>2, <2>3
<1>3. ASSUME PeerBad(fd) \/ PeerPartial(fd) PROVE \E recs : Send(fd, recs)
  BY <1>3 DEF PeerBad, PeerPartial
<1>4. ASSUME \/ \E keep \in KeepFlags : PeerConnect(fd, keep)
             \/ PeerRead(fd)
             \/ \E hup \in BOOLEAN : PeerClose(fd, hup)
      PROVE  UNCHANGED <<objVars, listVars, ioVars, taskVars, eventfd, ws, fault>>
  BY <1>4 DEF PeerConnect, PeerRead, PeerClose
<1> QED
  <2> HIDE DEF objVars, listVars, ioVars, taskVars
  <2> QED BY <1>1, <1>2, <1>3, <1>4 DEF Peer

\* Actions that leave the requests maps alone.
LEMMA OtherKept ==
  ASSUME TypeOK,
         \/ \E t \in running : TaskLeave(t)
         \/ PendingAnswer
         \/ ParseEnd \/ ParseBad \/ ParseDefer
         \/ \E e \in batch : IoEvent(e)
         \/ \E fd \in Fds, id \in Ids : Expire(fd, id)
  PROVE  Kept
<1>1. conn \in [Fds -> Connection]
  BY DEF TypeOK, ObjTypeOK
<1>2. SameMaps
  <2>1. CASE \E t \in running : TaskLeave(t)
    BY <1>1, <2>1 DEF TaskLeave, SameMaps, Connection
  <2>2. CASE PendingAnswer
    BY <1>1, <2>2 DEF PendingAnswer, Answer, SameMaps, Connection
  <2>3. CASE ParseEnd
    BY <1>1, <2>3 DEF ParseEnd, SameMaps, Connection
  <2>4. CASE ParseBad
    BY <1>1, <2>4 DEF ParseBad, SameMaps, Connection
  <2>5. CASE ParseDefer
    BY <1>1, <2>5 DEF ParseDefer, SameMaps, Connection
  <2>6. CASE \E e \in batch : IoEvent(e)
    <3>1. PICK e \in batch : IoEvent(e)
      BY <2>6
    <3> DEFINE fd == e.fd
               shut == conn[fd].closed \/ e.hup \/ (e.in /\ sock[fd].eof)
               in == IF e.in THEN Joined(conn[fd].in_buf, sock[fd].rx) ELSE conn[fd].in_buf
    <3>2. conn' = [conn EXCEPT ![fd] = [conn[fd] EXCEPT !.closed = shut, !.in_buf = in]]
      BY <3>1 DEF IoEvent
    <3> HIDE DEF fd, shut, in
    <3> QED BY <1>1, <3>2 DEF SameMaps, Connection
  <2>7. CASE \E fd \in Fds, id \in Ids : Expire(fd, id)
    <3>1. PICK fd \in Fds, id \in Ids : Expire(fd, id)
      BY <2>7
    <3> DEFINE out == Append(conn[fd].out_buf, req[conn[fd].requests[id]].id)
    <3>2. conn' = [conn EXCEPT ![fd] = [conn[fd] EXCEPT !.out_buf = out]]
      BY <3>1 DEF Expire
    <3> HIDE DEF out
    <3> QED BY <1>1, <3>2 DEF SameMaps, Connection
  <2> QED BY <2>1, <2>2, <2>3, <2>4, <2>5, <2>6, <2>7
<1> QED BY <1>2, SameRequests DEF SameMaps

\* A record delivered only adds an entry.
LEMMA DeliverKept ==
  ASSUME TypeOK, At("fcgi"), Exists, NamesRequest(NextRecord), NEW a \in Arena, NEW r,
         Deliver(a, r, NextRecord)
  PROVE  Kept
<1>1. /\ conn \in [Fds -> Connection] /\ Top.fd \in Fds /\ NextRecord \in Record
  BY InBufType DEF TypeOK, ObjTypeOK
<1>2. a # NoArena
  BY DEF Arena, NoArena
<1>3. PICK out, n : conn' = [conn EXCEPT ![Top.fd].requests[NextRecord.id] = a,
                                         ![Top.fd].out_buf = out,
                                         ![r.conn_ptr].active_workers = n]
  BY DEF Deliver
<1>4. \A fd \in Fds, id \in Ids :
        conn[fd].requests[id] # NoArena => conn'[fd].requests[id] # NoArena
  BY <1>1, <1>2, <1>3 DEF Connection
<1> QED BY <1>4 DEF Kept, Mapped

-----------------------------------------------------------------------------
(* Loops, action by action *)

\* A sweep starts on the entries the map has then.
LEMMA FreshSweep ==
  ASSUME NEW fd \in Fds
  PROVE  VisitsMapped(SweepFrame(fd), conn')
<1>1. /\ SweepFrame(fd).pc = "sweep" /\ SweepFrame(fd).fd = fd
      /\ SweepFrame(fd).ids = Mapped(conn'[fd])
  BY DEF SweepFrame, Frame
<1> HIDE DEF SweepFrame
<1> QED BY <1>1 DEF VisitsMapped

\* handle_io starts on an empty stack.
LEMMA IoEventLoops ==
  ASSUME TypeOK, Loops, NEW e \in batch, IoEvent(e)
  PROVE  Loops'
<1> DEFINE fd == e.fd
           shut == conn[fd].closed \/ e.hup \/ (e.in /\ sock[fd].eof)
           in == IF e.in THEN Joined(conn[fd].in_buf, sock[fd].rx) ELSE conn[fd].in_buf
           c == [conn[fd] EXCEPT !.closed = shut, !.in_buf = in]
           parsed == [Frame("parsed", fd) EXCEPT !.was = c.waiting_for_arena, !.out = e.out]
           next == IF e.out THEN Frame("outflush", fd) ELSE SweepFrame(fd)
<1>1. /\ IoTypeOK /\ fd \in Fds /\ stack = <<>> /\ Kept
      /\ e.out \in BOOLEAN /\ c.waiting_for_arena \in BOOLEAN
  <2>1. fd \in Fds /\ stack = <<>>
    BY DEF IoEvent, Dispatching, TypeOK, ObjTypeOK
  <2>2. e.out \in BOOLEAN /\ conn[fd].waiting_for_arena \in BOOLEAN
    BY <2>1 DEF TypeOK, IoTypeOK, ObjTypeOK, EpollEvent, EventOf, Connection
  <2>3. c.waiting_for_arena = conn[fd].waiting_for_arena
    BY <2>1 DEF TypeOK, ObjTypeOK, Connection
  <2> QED BY <2>1, <2>2, <2>3, OtherKept DEF TypeOK
<1>2. Call(IF e.in THEN ProcessFcgi(c, fd) \o <<parsed>> ELSE <<next>>)
  BY DEF IoEvent
<1>3. next \in StackFrame /\ VisitsMapped(next, conn')
  <2>1. Frame("outflush", fd) \in StackFrame /\ VisitsMapped(Frame("outflush", fd), conn')
    BY <1>1, FrameType DEF FdPC, VisitsMapped, Frame
  <2> HIDE DEF fd
  <2> QED BY <1>1, <2>1, SweepFrameType, FreshSweep
<1>4. parsed \in StackFrame /\ parsed.pc = "parsed"
  <2> HIDE DEF c, fd
  <2>1. Frame("parsed", fd) \in FrameOf(FdPC, Fds, Nat) /\ Frame("parsed", fd).pc = "parsed"
    BY <1>1 DEF Frame, FrameOf, FdPC
  <2>2. \A f \in FrameOf(FdPC, Fds, Nat), was \in BOOLEAN, out \in BOOLEAN :
          LET g == [f EXCEPT !.was = was, !.out = out] IN
            g \in FrameOf(FdPC, Fds, Nat) /\ g.pc = f.pc
    BY DEF FrameOf
  <2> QED BY <1>1, <2>1, <2>2 DEF StackFrame
<1>5. Frame("fcgi", fd) \in StackFrame /\ VisitsMapped(Frame("fcgi", fd), conn')
  BY <1>1, FrameType DEF FdPC, VisitsMapped, Frame
<1>6. CASE ~e.in
  <2> HIDE DEF next
  <2> QED BY <1>1, <1>2, <1>3, <1>6, CallLoops
<1>7. CASE e.in
  <2> HIDE DEF parsed, c
  <2>1. VisitsMapped(parsed, conn')
    BY <1>4 DEF VisitsMapped
  <2>2. Good(<<>>, conn')
    BY DEF Good
  <2>3. Good(<<parsed>> \o <<>>, conn')
    BY <1>4, <2>1, <2>2, PushGood
  <2>4. Good(<<parsed>>, conn')
    BY <1>4, <2>3
  <2>5. <<Frame("fcgi", fd).pc, <<parsed>>[1].pc>> \in Calls
    BY <1>4 DEF Calls, Frame
  <2>6. Good(<<Frame("fcgi", fd)>> \o <<parsed>>, conn')
    <3> HIDE DEF fd
    <3> QED BY <1>5, <2>4, <2>5, PushGood
  <2>7. stack' = <<parsed>> \/ stack' = <<Frame("fcgi", fd)>> \o <<parsed>>
    <3> DEFINE g == Frame("fcgi", fd)
    <3>1. ProcessFcgi(c, fd) = <<>> \/ ProcessFcgi(c, fd) = <<g>>
      BY DEF ProcessFcgi
    <3>2. stack' = (ProcessFcgi(c, fd) \o <<parsed>>) \o <<>>
      BY <1>1, <1>2, <1>7 DEF Call
    <3>3. /\ (<<>> \o <<parsed>>) \o <<>> = <<parsed>>
          /\ (<<g>> \o <<parsed>>) \o <<>> = <<g>> \o <<parsed>>
      <4> HIDE DEF g
      <4>1. g \in StackFrame
        BY <1>5 DEF g
      <4> QED BY <1>4, <4>1, SmallStacks
    <3> HIDE DEF g
    <3>4. stack' = <<parsed>> \/ stack' = <<g>> \o <<parsed>>
      BY <3>1, <3>2, <3>3
    <3> QED BY <3>4 DEF g
  <2> QED BY <2>4, <2>6, <2>7, GoodLoops
<1> QED BY <1>6, <1>7

\* The dispatch of the events of one epoll_wait.
LEMMA EventLoops ==
  ASSUME TypeOK, TypeOK', Loops, LoopStep
  PROVE  Loops'
<1>1. IoTypeOK
  BY DEF TypeOK
<1>2. CASE EpollWait \/ \E e \in batch : IoStale(e)
  BY <1>1, <1>2, ConnUnchanged, LoopsUnchanged DEF EpollWait, IoStale
<1>3. ASSUME NEW e \in batch, NEW pc \in LoopPC, Dispatching(e), Call(<<Frame(pc, NoFd)>>),
             UNCHANGED conn
      PROVE  Loops'
  <2>1. Frame(pc, NoFd) \in StackFrame
    BY FrameType
  <2>2. VisitsMapped(Frame(pc, NoFd), conn')
    BY DEF VisitsMapped, Frame, LoopPC
  <2> QED BY <1>1, <1>3, <2>1, <2>2, ConnUnchanged, CallLoops DEF Dispatching
<1>4. CASE \E e \in batch : ListenEvent(e) \/ EventFdEvent(e) \/ TimerEvent(e)
  <2>1. PICK e \in batch : ListenEvent(e) \/ EventFdEvent(e) \/ TimerEvent(e)
    BY <1>4
  <2>2. Dispatching(e) /\ UNCHANGED conn
    BY <2>1 DEF ListenEvent, EventFdEvent, TimerEvent
  <2>3. UNCHANGED stack \/ \E pc \in LoopPC : Call(<<Frame(pc, NoFd)>>)
    BY <2>1 DEF ListenEvent, EventFdEvent, TimerEvent, LoopPC
  <2> QED BY <1>1, <1>3, <2>2, <2>3, ConnUnchanged, LoopsUnchanged
<1>5. CASE \E e \in batch : IoEvent(e)
  BY <1>5, IoEventLoops
<1> QED BY <1>2, <1>4, <1>5 DEF LoopStep

\* The frame a nested function or the sweep goes on with.
LEMMA TopFrame ==
  ASSUME TypeOK, stack # <<>>
  PROVE  /\ Top \in StackFrame /\ Top = stack[1]
         /\ Loops => VisitsMapped(Top, conn)
<1>1. Top \in StackFrame /\ Top = stack[1] /\ 1 \in 1 .. Len(stack)
  BY DEF TypeOK, IoTypeOK, Top
<1> QED BY <1>1 DEF Loops, LoopsStayValid

\* Nothing can go wrong with a stack that visits no requests.
LEMMA GoodAlone ==
  ASSUME NEW cs, NEW s \in Seq(StackFrame),
         \/ s = <<>>
         \/ Len(s) = 1 /\ s[1].pc \notin {"sweep", "erase", "cleanup"}
  PROVE  Good(s, cs)
<1> DEFINE n == Len(s)
<1>1. n = 0 \/ (n = 1 /\ s[1].pc \notin {"sweep", "erase", "cleanup"})
  OBVIOUS
<1>2. \A i \in 1 .. n : i = 1 /\ s[i].pc \notin {"sweep", "erase", "cleanup"}
  <2> HIDE DEF n
  <2> QED BY <1>1
<1>3. \A i \in 1 .. n - 1 : FALSE
  <2> HIDE DEF n
  <2> QED BY <1>1
<1> QED BY <1>2, <1>3 DEF Good, VisitsMapped

\* A function that stands alone and visits no requests leaves nothing to lose.
LEMMA AloneLoops ==
  ASSUME TypeOK, Loops, stack # <<>>, Len(stack) = 1,
         Top.pc \notin {"sweep", "erase", "cleanup"}, UNCHANGED stack \/ Return
  PROVE  Loops'
<1>1. stack \in Seq(StackFrame)
  BY DEF TypeOK, IoTypeOK
<1>2. stack' = <<>> \/ (stack' \in Seq(StackFrame) /\ Len(stack') = 1 /\ stack'[1] = Top)
  BY <1>1 DEF Return, Top
<1>3. <<>> \in Seq(StackFrame)
  OBVIOUS
<1>4. Good(stack', conn')
  BY <1>2, <1>3, GoodAlone
<1> QED BY <1>4, GoodLoops

\* handle_new_connections replaces a whole connection, alone on the stack.
LEMMA AcceptLoops ==
  ASSUME TypeOK, Loops, AcceptStep
  PROVE  Loops'
<1>1. stack # <<>> /\ Top.pc = "accept" /\ (UNCHANGED stack \/ Return)
  BY DEF AcceptStep, AcceptDone, AcceptOne, At, Top
<1>2. Len(stack) = 1
  BY <1>1, Alone DEF TypeOK, Loops
<1> QED BY <1>1, <1>2, AloneLoops

\* A function that stands alone gives way to its next part.
LEMMA PartLoops ==
  ASSUME TypeOK, Loops, Kept, stack # <<>>,
         Top.pc \notin {"fcgi", "cleanup", "waiting", "waited"},
         NEW f \in StackFrame, VisitsMapped(f, conn'), Become(f)
  PROVE  Loops'
<1>1. Len(stack) = 1
  BY Alone DEF TypeOK, Loops
<1> QED BY <1>1, BecomeLoops DEF TypeOK

\* A function that works on no connection visits no map.
LEMMA LoopFrame ==
  ASSUME NEW pc \in LoopPC, NEW cs
  PROVE  Frame(pc, NoFd) \in StackFrame /\ VisitsMapped(Frame(pc, NoFd), cs)
BY FrameType DEF VisitsMapped, Frame, LoopPC

\* process_pending_output adds output, and no entry goes.
LEMMA PendingLoops ==
  ASSUME TypeOK, Loops, PendingStep
  PROVE  Loops'
<1>1. CASE SwapPending
  <2>1. /\ stack # <<>> /\ Top.pc = "swap" /\ Become(Frame("pending", NoFd))
        /\ UNCHANGED conn
    BY <1>1 DEF SwapPending, At, Top
  <2>2. "pending" \in LoopPC
    BY DEF LoopPC
  <2> QED BY <2>1, <2>2, LoopFrame, ConnUnchanged, PartLoops
<1>2. CASE PendingAnswer
  <2>1. UNCHANGED stack
    BY <1>2 DEF PendingAnswer
  <2> QED BY <1>2, <2>1, OtherKept, LoopsUnchanged DEF TypeOK
<1>3. CASE PendingSkip \/ PendingFault
  BY <1>3, ConnUnchanged, LoopsUnchanged DEF PendingSkip, PendingFault, TypeOK
<1>4. CASE PendingDone
  BY <1>4, ConnUnchanged, ReturnLoops DEF PendingDone, At, TypeOK
<1> QED BY <1>1, <1>2, <1>3, <1>4 DEF PendingStep

\* process_buffer only adds entries, also when it is nested in a loop.
LEMMA ParseLoops ==
  ASSUME TypeOK, TypeOK', Loops, ParseStep
  PROVE  Loops'
<1>1. CASE ParseEnd \/ ParseBad \/ ParseDefer
  <2>1. stack # <<>> /\ Return
    BY <1>1 DEF ParseEnd, ParseBad, ParseDefer, At
  <2> QED BY <1>1, <2>1, OtherKept, ReturnLoops DEF TypeOK
<1>2. ASSUME At("fcgi"), Kept, Become([Top EXCEPT !.n = @ + 1])
      PROVE  Loops'
  <2>1. /\ stack # <<>> /\ Top.pc = "fcgi" /\ Top \in StackFrame
    BY <1>2, TopFrame DEF At, Top
  <2> DEFINE f == [Top EXCEPT !.n = @ + 1]
  <2>2. f.pc = "fcgi" /\ f \in StackFrame
    <3>1. stack' \in Seq(StackFrame) /\ stack' = <<f>> \o Tail(stack) /\ stack # <<>>
      BY <1>2, <2>1 DEF TypeOK, IoTypeOK, Become
    <3>2. f.pc = "fcgi"
      BY <2>1 DEF StackFrame, FrameOf
    <3> HIDE DEF f
    <3>3. stack'[1] = f /\ Len(stack') >= 1
      BY <3>1 DEF TypeOK, IoTypeOK
    <3> QED BY <3>1, <3>2, <3>3
  <2>3. VisitsMapped(f, conn')
    BY <2>2 DEF VisitsMapped
  <2> HIDE DEF f
  <2>4. Become(f)
    BY <1>2 DEF f
  <2> QED BY <1>2, <2>1, <2>2, <2>3, <2>4, BecomeLoops DEF TypeOK
<1>3. CASE ParseSkip
  <2>1. At("fcgi") /\ Become([Top EXCEPT !.n = @ + 1]) /\ UNCHANGED conn
    BY <1>3 DEF ParseSkip
  <2> QED BY <1>2, <2>1, ConnUnchanged
<1>4. ASSUME NEW a \in Arena, ParseNew(a) \/ ParseKnown(a) PROVE Loops'
  <2>1. /\ At("fcgi") /\ Exists /\ NamesRequest(NextRecord)
        /\ \E r : Deliver(a, r, NextRecord)
    BY <1>4 DEF ParseNew, ParseKnown
  <2>2. Become([Top EXCEPT !.n = @ + 1])
    BY <2>1 DEF Deliver
  <2> QED BY <1>2, <2>1, <2>2, DeliverKept
<1>5. CASE \E a \in Arena : ParseFault(a)
  BY <1>5, ConnUnchanged, LoopsUnchanged DEF ParseFault, TypeOK
<1> QED BY <1>1, <1>3, <1>4, <1>5 DEF ParseStep

\* Where process_waiting_connections runs, the serving of a connection does.
LEMMA WaitedBelow ==
  ASSUME IoTypeOK, Loops, stack # <<>>, Top.pc \in {"waiting", "waited"}
  PROVE  \A pc \in {"waiting", "waited"} :
           Len(stack) = 1 \/ <<pc, stack[2].pc>> \in Calls
<1>1. Len(stack) \in Nat \ {0}
  BY DEF IoTypeOK
<1>2. CASE Len(stack) > 1
  BY <1>2, FirstCall DEF Loops, Calls
<1>3. CASE ~(Len(stack) > 1)
  <2> DEFINE n == Len(stack)
  <2>1. n \in Nat \ {0} /\ ~(n > 1)
    BY <1>1, <1>3
  <2> HIDE DEF n
  <2>2. n = 1
    BY <2>1
  <2> QED BY <2>2 DEF n
<1> QED BY <1>2, <1>3

\* A release goes on in its caller, or serves the waiting connections first.
LEMMA ReleaseLoops ==
  ASSUME TypeOK, TypeOK', Loops, stack # <<>>, NEW a, NEW under \in StackFrame,
         ReleaseRequest(a, under), VisitsMapped(under, conn),
         \/ under.pc = "erase" /\ Len(stack) = 1
         \/ under.pc = "cleanup" /\ Top.pc = "cleanup"
  PROVE  Loops'
<1>1. Kept /\ VisitsMapped(under, conn')
  BY ConnUnchanged DEF ReleaseRequest
<1>2. WaitingFrames = <<>> \/ \E g \in StackFrame : g.pc = "waiting" /\ WaitingFrames = <<g>>
  <2>1. CASE WaitingFrames # <<>>
    <3> DEFINE k == available_count'
               m == Len(g_waiting_conns)
               g == [Frame("waiting", NoFd) EXCEPT !.n = k, !.m = m]
    <3>1. k \in Nat /\ m \in Nat
      BY <2>1 DEF WaitingFrames, TypeOK, PoolTypeOK, ListTypeOK
    <3>2. WaitingFrames = <<g>>
      BY <2>1 DEF WaitingFrames
    <3> HIDE DEF k, m
    <3>3. g \in StackFrame /\ g.pc = "waiting"
      BY <3>1 DEF Frame, StackFrame, FrameOf, LoopPC
    <3> QED BY <3>2, <3>3
  <2> QED BY <2>1
<1>3. CallFrom(under, WaitingFrames)
  BY DEF ReleaseRequest
<1>4. <<"waiting", under.pc>> \in Calls /\ (under.pc = Top.pc \/ Len(stack) = 1)
  BY DEF Calls
<1> QED BY <1>1, <1>2, <1>3, <1>4, BecomeLoops DEF TypeOK

\* The sweep erases an entry, alone on the stack, and will not visit it again.
LEMMA HandleLoops ==
  ASSUME TypeOK, TypeOK', Loops, HandleStep
  PROVE  Loops'
<1>1. stack # <<>> /\ Top \in StackFrame /\ VisitsMapped(Top, conn)
  BY TopFrame DEF HandleStep, AfterParse, OutFlush, SweepErase, SweepDone, SweepFree,
                  SweepKeep, At
<1>2. CASE AfterParse \/ OutFlush
  <2> DEFINE fd == Top.fd
             f == IF Top.pc = "parsed" /\ Top.out THEN Frame("outflush", fd) ELSE SweepFrame(fd)
  <2>1. Top.pc \in {"parsed", "outflush"} /\ Flush(fd, conn[fd]) /\ Become(f)
    BY <1>2 DEF AfterParse, OutFlush, At, Top
  <2>2. fd \in Fds
    BY <1>1, <2>1 DEF StackFrame, FrameOf, LoopPC
  <2>3. f \in StackFrame /\ VisitsMapped(f, conn')
    <3>1. Frame("outflush", fd) \in StackFrame /\ VisitsMapped(Frame("outflush", fd), conn')
      BY <2>2, FrameType DEF FdPC, VisitsMapped, Frame
    <3> HIDE DEF fd
    <3> QED BY <2>2, <3>1, SweepFrameType, FreshSweep
  <2> HIDE DEF f, fd
  <2> QED BY <1>1, <2>1, <2>2, <2>3, FlushKept, PartLoops
<1>3. CASE SweepErase
  <2> DEFINE f == [Top EXCEPT !.pc = "sweep", !.id = NoId]
  <2>1. /\ Top.pc = "erase" /\ Become(f)
        /\ conn' = [conn EXCEPT ![Top.fd].requests[Top.id] = NoArena]
    BY <1>3 DEF SweepErase, At, Top
  <2>2. Len(stack) = 1
    BY <1>1, <2>1, Alone DEF TypeOK, Loops
  <2>3. /\ f \in StackFrame /\ f.pc = "sweep" /\ f.ids = Top.ids /\ f.fd = Top.fd
        /\ Top.fd \in Fds
    BY <1>1, <2>1 DEF StackFrame, FrameOf, FdPC, LoopPC
  <2>4. Mapped(conn[Top.fd]) \ {Top.id} \subseteq Mapped(conn'[Top.fd])
    BY <2>1, <2>3 DEF Mapped, TypeOK, ObjTypeOK, Connection
  <2>5. VisitsMapped(f, conn')
    <3> HIDE DEF f
    <3> QED BY <1>1, <2>1, <2>3, <2>4 DEF VisitsMapped
  <2>6. stack' = <<f>>
    <3>1. Tail(stack) = <<>>
      BY <2>2, SmallStacks DEF TypeOK, IoTypeOK
    <3> HIDE DEF f
    <3>2. <<f>> \o <<>> = <<f>>
      BY <2>3, SmallStacks
    <3> QED BY <2>1, <3>1, <3>2 DEF Become
  <2> HIDE DEF f
  <2>7. Good(stack', conn')
    BY <2>3, <2>5, <2>6 DEF Good
  <2> QED BY <2>7, GoodLoops
<1>4. CASE SweepDone
  <2>1. Top.pc = "sweep" /\ Become(Frame("closing", NoFd)) /\ UNCHANGED conn
    BY <1>4 DEF SweepDone, At, Top
  <2>2. "closing" \in LoopPC
    BY DEF LoopPC
  <2> QED BY <1>1, <2>1, <2>2, LoopFrame, ConnUnchanged, PartLoops
<1>5. ASSUME NEW id \in Ids, SweepFree(id) PROVE Loops'
  <2> DEFINE a == conn[Top.fd].requests[id]
             f == [Top EXCEPT !.pc = "erase", !.id = id, !.ids = @ \ {id}]
  <2>1. Top.pc = "sweep" /\ id \in Top.ids /\ ReleaseRequest(a, f)
    BY <1>5 DEF SweepFree, At, Top
  <2>2. Len(stack) = 1
    BY <1>1, <2>1, Alone DEF TypeOK, Loops
  <2>3. /\ f \in StackFrame /\ f.pc = "erase" /\ f.ids = Top.ids \ {id} /\ f.fd = Top.fd
        /\ f.id = id
    BY <1>1, <2>1 DEF StackFrame, FrameOf, FdPC, LoopPC
  <2>4. VisitsMapped(f, conn)
    <3> HIDE DEF f
    <3> QED BY <1>1, <2>1, <2>3 DEF VisitsMapped
  <2> HIDE DEF f
  <2> QED BY <1>1, <2>1, <2>2, <2>3, <2>4, ReleaseLoops
<1>6. ASSUME NEW id \in Ids, SweepKeep(id) PROVE Loops'
  <2> DEFINE f == [Top EXCEPT !.ids = @ \ {id}]
  <2>1. Top.pc = "sweep" /\ Become(f) /\ UNCHANGED conn
    BY <1>6 DEF SweepKeep, At, Top
  <2>2. f \in StackFrame /\ f.pc = "sweep" /\ f.ids = Top.ids \ {id} /\ f.fd = Top.fd
    BY <1>1, <2>1 DEF StackFrame, FrameOf, FdPC, LoopPC
  <2>3. VisitsMapped(f, conn')
    <3> HIDE DEF f
    <3> QED BY <1>1, <2>1, <2>2 DEF VisitsMapped
  <2> HIDE DEF f
  <2> QED BY <1>1, <2>1, <2>2, <2>3, ConnUnchanged, PartLoops
<1> QED BY <1>2, <1>3, <1>4, <1>5, <1>6 DEF HandleStep

\* cleanup_connection_requests visits all of the map.
LEMMA CleanupFrameLoops ==
  ASSUME NEW fd \in Fds, UNCHANGED conn
  PROVE  /\ CleanupFrame(fd) \in StackFrame /\ CleanupFrame(fd).pc = "cleanup"
         /\ VisitsMapped(CleanupFrame(fd), conn')
<1>1. /\ CleanupFrame(fd).pc = "cleanup" /\ CleanupFrame(fd).fd = fd
      /\ CleanupFrame(fd).ids = Mapped(conn[fd])
  BY DEF CleanupFrame, Frame
<1> HIDE DEF CleanupFrame
<1> QED BY <1>1, SweepFrameType DEF VisitsMapped

\* A connection goes when its cleanup has nothing left and only closing loops call.
LEMMA CloseLoops ==
  ASSUME TypeOK, TypeOK', Loops, CloseStep
  PROVE  Loops'
<1>1. stack # <<>> /\ Top \in StackFrame /\ VisitsMapped(Top, conn)
  BY TopFrame DEF CloseStep, CloseQueued, CloseQueueDone, CloseFd, CleanupOne, At
<1>2. CASE CloseQueued
  <2>1. /\ Top.pc = "closing" /\ UNCHANGED conn /\ Head(closing) \in Fds
        /\ UNCHANGED stack \/ Call(<<CleanupFrame(Head(closing))>>)
    BY <1>2 DEF CloseQueued, At, Top, TypeOK, ListTypeOK
  <2> DEFINE f == CleanupFrame(Head(closing))
  <2>2. f \in StackFrame /\ VisitsMapped(f, conn') /\ <<f.pc, Top.pc>> \in Calls
    BY <2>1, CleanupFrameLoops DEF Calls
  <2> HIDE DEF f
  <2> QED BY <2>1, <2>2, ConnUnchanged, LoopsUnchanged, CallLoops DEF TypeOK, f
<1>3. CASE CloseQueueDone
  BY <1>1, <1>3, ConnUnchanged, ReturnLoops DEF CloseQueueDone, TypeOK
<1>4. CASE CloseFd
  <2>1. Top.pc = "cleanup" /\ stack' = Tail(stack)
    BY <1>4 DEF CloseFd, At, Top, Return
  <2>2. stack \in Seq(StackFrame) /\ Len(stack) \in Nat \ {0} /\ Top = stack[1]
    BY <1>1, TopFrame DEF TypeOK, IoTypeOK
  <2>3. ASSUME Len(stack) > 1 PROVE stack[2].pc \in {"closing", "housekeeping"}
    BY <2>1, <2>3, FirstCall DEF TypeOK, Loops, Calls
  <2>4. ~(Len(stack) > 2)
    <3> SUFFICES ASSUME Len(stack) > 2 PROVE FALSE
      OBVIOUS
    <3>1. 2 \in 1 .. Len(stack) - 1 /\ Len(stack) > 1
      BY <2>2
    <3>2. <<stack[2].pc, stack[3].pc>> \in Calls
      BY <3>1 DEF Loops, StackShape
    <3> QED BY <2>3, <3>1, <3>2 DEF Calls
  <2>5. \/ stack' = <<>>
        \/ /\ stack' \in Seq(StackFrame) /\ Len(stack') = 1
           /\ stack'[1].pc \in {"closing", "housekeeping"}
    <3>1. CASE Len(stack) > 1
      <4>1. Len(stack) = 2
        <5> DEFINE n == Len(stack)
        <5>1. n \in Nat /\ n > 1 /\ ~(n > 2)
          BY <2>2, <2>4, <3>1
        <5> HIDE DEF n
        <5>2. n = 2
          BY <5>1
        <5> QED BY <5>2 DEF n
      <4>2. stack' \in Seq(StackFrame) /\ Len(stack') = 1 /\ stack'[1] = stack[2]
        BY <2>1, <2>2, <4>1, SmallStacks
      <4> QED BY <2>3, <3>1, <4>2
    <3>2. CASE ~(Len(stack) > 1)
      <4>1. Len(stack) = 1
        <5> DEFINE n == Len(stack)
        <5>1. n \in Nat /\ n # 0 /\ ~(n > 1)
          BY <2>2, <3>2
        <5> HIDE DEF n
        <5>2. n = 1
          BY <5>1
        <5> QED BY <5>2 DEF n
      <4> QED BY <2>1, <2>2, <4>1, SmallStacks
    <3> QED BY <3>1, <3>2
  <2>6. Good(stack', conn')
    <3>1. <<>> \in Seq(StackFrame)
      OBVIOUS
    <3> QED BY <2>5, <3>1, GoodAlone
  <2> QED BY <2>6, GoodLoops
<1>5. ASSUME NEW id \in Ids, CleanupOne(id) PROVE Loops'
  <2> DEFINE a == conn[Top.fd].requests[id]
             f == [Top EXCEPT !.ids = @ \ {id}]
  <2>1. Top.pc = "cleanup" /\ ReleaseRequest(a, f)
    BY <1>5 DEF CleanupOne, At, Top
  <2>2. f \in StackFrame /\ f.pc = "cleanup" /\ f.ids = Top.ids \ {id} /\ f.fd = Top.fd
    BY <1>1, <2>1 DEF StackFrame, FrameOf, FdPC, LoopPC
  <2>3. VisitsMapped(f, conn)
    <3> HIDE DEF f
    <3> QED BY <1>1, <2>1, <2>2 DEF VisitsMapped
  <2> HIDE DEF f
  <2> QED BY <1>1, <2>1, <2>2, <2>3, ReleaseLoops
<1> QED BY <1>2, <1>3, <1>4, <1>5 DEF CloseStep

\* housekeeping_close_idle.
LEMMA HousekeepingLoops ==
  ASSUME TypeOK, TypeOK', Loops, HousekeepingStep
  PROVE  Loops'
<1>1. CASE ExpireDone
  <2>1. stack # <<>> /\ Top.pc = "expire" /\ Become(Frame("housekeeping", NoFd)) /\ UNCHANGED conn
    BY <1>1 DEF ExpireDone, At, Top
  <2>2. "housekeeping" \in LoopPC
    BY DEF LoopPC
  <2> QED BY <2>1, <2>2, LoopFrame, ConnUnchanged, PartLoops
<1>2. CASE HousekeepingDone
  BY <1>2, ConnUnchanged, ReturnLoops DEF HousekeepingDone, At, TypeOK
<1>3. ASSUME NEW fd \in Fds, HousekeepingClose(fd) PROVE Loops'
  <2>1. /\ stack # <<>> /\ Top.pc = "housekeeping" /\ UNCHANGED conn
        /\ UNCHANGED stack \/ Call(<<CleanupFrame(fd)>>)
    BY <1>3 DEF HousekeepingClose, At, Top
  <2>2. /\ CleanupFrame(fd) \in StackFrame /\ VisitsMapped(CleanupFrame(fd), conn')
        /\ <<CleanupFrame(fd).pc, Top.pc>> \in Calls
    BY <2>1, CleanupFrameLoops DEF Calls
  <2> QED BY <2>1, <2>2, ConnUnchanged, LoopsUnchanged, CallLoops DEF TypeOK
<1>4. ASSUME NEW fd \in Fds, NEW id \in Ids, Expire(fd, id) PROVE Loops'
  <2>1. UNCHANGED stack
    BY <1>4 DEF Expire
  <2> QED BY <1>4, <2>1, OtherKept, LoopsUnchanged DEF TypeOK
<1> QED BY <1>1, <1>2, <1>3, <1>4 DEF HousekeepingStep

\* process_waiting_connections, under a sweep or a cleanup.
LEMMA WaitingLoops ==
  ASSUME TypeOK, TypeOK', Loops, WaitingStep
  PROVE  Loops'
<1>1. /\ stack # <<>> /\ Top \in StackFrame /\ Top.pc \in {"waiting", "waited"}
  BY TopFrame DEF WaitingStep, WaitingNext, WaitingDone, WaitedServed, WaitedAgain, At, Top
<1>2. \A pc \in {"waiting", "waited"} : Len(stack) = 1 \/ <<pc, stack[2].pc>> \in Calls
  BY <1>1, WaitedBelow DEF TypeOK
<1>3. CASE WaitingNext
  <2> DEFINE fd == Head(g_waiting_conns)
             was == conn[fd].waiting_for_arena
             next == [Top EXCEPT !.m = @ - 1]
             serve == [next EXCEPT !.pc = "waited", !.fd = fd, !.was = was]
  <2>1. /\ UNCHANGED conn /\ Top.pc = "waiting" /\ Top.n > 0 /\ Top.m > 0
        /\ g_waiting_conns # <<>>
        /\ Become(next) \/ CallFrom(serve, <<Frame("fcgi", fd)>>)
    BY <1>3 DEF WaitingNext, MoreWaiting, At, Top
  <2>2. fd \in Fds /\ was \in BOOLEAN
    <3>1. fd \in Fds
      BY <2>1 DEF TypeOK, ListTypeOK
    <3> HIDE DEF fd
    <3> QED BY <3>1 DEF TypeOK, ObjTypeOK, Connection
  <2> HIDE DEF fd, was
  <2>3. next \in StackFrame /\ next.pc = "waiting"
    BY <1>1, <2>1 DEF StackFrame, FrameOf, FdPC, LoopPC
  <2>4. serve \in StackFrame /\ serve.pc = "waited"
    <3>1. next \in FrameOf({"waiting"}, {NoFd}, Nat \ {0})
      <4>1. Top \in FrameOf(LoopPC, {NoFd}, Nat) /\ Top.n \in Nat \ {0}
        BY <1>1, <2>1 DEF StackFrame, FrameOf, FdPC
      <4>2. Top.m \in Nat /\ Top.m - 1 \in Nat
        BY <2>1, <4>1 DEF FrameOf
      <4> QED BY <2>1, <4>1, <4>2 DEF FrameOf
    <3> HIDE DEF next
    <3>2. /\ serve \in FrameOf({"waited"}, Fds, Nat \ {0})
          /\ serve.pc = "waited"
      BY <2>2, <3>1 DEF FrameOf
    <3> QED BY <3>2 DEF StackFrame
  <2> HIDE DEF next, serve
  <2>5. VisitsMapped(next, conn') /\ VisitsMapped(serve, conn')
    BY <2>3, <2>4 DEF VisitsMapped
  <2>6. /\ Frame("fcgi", fd) \in StackFrame /\ Frame("fcgi", fd).pc = "fcgi"
        /\ <<Frame("fcgi", fd).pc, serve.pc>> \in Calls
    BY <2>2, <2>4, FrameType DEF FdPC, Frame, Calls
  <2> QED BY <1>1, <1>2, <2>1, <2>3, <2>4, <2>5, <2>6, ConnUnchanged, BecomeLoops DEF TypeOK
<1>4. CASE WaitingDone
  BY <1>1, <1>4, ConnUnchanged, ReturnLoops DEF WaitingDone, TypeOK
<1>5. CASE WaitedServed \/ WaitedAgain
  <2> DEFINE n == IF WaitedServed THEN Top.n - 1 ELSE Top.n
             m == Top.m
             f == [Frame("waiting", NoFd) EXCEPT !.n = n, !.m = m]
  <2>1. /\ Top.pc = "waited" /\ Become(f)
        /\ Flush(Top.fd, conn[Top.fd]) \/ UNCHANGED conn
    <3>1. CASE WaitedServed
      BY <3>1 DEF WaitedServed, At, Top
    <3>2. CASE ~WaitedServed
      BY <1>5, <3>2 DEF WaitedAgain, At, Top
    <3> QED BY <3>1, <3>2
  <2>2. n \in Nat /\ m \in Nat /\ Top.fd \in Fds
    <3>1. Top.n \in Nat \ {0} /\ m \in Nat /\ Top.fd \in Fds
      BY <1>1, <2>1 DEF StackFrame, FrameOf, FdPC, LoopPC
    <3>2. Top.n - 1 \in Nat /\ Top.n \in Nat
      BY <3>1
    <3> QED BY <3>1, <3>2
  <2> HIDE DEF n, m
  <2>3. f \in StackFrame /\ f.pc = "waiting"
    BY <2>2 DEF Frame, StackFrame, FrameOf, LoopPC
  <2> HIDE DEF f
  <2>4. Kept /\ VisitsMapped(f, conn')
    BY <2>1, <2>2, <2>3, FlushKept, ConnUnchanged DEF VisitsMapped
  <2> QED BY <1>1, <1>2, <2>1, <2>3, <2>4, BecomeLoops DEF TypeOK
<1> QED BY <1>3, <1>4, <1>5 DEF WaitingStep

\* The workers, the peers and the WebSocket threads are not on this stack.
LEMMA OthersLoops ==
  ASSUME TypeOK, Loops,
         \/ Workers \/ WsThreads \/ TimerTick \/ Undefined \/ UNCHANGED vars
         \/ \E fd \in Fds : Peer(fd)
  PROVE  Loops'
<1>1. UNCHANGED stack
  <2>1. CASE Workers
    BY <2>1 DEF Workers, TaskStart, TaskFault, TaskPush, TaskInactive, TaskLeave
  <2>2. CASE WsThreads \/ TimerTick \/ Undefined \/ UNCHANGED vars
    BY <2>2 DEF WsThreads, WsGet, WsRelease, TimerTick, Undefined, vars
  <2>3. CASE \E fd \in Fds : Peer(fd)
    BY <2>3, PeerUnchanged
  <2> QED BY <2>1, <2>2, <2>3
<1>2. UNCHANGED conn \/ \E t \in running : TaskLeave(t)
  <2>1. CASE Workers
    BY <2>1 DEF Workers, TaskStart, TaskFault, TaskPush, TaskInactive
  <2>2. CASE WsThreads \/ TimerTick \/ Undefined \/ UNCHANGED vars
    BY <2>2 DEF WsThreads, WsGet, WsRelease, TimerTick, Undefined, vars
  <2>3. CASE \E fd \in Fds : Peer(fd)
    BY <2>3, PeerUnchanged
  <2> QED BY <2>1, <2>2, <2>3
<1> QED BY <1>1, <1>2, ConnUnchanged, OtherKept, LoopsUnchanged DEF TypeOK

\* Loops is inductive.
LEMMA LoopsNext ==
  ASSUME TypeOK, TypeOK', Loops, [Next]_vars
  PROVE  Loops'
BY EventLoops, AcceptLoops, PendingLoops, ParseLoops, HandleLoops, CloseLoops,
   HousekeepingLoops, WaitingLoops, OthersLoops
DEF Next, IoThread

\* An entry is inserted for an id that has none, so a bucket is left for it.
LEMMA RoomLeft ==
  ASSUME TypeOK, NEW fd \in Fds, NEW id \in Ids, conn[fd].requests[id] = NoArena,
         Cardinality(Ids) <= Buckets
  PROVE  ~(Cardinality(Mapped(conn[fd])) >= Buckets)
<1> DEFINE M == Mapped(conn[fd])
<1>1. IsFiniteSet(Ids) /\ Buckets \in Nat
  BY ConstantsAssumption
<1>2. M \in SUBSET Ids /\ id \notin M
  BY DEF Mapped
<1> HIDE DEF M
<1>3. /\ Cardinality(M) <= Cardinality(Ids)
      /\ Cardinality(Ids) = Cardinality(M) => Ids = M
      /\ IsFiniteSet(M)
  BY <1>1, <1>2, FS_Subset
<1>4. Cardinality(M) \in Nat /\ Cardinality(Ids) \in Nat
  BY <1>1, <1>3, FS_CardinalityType
<1>5. Cardinality(M) # Cardinality(Ids)
  BY <1>2, <1>3
<1>6. ~(Cardinality(M) >= Buckets)
  BY <1>1, <1>3, <1>4, <1>5
<1> QED BY <1>6 DEF M

\* Only an insertion in a map without room rehashes.
LEMMA RehashNext ==
  ASSUME TypeOK, NeverRehashed, [Next]_vars
  PROVE  NeverRehashed'
<1>1. ASSUME NEW a \in Arena, ParseFault(a), Cardinality(Ids) <= Buckets
      PROVE  fault' # "rehash"
  <2>1. /\ stack # <<>> /\ Top.pc = "fcgi" /\ Exists /\ NamesRequest(NextRecord)
    BY <1>1 DEF ParseFault, At, Top
  <2>2. Top.fd \in Fds /\ NextRecord.id \in Ids
    BY <2>1, InBufType DEF At, Top, NamesRequest, Record, RecordOf
  <2>3. EntryOf(NextRecord) = NoArena => ~(Cardinality(Mapped(conn[Top.fd])) >= Buckets)
    BY <1>1, <2>2, RoomLeft DEF EntryOf
  <2> QED BY <1>1, <2>3 DEF ParseFault
<1>2. ASSUME ~\E a \in Arena : ParseFault(a)
      PROVE  UNCHANGED fault \/ fault' \in {"worker", "pending"}
  <2>1. CASE UNCHANGED vars \/ Undefined \/ TimerTick \/ WsThreads
    BY <2>1 DEF vars, Undefined, TimerTick, WsThreads, WsGet, WsRelease
  <2>2. CASE LoopStep \/ AcceptStep \/ PendingStep
    BY <2>2 DEF LoopStep, EpollWait, ListenEvent, EventFdEvent, TimerEvent, IoEvent, IoStale,
                AcceptStep, AcceptOne, AcceptDone, PendingStep, SwapPending, PendingAnswer,
                PendingSkip, PendingFault, PendingDone
  <2>3. CASE ParseStep \/ WaitingStep
    BY <1>2, <2>3 DEF ParseStep, ParseEnd, ParseBad, ParseDefer, ParseSkip, ParseNew,
                      ParseKnown, WaitingStep, WaitingNext, WaitingDone, WaitedServed,
                      WaitedAgain
  <2>4. CASE HandleStep \/ CloseStep
    BY <2>4 DEF HandleStep, AfterParse, OutFlush, SweepErase, SweepDone, SweepFree, SweepKeep,
                ReleaseRequest, CloseStep, CloseQueued, CloseQueueDone, CloseFd, CleanupOne
  <2>5. CASE HousekeepingStep \/ Workers
    BY <2>5 DEF HousekeepingStep, Expire, ExpireDone, HousekeepingClose, HousekeepingDone,
                Workers, TaskStart, TaskFault, TaskPush, TaskInactive, TaskLeave
  <2>6. CASE \E fd \in Fds : Peer(fd)
    BY <2>6, PeerUnchanged
  <2> QED BY <2>1, <2>2, <2>3, <2>4, <2>5, <2>6 DEF Next, IoThread
<1> QED BY <1>1, <1>2 DEF NeverRehashed

(***************************************************************************)
(* The sweep of handle_io and the loop of cleanup_connection_requests run  *)
(* other code at every release, the parsing of the connection they iterate *)
(* over included.  None of it takes away an entry they have still to visit *)
(* or to erase; and what it inserts rehashes no map, so their iterators    *)
(* stay valid, as long as the peers use no more ids on a connection than   *)
(* its map has buckets.  Where they use more, the first part speaks of the *)
(* steps up to the rehash.                                                 *)
(***************************************************************************)
THEOREM LoopsSafe == Spec => [](LoopsStayValid /\ NeverRehashed)
<1>1. Init => Loops /\ NeverRehashed
  BY DEF Init, Loops, StackShape, LoopsStayValid, NeverRehashed
<1>2. TypeOK /\ TypeOK' /\ Loops /\ NeverRehashed /\ [Next]_vars => Loops' /\ NeverRehashed'
  BY LoopsNext, RehashNext
<1>3. Loops => LoopsStayValid
  BY DEF Loops
<1> QED BY <1>1, <1>2, <1>3, TypeCorrect, PTL DEF Spec

-----------------------------------------------------------------------------
(* The pool *)

\* The steps that touch the pool, and the arenas they name.
LeavesPool ==
  UNCHANGED <<poolVars, ws>> /\ (UNCHANGED g_accept_paused \/ available_count = 0)
Allots(a) ==
  /\ a \in Arena /\ Get(a) /\ UNCHANGED g_accept_paused
  /\ UNCHANGED ws \/ Cardinality(ws) < MaxWs
FreesRequest(a) ==
  /\ a \in Arena /\ Release(a) /\ UNCHANGED ws
  /\ g_accept_paused' = IF Resumes THEN FALSE ELSE g_accept_paused
FreesWs(a) == a \in ws /\ Release(a)

\* Every step leaves the pool alone, allots one arena or frees one.
LEMMA PoolSteps ==
  ASSUME TypeOK, Loops, [Next]_vars
  PROVE  \/ LeavesPool
         \/ \E a : Allots(a) \/ FreesRequest(a) \/ FreesWs(a)
<1>1. CASE UNCHANGED vars \/ Undefined \/ TimerTick
  BY <1>1 DEF LeavesPool, vars, Undefined, TimerTick
<1>2. CASE LoopStep \/ AcceptStep
  <2>1. CASE EpollWait \/ \E e \in batch : IoStale(e) \/ EventFdEvent(e) \/ TimerEvent(e)
    BY <2>1 DEF LeavesPool, EpollWait, IoStale, EventFdEvent, TimerEvent
  <2>2. CASE \E e \in batch : ListenEvent(e)
    BY <2>2 DEF LeavesPool, ListenEvent
  <2>3. CASE \E e \in batch : IoEvent(e)
    BY <2>3 DEF LeavesPool, IoEvent
  <2>4. CASE AcceptStep
    BY <2>4 DEF LeavesPool, AcceptStep, AcceptOne, AcceptDone
  <2> QED BY <1>2, <2>1, <2>2, <2>3, <2>4 DEF LoopStep
<1>3. CASE PendingStep
  BY <1>3 DEF LeavesPool, PendingStep, SwapPending, PendingAnswer, PendingSkip,
              PendingFault, PendingDone
<1>4. CASE ParseStep
  BY <1>4 DEF LeavesPool, ParseStep, ParseEnd, ParseBad, ParseDefer, ParseSkip, ParseNew,
              ParseKnown,
              ParseFault, Allots
<1>5. CASE HandleStep
  <2>1. ASSUME NEW id \in Ids, SweepFree(id)
        PROVE  \E a : FreesRequest(a)
    <3>1. Top \in StackFrame /\ Top.pc = "sweep" /\ id \in Top.ids
      BY <2>1, TopFrame DEF SweepFree, At, Top
    <3> DEFINE a == conn[Top.fd].requests[id]
    <3>2. a \in Arena
      <4>1. Top.fd \in Fds /\ a # NoArena
        BY <2>1, <3>1 DEF SweepFree, StackFrame, FrameOf, LoopPC
      <4> QED BY <4>1 DEF TypeOK, ObjTypeOK, Connection
    <3>3. FreesRequest(a)
      BY <2>1, <3>2 DEF SweepFree, ReleaseRequest, FreesRequest
    <3> QED BY <3>3
  <2>2. CASE AfterParse \/ OutFlush \/ SweepErase \/ SweepDone \/ \E id \in Ids : SweepKeep(id)
    BY <2>2 DEF LeavesPool, AfterParse, OutFlush, SweepErase, SweepDone, SweepKeep
  <2> QED BY <1>5, <2>1, <2>2 DEF HandleStep
<1>6. CASE CloseStep
  <2>1. ASSUME NEW id \in Ids, CleanupOne(id)
        PROVE  \E a : FreesRequest(a)
    <3>1. /\ Top \in StackFrame /\ Top.pc = "cleanup" /\ id \in Top.ids
          /\ VisitsMapped(Top, conn)
      BY <2>1, TopFrame DEF CleanupOne, At, Top
    <3> DEFINE a == conn[Top.fd].requests[id]
    <3>2. a \in Arena
      <4>1. Top.fd \in Fds
        BY <3>1 DEF StackFrame, FrameOf, LoopPC
      <4>2. a # NoArena
        BY <3>1 DEF VisitsMapped, Mapped
      <4> QED BY <4>1, <4>2 DEF TypeOK, ObjTypeOK, Connection
    <3>3. FreesRequest(a)
      BY <2>1, <3>2 DEF CleanupOne, ReleaseRequest, FreesRequest
    <3> QED BY <3>3
  <2>2. CASE CloseQueued \/ CloseQueueDone \/ CloseFd
    BY <2>2 DEF LeavesPool, CloseQueued, CloseQueueDone, CloseFd
  <2> QED BY <1>6, <2>1, <2>2 DEF CloseStep
<1>7. CASE HousekeepingStep
  <2>1. UNCHANGED <<poolVars, ws, g_accept_paused>>
    <3>1. CASE \E fd \in Fds, id \in Ids : Expire(fd, id)
      BY <3>1 DEF Expire
    <3>2. CASE \E fd \in Fds : HousekeepingClose(fd)
      BY <3>2 DEF HousekeepingClose
    <3> QED BY <1>7, <3>1, <3>2 DEF HousekeepingStep, ExpireDone, HousekeepingDone
  <2> QED BY <2>1 DEF LeavesPool
<1>8. CASE WaitingStep
  BY <1>8 DEF LeavesPool, WaitingStep, WaitingNext, WaitingDone, WaitedServed, WaitedAgain
<1>9. CASE Workers
  BY <1>9 DEF LeavesPool, Workers, TaskStart, TaskFault, TaskPush, TaskInactive, TaskLeave
<1>10. CASE \E fd \in Fds : Peer(fd)
  <2>1. UNCHANGED <<poolVars, ws, g_accept_paused>>
    BY <1>10, PeerUnchanged
  <2> QED BY <2>1 DEF LeavesPool
<1>11. CASE WsThreads
  BY <1>11 DEF WsThreads, WsGet, WsRelease, Allots, FreesWs
<1> QED
  BY <1>1, <1>2, <1>3, <1>4, <1>5, <1>6, <1>7, <1>8, <1>9, <1>10, <1>11 DEF Next, IoThread

\* PoolAccounting is inductive, given Loops.
LEMMA AccountingNext ==
  ASSUME TypeOK, Loops, PoolAccounting, [Next]_vars
  PROVE  PoolAccounting'
<1>1. PoolTypeOK /\ ws \subseteq Arena
  BY DEF TypeOK, EnvTypeOK
<1>2. CASE LeavesPool
  BY <1>2 DEF LeavesPool, PoolAccounting, FreeArenas
<1>3. CASE \E a : Allots(a) \/ FreesRequest(a) \/ FreesWs(a)
  BY <1>1, <1>3, GetAccounting, ReleaseAccounting DEF Allots, FreesRequest, FreesWs
<1> QED BY <1>2, <1>3, PoolSteps

\* The stack starts empty.
LEMMA InitLoops == Init => Loops
BY DEF Init, Loops, StackShape, LoopsStayValid

(***************************************************************************)
(* available_count, which pause and resume of accept() and the waiting     *)
(* list read without the lock, is the number of free arenas: get() and     *)
(* release() are called for arenas only, and count each of them once.      *)
(***************************************************************************)
THEOREM Accounting == Spec => []PoolAccounting
<1>0. Init => PoolAccounting
  BY PoolInitAccounting DEF Init
<1>1. TypeOK /\ TypeOK' /\ Loops /\ PoolAccounting /\ [Next]_vars
        => Loops' /\ PoolAccounting'
  BY LoopsNext, AccountingNext
<1> QED BY <1>0, <1>1, InitLoops, TypeCorrect, PTL DEF Spec

-----------------------------------------------------------------------------
(* Pausing accept() *)

\* No WebSocket thread holds an arena.
NoWebSockets == ws = {}

\* A release that makes an arena free resumes accept().
LEMMA PausedNext ==
  ASSUME MaxWs = 0, TypeOK, Loops, PoolAccounting, NoWebSockets,
         PausedMeansExhausted, [Next]_vars
  PROVE  NoWebSockets' /\ PausedMeansExhausted'
<1>1. available_count \in Nat /\ ~(Cardinality(ws) < MaxWs) /\ ~\E a : FreesWs(a)
  BY FreeFinite, FS_EmptySet DEF PoolAccounting, NoWebSockets, FreesWs
<1>2. CASE LeavesPool
  BY <1>2 DEF LeavesPool, NoWebSockets, PausedMeansExhausted
<1>3. ASSUME NEW a, Allots(a)
      PROVE  NoWebSockets' /\ PausedMeansExhausted'
  <2>1. available_count > 0
    BY <1>3, GetAccounting DEF Allots, TypeOK
  <2> QED BY <1>1, <1>3, <2>1 DEF Allots, NoWebSockets, PausedMeansExhausted
<1>4. ASSUME NEW a, FreesRequest(a)
      PROVE  NoWebSockets' /\ PausedMeansExhausted'
  <2>1. available_count' \in Nat
    BY <1>1, <1>4 DEF FreesRequest, Release
  <2> QED BY <1>4, <2>1 DEF FreesRequest, Resumes, NoWebSockets, PausedMeansExhausted
<1> QED BY <1>1, <1>2, <1>3, <1>4, PoolSteps

(***************************************************************************)
(* Without WebSocket threads every release is release_request's, so        *)
(* accept() is paused only while no arena is free.  With them it is not    *)
(* so: ArenaManager::release alone does not resume it.                     *)
(***************************************************************************)
THEOREM Paused ==
  ASSUME MaxWs = 0
  PROVE  Spec => []PausedMeansExhausted
<1> DEFINE IInv == Loops /\ PoolAccounting /\ NoWebSockets /\ PausedMeansExhausted
<1>1. Init => IInv
  BY InitLoops, PoolInitAccounting DEF Init, NoWebSockets, PausedMeansExhausted
<1>2. TypeOK /\ TypeOK' /\ IInv /\ [Next]_vars => IInv'
  BY LoopsNext, AccountingNext, PausedNext
<1>3. IInv => PausedMeansExhausted
  OBVIOUS
<1> QED BY <1>1, <1>2, <1>3, TypeCorrect, PTL DEF Spec

-----------------------------------------------------------------------------
(* The wakeup *)

\* The eventfd is drained before the list is taken, and written after a push.
LEMMA WakeupNext ==
  ASSUME TypeOK, NoLostWakeup, [Next]_vars
  PROVE  NoLostWakeup'
<1>1. ASSUME UNCHANGED <<g_pending_output, eventfd>>, UNCHANGED stack \/ ~At("swap")
      PROVE  NoLostWakeup'
  BY <1>1 DEF NoLostWakeup, At
<1>2. CASE UNCHANGED vars \/ Undefined \/ TimerTick \/ WsThreads
  BY <1>1, <1>2 DEF vars, Undefined, TimerTick, WsThreads, WsGet, WsRelease
<1>3. CASE LoopStep
  <2>1. ASSUME NEW e \in batch, EventFdEvent(e) PROVE NoLostWakeup'
    BY <2>1 DEF EventFdEvent, Dispatching, Call, Frame, NoLostWakeup, At
  <2>2. stack = <<>> => ~At("swap")
    BY DEF At
  <2>3. CASE EpollWait \/ \E e \in batch : ListenEvent(e) \/ TimerEvent(e) \/ IoEvent(e) \/ IoStale(e)
    BY <1>1, <2>2, <2>3
    DEF EpollWait, ListenEvent, TimerEvent, IoEvent, IoStale, Dispatching
  <2> QED BY <1>3, <2>1, <2>3 DEF LoopStep
<1>4. CASE AcceptStep
  BY <1>1, <1>4 DEF AcceptStep, AcceptOne, AcceptDone, At
<1>5. CASE PendingStep
  <2>1. CASE SwapPending
    BY <2>1 DEF SwapPending, NoLostWakeup
  <2> QED BY <1>1, <1>5, <2>1 DEF PendingStep, PendingAnswer, PendingSkip, PendingFault,
                                  PendingDone, At
<1>6. CASE ParseStep
  BY <1>1, <1>6 DEF ParseStep, ParseEnd, ParseBad, ParseDefer, ParseSkip, ParseNew,
                    ParseKnown, ParseFault, At
<1>7. CASE HandleStep
  BY <1>1, <1>7 DEF HandleStep, AfterParse, OutFlush, SweepErase, SweepDone, SweepFree,
                    SweepKeep, ReleaseRequest, At
<1>8. CASE CloseStep
  BY <1>1, <1>8 DEF CloseStep, CloseQueued, CloseQueueDone, CloseFd, CleanupOne,
                    ReleaseRequest, At
<1>9. CASE HousekeepingStep
  <2>1. UNCHANGED <<g_pending_output, eventfd>> /\ ~At("swap")
    <3>1. CASE \E fd \in Fds, id \in Ids : Expire(fd, id)
      BY <3>1 DEF Expire, At
    <3>2. CASE \E fd \in Fds : HousekeepingClose(fd)
      BY <3>2 DEF HousekeepingClose, At
    <3> QED BY <1>9, <3>1, <3>2 DEF HousekeepingStep, ExpireDone, HousekeepingDone, At
  <2> QED BY <1>1, <2>1
<1>10. CASE WaitingStep
  BY <1>1, <1>10 DEF WaitingStep, WaitingNext, WaitingDone, WaitedServed, WaitedAgain, At
<1>11. CASE Workers
  <2>1. ASSUME NEW t \in running, TaskPush(t) PROVE NoLostWakeup'
    BY <2>1 DEF TaskPush, NoLostWakeup
  <2> QED BY <1>1, <1>11, <2>1 DEF Workers, TaskStart, TaskFault, TaskInactive, TaskLeave
<1>12. CASE \E fd \in Fds : Peer(fd)
  <2>1. UNCHANGED <<g_pending_output, eventfd, stack>>
    BY <1>12, PeerUnchanged
  <2> QED BY <1>1, <2>1
<1> QED
  BY <1>2, <1>3, <1>4, <1>5, <1>6, <1>7, <1>8, <1>9, <1>10, <1>11, <1>12
  DEF Next, IoThread

(***************************************************************************)
(* A request in g_pending_output always has the IO thread on its way to    *)
(* it: on_eventfd drains the counter before the list is taken.             *)
(***************************************************************************)
THEOREM Wakeup == Spec => []NoLostWakeup
<1>1. Init => NoLostWakeup
  BY DEF Init, NoLostWakeup
<1>2. TypeOK /\ NoLostWakeup /\ [Next]_vars => NoLostWakeup'
  BY WakeupNext
<1> QED BY <1>1, <1>2, TypeCorrect, PTL DEF Spec
============================================================================
