-------------------------- MODULE WsServer_Proofs --------------------------
(***************************************************************************)
(* The types of the WebSocket and HTTP server, and its safety theorems,    *)
(* for every value of the constants and everything the peers may send:     *)
(* each arena it takes belongs to one closure until it is given back, the  *)
(* pool's unlocked counter is exact, no answer waits for an IO thread that *)
(* is not coming, and no output for an event that is not; callbacks get    *)
(* WebSocket messages whole, in order and once, and no message is answered *)
(* twice.                                                                  *)
(***************************************************************************)
EXTENDS WsProperties, ArenaPool_Proofs, FiniteSetTheorems, WellFoundedInduction

USE DEF poolVars, wsClientVars, wsIoVars, wsTaskVars, wsHandBack, wsPeerVars

\* A peer that speaks HTTP knows the body it still has to send.
OwedTypeOK ==
  \A fd \in Fds : sock[fd].up = "http" =>
    sock[fd].sent # <<>> /\ sock[fd].owed < Len(sock[fd].sent[1].data)

\* The inductive form of WsTypeOK.
WsTypes == WsTypeOK /\ OwedTypeOK

-----------------------------------------------------------------------------
(* Values *)

\* A set of numbers that is not empty has a least one.
LEMMA Least ==
  ASSUME NEW T \in SUBSET Nat, T # {}
  PROVE  \E x \in T : \A y \in T : x <= y
<1> DEFINE R == {ss \in Nat \X Nat : ss[1] < ss[2]}
<1>1. IsWellFoundedOn(R, Nat)
  BY NatLessThanWellFounded DEF OpToRel
<1>2. \E x \in T : \A y \in T : <<y, x>> \notin R
  <2> HIDE DEF R
  <2> QED BY <1>1, WFMin
<1>3. \A x, y \in T : <<y, x>> \notin R => x <= y
  <2> TAKE x, y \in T
  <2>1. x \in Nat /\ y \in Nat
    OBVIOUS
  <2>2. <<y, x>> \in Nat \X Nat /\ <<y, x>>[1] = y /\ <<y, x>>[2] = x
    BY <2>1
  <2> QED BY <2>1, <2>2
<1> QED BY <1>2, <1>3

\* Parts of sequences.
LEMMA Sequences ==
  ASSUME NEW S
  PROVE  /\ <<>> \in Seq(S)
         /\ \A e \in S : <<e>> \in Seq(S) /\ Len(<<e>>) = 1
         /\ \A s \in Seq(S) : s # <<>> => Head(s) \in S /\ Tail(s) \in Seq(S)
         /\ \A s \in Seq(S), e \in S : Append(s, e) \in Seq(S)
         /\ \A s, t \in Seq(S) : s \o t \in Seq(S) /\ Len(s \o t) = Len(s) + Len(t)
         /\ \A s \in Seq(S), m, n \in Int :
              1 <= m /\ n <= Len(s) => SubSeq(s, m, n) \in Seq(S)
         /\ \A s \in Seq(S) : Len(s) \in Nat /\ \A i \in 1 .. Len(s) : s[i] \in S
OBVIOUS

\* Bytes joined stay units.
LEMMA TogetherType ==
  ASSUME NEW s \in Seq(WsUnit), NEW t \in Seq(WsUnit)
  PROVE  Together(s, t) \in Seq(WsUnit)
<1>1. s # <<>> => SubSeq(s, 1, Len(s) - 1) \in Seq(WsUnit)
  BY Sequences
<1>2. EndsPart(s) => s # <<>>
  BY DEF EndsPart
<1> QED BY <1>1, <1>2, Sequences DEF Together

\* struct Client as accept() constructs it.
LEMMA NewClientType == NewClient \in ClientType /\ ~NewClient.closed
<1>1. \A S : <<>> \in Seq(S)
  BY Sequences
<1> QED BY <1>1 DEF NewClient, ClientType, Opcode

\* One assignment to a field of a Client.
LEMMA ClientUpdates ==
  ASSUME NEW c \in ClientType
  PROVE  /\ \A b \in BOOLEAN :
              /\ [c EXCEPT !.closed = b] \in ClientType
              /\ [c EXCEPT !.handshake_done = b] \in ClientType
              /\ [c EXCEPT !.http_mode = b] \in ClientType
              /\ [c EXCEPT !.assembling = b] \in ClientType
              /\ [c EXCEPT !.epollout = b] \in ClientType
         /\ \A s \in Seq(WsUnit) :
              [c EXCEPT !.in_buf = s] \in ClientType /\ [c EXCEPT !.in_http = s] \in ClientType
         /\ \A n \in Nat : [c EXCEPT !.http_content_length = n] \in ClientType
         /\ \A s \in Seq(Answer) : [c EXCEPT !.out_buf = s] \in ClientType
         /\ \A op \in Opcode : [c EXCEPT !.assemble_opcode = op] \in ClientType
         /\ \A s \in Seq(Piece) : [c EXCEPT !.assemble_data = s] \in ClientType
         /\ \A s \in Seq(MessageOf(Opcode \cup {"http"})) : [c EXCEPT !.handed = s] \in ClientType
BY DEF ClientType

\* One assignment to a field of a socket.
LEMMA SocketUpdates ==
  ASSUME NEW s \in WsSocket
  PROVE  /\ \A u \in Seq(WsUnit) : [s EXCEPT !.rx = u] \in WsSocket
         /\ \A b \in BOOLEAN : [s EXCEPT !.eof = b] \in WsSocket /\ [s EXCEPT !.hup = b] \in WsSocket
         /\ \A t \in SentAnswers :
              /\ [s EXCEPT !.tx = t] \in WsSocket
              /\ LET r == [s EXCEPT !.tx = t] IN
                   r.up = s.up /\ r.owed = s.owed /\ r.sent = s.sent
         /\ \A up \in {"no", "asked", "open", "http", "left"} : [s EXCEPT !.up = up] \in WsSocket
         /\ \A st \in {"free", "backlog", "conn"} : [s EXCEPT !.st = st] \in WsSocket
         /\ \A n \in Nat : [s EXCEPT !.owed = n] \in WsSocket
         /\ \A l \in Seq(MessageOf(Opcode \cup {"http"})) : [s EXCEPT !.sent = l] \in WsSocket
         /\ \A m \in MessageOf(Opcode) : [s EXCEPT !.open = m] \in WsSocket
         /\ \A a \in SUBSET Answer : [s EXCEPT !.answered = a] \in WsSocket
BY DEF WsSocket

\* A message is made of an opcode and pieces.
LEMMA MessageType ==
  ASSUME NEW ops, NEW op \in ops, NEW data \in Seq(Piece)
  PROVE  Message(op, data) \in MessageOf(ops)
BY DEF Message, MessageOf

\* A descriptor nobody is connected to.
LEMMA FreeSocketType == FreeWsSock \in WsSocket /\ FreeWsSock.up = "no"
<1>1. \A S : <<>> \in Seq(S) /\ Len(<<>>) = 0
  BY Sequences
<1>2. Message("text", <<>>) \in MessageOf(Opcode)
  BY <1>1, MessageType DEF Opcode
<1>3. <<>> \in SentAnswers
  BY <1>1, WsConstantsAssumption DEF SentAnswers
<1> QED BY <1>1, <1>2, <1>3 DEF FreeWsSock, WsSocket

\* The server starts without clients.
LEMMA InitTypes == WsInit => WsTypes
<1> SUFFICES ASSUME WsInit PROVE WsTypes
  OBVIOUS
<1>1. \A S : <<>> \in Seq(S)
  BY Sequences
<1>2. PoolTypeOK
  BY NArenasAssumption DEF WsInit, PoolInit, PoolTypeOK
<1>3. ClientTypeOK /\ LoopTypeOK
  BY <1>1, NewClientType DEF WsInit, ClientTypeOK, LoopTypeOK
<1>4. WorkerTypeOK
  BY <1>1 DEF WsInit, WorkerTypeOK
<1>5. PeerTypeOK /\ OwedTypeOK
  BY FreeSocketType DEF WsInit, PeerTypeOK, OwedTypeOK
<1> QED BY <1>2, <1>3, <1>4, <1>5 DEF WsTypes, WsTypeOK

-----------------------------------------------------------------------------
(* The IO thread: accepting and receiving *)

\* accept(): a new Client.
LEMMA AcceptTypes ==
  ASSUME WsTypes, NEW fd \in Fds, AcceptClient(fd)
  PROVE  WsTypes'
<1>1. ClientTypeOK' /\ LoopTypeOK'
  BY NewClientType, WsConstantsAssumption
  DEF AcceptClient, WsTypes, WsTypeOK, ClientTypeOK, LoopTypeOK
<1>2. sock[fd] \in WsSocket
  BY DEF WsTypes, WsTypeOK, PeerTypeOK
<1>3. PeerTypeOK'
  BY <1>2, SocketUpdates DEF AcceptClient, WsTypes, WsTypeOK, PeerTypeOK
<1>4. OwedTypeOK'
  BY <1>2 DEF AcceptClient, WsTypes, WsTypeOK, PeerTypeOK, OwedTypeOK, WsSocket
<1> QED
  BY <1>1, <1>3, <1>4
  DEF AcceptClient, WsTypes, WsTypeOK, PoolTypeOK, Arena, WorkerTypeOK

\* recv(): what came joins in_buf.
LEMMA EventTypes ==
  ASSUME WsTypes, NEW fd \in Fds, ClientEvent(fd)
  PROVE  WsTypes'
<1> DEFINE c == client[fd]
           closed == c.closed \/ sock[fd].hup \/ sock[fd].eof
           in == Together(c.in_buf, sock[fd].rx)
           d == [c EXCEPT !.closed = closed, !.in_buf = in]
<1>1. c \in ClientType /\ sock[fd] \in WsSocket
  BY DEF WsTypes, WsTypeOK, ClientTypeOK, PeerTypeOK
<1>2. closed \in BOOLEAN /\ in \in Seq(WsUnit)
  BY <1>1, TogetherType DEF ClientType, WsSocket
<1>3. d \in ClientType
  BY <1>1, <1>2, ClientUpdates
<1>4. client' = [client EXCEPT ![fd] = d]
  BY DEF ClientEvent
<1> HIDE DEF d
<1>5. ClientTypeOK'
  BY <1>3, <1>4 DEF ClientEvent, WsTypes, WsTypeOK, ClientTypeOK
<1>6. LoopTypeOK'
  BY <1>4, WsConstantsAssumption DEF ClientEvent, WsTypes, WsTypeOK, ClientTypeOK, LoopTypeOK
<1>7. PeerTypeOK'
  BY <1>1, SocketUpdates, Sequences DEF ClientEvent, WsTypes, WsTypeOK, PeerTypeOK
<1>8. OwedTypeOK'
  BY <1>1 DEF ClientEvent, WsTypes, WsTypeOK, PeerTypeOK, OwedTypeOK, WsSocket
<1> QED
  BY <1>5, <1>6, <1>7, <1>8
  DEF ClientEvent, WsTypes, WsTypeOK, PoolTypeOK, Arena, WorkerTypeOK

-----------------------------------------------------------------------------
(* The IO thread: requests and frames *)

\* The message is handed to the pool, or dropped; the client is left as c.
LEMMA ScheduleTypes ==
  ASSUME WsTypes, cur \in clients, NEW c \in ClientType,
         NEW msg \in MessageOf(Opcode \cup {"http"}), Schedule(c, msg)
  PROVE  /\ PoolTypeOK' /\ queue' \in Seq(WsClosure)
         /\ client' \in [Fds -> ClientType]
         /\ \A fd \in Fds \ {cur} : client'[fd] = client[fd]
<1>0. /\ PoolTypeOK /\ queue \in Seq(WsClosure) /\ cur \in Fds
      /\ client \in [Fds -> ClientType]
  BY DEF WsTypes, WsTypeOK, ClientTypeOK, WorkerTypeOK
<1>1. ASSUME NEW a \in Arena, Get(a), queue' = Append(queue, WsTask(a, msg)),
             client' = [client EXCEPT ![cur] = [c EXCEPT !.handed = Append(@, msg)]]
      PROVE  /\ PoolTypeOK' /\ queue' \in Seq(WsClosure)
             /\ client' \in [Fds -> ClientType]
             /\ \A fd \in Fds \ {cur} : client'[fd] = client[fd]
  <2>1. WsTask(a, msg) \in WsClosure
    BY <1>0 DEF WsTask, WsClosure
  <2>2. queue' \in Seq(WsClosure)
    BY <1>0, <1>1, <2>1, Sequences
  <2> DEFINE d == [c EXCEPT !.handed = Append(@, msg)]
  <2>3. d \in ClientType
    <3>1. c.handed \in Seq(MessageOf(Opcode \cup {"http"}))
      BY DEF ClientType
    <3>2. Append(c.handed, msg) \in Seq(MessageOf(Opcode \cup {"http"}))
      BY <3>1, Sequences
    <3> QED BY <3>2, ClientUpdates
  <2>4. client' = [client EXCEPT ![cur] = d]
    BY <1>1
  <2> HIDE DEF d
  <2> QED BY <1>0, <1>1, <2>2, <2>3, <2>4, PoolStepType
<1>2. CASE Exhausted /\ client' = [client EXCEPT ![cur] = c] /\ UNCHANGED <<poolVars, queue>>
  BY <1>0, <1>2 DEF PoolTypeOK, Arena
<1> QED BY <1>1, <1>2 DEF Schedule

\* Only the client changes.
LEMMA KeepTypes ==
  ASSUME WsTypes, cur \in clients, NEW c \in ClientType, Keep(c)
  PROVE  /\ PoolTypeOK' /\ queue' \in Seq(WsClosure)
         /\ client' \in [Fds -> ClientType]
         /\ \A fd \in Fds \ {cur} : client'[fd] = client[fd]
BY DEF Keep, WsTypes, WsTypeOK, ClientTypeOK, WorkerTypeOK, PoolTypeOK, Arena

\* What the two lemmas above conclude is enough for the steps of a handler.
LEMMA HandlerTypes ==
  ASSUME WsTypes, pc \in {"http", "frames"}, pc' \in {"http", "frames", "write"},
         PoolTypeOK', queue' \in Seq(WsClosure), client' \in [Fds -> ClientType],
         \A fd \in Fds \ {cur} : client'[fd] = client[fd],
         UNCHANGED <<clients, cur, taken, running, wsHandBack, ready, wsPeerVars, fcgi>>
  PROVE  WsTypes'
<1>1. ClientTypeOK' /\ WorkerTypeOK' /\ PeerTypeOK' /\ OwedTypeOK'
  BY DEF WsTypes, WsTypeOK, ClientTypeOK, WorkerTypeOK, Arena, PeerTypeOK, OwedTypeOK
<1>2. LoopTypeOK'
  BY DEF WsTypes, WsTypeOK, ClientTypeOK, LoopTypeOK
<1> QED BY <1>1, <1>2 DEF WsTypes, WsTypeOK

\* The first head in the text is a head, and the body is made of pieces.
LEMMA HttpTypes ==
  ASSUME WsTypes, HttpStep
  PROVE  WsTypes'
<1> DEFINE c == client[cur]
           text == Together(c.in_http, c.in_buf)
           heads == {i \in 1 .. Len(text) : IsHead(text[i])}
           first == CHOOSE i \in heads : \A j \in heads : i <= j
           rest == SubSeq(text, first + 1, Len(text))
           read == [c EXCEPT !.in_http = text, !.in_buf = <<>>]
           seen == [read EXCEPT !.http_mode = TRUE, !.in_buf = rest,
                                !.http_content_length = text[first].len]
           opened == [read EXCEPT !.handshake_done = TRUE,
                                  !.out_buf = Append(@, Message("101", <<>>))]
<1>0. pc = "http" /\ cur \in clients /\ cur \in Fds /\ c \in ClientType
  BY DEF HttpStep, WsTypes, WsTypeOK, ClientTypeOK, LoopTypeOK
<1>1. text \in Seq(WsUnit)
  BY <1>0, TogetherType DEF ClientType
<1>2. read \in ClientType
  BY <1>0, <1>1, ClientUpdates, Sequences
<1>3. ASSUME heads # {}
      PROVE  /\ first \in heads /\ first \in 1 .. Len(text) /\ rest \in Seq(WsUnit)
             /\ text[first] \in WsUnit /\ text[first].k = "head" /\ text[first].len \in Nat
             /\ text[first].piece \in Piece
  <2>1. heads \in SUBSET Nat
    BY <1>1, Sequences
  <2>2. \E i \in heads : \A j \in heads : i <= j
    <3> HIDE DEF heads
    <3> QED BY <1>3, <2>1, Least
  <2>3. first \in heads
    <3> HIDE DEF heads
    <3> QED BY <2>2
  <2>4. first \in 1 .. Len(text) /\ text[first] \in WsUnit /\ text[first].k = "head"
    BY <1>1, <2>3, Sequences DEF IsHead
  <2>5. rest \in Seq(WsUnit)
    <3> HIDE DEF first, text
    <3> QED BY <1>1, <2>4, Sequences
  <2>6. text[first].len \in Nat /\ text[first].piece \in Piece
    <3> HIDE DEF first, text
    <3> QED BY <2>4 DEF WsUnit
  <2> QED BY <2>3, <2>4, <2>5, <2>6
<1> DEFINE Goal == /\ PoolTypeOK' /\ queue' \in Seq(WsClosure)
                   /\ client' \in [Fds -> ClientType]
                   /\ \A fd \in Fds \ {cur} : client'[fd] = client[fd]
<1>4. CASE heads = {} /\ Keep(read)
  <2> HIDE DEF read
  <2>1. Goal BY <1>0, <1>2, <1>4, KeepTypes
  <2> QED BY <1>0, <2>1, HandlerTypes DEF HttpStep
<1>5. CASE heads # {} /\ text[first].op = "upgrade" /\ Keep(opened)
  <2>1. Message("101", <<>>) \in Answer
    BY MessageType, Sequences DEF Answer
  <2>2. opened \in ClientType
    <3> HIDE DEF read
    <3>1. read.out_buf \in Seq(Answer)
      BY <1>2 DEF ClientType
    <3> QED BY <1>2, <2>1, <3>1, ClientUpdates, Sequences
  <2> HIDE DEF opened
  <2>3. Goal BY <1>0, <1>5, <2>2, KeepTypes
  <2> QED BY <1>0, <2>3, HandlerTypes DEF HttpStep
<1>6. CASE /\ heads # {} /\ text[first].op = "http"
           /\ IF Len(rest) >= text[first].len
                THEN ScheduleHttp(seen, text[first], rest) ELSE Keep(seen)
  <2>1. seen \in ClientType
    <3> HIDE DEF read, rest, first, text
    <3> QED BY <1>2, <1>3, <1>6, ClientUpdates DEF heads
  <2>2. CASE Len(rest) >= text[first].len /\ ScheduleHttp(seen, text[first], rest)
    <3> DEFINE data == <<text[first].piece>> \o [i \in 1 .. text[first].len |-> rest[i].piece]
               msg == Message(text[first].op, data)
               sent == [seen EXCEPT !.in_buf = <<>>]
    <3>1. \A i \in 1 .. text[first].len : rest[i].piece \in Piece
      <4> HIDE DEF rest, first, text
      <4>1. ASSUME NEW i \in 1 .. text[first].len PROVE rest[i].piece \in Piece
        <5>1. i \in 1 .. Len(rest) /\ rest \in Seq(WsUnit)
          BY <1>3, <1>6, <2>2 DEF heads
        <5>2. rest[i] \in WsUnit
          BY <5>1, Sequences
        <5> QED BY <5>2 DEF WsUnit
      <4> QED BY <4>1
    <3>2. data \in Seq(Piece)
      <4> HIDE DEF rest, first, text
      <4>1. text[first].len \in Nat /\ text[first].piece \in Piece
        BY <1>3, <1>6 DEF heads
      <4>2. [i \in 1 .. text[first].len |-> rest[i].piece] \in Seq(Piece)
        BY <3>1, <4>1
      <4>3. <<text[first].piece>> \in Seq(Piece)
        BY <4>1, Sequences
      <4> QED BY <4>2, <4>3, Sequences
    <3>3. msg \in MessageOf(Opcode \cup {"http"})
      <4> HIDE DEF data, first, text, heads
      <4> QED BY <1>6, <3>2, MessageType
    <3>4. sent \in ClientType
      <4> HIDE DEF seen
      <4> QED BY <2>1, ClientUpdates, Sequences
    <3>5. Schedule(sent, msg)
      BY <2>2 DEF ScheduleHttp
    <3> HIDE DEF sent, msg
    <3>6. Goal BY <1>0, <3>3, <3>4, <3>5, ScheduleTypes
    <3> QED BY <1>0, <3>6, HandlerTypes DEF HttpStep
  <2>3. CASE Keep(seen)
    <3> HIDE DEF seen
    <3>1. Goal BY <1>0, <2>1, <2>3, KeepTypes
    <3> QED BY <1>0, <3>1, HandlerTypes DEF HttpStep
  <2> QED BY <1>6, <2>2, <2>3
<1> QED BY <1>4, <1>5, <1>6 DEF HttpStep

\* A frame is taken from the front of in_buf.
LEMMA FrameTaken ==
  ASSUME WsTypes, pc = "frames", FrameThere
  PROVE  /\ cur \in clients /\ cur \in Fds /\ Shorter \in ClientType
         /\ LET f == Head(client[cur].in_buf) IN
              /\ f.op \in Opcode \cup {"cont", "ping", "close"}
              /\ f.fin \in BOOLEAN /\ f.piece \in Piece
<1>1. cur \in clients /\ cur \in Fds /\ client[cur] \in ClientType
  BY DEF WsTypes, WsTypeOK, ClientTypeOK, LoopTypeOK
<1>2. /\ client[cur].in_buf \in Seq(WsUnit) /\ client[cur].in_buf # <<>>
      /\ Head(client[cur].in_buf).k = "frame"
  BY <1>1 DEF ClientType, FrameThere
<1> DEFINE in == client[cur].in_buf
           f == Head(in)
<1> HIDE DEF in
<1>3. f \in WsUnit /\ f.k = "frame" /\ Tail(in) \in Seq(WsUnit)
  BY <1>2, Sequences DEF in
<1>4. f.op \in Opcode \cup {"cont", "ping", "close"} /\ f.fin \in BOOLEAN /\ f.piece \in Piece
  <2> HIDE DEF f
  <2> QED BY <1>3 DEF WsUnit
<1>5. Shorter \in ClientType
  BY <1>1, <1>3, ClientUpdates DEF Shorter, in
<1> QED BY <1>1, <1>4, <1>5 DEF in

\* Control frames, whole messages and fragments.
LEMMA FrameTypes ==
  ASSUME WsTypes, FrameStep
  PROVE  WsTypes'
<1> DEFINE f == Head(client[cur].in_buf)
           Goal == /\ PoolTypeOK' /\ queue' \in Seq(WsClosure)
                   /\ client' \in [Fds -> ClientType]
                   /\ \A fd \in Fds \ {cur} : client'[fd] = client[fd]
<1>1. /\ cur \in clients /\ cur \in Fds /\ Shorter \in ClientType
      /\ f.op \in Opcode \cup {"cont", "ping", "close"}
      /\ f.fin \in BOOLEAN /\ f.piece \in Piece
  BY FrameTaken DEF FrameStep
<1> HIDE DEF f
<1>2. Shorter.assemble_data \in Seq(Piece) /\ Shorter.assemble_opcode \in Opcode
  BY <1>1 DEF ClientType
<1>3. \A op \in Opcode, data \in Seq(Piece) :
        Message(op, data) \in MessageOf(Opcode \cup {"http"})
  BY MessageType
<1>4. ASSUME f.op \in {"close", "ping"} /\ Control(f)
      PROVE  Goal
  <2>1. CASE f.op = "close"
    <3>1. Keep([Shorter EXCEPT !.closed = TRUE])
      BY <1>4, <2>1 DEF Control
    <3>2. [Shorter EXCEPT !.closed = TRUE] \in ClientType
      BY <1>1, ClientUpdates
    <3> QED BY <1>1, <3>1, <3>2, KeepTypes
  <2>2. CASE f.op = "ping"
    <3>1. Keep([Shorter EXCEPT !.out_buf = Append(@, Message("pong", <<>>))])
      BY <1>4, <2>2 DEF Control
    <3>2. Message("pong", <<>>) \in Answer
      BY MessageType, Sequences DEF Answer
    <3>3. [Shorter EXCEPT !.out_buf = Append(@, Message("pong", <<>>))] \in ClientType
      <4>1. Shorter.out_buf \in Seq(Answer)
        BY <1>1 DEF ClientType
      <4> QED BY <1>1, <3>2, <4>1, ClientUpdates, Sequences
    <3> QED BY <1>1, <3>1, <3>3, KeepTypes
  <2> QED BY <1>4, <2>1, <2>2
<1>5. ASSUME f.op \in {"text", "binary"} /\ TextOrBinary(f)
      PROVE  Goal
  <2> DEFINE fresh == IF Shorter.assembling
                        THEN [Shorter EXCEPT !.assembling = FALSE, !.assemble_data = <<>>]
                        ELSE Shorter
             begun_ == [fresh EXCEPT !.assembling = TRUE, !.assemble_opcode = f.op,
                                     !.assemble_data = <<f.piece>>]
  <2>1. <<f.piece>> \in Seq(Piece) /\ <<>> \in Seq(Piece) /\ f.op \in Opcode
    BY <1>1, <1>5, Sequences DEF Opcode
  <2>2. fresh \in ClientType
    BY <1>1, <2>1, ClientUpdates
  <2>3. begun_ \in ClientType
    <3> HIDE DEF fresh
    <3> QED BY <2>1, <2>2, ClientUpdates
  <2>4. Message(f.op, <<f.piece>>) \in MessageOf(Opcode \cup {"http"})
    BY <1>3, <2>1
  <2>5. Schedule(fresh, Message(f.op, <<f.piece>>)) \/ Keep(begun_)
    BY <1>5 DEF TextOrBinary
  <2> HIDE DEF fresh, begun_
  <2> QED BY <1>1, <2>2, <2>3, <2>4, <2>5, KeepTypes, ScheduleTypes
<1>6. ASSUME f.op = "cont" /\ Continuation(f)
      PROVE  Goal
  <2> DEFINE whole == Append(Shorter.assemble_data, f.piece)
             done == [Shorter EXCEPT !.assembling = FALSE, !.assemble_data = <<>>]
  <2>1. whole \in Seq(Piece) /\ <<>> \in Seq(Piece)
    BY <1>1, <1>2, Sequences
  <2>2. /\ [Shorter EXCEPT !.closed = TRUE] \in ClientType /\ done \in ClientType
        /\ [Shorter EXCEPT !.assemble_data = whole] \in ClientType
    BY <1>1, <2>1, ClientUpdates
  <2>3. \/ Keep([Shorter EXCEPT !.closed = TRUE])
        \/ Schedule(done, Message(Shorter.assemble_opcode, whole))
        \/ Keep([Shorter EXCEPT !.assemble_data = whole])
    BY <1>6 DEF Continuation
  <2>4. Message(Shorter.assemble_opcode, whole) \in MessageOf(Opcode \cup {"http"})
    BY <1>2, <1>3, <2>1
  <2> HIDE DEF done
  <2> QED BY <1>1, <2>2, <2>3, <2>4, KeepTypes, ScheduleTypes
<1>7. Goal
  BY <1>4, <1>5, <1>6 DEF FrameStep, f
<1> QED BY <1>7, HandlerTypes DEF FrameStep, wsIoVars

\* No whole frame is left.
LEMMA FramesDoneTypes ==
  ASSUME WsTypes, FramesDone
  PROVE  WsTypes'
<1>1. /\ PoolTypeOK' /\ queue' \in Seq(WsClosure) /\ client' \in [Fds -> ClientType]
      /\ \A fd \in Fds \ {cur} : client'[fd] = client[fd]
  BY DEF FramesDone, WsTypes, WsTypeOK, PoolTypeOK, Arena, WorkerTypeOK, ClientTypeOK
<1> QED BY <1>1, HandlerTypes DEF FramesDone

-----------------------------------------------------------------------------
(* The IO thread: sending, and handing out answers *)

\* Output of a client and its EPOLLOUT bit.
LEMMA OutputUpdate ==
  ASSUME NEW c \in ClientType, NEW s \in Seq(Answer), NEW b \in BOOLEAN
  PROVE  LET d == [c EXCEPT !.out_buf = s, !.epollout = b] IN
           d \in ClientType /\ d.closed = c.closed
<1> DEFINE d == [c EXCEPT !.out_buf = s, !.epollout = b]
<1>1. d \in ClientType
  BY ClientUpdates
<1>2. d.closed = c.closed
  BY DEF ClientType
<1> QED BY <1>1, <1>2

\* send_all takes no more than there is, nor more than the socket has room for.
LEMMA SendTypes ==
  ASSUME WsTypes, cur \in clients, SendAll(cur)
  PROVE  /\ client' \in [Fds -> ClientType] /\ sock' \in [Fds -> WsSocket]
         /\ \A fd \in Fds : /\ client'[fd].closed = client[fd].closed
                            /\ sock'[fd].up = sock[fd].up /\ sock'[fd].owed = sock[fd].owed
                            /\ sock'[fd].sent = sock[fd].sent
<1> DEFINE c == client[cur]
           out == c.out_buf
           left == IF sock[cur].hup THEN <<>> ELSE Left(cur)
           d == [c EXCEPT !.out_buf = left, !.epollout = (left # <<>>)]
           part == SubSeq(out, 1, Taken(cur))
           e == [sock[cur] EXCEPT !.tx = @ \o part]
<1>1. /\ cur \in Fds /\ c \in ClientType /\ sock[cur] \in WsSocket
      /\ client \in [Fds -> ClientType] /\ sock \in [Fds -> WsSocket]
  BY DEF WsTypes, WsTypeOK, ClientTypeOK, PeerTypeOK
<1>2. /\ out \in Seq(Answer) /\ sock[cur].tx \in Seq(Answer) /\ Len(sock[cur].tx) <= SndBuf
      /\ Len(out) \in Nat /\ Len(sock[cur].tx) \in Nat
  BY <1>1, Sequences DEF ClientType, WsSocket, SentAnswers
<1>3. /\ Taken(cur) \in Nat /\ Taken(cur) <= Len(out)
      /\ ~sock[cur].eof => Taken(cur) + Len(sock[cur].tx) <= SndBuf
  <2>1. SndBuf \in Nat
    BY WsConstantsAssumption
  <2>2. Room(cur) = IF sock[cur].eof THEN Len(out) ELSE SndBuf - Len(sock[cur].tx)
    BY DEF Room
  <2>3. Taken(cur) = IF Room(cur) < Len(out) THEN Room(cur) ELSE Len(out)
    BY DEF Taken
  <2> HIDE DEF out
  <2>4. Room(cur) \in Nat
    BY <1>2, <2>1, <2>2
  <2>5. Taken(cur) \in Nat /\ Taken(cur) <= Len(out) /\ Taken(cur) <= Room(cur)
    BY <1>2, <2>3, <2>4
  <2> QED BY <1>2, <2>1, <2>2, <2>5
<1>4. left \in Seq(Answer)
  BY <1>2, <1>3, Sequences DEF Left
<1>5. d \in ClientType /\ d.closed = c.closed
  <2>1. (left # <<>>) \in BOOLEAN
    OBVIOUS
  <2> HIDE DEF left, c
  <2> QED BY <1>1, <1>4, <2>1, OutputUpdate
<1>6. ASSUME ~sock[cur].eof
      PROVE  /\ e \in WsSocket /\ e.up = sock[cur].up /\ e.owed = sock[cur].owed
             /\ e.sent = sock[cur].sent
  <2>1. part \in Seq(Answer) /\ Len(part) = Taken(cur)
    <3> HIDE DEF out
    <3> QED BY <1>2, <1>3
  <2>2. sock[cur].tx \o part \in SentAnswers
    <3> HIDE DEF part
    <3>1. Len(sock[cur].tx \o part) = Len(sock[cur].tx) + Len(part)
      BY <1>2, <2>1, Sequences
    <3> QED BY <1>2, <1>3, <1>6, <2>1, <3>1, Sequences DEF SentAnswers
  <2> DEFINE tx == sock[cur].tx \o part
  <2>3. e = [sock[cur] EXCEPT !.tx = tx]
    OBVIOUS
  <2> HIDE DEF tx, e
  <2> QED BY <1>1, <2>2, <2>3, SocketUpdates DEF tx
<1>7. /\ client' = [client EXCEPT ![cur] = d]
      /\ sock' = IF sock[cur].eof THEN sock ELSE [sock EXCEPT ![cur] = e]
  BY DEF SendAll
<1> HIDE DEF d, e
<1> QED BY <1>1, <1>5, <1>6, <1>7

\* What is not sent stays, or the client goes with it.
LEMMA WriteTypes ==
  ASSUME WsTypes, WriteStep
  PROVE  WsTypes'
<1>0. /\ pc = "write" /\ cur \in clients /\ cur \in Fds /\ clients \subseteq Fds
      /\ client \in [Fds -> ClientType] /\ sock \in [Fds -> WsSocket] /\ ready \subseteq Fds
      /\ \A fd \in clients : client[fd].closed => fd = cur
      /\ taken \in Seq(PendingFrame) /\ taken = <<>>
  BY DEF WriteStep, WsTypes, WsTypeOK, ClientTypeOK, LoopTypeOK, PeerTypeOK
<1>1. CASE client[cur].closed /\ CloseClient(cur)
  <2>1. /\ clients' = clients \ {cur} /\ client' \in [Fds -> ClientType]
        /\ \A fd \in Fds \ {cur} : client'[fd] = client[fd]
    BY <1>0, <1>1, NewClientType DEF CloseClient
  <2>2. sock' \in [Fds -> WsSocket] /\ ready' \subseteq Fds
    BY <1>0, <1>1, FreeSocketType DEF CloseClient
  <2>3. OwedTypeOK'
    BY <1>0, <1>1, FreeSocketType DEF CloseClient, WsTypes, OwedTypeOK
  <2>4. ClientTypeOK' /\ LoopTypeOK' /\ PeerTypeOK'
    BY <1>0, <2>1, <2>2 DEF WriteStep, ClientTypeOK, LoopTypeOK, PeerTypeOK, WsTypes, WsTypeOK
  <2> QED
    BY <2>3, <2>4 DEF WriteStep, WsTypes, WsTypeOK, PoolTypeOK, Arena, WorkerTypeOK
<1>2. CASE ~client[cur].closed /\ SendAll(cur)
  <2>1. /\ client' \in [Fds -> ClientType] /\ sock' \in [Fds -> WsSocket]
        /\ \A fd \in Fds : /\ client'[fd].closed = client[fd].closed
                           /\ sock'[fd].up = sock[fd].up /\ sock'[fd].owed = sock[fd].owed
                           /\ sock'[fd].sent = sock[fd].sent
    BY <1>0, <1>2, SendTypes
  <2>2. clients' = clients /\ ready' \subseteq Fds
    BY <1>0, <1>2 DEF SendAll
  <2>3. OwedTypeOK'
    BY <2>1 DEF WsTypes, OwedTypeOK
  <2>4. ClientTypeOK' /\ LoopTypeOK' /\ PeerTypeOK'
    BY <1>0, <1>2, <2>1, <2>2
    DEF WriteStep, ClientTypeOK, LoopTypeOK, PeerTypeOK, WsTypes, WsTypeOK
  <2> QED
    BY <2>3, <2>4 DEF WriteStep, WsTypes, WsTypeOK, PoolTypeOK, Arena, WorkerTypeOK
<1> QED BY <1>1, <1>2 DEF WriteStep

\* The eventfd is drained and the list taken.
LEMMA SwapTypes ==
  ASSUME WsTypes, DrainStep \/ SwapStep
  PROVE  WsTypes'
<1>1. CASE DrainStep
  BY <1>1 DEF DrainStep, WsTypes, WsTypeOK, PoolTypeOK, Arena, ClientTypeOK, LoopTypeOK,
              WorkerTypeOK, PeerTypeOK, OwedTypeOK
<1>2. CASE SwapStep
  <2>1. <<>> \in Seq(PendingFrame)
    BY Sequences
  <2> QED BY <1>2, <2>1
    DEF SwapStep, WsTypes, WsTypeOK, PoolTypeOK, Arena, ClientTypeOK, LoopTypeOK,
        WorkerTypeOK, PeerTypeOK, OwedTypeOK
<1> QED BY <1>1, <1>2

\* An answer joins the output of a client.
LEMMA GiveTypes ==
  ASSUME WsTypes, GiveStep
  PROVE  WsTypes'
<1>0. /\ pc = "give" /\ clients \subseteq Fds /\ client \in [Fds -> ClientType]
      /\ taken \in Seq(PendingFrame) /\ taken # <<>> /\ ready \subseteq Fds
      /\ cur = NoFd /\ \A fd \in clients : client[fd].closed => fd = cur
  BY DEF GiveStep, WsTypes, WsTypeOK, ClientTypeOK, LoopTypeOK, PeerTypeOK
<1> DEFINE p == Head(taken)
<1>1. p \in PendingFrame /\ Tail(taken) \in Seq(PendingFrame)
  BY <1>0, Sequences
<1> HIDE DEF p
<1>2. p.fd \in Fds /\ p.frame \in Answer
  BY <1>1 DEF PendingFrame
<1>3. /\ client' \in [Fds -> ClientType] /\ ready' \subseteq Fds
      /\ \A fd \in Fds : client'[fd].closed = client[fd].closed
  <2>1. CASE p.fd \in clients /\ GiveOut(p.fd, p.frame)
    <3> DEFINE c == client[p.fd]
               out == Append(c.out_buf, p.frame)
               d == [c EXCEPT !.out_buf = out, !.epollout = TRUE]
    <3>1. c \in ClientType
      BY <1>0, <1>2
    <3>2. out \in Seq(Answer)
      <4>1. c.out_buf \in Seq(Answer)
        BY <3>1 DEF ClientType
      <4> QED BY <1>2, <4>1, Sequences
    <3>3. d \in ClientType /\ d.closed = c.closed
      <4> HIDE DEF out, c
      <4> QED BY <3>1, <3>2, OutputUpdate
    <3>4. client' = [client EXCEPT ![p.fd] = d] /\ ready' = ready \cup {p.fd}
      BY <2>1 DEF GiveOut
    <3> HIDE DEF d
    <3> QED BY <1>0, <1>2, <3>3, <3>4
  <2>2. CASE UNCHANGED <<client, ready>>
    BY <1>0, <2>2
  <2> QED BY <2>1, <2>2 DEF GiveStep, p
<1>4. ClientTypeOK' /\ PeerTypeOK'
  BY <1>0, <1>3 DEF GiveStep, WsTypes, WsTypeOK, ClientTypeOK, PeerTypeOK
<1>5. LoopTypeOK'
  BY <1>0, <1>1, <1>3 DEF GiveStep, LoopTypeOK
<1> QED
  BY <1>4, <1>5
  DEF GiveStep, WsTypes, WsTypeOK, PoolTypeOK, Arena, WorkerTypeOK, OwedTypeOK

-----------------------------------------------------------------------------
(* The workers and the FastCGI server *)

\* A step that leaves the IO thread, its clients and the peers alone.
LEMMA ElsewhereTypes ==
  ASSUME WsTypes, PoolTypeOK', WorkerTypeOK',
         UNCHANGED <<wsClientVars, wsIoVars, ready, wsPeerVars>>
  PROVE  WsTypes'
BY DEF WsTypes, WsTypeOK, ClientTypeOK, LoopTypeOK, PeerTypeOK, OwedTypeOK

\* A closure starts, answers and gives its arena back.
LEMMA WorkersTypes ==
  ASSUME WsTypes, WsWorkers
  PROVE  WsTypes'
<1>0. PoolTypeOK /\ WorkerTypeOK
  BY DEF WsTypes, WsTypeOK
<1>1. CASE WsTaskStart
  <2>1. Head(queue) \in WsClosure /\ Tail(queue) \in Seq(WsClosure)
    BY <1>0, <1>1, Sequences DEF WsTaskStart, WorkerTypeOK
  <2>2. PoolTypeOK' /\ WorkerTypeOK'
    BY <1>0, <1>1, <2>1 DEF WsTaskStart, PoolTypeOK, WorkerTypeOK, Arena
  <2> QED BY <1>1, <2>2, ElsewhereTypes DEF WsTaskStart
<1>2. ASSUME NEW t \in running, WsTaskReply(t) PROVE WsTypes'
  <2>1. t \in WsClosure
    BY <1>0 DEF WorkerTypeOK
  <2>2. t.fd \in Fds /\ t.msg \in Answer /\ [t EXCEPT !.at = "release"] \in WsClosure
    BY <2>1 DEF WsClosure, Answer, MessageOf
  <2>3. [fd |-> t.fd, frame |-> t.msg] \in PendingFrame
    BY <2>2 DEF PendingFrame
  <2>4. g_pending_frames' \in Seq(PendingFrame)
    BY <1>0, <1>2, <2>3, Sequences DEF WsTaskReply, Push, WorkerTypeOK
  <2>5. PoolTypeOK' /\ WorkerTypeOK'
    BY <1>0, <1>2, <2>2, <2>4 DEF WsTaskReply, Push, PoolTypeOK, WorkerTypeOK, Arena
  <2> QED BY <1>2, <2>5, ElsewhereTypes DEF WsTaskReply
<1>3. ASSUME NEW t \in running, WsTaskRelease(t) PROVE WsTypes'
  <2>1. PoolTypeOK'
    BY <1>0, <1>3, PoolStepType DEF WsTaskRelease
  <2>2. WorkerTypeOK'
    BY <1>0, <1>3 DEF WsTaskRelease, WorkerTypeOK, Arena
  <2> QED BY <1>3, <2>1, <2>2, ElsewhereTypes DEF WsTaskRelease
<1> QED BY <1>1, <1>2, <1>3 DEF WsWorkers

\* The FastCGI server takes and gives back arenas.
LEMMA FcgiTypes ==
  ASSUME WsTypes, FcgiServer
  PROVE  WsTypes'
<1>0. PoolTypeOK /\ WorkerTypeOK
  BY DEF WsTypes, WsTypeOK
<1>1. PICK a \in Arena : FcgiGet(a) \/ FcgiRelease(a)
  BY DEF FcgiServer
<1>2. PoolTypeOK'
  BY <1>0, <1>1, PoolStepType DEF FcgiGet, FcgiRelease
<1>3. WorkerTypeOK'
  BY <1>0, <1>1 DEF FcgiServer, FcgiGet, FcgiRelease, WorkerTypeOK, Arena
<1> QED BY <1>2, <1>3, ElsewhereTypes DEF FcgiServer

-----------------------------------------------------------------------------
(* The peers *)

\* A step of a peer leaves its socket in a state s.
PeerLeaves(fd, s) ==
  /\ s \in WsSocket /\ sock' = [sock EXCEPT ![fd] = s]
  /\ s.up = "http" => s.sent # <<>> /\ s.owed < Len(s.sent[1].data)
  /\ ready' \subseteq Fds /\ connects' \in Nat /\ begun' \in Nat

LEMMA PeerLeavesTypes ==
  ASSUME WsTypes, NEW fd \in Fds, NEW s, PeerLeaves(fd, s),
         UNCHANGED <<poolVars, wsClientVars, wsIoVars, wsTaskVars, wsHandBack, fcgi>>
  PROVE  WsTypes'
<1>1. PeerTypeOK' /\ OwedTypeOK'
  BY DEF PeerLeaves, WsTypes, WsTypeOK, PeerTypeOK, OwedTypeOK
<1>2. PoolTypeOK' /\ ClientTypeOK' /\ LoopTypeOK' /\ WorkerTypeOK'
  BY DEF WsTypes, WsTypeOK, PoolTypeOK, Arena, ClientTypeOK, LoopTypeOK, WorkerTypeOK
<1> QED BY <1>1, <1>2 DEF WsTypes, WsTypeOK

\* Units are on their way.
LEMMA SendUnits ==
  ASSUME WsTypes, NEW fd \in Fds, NEW s \in WsSocket, NEW units \in Seq(WsUnit),
         s.up = "http" => s.sent # <<>> /\ s.owed < Len(s.sent[1].data),
         Send(fd, s, units), begun' \in Nat
  PROVE  \E t : PeerLeaves(fd, t)
<1> DEFINE rx == Together(s.rx, units)
           t == [s EXCEPT !.rx = rx]
<1>1. rx \in Seq(WsUnit)
  <2>1. s.rx \in Seq(WsUnit)
    BY DEF WsSocket
  <2> QED BY <2>1, TogetherType
<1>2. t \in WsSocket /\ t.up = s.up /\ t.owed = s.owed /\ t.sent = s.sent
  <2> HIDE DEF rx
  <2>1. t \in WsSocket
    BY <1>1, SocketUpdates
  <2>2. t.up = s.up /\ t.owed = s.owed /\ t.sent = s.sent
    BY DEF WsSocket
  <2> QED BY <2>1, <2>2
<1>3. sock' = [sock EXCEPT ![fd] = t] /\ ready' \subseteq Fds /\ connects' \in Nat
  BY DEF Send, WsTypes, WsTypeOK, PeerTypeOK
<1> HIDE DEF t
<1>4. PeerLeaves(fd, t)
  BY <1>2, <1>3 DEF PeerLeaves
<1> QED BY <1>4

\* What peers send is made of units.
LEMMA UnitTypes ==
  /\ \A op \in Opcode \cup {"cont", "ping", "close"}, fin \in BOOLEAN, p \in Piece :
       <<FrameUnit(op, fin, p)>> \in Seq(WsUnit)
  /\ \A op \in {"upgrade", "http"}, m, len \in Nat : <<HeadUnit(op, m, len)>> \in Seq(WsUnit)
  /\ \A p \in Piece : <<BodyUnit(p)>> \in Seq(WsUnit)
  /\ <<PartUnit>> \in Seq(WsUnit)
  /\ NoPiece \in Piece
<1>1. \A op \in Opcode \cup {"cont", "ping", "close"}, fin \in BOOLEAN, p \in Piece :
        FrameUnit(op, fin, p) \in WsUnit
  BY DEF FrameUnit, WsUnit
<1>2. \A op \in {"upgrade", "http"}, m, len \in Nat : HeadUnit(op, m, len) \in WsUnit
  BY DEF HeadUnit, WsUnit, Piece
<1>3. NoPiece \in Piece
  BY DEF NoPiece, Piece
<1>4. PartUnit \in WsUnit /\ \A p \in Piece : BodyUnit(p) \in WsUnit
  BY <1>3 DEF PartUnit, BodyUnit, WsUnit
<1> QED BY <1>1, <1>2, <1>3, <1>4, Sequences

\* connect(), the handshake, the close, and units that belong to no message.
LEMMA PlainTypes ==
  ASSUME WsTypes, NEW fd \in Fds,
         \/ PeerConnect(fd) \/ PeerUpgrade(fd) \/ PeerOther(fd) \/ PeerPart(fd)
         \/ \E hup \in BOOLEAN : PeerClose(fd, hup)
  PROVE  \E t : PeerLeaves(fd, t)
<1>0. /\ sock \in [Fds -> WsSocket] /\ sock[fd] \in WsSocket /\ ready \subseteq Fds
      /\ connects \in Nat /\ begun \in Nat
      /\ sock[fd].up = "http" =>
           sock[fd].sent # <<>> /\ sock[fd].owed < Len(sock[fd].sent[1].data)
  BY DEF WsTypes, WsTypeOK, PeerTypeOK, OwedTypeOK
<1>1. CASE PeerConnect(fd)
  <2> DEFINE t == [FreeWsSock EXCEPT !.st = "backlog"]
  <2>1. t \in WsSocket /\ t.up = "no"
    BY FreeSocketType, SocketUpdates DEF FreeWsSock
  <2>2. sock' = [sock EXCEPT ![fd] = t]
    BY <1>1 DEF PeerConnect
  <2> HIDE DEF t
  <2>3. ready' \subseteq Fds /\ connects' \in Nat /\ begun' \in Nat
    BY <1>0, <1>1 DEF PeerConnect
  <2>4. PeerLeaves(fd, t)
    BY <2>1, <2>2, <2>3 DEF PeerLeaves
  <2> QED BY <2>4
<1>2. CASE PeerUpgrade(fd)
  <2>1. [sock[fd] EXCEPT !.up = "asked"] \in WsSocket
    BY <1>0, SocketUpdates
  <2>2. [sock[fd] EXCEPT !.up = "asked"].up = "asked"
    BY <1>0 DEF WsSocket
  <2> QED BY <1>0, <1>2, <2>1, <2>2, UnitTypes, SendUnits DEF PeerUpgrade
<1>3. CASE PeerOther(fd)
  <2>1. [sock[fd] EXCEPT !.up = "left"] \in WsSocket
    BY <1>0, SocketUpdates
  <2>2. [sock[fd] EXCEPT !.up = "left"].up = "left"
    BY <1>0 DEF WsSocket
  <2>3. /\ <<FrameUnit("ping", TRUE, NoPiece)>> \in Seq(WsUnit)
        /\ <<FrameUnit("close", TRUE, NoPiece)>> \in Seq(WsUnit)
        /\ <<FrameUnit("cont", TRUE, NoPiece)>> \in Seq(WsUnit)
    BY UnitTypes
  <2>4. begun' \in Nat
    BY <1>0, <1>3 DEF PeerOther
  <2>5. CASE Send(fd, sock[fd], <<FrameUnit("ping", TRUE, NoPiece)>>)
    BY <1>0, <2>3, <2>4, <2>5, SendUnits
  <2>6. CASE \/ Send(fd, [sock[fd] EXCEPT !.up = "left"], <<FrameUnit("close", TRUE, NoPiece)>>)
             \/ Send(fd, [sock[fd] EXCEPT !.up = "left"], <<FrameUnit("cont", TRUE, NoPiece)>>)
    <3> DEFINE s == [sock[fd] EXCEPT !.up = "left"]
    <3>1. s \in WsSocket /\ s.up = "left"
      BY <2>1, <2>2
    <3>2. \/ Send(fd, s, <<FrameUnit("close", TRUE, NoPiece)>>)
          \/ Send(fd, s, <<FrameUnit("cont", TRUE, NoPiece)>>)
      BY <2>6
    <3> HIDE DEF s
    <3> QED BY <2>3, <2>4, <3>1, <3>2, SendUnits
  <2> QED BY <1>3, <2>5, <2>6 DEF PeerOther
<1>4. CASE PeerPart(fd)
  BY <1>0, <1>4, UnitTypes, SendUnits DEF PeerPart
<1>5. ASSUME NEW hup \in BOOLEAN, PeerClose(fd, hup)
      PROVE  \E t : PeerLeaves(fd, t)
  <2> DEFINE t == [sock[fd] EXCEPT !.eof = TRUE, !.hup = hup, !.tx = <<>>]
  <2>1. <<>> \in SentAnswers
    BY Sequences, WsConstantsAssumption DEF SentAnswers
  <2>2. t \in WsSocket
    BY <1>0, <2>1, SocketUpdates
  <2>3. t.up = sock[fd].up /\ t.owed = sock[fd].owed /\ t.sent = sock[fd].sent
    BY <1>0 DEF WsSocket
  <2>4. sock' = [sock EXCEPT ![fd] = t]
    BY <1>5 DEF PeerClose
  <2> HIDE DEF t
  <2>5. PeerLeaves(fd, t)
    BY <1>0, <1>5, <2>2, <2>3, <2>4 DEF PeerClose, PeerLeaves
  <2> QED BY <2>5
<1> QED BY <1>1, <1>2, <1>3, <1>4, <1>5

\* A request head and the pieces of its body.
LEMMA RequestTypes ==
  ASSUME WsTypes, NEW fd \in Fds, PeerBody(fd) \/ \E len \in BodyLens : PeerRequest(fd, len)
  PROVE  \E t : PeerLeaves(fd, t)
<1>0. /\ sock \in [Fds -> WsSocket] /\ sock[fd] \in WsSocket /\ begun \in Nat
      /\ sock[fd].up = "http" =>
           sock[fd].sent # <<>> /\ sock[fd].owed < Len(sock[fd].sent[1].data)
  BY DEF WsTypes, WsTypeOK, PeerTypeOK, OwedTypeOK
<1>1. ASSUME NEW len \in BodyLens, PeerRequest(fd, len)
      PROVE  \E t : PeerLeaves(fd, t)
  <2> DEFINE m == begun + 1
             data == [i \in 1 .. len + 1 |-> <<m, i - 1>>]
             all == Message("http", data)
             s == [sock[fd] EXCEPT !.up = "http", !.owed = len, !.sent = <<all>>]
  <2>1. len \in Nat /\ m \in Nat
    BY <1>0, WsConstantsAssumption
  <2>2. data \in Seq(Piece) /\ Len(data) = len + 1
    <3>1. \A i \in 1 .. len + 1 : <<m, i - 1>> \in Piece
      BY <2>1 DEF Piece
    <3>2. data \in [1 .. len + 1 -> Piece]
      BY <3>1
    <3> QED BY <2>1, <3>2
  <2>3. all \in MessageOf(Opcode \cup {"http"}) /\ all.data = data
    <3> HIDE DEF data
    <3> QED BY <2>2, MessageType DEF Message
  <2> HIDE DEF data, all
  <2>4. <<all>> \in Seq(MessageOf(Opcode \cup {"http"})) /\ <<all>> # <<>> /\ <<all>>[1] = all
    BY <2>3, Sequences
  <2>5. s \in WsSocket
    BY <1>0, <2>1, <2>4, SocketUpdates
  <2>6. s.up = "http" /\ s.owed = len /\ s.sent = <<all>>
    BY <1>0 DEF WsSocket
  <2>7. Send(fd, s, <<HeadUnit("http", m, len)>>) /\ begun' = m
    BY <1>1 DEF PeerRequest, all, data
  <2> HIDE DEF s
  <2>8. s.sent # <<>> /\ s.owed < Len(s.sent[1].data)
    BY <2>1, <2>2, <2>3, <2>4, <2>6
  <2>9. <<HeadUnit("http", m, len)>> \in Seq(WsUnit)
    BY <2>1, UnitTypes
  <2> QED BY <2>1, <2>5, <2>7, <2>8, <2>9, SendUnits
<1>2. CASE PeerBody(fd)
  <2> DEFINE all == sock[fd].sent[1].data
             owed == sock[fd].owed
             s == [sock[fd] EXCEPT !.owed = @ - 1]
             p == all[Len(all) - owed + 1]
  <2>1. /\ sock[fd].up = "http" /\ owed > 0 /\ owed \in Nat /\ owed < Len(all)
        /\ sock[fd].sent \in Seq(MessageOf(Opcode \cup {"http"})) /\ sock[fd].sent # <<>>
    BY <1>0, <1>2 DEF PeerBody, WsSocket
  <2>2. all \in Seq(Piece)
    <3>1. sock[fd].sent[1] \in MessageOf(Opcode \cup {"http"})
      BY <2>1
    <3> QED BY <3>1 DEF MessageOf
  <2>3. p \in Piece
    <3> HIDE DEF all, owed
    <3>1. Len(all) - owed + 1 \in 1 .. Len(all)
      BY <2>1, <2>2, Sequences
    <3> QED BY <2>2, <3>1, Sequences
  <2>4. s \in WsSocket
    <3>1. owed - 1 \in Nat
      BY <2>1
    <3> QED BY <1>0, <3>1, SocketUpdates
  <2>5. s.up = "http" /\ s.owed = owed - 1 /\ s.sent = sock[fd].sent
    BY <1>0, <2>1 DEF WsSocket
  <2>6. Send(fd, s, <<BodyUnit(p)>>) /\ begun' = begun
    BY <1>2 DEF PeerBody
  <2> HIDE DEF s, p, owed
  <2>7. s.sent # <<>> /\ s.owed < Len(s.sent[1].data)
    <3>1. Len(all) \in Nat
      BY <2>2, Sequences
    <3> QED BY <2>1, <2>5, <3>1
  <2>8. <<BodyUnit(p)>> \in Seq(WsUnit)
    BY <2>3, UnitTypes
  <2> QED BY <1>0, <2>4, <2>6, <2>7, <2>8, SendUnits
<1> QED BY <1>1, <1>2

\* Messages, whole or in two fragments.
LEMMA DataTypes ==
  ASSUME WsTypes, NEW fd \in Fds,
         PeerContinue(fd) \/ \E op \in Ops, fin \in BOOLEAN : PeerMessage(fd, op, fin)
  PROVE  \E t : PeerLeaves(fd, t)
<1>0. sock \in [Fds -> WsSocket] /\ sock[fd] \in WsSocket /\ begun \in Nat
  BY DEF WsTypes, WsTypeOK, PeerTypeOK
<1>1. /\ sock[fd].sent \in Seq(MessageOf(Opcode \cup {"http"}))
      /\ sock[fd].open \in MessageOf(Opcode) /\ sock[fd].open.op \in Opcode
      /\ sock[fd].open.data \in Seq(Piece)
  BY <1>0 DEF WsSocket, MessageOf
\* The open message gets new pieces; a whole one joins the sent ones.
<1>2. ASSUME NEW data \in Seq(Piece), NEW sent \in Seq(MessageOf(Opcode \cup {"http"})),
             sock[fd].up = "open"
      PROVE  LET s == [sock[fd] EXCEPT !.sent = sent, !.open.data = data] IN
               s \in WsSocket /\ s.up = "open"
  <2> DEFINE open == [sock[fd].open EXCEPT !.data = data]
             s == [sock[fd] EXCEPT !.sent = sent, !.open = open]
  <2>1. open \in MessageOf(Opcode)
    BY <1>1 DEF MessageOf
  <2>2. s \in WsSocket /\ s.up = "open"
    <3> HIDE DEF open
    <3>1. s \in WsSocket
      BY <1>0, <2>1, SocketUpdates
    <3> QED BY <1>0, <1>2, <3>1 DEF WsSocket
  <2>3. [sock[fd] EXCEPT !.sent = sent, !.open.data = data] = s
    BY <1>0, <1>1 DEF WsSocket, MessageOf
  <2> QED BY <2>2, <2>3
<1>3. ASSUME NEW op \in Ops, NEW fin \in BOOLEAN, PeerMessage(fd, op, fin)
      PROVE  \E t : PeerLeaves(fd, t)
  <2> DEFINE m == begun + 1
             msg == Message(op, <<<<m, 1>>>>)
             sent == Append(sock[fd].sent, msg)
             s == IF fin THEN [sock[fd] EXCEPT !.sent = sent, !.open.data = <<>>]
                         ELSE [sock[fd] EXCEPT !.open = msg]
  <2>1. op \in Opcode /\ m \in Nat /\ <<m, 1>> \in Piece
    BY <1>0, WsConstantsAssumption DEF Opcode, Piece
  <2>2. msg \in MessageOf(Opcode) /\ msg \in MessageOf(Opcode \cup {"http"})
    <3>1. <<<<m, 1>>>> \in Seq(Piece)
      BY <2>1, Sequences
    <3> QED BY <2>1, <3>1, MessageType
  <2>3. sent \in Seq(MessageOf(Opcode \cup {"http"})) /\ <<>> \in Seq(Piece)
    <3> HIDE DEF msg
    <3> QED BY <1>1, <2>2, Sequences
  <2>4. Send(fd, s, <<FrameUnit(op, fin, <<m, 1>>)>>) /\ begun' = m /\ sock[fd].up = "open"
    BY <1>3 DEF PeerMessage
  <2>5. s \in WsSocket /\ s.up = "open"
    <3> HIDE DEF msg, sent
    <3>1. CASE fin
      BY <1>2, <2>3, <2>4, <3>1
    <3>2. CASE ~fin
      <4>1. [sock[fd] EXCEPT !.open = msg] \in WsSocket
        BY <1>0, <2>2, SocketUpdates
      <4>2. [sock[fd] EXCEPT !.open = msg].up = sock[fd].up
        BY <1>0 DEF WsSocket
      <4> QED BY <2>4, <3>2, <4>1, <4>2
    <3> QED BY <3>1, <3>2
  <2>6. <<FrameUnit(op, fin, <<m, 1>>)>> \in Seq(WsUnit)
    BY <2>1, UnitTypes
  <2> HIDE DEF s
  <2> QED BY <2>1, <2>4, <2>5, <2>6, SendUnits
<1>4. CASE PeerContinue(fd)
  <2> DEFINE msg == sock[fd].open
             piece == <<msg.data[1][1], 2>>
             data == Append(msg.data, piece)
             sent == Append(sock[fd].sent, Message(msg.op, data))
             s == [sock[fd] EXCEPT !.sent = sent, !.open.data = <<>>]
  <2>1. msg.data # <<>> /\ sock[fd].up = "open"
    BY <1>4 DEF PeerContinue
  <2>2. piece \in Piece
    <3>1. msg.data[1] \in Piece
      BY <1>1, <2>1
    <3> QED BY <3>1 DEF Piece
  <2>3. data \in Seq(Piece) /\ <<>> \in Seq(Piece)
    <3> HIDE DEF piece, msg
    <3> QED BY <1>1, <2>2, Sequences DEF msg
  <2>4. sent \in Seq(MessageOf(Opcode \cup {"http"}))
    <3> HIDE DEF data
    <3>1. Message(msg.op, data) \in MessageOf(Opcode \cup {"http"})
      BY <1>1, <2>3, MessageType
    <3> QED BY <1>1, <3>1, Sequences
  <2>5. Send(fd, s, <<FrameUnit("cont", TRUE, piece)>>) /\ begun' = begun
    BY <1>4 DEF PeerContinue
  <2>6. s \in WsSocket /\ s.up = "open"
    <3> HIDE DEF sent
    <3> QED BY <1>2, <2>1, <2>3, <2>4
  <2>7. <<FrameUnit("cont", TRUE, piece)>> \in Seq(WsUnit)
    <3> HIDE DEF piece
    <3> QED BY <2>2, UnitTypes
  <2> HIDE DEF s, piece
  <2> QED BY <1>0, <2>5, <2>6, <2>7, SendUnits
<1> QED BY <1>3, <1>4

\* The peer reads all that was sent.
LEMMA ReadTypes ==
  ASSUME WsTypes, NEW fd \in Fds, PeerRead(fd)
  PROVE  \E t : PeerLeaves(fd, t)
<1> DEFINE got == {sock[fd].tx[i] : i \in 1 .. Len(sock[fd].tx)}
           up == IF Message("101", <<>>) \in got THEN "open" ELSE sock[fd].up
           answered == sock[fd].answered \cup {g \in got : g.data # <<>>}
           t == [sock[fd] EXCEPT !.tx = <<>>, !.up = up, !.answered = answered]
<1>0. /\ sock \in [Fds -> WsSocket] /\ sock[fd] \in WsSocket /\ ready \subseteq Fds
      /\ connects \in Nat /\ begun \in Nat
  BY DEF WsTypes, WsTypeOK, PeerTypeOK
<1>1. got \subseteq Answer
  <2>1. sock[fd].tx \in Seq(Answer)
    BY <1>0 DEF WsSocket, SentAnswers
  <2> QED BY <2>1
<1>2. /\ up \in {"no", "asked", "open", "http", "left"} /\ answered \subseteq Answer
      /\ <<>> \in SentAnswers
  <2>1. sock[fd].up \in {"no", "asked", "open", "http", "left"}
    BY <1>0 DEF WsSocket
  <2>2. sock[fd].answered \subseteq Answer
    BY <1>0 DEF WsSocket
  <2>3. <<>> \in SentAnswers
    BY Sequences, WsConstantsAssumption DEF SentAnswers
  <2> HIDE DEF got
  <2> QED BY <1>1, <2>1, <2>2, <2>3
<1>3. t \in WsSocket
  <2> HIDE DEF up, answered
  <2> QED BY <1>0, <1>2, SocketUpdates
<1>4. t.up = up /\ t.owed = sock[fd].owed /\ t.sent = sock[fd].sent
  <2> HIDE DEF up, answered
  <2> QED BY <1>0 DEF WsSocket
<1>5. sock' = [sock EXCEPT ![fd] = t]
  BY DEF PeerRead
<1>6. ready' \subseteq Fds /\ connects' \in Nat /\ begun' \in Nat
  BY <1>0 DEF PeerRead
<1>7. t.up = "http" => t.sent # <<>> /\ t.owed < Len(t.sent[1].data)
  <2> HIDE DEF t, got
  <2> QED BY <1>4 DEF WsTypes, OwedTypeOK
<1>8. PeerLeaves(fd, t)
  <2> HIDE DEF t
  <2> QED BY <1>3, <1>5, <1>6, <1>7 DEF PeerLeaves
<1> QED BY <1>8

\* Whatever peers do.
LEMMA PeerTypes ==
  ASSUME WsTypes, NEW fd \in Fds, Peer(fd)
  PROVE  WsTypes'
<1>1. \E t : PeerLeaves(fd, t)
  BY PlainTypes, RequestTypes, DataTypes, ReadTypes DEF Peer
<1> QED BY <1>1, PeerLeavesTypes DEF Peer

-----------------------------------------------------------------------------

\* WsTypes is inductive.
LEMMA WsTypesNext == WsTypes /\ [WsNext]_wsVars => WsTypes'
<1> SUFFICES ASSUME WsTypes, [WsNext]_wsVars PROVE WsTypes'
  OBVIOUS
<1>1. CASE WsIoThread
  BY <1>1, AcceptTypes, EventTypes, HttpTypes, FrameTypes, FramesDoneTypes, WriteTypes,
     SwapTypes, GiveTypes DEF WsIoThread
<1>2. CASE WsWorkers
  BY <1>2, WorkersTypes
<1>3. CASE FcgiServer
  BY <1>3, FcgiTypes
<1>4. CASE \E fd \in Fds : Peer(fd)
  BY <1>4, PeerTypes
<1>5. CASE UNCHANGED wsVars
  BY <1>5 DEF wsVars, WsTypes, WsTypeOK, PoolTypeOK, Arena, ClientTypeOK, LoopTypeOK,
              WorkerTypeOK, PeerTypeOK, OwedTypeOK
<1> QED BY <1>1, <1>2, <1>3, <1>4, <1>5 DEF WsNext

(***************************************************************************)
(* Whatever its peers send, and however the reads cut it, the server works *)
(* on clients it has, hands only well-formed messages to its callbacks,    *)
(* and drops a client in the handler that marked it closed.                *)
(***************************************************************************)
THEOREM WsTypeCorrect == WsSpec => []WsTypeOK
<1>1. WsTypes => WsTypeOK
  BY DEF WsTypes
<1> QED BY <1>1, InitTypes, WsTypesNext, PTL DEF WsSpec

-----------------------------------------------------------------------------
(* Arenas, the wakeup and the output *)

\* The inductive form of ArenasAreHeld: it also keeps apart the places of the
\* queue, which the set WsTasks does not.
Held ==
  /\ \A a \in Arena : in_use[a] <=>
       \/ a \in fcgi
       \/ \E t \in running : t.arena = a
       \/ \E i \in 1 .. Len(queue) : queue[i].arena = a
  /\ \A t, u \in running : t.arena = u.arena => t = u
  /\ \A i, j \in 1 .. Len(queue) : queue[i].arena = queue[j].arena => i = j
  /\ \A t \in running : /\ t.arena \notin fcgi
                        /\ \A i \in 1 .. Len(queue) : queue[i].arena # t.arena
  /\ \A i \in 1 .. Len(queue) : queue[i].arena \notin fcgi

-----------------------------------------------------------------------------
(* The steps, as the pool and the closures see them *)

Untouched == UNCHANGED <<poolVars, queue, running, fcgi>>

\* A closure with an arena of its own joins the queue.
Scheduled ==
  /\ \E msg : \E a \in Arena : Get(a) /\ queue' = Append(queue, WsTask(a, msg))
  /\ UNCHANGED <<running, fcgi>>

\* Nothing but a message to schedule touches the pool in the IO thread.
LEMMA IoCases ==
  ASSUME WsIoThread
  PROVE  Untouched \/ Scheduled
<1>1. CASE \E fd \in Fds : AcceptClient(fd) \/ ClientEvent(fd)
  BY <1>1 DEF AcceptClient, ClientEvent, Untouched
<1>2. CASE FramesDone \/ DrainStep \/ SwapStep \/ GiveStep \/ WriteStep
  BY <1>2 DEF FramesDone, DrainStep, SwapStep, GiveStep, WriteStep, Untouched
<1>3. ASSUME NEW c, NEW msg, Keep(c) \/ Schedule(c, msg), UNCHANGED <<running, fcgi>>
      PROVE  Untouched \/ Scheduled
  BY <1>3 DEF Keep, Schedule, Untouched, Scheduled
<1>4. CASE HttpStep
  <2>1. \E c, msg : Keep(c) \/ Schedule(c, msg)
    BY <1>4 DEF HttpStep, ScheduleHttp
  <2> QED BY <1>3, <1>4, <2>1 DEF HttpStep
<1>5. CASE FrameStep
  <2> DEFINE f == Head(client[cur].in_buf)
  <2>1. ASSUME Control(f), f.op \in {"close", "ping"} PROVE \E c : Keep(c)
    BY <2>1 DEF Control
  <2>2. ASSUME TextOrBinary(f) \/ Continuation(f) PROVE \E c, msg : Keep(c) \/ Schedule(c, msg)
    <3> HIDE DEF f
    <3> QED BY <2>2 DEF TextOrBinary, Continuation
  <2> QED BY <1>3, <1>5, <2>1, <2>2 DEF FrameStep
<1> QED BY <1>1, <1>2, <1>4, <1>5 DEF WsIoThread

\* Every step: of the IO thread, of a closure, of the other server.
LEMMA WsCases ==
  ASSUME [WsNext]_wsVars
  PROVE  \/ Untouched \/ Scheduled \/ WsTaskStart
         \/ \E t \in running : WsTaskReply(t) \/ WsTaskRelease(t)
         \/ FcgiServer
<1>1. CASE UNCHANGED wsVars
  BY <1>1 DEF wsVars, Untouched
<1>2. CASE \E fd \in Fds : Peer(fd)
  BY <1>2 DEF Peer, Untouched
<1> QED BY <1>1, <1>2, IoCases DEF WsNext, WsWorkers

-----------------------------------------------------------------------------
(* Arenas *)

\* The queue and the running closures, in terms of their types.
LEMMA Places ==
  ASSUME WsTypeOK
  PROVE  /\ queue \in Seq(WsClosure) /\ Len(queue) \in Nat
         /\ \A i \in 1 .. Len(queue) : queue[i] \in WsClosure /\ queue[i].arena \in Arena
         /\ \A t \in running : t \in WsClosure /\ t.arena \in Arena
         /\ in_use \in [Arena -> BOOLEAN] /\ fcgi \subseteq Arena
<1>1. queue \in Seq(WsClosure) /\ running \subseteq WsClosure /\ fcgi \subseteq Arena
  BY DEF WsTypeOK, WorkerTypeOK
<1>2. Len(queue) \in Nat /\ \A i \in 1 .. Len(queue) : queue[i] \in WsClosure
  BY <1>1, Sequences
<1>3. \A t \in WsClosure : t.arena \in Arena
  BY DEF WsClosure
<1> QED BY <1>1, <1>2, <1>3 DEF WsTypeOK, PoolTypeOK

\* Each step keeps the arenas apart.
LEMMA HeldNext ==
  ASSUME WsTypeOK, Held, [WsNext]_wsVars
  PROVE  Held'
<1> DEFINE N == Len(queue)
<1>0. /\ queue \in Seq(WsClosure) /\ N \in Nat
      /\ \A i \in 1 .. N : queue[i] \in WsClosure /\ queue[i].arena \in Arena
      /\ \A t \in running : t \in WsClosure /\ t.arena \in Arena
      /\ in_use \in [Arena -> BOOLEAN] /\ fcgi \subseteq Arena
  BY Places
<1>1. CASE Untouched
  BY <1>1 DEF Untouched, Held, Arena
<1>2. CASE Scheduled
  <2>0. PICK msg : \E a \in Arena : Get(a) /\ queue' = Append(queue, WsTask(a, msg))
    BY <1>2 DEF Scheduled
  <2>1. PICK a \in Arena : Get(a) /\ queue' = Append(queue, WsTask(a, msg))
    BY <2>0
  <2>2. ~in_use[a] /\ in_use' = [in_use EXCEPT ![a] = TRUE]
    BY <2>1 DEF Get, FirstFree, FreeArenas
  <2>3. /\ Len(queue') = N + 1
        /\ \A i \in 1 .. N : queue'[i] = queue[i]
        /\ queue'[N + 1].arena = a
    <3> DEFINE w == WsTask(a, msg)
    <3>1. w.arena = a
      BY DEF WsTask
    <3> HIDE DEF w
    <3> QED BY <1>0, <2>1, <3>1 DEF w
  <2>4. running' = running /\ fcgi' = fcgi
    BY <1>2 DEF Scheduled
  <2>5. /\ a \notin fcgi /\ \A t \in running : t.arena # a
        /\ \A i \in 1 .. N : queue[i].arena # a
    BY <2>2 DEF Held
  <2>6. 1 .. Len(queue') = (1 .. N) \cup {N + 1}
    BY <1>0, <2>3
  <2>7. \A b \in Arena : in_use'[b] <=>
          \/ b \in fcgi'
          \/ \E t \in running' : t.arena = b
          \/ \E i \in 1 .. Len(queue') : queue'[i].arena = b
    <3>1. \A b \in Arena \ {a} : in_use'[b] = in_use[b]
      BY <2>2
    <3>2. in_use'[a] /\ N + 1 \in 1 .. Len(queue')
      BY <1>0, <2>2, <2>6
    <3> HIDE DEF N
    <3> QED BY <2>3, <2>4, <2>6, <3>1, <3>2 DEF Held, N
  <2>8. \A i, j \in 1 .. Len(queue') : queue'[i].arena = queue'[j].arena => i = j
    BY <2>3, <2>5, <2>6 DEF Held
  <2>9. /\ \A t, u \in running' : t.arena = u.arena => t = u
        /\ \A t \in running' : /\ t.arena \notin fcgi'
                               /\ \A i \in 1 .. Len(queue') : queue'[i].arena # t.arena
        /\ \A i \in 1 .. Len(queue') : queue'[i].arena \notin fcgi'
    BY <2>3, <2>4, <2>5, <2>6 DEF Held
  <2> QED BY <2>7, <2>8, <2>9, Zenon DEF Held, Arena
<1>3. CASE WsTaskStart
  <2>1. /\ queue # <<>> /\ N > 0 /\ running' = running \cup {queue[1]}
        /\ Len(queue') = N - 1 /\ \A i \in 1 .. N - 1 : queue'[i] = queue[i + 1]
    BY <1>0, <1>3 DEF WsTaskStart
  <2>2. UNCHANGED <<in_use, fcgi>>
    BY <1>3 DEF WsTaskStart
  <2>3. /\ \A i \in 1 .. Len(queue') : i + 1 \in 1 .. N /\ queue'[i] = queue[i + 1]
        /\ \A i \in 1 .. N : i = 1 \/ (i - 1 \in 1 .. Len(queue') /\ queue'[i - 1] = queue[i])
        /\ 1 \in 1 .. N
    BY <1>0, <2>1
  <2>4. \A a \in Arena : in_use'[a] <=>
          \/ a \in fcgi'
          \/ \E t \in running' : t.arena = a
          \/ \E i \in 1 .. Len(queue') : queue'[i].arena = a
    BY <2>1, <2>2, <2>3 DEF Held
  <2>5. \A t, u \in running' : t.arena = u.arena => t = u
    BY <2>1, <2>3 DEF Held
  <2>6. \A i, j \in 1 .. Len(queue') : queue'[i].arena = queue'[j].arena => i = j
    <3> TAKE i, j \in 1 .. Len(queue')
    <3>1. queue'[i].arena = queue'[j].arena => i + 1 = j + 1
      BY <2>3 DEF Held
    <3>2. i \in Int /\ j \in Int
      BY <1>0, <2>1
    <3> QED BY <3>1, <3>2
  <2>7. \A t \in running' : /\ t.arena \notin fcgi'
                            /\ \A i \in 1 .. Len(queue') : queue'[i].arena # t.arena
    <3> TAKE t \in running'
    <3>1. t.arena \notin fcgi'
      BY <2>1, <2>2, <2>3 DEF Held
    <3>2. ASSUME NEW i \in 1 .. Len(queue') PROVE queue'[i].arena # t.arena
      <4>1. i + 1 \in 1 .. N /\ queue'[i] = queue[i + 1] /\ i + 1 # 1
        BY <1>0, <2>1, <2>3
      <4> QED BY <2>1, <2>3, <4>1 DEF Held
    <3> QED BY <3>1, <3>2
  <2>8. \A i \in 1 .. Len(queue') : queue'[i].arena \notin fcgi'
    BY <2>2, <2>3 DEF Held
  <2> QED BY <2>4, <2>5, <2>6, <2>7, <2>8, Zenon DEF Held, Arena
<1>4. ASSUME NEW t \in running, WsTaskReply(t) PROVE Held'
  <2> DEFINE u == [t EXCEPT !.at = "release"]
  <2>1. u.arena = t.arena
    BY <1>0 DEF WsClosure
  <2>2. /\ running' = (running \ {t}) \cup {u}
        /\ UNCHANGED <<in_use, queue, fcgi>>
    BY <1>4 DEF WsTaskReply
  <2> HIDE DEF u
  <2> QED BY <2>1, <2>2 DEF Held, Arena
<1>5. ASSUME NEW t \in running, WsTaskRelease(t) PROVE Held'
  <2>1. /\ running' = running \ {t} /\ in_use' = [in_use EXCEPT ![t.arena] = FALSE]
        /\ UNCHANGED <<queue, fcgi>>
    BY <1>5 DEF WsTaskRelease, Release
  <2> QED BY <1>0, <2>1 DEF Held, Arena
<1>6. CASE FcgiServer
  <2>1. PICK a \in Arena : FcgiGet(a) \/ FcgiRelease(a)
    BY <1>6 DEF FcgiServer
  <2>2. UNCHANGED <<queue, running>>
    BY <1>6 DEF FcgiServer
  <2>3. CASE FcgiGet(a)
    <3>1. ~in_use[a] /\ in_use' = [in_use EXCEPT ![a] = TRUE] /\ fcgi' = fcgi \cup {a}
      BY <2>3 DEF FcgiGet, Get, FirstFree, FreeArenas
    <3> QED BY <1>0, <2>2, <3>1 DEF Held, Arena
  <2>4. CASE FcgiRelease(a)
    <3>1. a \in fcgi /\ in_use' = [in_use EXCEPT ![a] = FALSE] /\ fcgi' = fcgi \ {a}
      BY <2>4 DEF FcgiRelease, Release
    <3> QED BY <1>0, <2>2, <3>1 DEF Held, Arena
  <2> QED BY <2>1, <2>3, <2>4
<1> QED BY <1>1, <1>2, <1>3, <1>4, <1>5, <1>6, WsCases

(***************************************************************************)
(* An arena that schedule_message or schedule_http took is in the hands of *)
(* exactly one closure until that closure has given it back, whatever      *)
(* happens to the client meanwhile.                                        *)
(***************************************************************************)
THEOREM ArenasHeld == WsSpec => []ArenasAreHeld
<1>1. WsInit => Held
  BY DEF WsInit, PoolInit, Held
<1>2. WsTypeOK /\ Held /\ [WsNext]_wsVars => Held'
  BY HeldNext
<1>3. Held => ArenasAreHeld
  BY DEF Held, ArenasAreHeld, WsTasks
<1> QED BY <1>1, <1>2, <1>3, WsTypeCorrect, PTL DEF WsSpec

-----------------------------------------------------------------------------
(* The pool's counter *)

(***************************************************************************)
(* available_count is the number of free arenas here too: the closures and *)
(* the other server only give back arenas they hold.                       *)
(***************************************************************************)
THEOREM WsAccounting == WsSpec => []PoolAccounting
<1>1. WsInit => PoolAccounting
  BY PoolInitAccounting DEF WsInit
<1>2. WsTypeOK /\ PoolAccounting /\ [WsNext]_wsVars => PoolAccounting'
  <2> SUFFICES ASSUME WsTypeOK, PoolAccounting, [WsNext]_wsVars PROVE PoolAccounting'
    OBVIOUS
  <2>1. PoolTypeOK /\ fcgi \subseteq Arena /\ \A t \in running : t.arena \in Arena
    BY Places DEF WsTypeOK
  <2>2. CASE UNCHANGED poolVars
    BY <2>2 DEF PoolAccounting, FreeArenas, Arena
  <2>3. ASSUME NEW a, Get(a) \/ (a \in Arena /\ Release(a)) PROVE PoolAccounting'
    BY <2>1, <2>3, GetAccounting, ReleaseAccounting
  <2>4. UNCHANGED poolVars \/ \E a : Get(a) \/ (a \in Arena /\ Release(a))
    BY <2>1, WsCases
    DEF Untouched, Scheduled, WsTaskStart, WsTaskReply, WsTaskRelease, FcgiServer,
        FcgiGet, FcgiRelease
  <2> QED BY <2>2, <2>3, <2>4
<1> QED BY <1>1, <1>2, WsTypeCorrect, PTL DEF WsSpec

-----------------------------------------------------------------------------
(* The wakeup *)

(***************************************************************************)
(* An answer in g_pending_frames has the IO thread woken or about to take  *)
(* the list: the eventfd is drained first, and written after each push.    *)
(***************************************************************************)
THEOREM WsWakeup == WsSpec => []WsNoLostWakeup
<1>1. WsInit => WsNoLostWakeup
  BY DEF WsInit, WsNoLostWakeup
<1>2. WsNoLostWakeup /\ [WsNext]_wsVars => WsNoLostWakeup'
  <2> SUFFICES ASSUME WsNoLostWakeup, [WsNext]_wsVars PROVE WsNoLostWakeup'
    OBVIOUS
  <2>1. ASSUME UNCHANGED wsHandBack, pc # "swap" \/ pc' = "swap" PROVE WsNoLostWakeup'
    BY <2>1 DEF WsNoLostWakeup
  <2>2. CASE WsIoThread
    <3>1. CASE \E fd \in Fds : AcceptClient(fd) \/ ClientEvent(fd)
      BY <2>1, <3>1 DEF AcceptClient, ClientEvent
    <3>2. CASE FramesDone \/ WriteStep \/ GiveStep \/ HttpStep \/ FrameStep
      BY <2>1, <3>2 DEF FramesDone, WriteStep, GiveStep, HttpStep, FrameStep
    <3>3. CASE DrainStep
      BY <3>3 DEF DrainStep, WsNoLostWakeup
    <3>4. CASE SwapStep
      BY <3>4 DEF SwapStep, WsNoLostWakeup
    <3> QED BY <2>2, <3>1, <3>2, <3>3, <3>4 DEF WsIoThread
  <2>3. CASE WsWorkers
    BY <2>1, <2>3 DEF WsWorkers, WsTaskStart, WsTaskReply, WsTaskRelease, Push, WsNoLostWakeup
  <2>4. CASE FcgiServer \/ UNCHANGED wsVars
    BY <2>1, <2>4 DEF FcgiServer, wsVars
  <2>5. CASE \E fd \in Fds : Peer(fd)
    BY <2>1, <2>5 DEF Peer
  <2> QED BY <2>2, <2>3, <2>4, <2>5 DEF WsNext
<1> QED BY <1>1, <1>2, PTL DEF WsSpec

-----------------------------------------------------------------------------
(* Unsent output *)

\* Between its handlers a client with output left has EPOLLOUT asked for.
Armed == \A fd \in clients : fd # cur /\ client[fd].out_buf # <<>> => client[fd].epollout

LEMMA ArmedNext == WsTypeOK /\ Armed /\ [WsNext]_wsVars => Armed'
<1> SUFFICES ASSUME WsTypeOK, Armed, [WsNext]_wsVars PROVE Armed'
  OBVIOUS
<1>0. /\ clients \subseteq Fds /\ client \in [Fds -> ClientType]
      /\ cur \in IF pc \in {"wait", "swap", "give"} THEN {NoFd} ELSE clients
      /\ NoFd \notin Fds
  BY WsConstantsAssumption DEF WsTypeOK, ClientTypeOK, LoopTypeOK
<1>1. CASE UNCHANGED <<clients, client, cur>>
  BY <1>1 DEF Armed
\* The handler changes its own client.
<1>2. ASSUME UNCHANGED <<clients, cur>>, \A fd \in clients : fd # cur => client'[fd] = client[fd]
      PROVE  Armed'
  BY <1>2 DEF Armed
<1>3. ASSUME NEW fd \in Fds, AcceptClient(fd) PROVE Armed'
  BY <1>0, <1>3 DEF AcceptClient, NewClient, Armed
<1>4. ASSUME NEW fd \in Fds, ClientEvent(fd) PROVE Armed'
  BY <1>0, <1>4 DEF ClientEvent, Armed
<1>5. ASSUME NEW c, NEW msg, Keep(c) \/ Schedule(c, msg)
      PROVE  \A fd \in clients : fd # cur => client'[fd] = client[fd]
  BY <1>0, <1>5 DEF Keep, Schedule
<1>6. CASE HttpStep
  <2>1. \E c, msg : Keep(c) \/ Schedule(c, msg)
    BY <1>6 DEF HttpStep, ScheduleHttp
  <2> QED BY <1>2, <1>5, <1>6, <2>1 DEF HttpStep
<1>7. CASE FrameStep
  <2> DEFINE f == Head(client[cur].in_buf)
  <2>1. ASSUME Control(f), f.op \in {"close", "ping"} PROVE \E c : Keep(c)
    BY <2>1 DEF Control
  <2>2. ASSUME TextOrBinary(f) \/ Continuation(f) PROVE \E c, msg : Keep(c) \/ Schedule(c, msg)
    <3> HIDE DEF f
    <3> QED BY <2>2 DEF TextOrBinary, Continuation
  <2> QED BY <1>2, <1>5, <1>7, <2>1, <2>2 DEF FrameStep
<1>8. CASE WriteStep
  <2>1. CASE client[cur].closed
    BY <1>0, <1>8, <2>1 DEF WriteStep, CloseClient, Armed
  <2>2. CASE ~client[cur].closed
    <3>1. /\ client'[cur].epollout = (client'[cur].out_buf # <<>>)
          /\ \A fd \in clients : fd # cur => client'[fd] = client[fd]
          /\ clients' = clients
      BY <1>0, <1>8, <2>2 DEF WriteStep, SendAll, ClientType
    <3> QED BY <3>1 DEF Armed
  <2> QED BY <2>1, <2>2
<1>9. CASE GiveStep
  <2> DEFINE g == Head(taken).fd
  <2>1. UNCHANGED <<clients, cur>> /\ cur = NoFd
    BY <1>0, <1>9 DEF GiveStep
  <2>2. CASE UNCHANGED client
    BY <1>1, <2>1, <2>2
  <2>3. CASE g \in clients /\ GiveOut(g, Head(taken).frame)
    <3> HIDE DEF g
    <3>1. \A fd \in clients : client'[fd] = client[fd] \/ client'[fd].epollout
      BY <1>0, <2>3 DEF GiveOut, ClientType
    <3> QED BY <2>1, <3>1 DEF Armed
  <2> QED BY <1>9, <2>2, <2>3 DEF GiveStep
<1>10. CASE FramesDone \/ DrainStep \/ SwapStep \/ WsWorkers \/ FcgiServer \/ UNCHANGED wsVars
  BY <1>1, <1>10 DEF FramesDone, DrainStep, SwapStep, WsWorkers, WsTaskStart, WsTaskReply,
                     WsTaskRelease, FcgiServer, wsVars
<1>11. CASE \E fd \in Fds : Peer(fd)
  BY <1>1, <1>11 DEF Peer
<1> QED BY <1>3, <1>4, <1>6, <1>7, <1>8, <1>9, <1>10, <1>11 DEF WsNext, WsIoThread

(***************************************************************************)
(* Output that send_all or a worker's answer left behind is watched for:   *)
(* each place that leaves some asks for EPOLLOUT, and none takes it back.  *)
(***************************************************************************)
THEOREM WsUnsentArmed == WsSpec => []WsUnsentIsArmed
<1>1. WsInit => Armed
  BY DEF WsInit, Armed
<1>2. WsTypeOK /\ Armed => WsUnsentIsArmed
  BY WsConstantsAssumption DEF WsTypeOK, ClientTypeOK, LoopTypeOK, Armed, WsUnsentIsArmed, WsIdle
<1> QED BY <1>1, <1>2, ArmedNext, WsTypeCorrect, PTL DEF WsSpec

-----------------------------------------------------------------------------
(***************************************************************************)
(* Messages, from the frames that are under way.  A run over the units     *)
(* between a peer and the frame loop starts with what the client has       *)
(* assembled, ends with what the peer has begun, and in each place where a *)
(* message becomes whole that is a message the peer has sent.              *)
(***************************************************************************)
NoMessage == Message("text", <<>>)

Assembled(c) ==
  IF c.assembling THEN Message(c.assemble_opcode, c.assemble_data) ELSE NoMessage

Begun(s) == IF s.open.data = <<>> THEN NoMessage ELSE s.open

IsData(u) == u.k = "frame" /\ u.op \in {"text", "binary", "cont"}

\* Unit u behind the begun message m: what is begun then, whether one became
\* whole, and which.
After(m, u) ==
  IF ~IsData(u) THEN m ELSE IF u.fin THEN NoMessage ELSE Message(u.op, <<u.piece>>)

Completes(m, u) == IsData(u) /\ u.fin /\ (u.op = "cont" => m # NoMessage)

Whole(m, u) ==
  IF u.op = "cont" THEN Message(m.op, Append(m.data, u.piece)) ELSE Message(u.op, <<u.piece>>)

InSent(s, msg) == \E j \in 1 .. Len(s.sent) : s.sent[j] = msg

\* The messages are numbered up to n, in the order they were begun.
Run(A, q, c, s, n) ==
  /\ A[0] = Assembled(c) /\ A[Len(q)] = Begun(s)
  /\ \A i \in 1 .. Len(q) : A[i] = After(A[i - 1], q[i])
  /\ \A i \in 1 .. Len(q) : Completes(A[i - 1], q[i]) =>
       /\ InSent(s, Whole(A[i - 1], q[i]))
       /\ Number(Whole(A[i - 1], q[i])) = q[i].piece[1]
       /\ q[i].piece[1] <= n
       /\ Begun(s) # NoMessage => q[i].piece[1] < Number(s.open)
       /\ \A h \in 1 .. Len(c.handed) : Number(c.handed[h]) < q[i].piece[1]
       /\ \A j \in 1 .. Len(q) : i < j /\ Completes(A[j - 1], q[j]) =>
            q[i].piece[1] < q[j].piece[1]

\* Frames, and at the end perhaps the first bytes of the next.
Frames(q) ==
  \A i \in 1 .. Len(q) :
    /\ q[i].k = "frame" \/ (q[i] = PartUnit /\ i = Len(q))
    /\ IsData(q[i]) /\ q[i].op = "cont" => q[i].fin

\* What the callback got so far.
GotWhole(c, s, n) ==
  /\ \A h \in 1 .. Len(c.handed) :
       /\ c.handed[h].op \in Opcode /\ InSent(s, c.handed[h])
       /\ Number(c.handed[h]) \in 0 .. n
       /\ Begun(s) # NoMessage => Number(c.handed[h]) < Number(s.open)
       /\ \A g \in 1 .. Len(c.handed) : g < h => Number(c.handed[g]) < Number(c.handed[h])
  /\ Begun(s) # NoMessage => Number(s.open) \in 0 .. n

\* Nothing, or the first bytes of a unit.
Parts == {<<>>, <<PartUnit>>}

\* A connection whose handshake is done; the frame loop handles it or not.
Shaken(c, s, handling, n) ==
  LET q == IF handling THEN c.in_buf ELSE s.rx IN
  /\ s.up \in {"asked", "open", "left"}
  /\ c.assembling => c.assemble_data # <<>>
  /\ IF handling THEN s.rx = <<>> ELSE c.in_buf \in Parts
  /\ Frames(q)
  /\ GotWhole(c, s, n)
  /\ \E A : Run(A, q, c, s, n)

-----------------------------------------------------------------------------
(* Before the handshake, and plain HTTP *)

Upgrade(q) == \A i \in 1 .. Len(q) : q[i] = PartUnit \/ (q[i].k = "head" /\ q[i].op = "upgrade")

\* Units of the one request the peer sends.
Request(q, s) ==
  \A i \in 1 .. Len(q) :
    /\ q[i].k \in {"head", "body"} /\ q[i].piece[1] = Number(s.sent[1])
    /\ q[i].k = "head" => q[i].op = "http" /\ q[i].len + 1 = Len(s.sent[1].data)

No101(q) == \A i \in 1 .. Len(q) : q[i].op # "101"

\* A request as its peer meant it.
RequestSent(s) ==
  /\ Len(s.sent) = 1
  /\ \A j \in 1 .. Len(s.sent[1].data) : s.sent[1].data[j][1] = Number(s.sent[1])

RequestGot(msg, s) ==
  /\ msg.op = "http" /\ Len(msg.data) = Len(s.sent[1].data)
  /\ \A j \in 1 .. Len(msg.data) : msg.data[j][1] = Number(msg)

Speaks(c, s) ==
  CASE s.up = "no"    -> /\ c.in_http \in Parts /\ c.in_buf \in Parts /\ s.rx \in Parts
                         /\ c.handed = <<>> /\ s.sent = <<>>
    [] s.up = "asked" -> /\ Upgrade(c.in_http) /\ Upgrade(c.in_buf) /\ Upgrade(s.rx)
                         /\ c.handed = <<>> /\ s.sent = <<>>
    [] s.up = "http"  -> /\ RequestSent(s) /\ Request(s.rx, s)
                         /\ \/ c.in_http \in Parts /\ c.in_buf \in Parts
                            \/ c.in_http \in Parts /\ Request(c.in_buf, s)
                            \/ Request(c.in_http, s) /\ Request(c.in_buf, s)
                         /\ \A h \in 1 .. Len(c.handed) : RequestGot(c.handed[h], s)
    [] OTHER -> FALSE

Unshaken(c, s) ==
  /\ s.up \in {"no", "asked", "http"}
  /\ ~c.assembling /\ s.open.data = <<>>
  /\ No101(c.out_buf) /\ No101(s.tx)
  /\ Speaks(c, s)

Wire(c, s, handling, n) ==
  IF c.handshake_done THEN Shaken(c, s, handling, n) ELSE Unshaken(c, s)

Handling(fd) == pc = "frames" /\ cur = fd

\* The invariant of all connections.
Wired == \A fd \in Fds : Wire(client[fd], sock[fd], Handling(fd), begun)

\* What it needs of the loop: the descriptors it has are those it accepted,
\* it works on what it received, and no handshake is answered for a worker.
Looped ==
  /\ \A fd \in Fds : sock[fd].st = "conn" <=> fd \in clients
  /\ \A fd \in Fds \ clients : client[fd] = NewClient /\ sock[fd].tx = <<>>
  /\ pc = "http" => ~client[cur].handshake_done /\ sock[cur].rx = <<>>
  /\ pc = "frames" => client[cur].handshake_done
  /\ \A i \in 1 .. Len(g_pending_frames) : g_pending_frames[i].frame.op # "101"
  /\ \A i \in 1 .. Len(taken) : taken[i].frame.op # "101"

-----------------------------------------------------------------------------
(* Units joined *)

\* What is joined is made of the two parts, in their order.
LEMMA TogetherIs ==
  ASSUME NEW s \in Seq(WsUnit), NEW t \in Seq(WsUnit)
  PROVE  /\ t = <<>> => Together(s, t) = s
         /\ s \in Parts /\ t # <<>> => Together(s, t) = t
         /\ \A i \in 1 .. Len(Together(s, t)) :
              \/ \E j \in 1 .. Len(s) : Together(s, t)[i] = s[j]
              \/ \E j \in 1 .. Len(t) : Together(s, t)[i] = t[j]
<1>0. Len(s) \in Nat /\ Len(t) \in Nat
  BY Sequences
<1>1. s \o <<>> = s /\ <<>> \o t = t
  OBVIOUS
<1>2. t = <<>> => Together(s, t) = s
  BY <1>1 DEF Together
<1>3. s \in Parts /\ t # <<>> => Together(s, t) = t
  <2>1. CASE s = <<>>
    BY <1>1, <2>1 DEF Together, EndsPart
  <2>2. CASE s = <<PartUnit>>
    <3>1. Len(s) = 1 /\ s[Len(s)].k = "part" /\ s # <<>>
      BY <2>2 DEF PartUnit
    <3>2. SubSeq(s, 1, Len(s) - 1) = <<>>
      BY <3>1
    <3> QED BY <1>1, <3>1, <3>2 DEF Together, EndsPart
  <2> QED BY <2>1, <2>2 DEF Parts
<1>4. ASSUME NEW r \in Seq(WsUnit), \A j \in 1 .. Len(r) : j \in 1 .. Len(s) /\ r[j] = s[j],
             NEW i \in 1 .. Len(r \o t)
      PROVE  \/ \E j \in 1 .. Len(s) : (r \o t)[i] = s[j]
             \/ \E j \in 1 .. Len(t) : (r \o t)[i] = t[j]
  <2>1. Len(r) \in Nat /\ Len(r \o t) = Len(r) + Len(t)
    BY Sequences
  <2>2. CASE i <= Len(r)
    <3>1. (r \o t)[i] = r[i] /\ i \in 1 .. Len(r)
      BY <1>0, <2>1, <2>2
    <3> QED BY <1>4, <3>1
  <2>3. CASE ~(i <= Len(r))
    <3>1. i - Len(r) \in 1 .. Len(t) /\ (r \o t)[i] = t[i - Len(r)]
      BY <1>0, <2>1, <2>3
    <3> QED BY <3>1
  <2> QED BY <2>2, <2>3
<1>5. ASSUME NEW i \in 1 .. Len(Together(s, t))
      PROVE  \/ \E j \in 1 .. Len(s) : Together(s, t)[i] = s[j]
             \/ \E j \in 1 .. Len(t) : Together(s, t)[i] = t[j]
  <2>1. CASE EndsPart(s) /\ t # <<>>
    <3> DEFINE r == SubSeq(s, 1, Len(s) - 1)
    <3>1. r \in Seq(WsUnit) /\ \A j \in 1 .. Len(r) : j \in 1 .. Len(s) /\ r[j] = s[j]
      BY <1>0, <2>1 DEF EndsPart
    <3>2. Together(s, t) = r \o t
      BY <2>1 DEF Together
    <3> HIDE DEF r
    <3> QED BY <1>4, <1>5, <3>1, <3>2
  <2>2. CASE ~(EndsPart(s) /\ t # <<>>)
    <3>1. Together(s, t) = s \o t
      BY <2>2 DEF Together
    <3> QED BY <1>4, <1>5, <3>1
  <2> QED BY <2>1, <2>2
<1> QED BY <1>2, <1>3, <1>5

\* The front of a sequence.
LEMMA FrontIs ==
  ASSUME NEW s \in Seq(WsUnit), NEW n \in Nat, n <= Len(s)
  PROVE  /\ SubSeq(s, 1, n) \in Seq(WsUnit) /\ Len(SubSeq(s, 1, n)) = n
         /\ \A i \in 1 .. n : SubSeq(s, 1, n)[i] = s[i]
OBVIOUS

\* One unit more takes the place of the first bytes of it.
LEMMA TogetherOne ==
  ASSUME NEW q \in Seq(WsUnit), NEW u \in WsUnit
  PROVE  LET n == IF EndsPart(q) THEN Len(q) - 1 ELSE Len(q)
             r == Together(q, <<u>>)
         IN  /\ n \in Nat /\ n <= Len(q)
             /\ r \in Seq(WsUnit) /\ Len(r) = n + 1 /\ r[n + 1] = u
             /\ \A i \in 1 .. n : r[i] = q[i]
<1>1. <<u>> \in Seq(WsUnit) /\ Len(<<u>>) = 1 /\ <<u>>[1] = u /\ <<u>> # <<>> /\ Len(q) \in Nat
  BY Sequences
<1>2. ASSUME NEW p \in Seq(WsUnit)
      PROVE  LET r == p \o <<u>> IN
             /\ Len(p) \in Nat /\ r \in Seq(WsUnit) /\ Len(r) = Len(p) + 1 /\ r[Len(p) + 1] = u
             /\ \A i \in 1 .. Len(p) : r[i] = p[i]
  BY <1>1
<1>3. CASE EndsPart(q)
  <2> DEFINE p == SubSeq(q, 1, Len(q) - 1)
  <2>1. Len(q) - 1 \in Nat
    BY <1>1, <1>3 DEF EndsPart
  <2>2. p \in Seq(WsUnit) /\ Len(p) = Len(q) - 1 /\ \A i \in 1 .. Len(q) - 1 : p[i] = q[i]
    <3> DEFINE m == Len(q) - 1
    <3>1. m \in Nat /\ m <= Len(q)
      BY <1>1, <2>1
    <3> HIDE DEF m
    <3>2. SubSeq(q, 1, m) \in Seq(WsUnit) /\ Len(SubSeq(q, 1, m)) = m
          /\ \A i \in 1 .. m : SubSeq(q, 1, m)[i] = q[i]
      BY <3>1, FrontIs
    <3> QED BY <3>2, Zenon DEF m
  <2>3. Together(q, <<u>>) = p \o <<u>>
    BY <1>1, <1>3 DEF Together
  <2> DEFINE r == Together(q, <<u>>)
  <2> HIDE DEF p
  <2>4. /\ r \in Seq(WsUnit) /\ Len(r) = Len(p) + 1 /\ r[Len(p) + 1] = u
        /\ \A i \in 1 .. Len(p) : r[i] = p[i]
    BY <1>2, <2>2, <2>3
  <2> HIDE DEF r
  <2>5. /\ r \in Seq(WsUnit) /\ Len(r) = (Len(q) - 1) + 1 /\ r[(Len(q) - 1) + 1] = u
        /\ \A i \in 1 .. Len(q) - 1 : r[i] = q[i]
    BY <2>2, <2>4
  <2> QED BY <1>1, <1>3, <2>1, <2>5 DEF r
<1>4. CASE ~EndsPart(q)
  <2>1. Together(q, <<u>>) = q \o <<u>>
    BY <1>4 DEF Together
  <2> QED BY <1>1, <1>2, <1>4, <2>1
<1> QED BY <1>3, <1>4

-----------------------------------------------------------------------------
(* Runs *)

\* A later bound on the numbers is as good.
LEMMA ShakenLater ==
  ASSUME NEW c, NEW s, NEW h, NEW m \in Nat, NEW n \in Nat, m <= n, s.rx \in Seq(WsUnit),
         c.in_buf \in Seq(WsUnit), Shaken(c, s, h, m)
  PROVE  Shaken(c, s, h, n)
<1> DEFINE q == IF h THEN c.in_buf ELSE s.rx
<1>1. PICK A : Run(A, q, c, s, m)
  BY DEF Shaken
<1>2. \A i \in 1 .. Len(q) : q[i].piece[1] \in Nat
  <2>1. q \in Seq(WsUnit)
    OBVIOUS
  <2> QED BY <2>1, Sequences DEF WsUnit, Piece
<1>3. Run(A, q, c, s, n)
  <2> HIDE DEF q
  <2> QED BY <1>1, <1>2 DEF Run
<1>4. GotWhole(c, s, n)
  BY DEF Shaken, GotWhole
<1> QED BY <1>3, <1>4 DEF Shaken

\* What a unit's fields are.
LEMMA UnitFields ==
  ASSUME NEW u \in WsUnit
  PROVE  /\ u.piece \in Piece /\ u.piece[1] \in Nat
         /\ IsData(u) => u.op \in Opcode \cup {"cont"} /\ u.fin \in BOOLEAN
<1>1. u.piece \in Piece
  BY DEF WsUnit
<1>2. IsData(u) => u.op \in Opcode \cup {"cont"} /\ u.fin \in BOOLEAN
  BY DEF WsUnit, IsData, Opcode
<1> QED BY <1>1, <1>2 DEF Piece

\* The peer sends one more unit.
LEMMA SendShaken ==
  ASSUME NEW c \in ClientType, NEW s \in WsSocket, NEW t \in WsSocket, NEW u \in WsUnit,
         NEW n \in Nat, NEW m \in Nat, n <= m, Shaken(c, s, FALSE, n),
         t.up \in {"asked", "open", "left"}, t.rx = Together(s.rx, <<u>>),
         u.k = "frame" \/ u = PartUnit, IsData(u) /\ u.op = "cont" => u.fin,
         \A msg : InSent(s, msg) => InSent(t, msg),
         After(Begun(s), u) = Begun(t),
         Completes(Begun(s), u) =>
           LET w == Whole(Begun(s), u) IN
             /\ InSent(t, w) /\ Number(w) = u.piece[1] /\ u.piece[1] <= m
             /\ u.piece[1] > n \/ (Begun(s) # NoMessage /\ u.piece[1] = Number(s.open)),
         Begun(t) # NoMessage =>
             /\ Number(t.open) \in 0 .. m
             /\ Number(t.open) > n \/ (Begun(s) # NoMessage /\ Number(t.open) = Number(s.open))
  PROVE  Shaken(c, t, FALSE, m)
<1> DEFINE q == s.rx
           r == t.rx
           k == IF EndsPart(q) THEN Len(q) - 1 ELSE Len(q)
<1>0. /\ q \in Seq(WsUnit) /\ r \in Seq(WsUnit) /\ Len(q) \in Nat
      /\ \A i \in 1 .. Len(q) : q[i] \in WsUnit
      /\ Frames(q) /\ GotWhole(c, s, n)
  <2>1. q \in Seq(WsUnit) /\ r \in Seq(WsUnit)
    BY DEF WsSocket
  <2> QED BY <2>1, Sequences DEF Shaken
<1>1. PICK A : Run(A, q, c, s, n)
  BY DEF Shaken
<1>2. /\ k \in Nat /\ k <= Len(q) /\ Len(r) = k + 1 /\ r[k + 1] = u
      /\ \A i \in 1 .. k : r[i] = q[i]
  <2>1. r = Together(q, <<u>>)
    OBVIOUS
  <2> HIDE DEF q, r
  <2>2. LET p == Together(q, <<u>>) IN
          /\ k \in Nat /\ k <= Len(q)
          /\ p \in Seq(WsUnit) /\ Len(p) = k + 1 /\ p[k + 1] = u
          /\ \A i \in 1 .. k : p[i] = q[i]
    BY <1>0, TogetherOne
  <2> HIDE DEF k
  <2> QED BY <2>1, <2>2
<1>3. A[k] = Begun(s) /\ \A i \in 1 .. k : q[i].k = "frame"
  <2>1. CASE EndsPart(q)
    <3>1. Len(q) \in 1 .. Len(q) /\ q[Len(q)].k = "part"
      BY <1>0, <2>1 DEF EndsPart
    <3>2. A[Len(q)] = A[Len(q) - 1]
      BY <1>1, <3>1 DEF Run, After, IsData
    <3>3. \A i \in 1 .. k : q[i].k = "frame"
      BY <1>0, <2>1 DEF Frames
    <3> QED BY <1>1, <2>1, <3>2, <3>3 DEF Run
  <2>2. CASE ~EndsPart(q)
    <3>1. \A i \in 1 .. Len(q) : q[i].k = "frame"
      <4> SUFFICES ASSUME NEW i \in 1 .. Len(q), q[i] = PartUnit, i = Len(q) PROVE FALSE
        BY <1>0 DEF Frames
      <4>1. q[Len(q)].k = "part" /\ q # <<>>
        BY <1>0 DEF PartUnit
      <4> QED BY <2>2, <4>1 DEF EndsPart
    <3> QED BY <1>1, <2>2, <3>1 DEF Run
  <2> QED BY <2>1, <2>2
<1>4. Frames(r)
  <2> HIDE DEF k, q, r
  <2> SUFFICES ASSUME NEW i \in 1 .. k + 1
               PROVE  /\ r[i].k = "frame" \/ (r[i] = PartUnit /\ i = k + 1)
                      /\ IsData(r[i]) /\ r[i].op = "cont" => r[i].fin
    BY <1>2 DEF Frames
  <2>1. CASE i = k + 1
    BY <1>2, <2>1
  <2>2. CASE i # k + 1
    <3>1. i \in 1 .. k /\ i \in 1 .. Len(q) /\ r[i] = q[i]
      BY <1>0, <1>2, <2>2
    <3> QED BY <1>0, <1>3, <3>1 DEF Frames
  <2> QED BY <2>1, <2>2
<1>5. Begun(s) # NoMessage => Number(s.open) \in 0 .. n
  BY <1>0 DEF GotWhole
<1>6. GotWhole(c, t, m)
  BY <1>0, <1>5 DEF GotWhole
<1> DEFINE B == [i \in 0 .. k + 1 |-> IF i = k + 1 THEN Begun(t) ELSE A[i]]
<1>7. /\ \A i \in 0 .. k : B[i] = A[i]
      /\ B[k + 1] = Begun(t)
  BY <1>2
<1> HIDE DEF B, k, q, r
<1>8. u.piece[1] \in Nat /\ \A i \in 1 .. Len(q) : q[i].piece[1] \in Nat
  BY <1>0, UnitFields
<1>9. \A i \in 1 .. k + 1 :
        IF i = k + 1 THEN B[i - 1] = Begun(s) /\ r[i] = u
        ELSE /\ i \in 1 .. k /\ i \in 1 .. Len(q) /\ i - 1 \in 0 .. k
             /\ B[i - 1] = A[i - 1] /\ B[i] = A[i] /\ r[i] = q[i]
  BY <1>0, <1>2, <1>3, <1>7
<1>10. B[0] = Assembled(c) /\ B[Len(r)] = Begun(t)
  BY <1>1, <1>2, <1>7 DEF Run
<1>11. \A i \in 1 .. Len(r) : B[i] = After(B[i - 1], r[i])
  BY <1>1, <1>2, <1>7, <1>9 DEF Run
<1>12. ASSUME NEW i \in 1 .. Len(r), Completes(B[i - 1], r[i])
       PROVE  /\ InSent(t, Whole(B[i - 1], r[i]))
              /\ Number(Whole(B[i - 1], r[i])) = r[i].piece[1]
              /\ r[i].piece[1] <= m
              /\ Begun(t) # NoMessage => r[i].piece[1] < Number(t.open)
              /\ \A h \in 1 .. Len(c.handed) : Number(c.handed[h]) < r[i].piece[1]
              /\ \A j \in 1 .. Len(r) : i < j /\ Completes(B[j - 1], r[j]) =>
                   r[i].piece[1] < r[j].piece[1]
  <2>1. CASE i = k + 1
    <3>1. B[i - 1] = Begun(s) /\ r[i] = u
      BY <1>2, <1>9, <2>1
    <3>2. Begun(t) = NoMessage
      BY <1>12, <3>1 DEF Completes, After
    <3>3. \A h \in 1 .. Len(c.handed) : Number(c.handed[h]) < u.piece[1]
      BY <1>0, <1>8, <1>12, <3>1 DEF GotWhole
    <3>4. \A j \in 1 .. Len(r) : ~(i < j)
      BY <1>2, <2>1
    <3> QED BY <1>12, <3>1, <3>2, <3>3, <3>4
  <2>2. CASE i # k + 1
    <3>1. /\ i \in 1 .. k /\ i \in 1 .. Len(q)
          /\ B[i - 1] = A[i - 1] /\ r[i] = q[i] /\ Completes(A[i - 1], q[i])
      BY <1>2, <1>9, <1>12, <2>2
    <3>2. /\ InSent(s, Whole(A[i - 1], q[i]))
          /\ Number(Whole(A[i - 1], q[i])) = q[i].piece[1]
          /\ q[i].piece[1] <= n
          /\ Begun(s) # NoMessage => q[i].piece[1] < Number(s.open)
          /\ \A h \in 1 .. Len(c.handed) : Number(c.handed[h]) < q[i].piece[1]
          /\ \A j \in 1 .. Len(q) : i < j /\ Completes(A[j - 1], q[j]) =>
               q[i].piece[1] < q[j].piece[1]
      BY <1>1, <3>1 DEF Run
    <3>3. Begun(t) # NoMessage => q[i].piece[1] < Number(t.open)
      BY <1>5, <1>8, <3>1, <3>2
    <3>4. ASSUME NEW j \in 1 .. Len(r), i < j, Completes(B[j - 1], r[j])
          PROVE  q[i].piece[1] < r[j].piece[1]
      <4>1. CASE j = k + 1
        BY <1>2, <1>5, <1>8, <1>9, <3>1, <3>2, <3>4, <4>1
      <4>2. CASE j # k + 1
        <5>1. j \in 1 .. Len(q) /\ B[j - 1] = A[j - 1] /\ r[j] = q[j]
          BY <1>2, <1>9, <4>2
        <5> QED BY <3>2, <3>4, <5>1
      <4> QED BY <4>1, <4>2
    <3>5. q[i].piece[1] <= m
      BY <1>8, <3>1, <3>2
    <3> QED BY <3>1, <3>2, <3>3, <3>4, <3>5
  <2> QED BY <2>1, <2>2
<1>13. Run(B, r, c, t, m)
  BY <1>10, <1>11, <1>12 DEF Run
<1>14. c.in_buf \in Parts /\ (c.assembling => c.assemble_data # <<>>)
  BY DEF Shaken
<1> QED BY <1>4, <1>6, <1>13, <1>14 DEF Shaken, r

\* The frame loop takes a unit.
LEMMA TakeShaken ==
  ASSUME NEW c \in ClientType, NEW d \in ClientType, NEW s \in WsSocket, NEW n \in Nat,
         Shaken(c, s, TRUE, n), c.in_buf # <<>>, NEW u, u = Head(c.in_buf),
         d.in_buf = Tail(c.in_buf), d.assembling => d.assemble_data # <<>>,
         Assembled(d) = After(Assembled(c), u),
         \/ d.handed = c.handed
         \/ /\ Completes(Assembled(c), u)
            /\ d.handed = Append(c.handed, Whole(Assembled(c), u))
  PROVE  Shaken(d, s, TRUE, n)
<1> DEFINE q == c.in_buf
           r == d.in_buf
<1>0. /\ q \in Seq(WsUnit) /\ Len(q) \in Nat /\ Len(q) >= 1 /\ u = q[1] /\ u \in WsUnit
      /\ Len(r) = Len(q) - 1 /\ \A i \in 1 .. Len(r) : r[i] = q[i + 1]
      /\ \A i \in 1 .. Len(q) : q[i] \in WsUnit
      /\ Frames(q) /\ GotWhole(c, s, n)
  <2>1. q \in Seq(WsUnit)
    BY DEF ClientType
  <2>2. q # <<>> /\ r = Tail(q) /\ u = Head(q) /\ Frames(q) /\ GotWhole(c, s, n)
    BY DEF Shaken
  <2> HIDE DEF q, r
  <2>3. /\ Len(q) \in Nat /\ Len(q) >= 1 /\ u = q[1] /\ 1 \in 1 .. Len(q)
        /\ Len(r) = Len(q) - 1 /\ \A i \in 1 .. Len(r) : r[i] = q[i + 1]
    BY <2>1, <2>2
  <2>4. \A i \in 1 .. Len(q) : q[i] \in WsUnit
    BY <2>1, Sequences
  <2> QED BY <2>1, <2>2, <2>3, <2>4
<1>1. PICK A : Run(A, q, c, s, n)
  BY DEF Shaken
<1> DEFINE B == [i \in 0 .. Len(q) - 1 |-> A[i + 1]]
<1>2. \A i \in 0 .. Len(q) - 1 : B[i] = A[i + 1]
  OBVIOUS
<1> HIDE DEF B, q, r
<1>3. \A i \in 1 .. Len(r) :
        /\ i + 1 \in 1 .. Len(q) /\ (i + 1) - 1 = i /\ B[i - 1] = A[i] /\ B[i] = A[i + 1]
        /\ r[i] = q[i + 1]
  <2> TAKE i \in 1 .. Len(r)
  <2>1. i \in 0 .. Len(q) - 1 /\ i - 1 \in 0 .. Len(q) - 1 /\ (i - 1) + 1 = i /\ i + 1 \in 1 .. Len(q)
    BY <1>0
  <2> QED BY <1>0, <1>2, <2>1
<1>4. /\ 1 \in 1 .. Len(q) /\ A[0] = Assembled(c) /\ A[1] = After(A[0], u)
      /\ Completes(A[0], u) =>
           /\ InSent(s, Whole(A[0], u))
           /\ Number(Whole(A[0], u)) = u.piece[1]
           /\ u.piece[1] <= n
           /\ Begun(s) # NoMessage => u.piece[1] < Number(s.open)
           /\ \A h \in 1 .. Len(c.handed) : Number(c.handed[h]) < u.piece[1]
           /\ \A j \in 1 .. Len(q) : 1 < j /\ Completes(A[j - 1], q[j]) =>
                u.piece[1] < q[j].piece[1]
  <2>1. 1 \in 1 .. Len(q) /\ 1 - 1 = 0
    BY <1>0
  <2>2. A[1] = After(A[1 - 1], q[1])
    BY <1>1, <2>1 DEF Run
  <2>3. Completes(A[1 - 1], q[1]) =>
           /\ InSent(s, Whole(A[1 - 1], q[1]))
           /\ Number(Whole(A[1 - 1], q[1])) = q[1].piece[1]
           /\ q[1].piece[1] <= n
           /\ Begun(s) # NoMessage => q[1].piece[1] < Number(s.open)
           /\ \A h \in 1 .. Len(c.handed) : Number(c.handed[h]) < q[1].piece[1]
           /\ \A j \in 1 .. Len(q) : 1 < j /\ Completes(A[j - 1], q[j]) =>
                q[1].piece[1] < q[j].piece[1]
    BY <1>1, <2>1 DEF Run
  <2> QED BY <1>0, <1>1, <2>1, <2>2, <2>3 DEF Run
<1>5. B[0] = Assembled(d) /\ B[Len(r)] = Begun(s)
  <2>1. 0 \in 0 .. Len(q) - 1 /\ Len(r) \in 0 .. Len(q) - 1 /\ 0 + 1 = 1 /\ Len(r) + 1 = Len(q)
    BY <1>0
  <2> QED BY <1>1, <1>2, <1>4, <2>1 DEF Run
<1>6. Frames(r)
  <2> SUFFICES ASSUME NEW i \in 1 .. Len(r)
               PROVE  /\ r[i].k = "frame" \/ (r[i] = PartUnit /\ i = Len(r))
                      /\ IsData(r[i]) /\ r[i].op = "cont" => r[i].fin
    BY DEF Frames
  <2>1. i + 1 \in 1 .. Len(q) /\ r[i] = q[i + 1] /\ (i + 1 = Len(q) => i = Len(r))
    BY <1>0, <1>3
  <2> QED BY <1>0, <2>1 DEF Frames
<1>7. /\ \A i \in 1 .. Len(q) : q[i].piece[1] \in Nat
      /\ u.piece[1] \in Nat
  BY <1>0, UnitFields
<1>8. /\ Len(c.handed) \in Nat
      /\ \/ d.handed = c.handed
         \/ /\ Completes(A[0], u) /\ Len(d.handed) = Len(c.handed) + 1
            /\ \A h \in 1 .. Len(c.handed) : d.handed[h] = c.handed[h]
            /\ d.handed[Len(c.handed) + 1] = Whole(A[0], u)
  <2>1. c.handed \in Seq(MessageOf(Opcode \cup {"http"}))
    BY DEF ClientType
  <2> QED BY <1>4, <2>1
<1>9. ASSUME NEW i \in 1 .. Len(r), Completes(B[i - 1], r[i])
      PROVE  /\ InSent(s, Whole(B[i - 1], r[i]))
             /\ Number(Whole(B[i - 1], r[i])) = r[i].piece[1]
             /\ r[i].piece[1] <= n
             /\ Begun(s) # NoMessage => r[i].piece[1] < Number(s.open)
             /\ \A h \in 1 .. Len(d.handed) : Number(d.handed[h]) < r[i].piece[1]
             /\ \A j \in 1 .. Len(r) : i < j /\ Completes(B[j - 1], r[j]) =>
                  r[i].piece[1] < r[j].piece[1]
  <2> DEFINE k == i + 1
  <2>1. k \in 1 .. Len(q) /\ k - 1 = i /\ 1 < k /\ r[i] = q[k] /\ B[i - 1] = A[k - 1]
    BY <1>0, <1>3
  <2> HIDE DEF k
  <2>2. /\ InSent(s, Whole(A[k - 1], q[k]))
        /\ Number(Whole(A[k - 1], q[k])) = q[k].piece[1]
        /\ q[k].piece[1] <= n
        /\ Begun(s) # NoMessage => q[k].piece[1] < Number(s.open)
        /\ \A h \in 1 .. Len(c.handed) : Number(c.handed[h]) < q[k].piece[1]
        /\ \A j \in 1 .. Len(q) : k < j /\ Completes(A[j - 1], q[j]) =>
             q[k].piece[1] < q[j].piece[1]
    BY <1>1, <1>9, <2>1 DEF Run
  <2>3. \A h \in 1 .. Len(d.handed) : Number(d.handed[h]) < q[k].piece[1]
    <3>1. Completes(A[0], u) => u.piece[1] < q[k].piece[1] /\ Number(Whole(A[0], u)) = u.piece[1]
      BY <1>4, <1>9, <2>1
    <3> QED BY <1>8, <2>2, <3>1
  <2>4. ASSUME NEW j \in 1 .. Len(r), i < j, Completes(B[j - 1], r[j])
        PROVE  q[k].piece[1] < r[j].piece[1]
    <3>1. j + 1 \in 1 .. Len(q) /\ r[j] = q[j + 1] /\ B[j - 1] = A[(j + 1) - 1]
      BY <1>0, <1>3
    <3>2. k < j + 1
      BY <2>1, <2>4
    <3> QED BY <2>2, <2>4, <3>1, <3>2
  <2> QED BY <2>1, <2>2, <2>3, <2>4
<1>10. Run(B, r, d, s, n)
  <2>1. \A i \in 1 .. Len(r) : B[i] = After(B[i - 1], r[i])
    <3> TAKE i \in 1 .. Len(r)
    <3>1. A[i + 1] = After(A[(i + 1) - 1], q[i + 1])
      BY <1>1, <1>3 DEF Run
    <3> QED BY <1>3, <3>1
  <2> QED BY <1>5, <1>9, <2>1 DEF Run
<1>11. GotWhole(d, s, n)
  <2>1. CASE d.handed = c.handed
    BY <1>0, <2>1 DEF GotWhole
  <2>2. CASE d.handed # c.handed
    <3> DEFINE w == Whole(A[0], u)
    <3>1. w.op \in Opcode
      <4>1. Assembled(c).op \in Opcode
        BY DEF Assembled, NoMessage, Message, ClientType, Opcode
      <4>2. u.op \in Opcode \cup {"cont"}
        BY <1>0, <1>8, <2>2, UnitFields DEF Completes
      <4> QED BY <1>4, <4>1, <4>2 DEF Whole, Message
    <3>2. InSent(s, w) /\ Number(w) = u.piece[1] /\ Number(w) \in 0 .. n
          /\ (Begun(s) # NoMessage => Number(w) < Number(s.open))
          /\ \A h \in 1 .. Len(c.handed) : Number(c.handed[h]) < Number(w)
      BY <1>4, <1>7, <1>8, <2>2
    <3> HIDE DEF w
    <3>3. \A h \in 1 .. Len(d.handed) :
            \/ h \in 1 .. Len(c.handed) /\ d.handed[h] = c.handed[h]
            \/ h = Len(c.handed) + 1 /\ d.handed[h] = w
      BY <1>8, <2>2 DEF w
    <3>4. \A h \in 1 .. Len(d.handed) :
            /\ d.handed[h].op \in Opcode /\ InSent(s, d.handed[h])
            /\ Number(d.handed[h]) \in 0 .. n
            /\ Begun(s) # NoMessage => Number(d.handed[h]) < Number(s.open)
      BY <1>0, <3>1, <3>2, <3>3 DEF GotWhole
    <3>5. \A h \in 1 .. Len(d.handed) : \A g \in 1 .. Len(d.handed) :
            g < h => Number(d.handed[g]) < Number(d.handed[h])
      <4> DEFINE k == Len(c.handed)
      <4>1. k \in Nat
        BY <1>8
      <4> SUFFICES ASSUME NEW h \in 1 .. Len(d.handed), NEW g \in 1 .. Len(d.handed), g < h
                   PROVE  Number(d.handed[g]) < Number(d.handed[h])
        OBVIOUS
      <4>2. g \in 1 .. k /\ d.handed[g] = c.handed[g]
        BY <3>3, <4>1
      <4>3. CASE h \in 1 .. k /\ d.handed[h] = c.handed[h]
        BY <1>0, <4>2, <4>3 DEF GotWhole
      <4>4. CASE d.handed[h] = w
        BY <3>2, <4>2, <4>4
      <4> QED BY <3>3, <4>3, <4>4
    <3> QED BY <1>0, <3>4, <3>5 DEF GotWhole
  <2> QED BY <2>1, <2>2
<1>12. s.up \in {"asked", "open", "left"} /\ s.rx = <<>>
  BY DEF Shaken
<1> QED BY <1>6, <1>10, <1>11, <1>12 DEF Shaken, r

-----------------------------------------------------------------------------
(* Steps of one connection *)

\* Output and the peer's progress are no part of it.
LEMMA WireSame ==
  ASSUME NEW c, NEW s, NEW d, NEW t, NEW h, NEW n, Wire(c, s, h, n),
         d.handshake_done = c.handshake_done, d.in_http = c.in_http, d.in_buf = c.in_buf,
         d.assembling = c.assembling, d.assemble_opcode = c.assemble_opcode,
         d.assemble_data = c.assemble_data, d.handed = c.handed,
         t.rx = s.rx, t.open = s.open, t.sent = s.sent,
         t.up = s.up \/ (c.handshake_done /\ t.up = "open"),
         ~c.handshake_done => No101(d.out_buf) /\ No101(t.tx)
  PROVE  Wire(d, t, h, n)
<1>1. CASE c.handshake_done
  <2>1. Assembled(d) = Assembled(c) /\ Begun(t) = Begun(s)
    BY DEF Assembled, Begun
  <2>2. GotWhole(d, t, n)
    BY <1>1, <2>1 DEF Wire, Shaken, GotWhole, InSent
  <2>3. ASSUME NEW A, NEW q, Run(A, q, c, s, n) PROVE Run(A, q, d, t, n)
    BY <2>1, <2>3 DEF Run, InSent
  <2> QED BY <1>1, <2>2, <2>3 DEF Wire, Shaken
<1>2. CASE ~c.handshake_done
  <2>1. Speaks(d, t)
    BY <1>2 DEF Wire, Unshaken, Speaks, RequestSent, RequestGot, Request
  <2> QED BY <1>2, <2>1 DEF Wire, Unshaken
<1> QED BY <1>1, <1>2

\* A step that concerns fd alone.
LEMMA OneWire ==
  ASSUME WsTypes, Wired, NEW fd \in Fds, begun' \in Nat, begun <= begun',
         \A e \in Fds \ {fd} : /\ client'[e] = client[e] /\ sock'[e] = sock[e]
                               /\ Handling(e)' = Handling(e),
         Wire(client'[fd], sock'[fd], Handling(fd)', begun')
  PROVE  Wired'
<1> SUFFICES ASSUME NEW e \in Fds \ {fd}
             PROVE  Wire(client[e], sock[e], Handling(e), begun')
  BY DEF Wired
<1>1. begun \in Nat /\ client[e].in_buf \in Seq(WsUnit) /\ sock[e].rx \in Seq(WsUnit)
  BY DEF WsTypes, WsTypeOK, PeerTypeOK, ClientTypeOK, ClientType, WsSocket
<1>2. Wire(client[e], sock[e], Handling(e), begun)
  BY DEF Wired
<1> QED BY <1>1, <1>2, ShakenLater DEF Wire

\* Handling, Looped and Wired see only these.
LEMMA NoWire ==
  ASSUME Wired, UNCHANGED <<client, sock, begun>>,
         \A fd \in Fds : Handling(fd)' = Handling(fd)
  PROVE  Wired'
BY DEF Wired

\* struct Client and the socket of a new connection.
LEMMA FreshWire ==
  ASSUME NEW s, s.up = "no", s.open.data = <<>>, s.sent = <<>>, s.tx = <<>>, s.rx = <<>>, NEW n, NEW h
  PROVE  Wire(NewClient, s, h, n)
BY DEF Wire, Unshaken, Speaks, NewClient, Parts, No101

LEMMA InitWired == WsInit => Wired /\ Looped
<1>1. FreeWsSock.up = "no" /\ FreeWsSock.open.data = <<>> /\ FreeWsSock.sent = <<>>
      /\ FreeWsSock.tx = <<>> /\ FreeWsSock.rx = <<>> /\ FreeWsSock.st = "free"
  BY DEF FreeWsSock, Message
<1>2. WsInit => Wired
  BY <1>1, FreshWire DEF WsInit, Wired
<1>3. WsInit => Looped
  BY <1>1 DEF WsInit, Looped
<1> QED BY <1>2, <1>3

\* accept(): a connection is as it was in the backlog.
LEMMA AcceptWired ==
  ASSUME WsTypes, Wired, Looped, NEW fd \in Fds, AcceptClient(fd)
  PROVE  Wired' /\ Looped'
<1>0. sock \in [Fds -> WsSocket] /\ sock[fd] \in WsSocket /\ client \in [Fds -> ClientType] /\ begun \in Nat
  BY DEF WsTypes, WsTypeOK, PeerTypeOK, ClientTypeOK
<1>1. client[fd] = NewClient /\ sock[fd].tx = <<>> /\ fd \notin clients
  BY DEF AcceptClient, Looped
<1>2. client' = client
  BY <1>0, <1>1 DEF AcceptClient
<1> DEFINE s == sock[fd]
           t == [s EXCEPT !.st = "conn"]
<1>3. sock' = [sock EXCEPT ![fd] = t]
  BY DEF AcceptClient
<1>4. /\ t.st = "conn" /\ t.tx = s.tx /\ t.rx = s.rx /\ t.up = s.up /\ t.open = s.open
      /\ t.sent = s.sent
  BY <1>0 DEF WsSocket
<1>5. Wire(client[fd], s, Handling(fd), begun)
  BY DEF Wired
<1> HIDE DEF s, t
<1>6. Wire(client[fd], t, Handling(fd), begun)
  <2>1. ~client[fd].handshake_done => No101(client[fd].out_buf) /\ No101(s.tx)
    BY <1>5 DEF Wire, Unshaken
  <2> QED BY <1>4, <1>5, <2>1, WireSame DEF No101
<1>7. Wired'
  <2>1. UNCHANGED <<pc, cur, begun>>
    BY DEF AcceptClient
  <2>2. sock'[fd] = t /\ \A e \in Fds \ {fd} : sock'[e] = sock[e]
    BY <1>0, <1>3
  <2> QED BY <1>0, <1>2, <1>6, <2>1, <2>2, OneWire DEF Handling
<1>8. Looped'
  BY <1>0, <1>1, <1>2, <1>3, <1>4 DEF AcceptClient, Looped
<1> QED BY <1>7, <1>8

\* recv(): all that has come is now with the client.
LEMMA EventWire ==
  ASSUME NEW c \in ClientType, NEW s \in WsSocket, NEW n, Wire(c, s, FALSE, n),
         NEW d, NEW t, NEW h \in BOOLEAN,
         d.handshake_done = c.handshake_done, d.in_http = c.in_http,
         d.in_buf = Together(c.in_buf, s.rx), t.rx = <<>>,
         d.assembling = c.assembling, d.assemble_opcode = c.assemble_opcode,
         d.assemble_data = c.assemble_data, d.handed = c.handed, d.out_buf = c.out_buf,
         t.open = s.open, t.sent = s.sent, t.up = s.up, t.tx = s.tx,
         h => c.handshake_done, ~h /\ c.handshake_done => s.rx = <<>>
  PROVE  Wire(d, t, h, n)
<1>0. /\ c.in_buf \in Seq(WsUnit) /\ s.rx \in Seq(WsUnit)
      /\ s.rx = <<>> => d.in_buf = c.in_buf
      /\ c.in_buf \in Parts /\ s.rx # <<>> => d.in_buf = s.rx
      /\ \A i \in 1 .. Len(d.in_buf) :
              \/ \E j \in 1 .. Len(c.in_buf) : d.in_buf[i] = c.in_buf[j]
              \/ \E j \in 1 .. Len(s.rx) : d.in_buf[i] = s.rx[j]
  <2>1. c.in_buf \in Seq(WsUnit) /\ s.rx \in Seq(WsUnit)
    BY DEF ClientType, WsSocket
  <2> DEFINE r == Together(c.in_buf, s.rx)
  <2>2. /\ s.rx = <<>> => r = c.in_buf
        /\ c.in_buf \in Parts /\ s.rx # <<>> => r = s.rx
        /\ \A i \in 1 .. Len(r) : \/ \E j \in 1 .. Len(c.in_buf) : r[i] = c.in_buf[j]
                                 \/ \E j \in 1 .. Len(s.rx) : r[i] = s.rx[j]
    BY <2>1, TogetherIs
  <2>3. d.in_buf = r
    OBVIOUS
  <2> HIDE DEF r
  <2> QED BY <2>1, <2>2, <2>3
<1>1. CASE c.handshake_done
  <2>1. Assembled(d) = Assembled(c) /\ Begun(t) = Begun(s)
    BY DEF Assembled, Begun
  <2>2. GotWhole(d, t, n)
    BY <1>1, <2>1 DEF Wire, Shaken, GotWhole, InSent
  <2>3. PICK A : Run(A, s.rx, c, s, n)
    BY <1>1 DEF Wire, Shaken
  <2>4. Run(A, s.rx, d, t, n)
    BY <2>1, <2>3 DEF Run, InSent
  <2>5. s.up \in {"asked", "open", "left"} /\ c.in_buf \in Parts /\ Frames(s.rx)
        /\ (c.assembling => c.assemble_data # <<>>)
    BY <1>1 DEF Wire, Shaken
  <2>6. CASE s.rx # <<>>
    <3>1. d.in_buf = s.rx /\ h
      BY <1>0, <1>1, <2>5, <2>6
    <3> QED BY <1>1, <2>2, <2>4, <2>5, <3>1 DEF Wire, Shaken
  <2>7. CASE s.rx = <<>>
    <3>1. d.in_buf \in Parts
      BY <1>0, <2>5, <2>7
    <3>2. Frames(d.in_buf) /\ \E B : Run(B, d.in_buf, d, t, n)
      <4>1. A[0] = Assembled(d) /\ A[0] = Begun(t)
        BY <2>4, <2>7 DEF Run
      <4>2. CASE d.in_buf = <<>>
        BY <2>4, <2>7, <4>2 DEF Frames
      <4>3. CASE d.in_buf = <<PartUnit>>
        <5>1. Len(d.in_buf) = 1 /\ d.in_buf[1] = PartUnit /\ 1 .. 1 = {1}
          BY <4>3
        <5>2. ~IsData(PartUnit)
          BY DEF IsData, PartUnit
        <5> DEFINE B == [i \in 0 .. 1 |-> A[0]]
        <5>3. B[0] = A[0] /\ B[1] = A[0] /\ B[1 - 1] = A[0]
          OBVIOUS
        <5> HIDE DEF B
        <5>4. Run(B, d.in_buf, d, t, n)
          BY <4>1, <5>1, <5>2, <5>3 DEF Run, After, Completes
        <5>5. Frames(d.in_buf)
          BY <5>1, <5>2 DEF Frames
        <5> QED BY <5>4, <5>5
      <4> QED BY <3>1, <4>2, <4>3 DEF Parts
    <3>3. Frames(t.rx)
      BY DEF Frames
    <3> QED BY <1>1, <2>2, <2>4, <2>5, <2>7, <3>1, <3>2, <3>3 DEF Wire, Shaken
  <2> QED BY <2>6, <2>7
<1>2. CASE ~c.handshake_done
  <2>1. Unshaken(c, s) /\ Speaks(c, s)
    BY <1>2 DEF Wire, Unshaken
  <2>2. CASE s.up = "no"
    <3>1. d.in_buf \in Parts /\ t.rx \in Parts
      BY <1>0, <2>1, <2>2 DEF Speaks, Parts
    <3> QED BY <1>2, <2>1, <2>2, <3>1 DEF Wire, Unshaken, Speaks
  <2>3. CASE s.up = "asked"
    <3>1. Upgrade(d.in_buf) /\ Upgrade(t.rx)
      BY <1>0, <2>1, <2>3 DEF Speaks, Upgrade
    <3> QED BY <1>2, <2>1, <2>3, <3>1 DEF Wire, Unshaken, Speaks
  <2>4. CASE s.up = "http"
    <3>1. \A q : Request(q, t) <=> Request(q, s)
      BY DEF Request
    <3>2. Request(t.rx, t)
      BY DEF Request
    <3>3. \/ c.in_http \in Parts /\ c.in_buf \in Parts
          \/ c.in_http \in Parts /\ Request(c.in_buf, s)
          \/ Request(c.in_http, s) /\ Request(c.in_buf, s)
      BY <2>1, <2>4 DEF Speaks
    <3>4. Request(s.rx, s) /\ RequestSent(s) /\ \A i \in 1 .. Len(c.handed) : RequestGot(c.handed[i], s)
      BY <2>1, <2>4 DEF Speaks
    <3>5. Request(c.in_buf, s) => Request(d.in_buf, s)
      BY <1>0, <3>4 DEF Request
    <3>6. c.in_buf \in Parts => d.in_buf \in Parts \/ Request(d.in_buf, s)
      BY <1>0, <3>4
    <3>7. RequestSent(t) /\ \A i \in 1 .. Len(d.handed) : RequestGot(d.handed[i], t)
      BY <3>4 DEF RequestSent, RequestGot
    <3>8. Speaks(d, t)
      BY <2>4, <3>1, <3>2, <3>3, <3>5, <3>6, <3>7 DEF Speaks
    <3> QED BY <1>2, <2>1, <3>8 DEF Wire, Unshaken
  <2> QED BY <2>1, <2>2, <2>3, <2>4 DEF Unshaken
<1> QED BY <1>1, <1>2

LEMMA EventWired ==
  ASSUME WsTypes, Wired, Looped, NEW fd \in Fds, ClientEvent(fd)
  PROVE  Wired' /\ Looped'
<1> DEFINE c == client[fd]
           s == sock[fd]
           d == [c EXCEPT !.closed = @ \/ s.hup \/ s.eof, !.in_buf = Together(@, s.rx)]
           t == [s EXCEPT !.rx = <<>>]
<1>0. /\ sock \in [Fds -> WsSocket] /\ s \in WsSocket /\ client \in [Fds -> ClientType]
      /\ c \in ClientType /\ begun \in Nat /\ pc = "wait" /\ fd \in clients
      /\ cur = NoFd /\ NoFd \notin Fds
  BY WsConstantsAssumption
  DEF WsTypes, WsTypeOK, PeerTypeOK, ClientTypeOK, LoopTypeOK, ClientEvent
<1>1. client' = [client EXCEPT ![fd] = d] /\ sock' = [sock EXCEPT ![fd] = t]
  BY DEF ClientEvent
<1>2. /\ d.handshake_done = c.handshake_done /\ d.in_http = c.in_http
      /\ d.in_buf = Together(c.in_buf, s.rx)
      /\ d.assembling = c.assembling /\ d.assemble_opcode = c.assemble_opcode
      /\ d.assemble_data = c.assemble_data /\ d.handed = c.handed /\ d.out_buf = c.out_buf
  BY <1>0 DEF ClientType
<1>3. /\ t.rx = <<>> /\ t.open = s.open /\ t.sent = s.sent /\ t.up = s.up /\ t.tx = s.tx
      /\ t.st = s.st
  BY <1>0 DEF WsSocket
<1>4. Wire(c, s, FALSE, begun)
  BY <1>0 DEF Wired, Handling
<1>5. /\ pc' = IF ~Readable(fd) THEN "write" ELSE IF c.handshake_done THEN "frames" ELSE "http"
      /\ cur' = fd /\ begun' = begun /\ clients' = clients /\ g_pending_frames' = g_pending_frames
      /\ taken' = taken
  BY DEF ClientEvent
<1> HIDE DEF c, s, d, t
<1>6. /\ Handling(fd)' => c.handshake_done
      /\ ~Handling(fd)' /\ c.handshake_done => s.rx = <<>>
      /\ Handling(fd)' \in BOOLEAN
      /\ \A e \in Fds \ {fd} : Handling(e)' = Handling(e)
  BY <1>0, <1>5 DEF Handling, Readable, s
<1>7. Wire(d, t, Handling(fd)', begun)
  BY <1>0, <1>2, <1>3, <1>4, <1>6, EventWire
<1>8. /\ client'[fd] = d /\ sock'[fd] = t
      /\ \A e \in Fds \ {fd} : client'[e] = client[e] /\ sock'[e] = sock[e]
  BY <1>0, <1>1
<1>9. Wired'
  BY <1>0, <1>5, <1>6, <1>7, <1>8, OneWire
<1>10. Looped'
  BY <1>0, <1>2, <1>3, <1>5, <1>8 DEF Looped, c, s
<1> QED BY <1>9, <1>10

-----------------------------------------------------------------------------
(* Heads and bodies *)

\* What has been read of a client without a handshake, put together.
LEMMA ReadText ==
  ASSUME NEW c \in ClientType, NEW s \in WsSocket, Unshaken(c, s),
         NEW text, text = Together(c.in_http, c.in_buf)
  PROVE  /\ text \in Seq(WsUnit)
         /\ s.up = "no" => text \in Parts
         /\ s.up = "asked" => Upgrade(text)
         /\ s.up = "http" => text \in Parts \/ Request(text, s)
<1>0. c.in_http \in Seq(WsUnit) /\ c.in_buf \in Seq(WsUnit)
  BY DEF ClientType
<1> DEFINE a == c.in_http
           b == c.in_buf
<1> HIDE DEF a, b
<1>1. /\ text \in Seq(WsUnit)
      /\ b = <<>> => text = a
      /\ a \in Parts /\ b # <<>> => text = b
      /\ \A i \in 1 .. Len(text) : \/ \E j \in 1 .. Len(a) : text[i] = a[j]
                                   \/ \E j \in 1 .. Len(b) : text[i] = b[j]
  <2> DEFINE r == Together(a, b)
  <2>1. /\ r \in Seq(WsUnit)
        /\ b = <<>> => r = a
        /\ a \in Parts /\ b # <<>> => r = b
        /\ \A i \in 1 .. Len(r) : \/ \E j \in 1 .. Len(a) : r[i] = a[j]
                                  \/ \E j \in 1 .. Len(b) : r[i] = b[j]
    BY <1>0, TogetherIs, TogetherType DEF a, b
  <2>2. text = r
    BY DEF a, b
  <2> HIDE DEF r
  <2> QED BY <2>1, <2>2
<1>2. Speaks(c, s)
  BY DEF Unshaken
<1>3. s.up = "no" => text \in Parts
  BY <1>1, <1>2 DEF Speaks, a, b
<1>4. s.up = "asked" => Upgrade(text)
  BY <1>1, <1>2 DEF Speaks, Upgrade, a, b
<1>5. s.up = "http" => text \in Parts \/ Request(text, s)
  <2>1. ASSUME Request(a, s), Request(b, s) PROVE Request(text, s)
    BY <1>1, <2>1 DEF Request
  <2>2. ASSUME s.up = "http"
        PROVE  \/ a \in Parts /\ b \in Parts
               \/ a \in Parts /\ Request(b, s)
               \/ Request(a, s) /\ Request(b, s)
    BY <1>2, <2>2 DEF Speaks, a, b
  <2> QED BY <1>1, <2>1, <2>2
<1> QED BY <1>1, <1>3, <1>4, <1>5

\* A read that leaves the client without a handshake.
LEMMA ReadUnshaken ==
  ASSUME NEW c \in ClientType, NEW s \in WsSocket, Unshaken(c, s), s.rx = <<>>,
         NEW text, text = Together(c.in_http, c.in_buf),
         NEW d, d.in_http = text, d.assembling = c.assembling, d.out_buf = c.out_buf,
         d.in_buf = <<>> \/ (s.up = "http" /\ text \notin Parts /\ Request(d.in_buf, s)),
         \/ d.handed = c.handed
         \/ /\ s.up = "http"
            /\ \E msg : d.handed = Append(c.handed, msg) /\ RequestGot(msg, s)
  PROVE  Unshaken(d, s)
<1>1. /\ s.up = "no" => text \in Parts
      /\ s.up = "asked" => Upgrade(text)
      /\ s.up = "http" => text \in Parts \/ Request(text, s)
  BY ReadText
<1>2. <<>> \in Parts /\ Upgrade(<<>>) /\ Request(<<>>, s)
  BY DEF Parts, Upgrade, Request
<1>3. Speaks(c, s)
  BY DEF Unshaken
<1>4. ASSUME s.up = "http"
      PROVE  \A h \in 1 .. Len(d.handed) : RequestGot(d.handed[h], s)
  <2>1. \A h \in 1 .. Len(c.handed) : RequestGot(c.handed[h], s)
    BY <1>3, <1>4 DEF Speaks
  <2>2. ASSUME NEW msg, d.handed = Append(c.handed, msg), RequestGot(msg, s)
        PROVE  \A h \in 1 .. Len(d.handed) : RequestGot(d.handed[h], s)
    <3>1. c.handed \in Seq(MessageOf(Opcode \cup {"http"}))
      BY DEF ClientType
    <3>2. \A h \in 1 .. Len(d.handed) :
            d.handed[h] = msg \/ (h \in 1 .. Len(c.handed) /\ d.handed[h] = c.handed[h])
      BY <2>2, <3>1
    <3> QED BY <2>1, <2>2, <3>2
  <2> QED BY <2>1, <2>2
<1>5. Speaks(d, s)
  <2>1. CASE s.up = "no"
    BY <1>1, <1>2, <1>3, <2>1 DEF Speaks
  <2>2. CASE s.up = "asked"
    BY <1>1, <1>2, <1>3, <2>2 DEF Speaks
  <2>3. CASE s.up = "http"
    BY <1>1, <1>2, <1>3, <1>4, <2>3 DEF Speaks
  <2> QED BY <2>1, <2>2, <2>3 DEF Unshaken
<1> QED BY <1>5 DEF Unshaken

\* The 101 opens a client that got nothing but its head.
LEMMA OpenShaken ==
  ASSUME NEW c, NEW s, Unshaken(c, s), s.rx = <<>>, s.up = "asked", NEW n, NEW d,
         d.handshake_done, d.in_buf = <<>>, d.assembling = c.assembling, d.handed = c.handed
  PROVE  Wire(d, s, FALSE, n)
<1>1. c.handed = <<>> /\ ~c.assembling /\ s.open.data = <<>>
  BY DEF Unshaken, Speaks
<1>2. Begun(s) = NoMessage /\ Assembled(d) = NoMessage
  BY <1>1 DEF Begun, Assembled
<1>3. Len(s.rx) = 0 /\ Len(d.handed) = 0
  BY <1>1
<1>4. Run([i \in {0} |-> NoMessage], s.rx, d, s, n)
  BY <1>2, <1>3 DEF Run
<1>5. GotWhole(d, s, n) /\ Frames(s.rx)
  BY <1>2, <1>3 DEF GotWhole, Frames
<1> QED BY <1>1, <1>4, <1>5 DEF Wire, Shaken, Parts

\* The rest of a sequence.
LEMMA RestIs ==
  ASSUME NEW q \in Seq(WsUnit), NEW n \in Nat, n <= Len(q)
  PROVE  LET r == SubSeq(q, n + 1, Len(q)) IN
         /\ r \in Seq(WsUnit) /\ Len(r) = Len(q) - n
         /\ \A i \in 1 .. Len(r) : i + n \in 1 .. Len(q) /\ r[i] = q[i + n]
<1>1. Len(q) \in Nat
  OBVIOUS
<1>2. CASE n = Len(q)
  BY <1>1, <1>2
<1>3. CASE n # Len(q)
  BY <1>1, <1>3
<1> QED BY <1>2, <1>3

\* One element more in front.
LEMMA OneMore ==
  ASSUME NEW S, NEW e \in S, NEW q \in Seq(S)
  PROVE  /\ <<e>> \o q \in Seq(S) /\ Len(<<e>> \o q) = 1 + Len(q) /\ (<<e>> \o q)[1] = e
         /\ \A i \in 1 .. Len(q) : (<<e>> \o q)[i + 1] = q[i]
OBVIOUS

\* The head found in the text, and the request made of what follows it.
LEMMA HeadFound ==
  ASSUME NEW text \in Seq(WsUnit), NEW s \in WsSocket, RequestSent(s),
         NEW first \in 1 .. Len(text), IsHead(text[first]), text[first].op = "http",
         Request(text, s), NEW rest, rest = SubSeq(text, first + 1, Len(text))
  PROVE  /\ Request(rest, s)
         /\ Len(rest) >= text[first].len =>
              RequestGot(Message(text[first].op,
                                 <<text[first].piece>>
                                   \o [i \in 1 .. text[first].len |-> rest[i].piece]), s)
<1> DEFINE head == text[first]
           N == Number(s.sent[1])
<1>1. /\ Len(text) \in Nat /\ first \in Nat
      /\ head \in WsUnit /\ head.k = "head" /\ head.piece[1] = N
      /\ head.len + 1 = Len(s.sent[1].data)
  BY Sequences DEF Request, IsHead
<1>2. head.len \in Nat /\ head.piece \in Piece
  <2> HIDE DEF head
  <2> QED BY <1>1 DEF WsUnit
<1> HIDE DEF head, N
<1>3. /\ rest \in Seq(WsUnit) /\ Len(rest) \in Nat
      /\ \A i \in 1 .. Len(rest) : i + first \in 1 .. Len(text) /\ rest[i] = text[i + first]
  <2> DEFINE r == SubSeq(text, first + 1, Len(text))
  <2>1. /\ r \in Seq(WsUnit) /\ Len(r) = Len(text) - first
        /\ \A i \in 1 .. Len(r) : i + first \in 1 .. Len(text) /\ r[i] = text[i + first]
    BY <1>1, RestIs
  <2>2. Len(r) \in Nat
    BY <2>1, Sequences
  <2>3. rest = r
    OBVIOUS
  <2> HIDE DEF r
  <2> QED BY <2>1, <2>2, <2>3
<1>4. Request(rest, s)
  BY <1>3 DEF Request
<1>5. ASSUME Len(rest) >= head.len
      PROVE  RequestGot(Message("http", <<head.piece>> \o [i \in 1 .. head.len |-> rest[i].piece]), s)
  <2> DEFINE body == [i \in 1 .. head.len |-> rest[i].piece]
             data == <<head.piece>> \o body
             msg == Message("http", data)
  <2>1. \A i \in 1 .. head.len : rest[i].piece \in Piece /\ rest[i].piece[1] = N
    <3>1. \A i \in 1 .. head.len : i \in 1 .. Len(rest)
      BY <1>2, <1>3, <1>5
    <3>2. \A i \in 1 .. Len(rest) : rest[i].piece[1] = N
      BY <1>4 DEF Request, N
    <3>3. \A i \in 1 .. Len(rest) : rest[i].piece \in Piece
      BY <1>3, UnitFields, Sequences
    <3> QED BY <3>1, <3>2, <3>3
  <2>2. body \in Seq(Piece) /\ Len(body) = head.len /\ \A i \in 1 .. head.len : body[i][1] = N
    <3>1. body \in [1 .. head.len -> Piece]
      BY <2>1
    <3>2. \A i \in 1 .. head.len : body[i] = rest[i].piece
      OBVIOUS
    <3> HIDE DEF body
    <3>3. body \in Seq(Piece) /\ Len(body) = head.len
      BY <1>2, <3>1
    <3> QED BY <2>1, <3>2, <3>3
  <2> HIDE DEF body
  <2>4. data \in Seq(Piece) /\ Len(data) = 1 + head.len /\ data[1] = head.piece
        /\ \A i \in 1 .. head.len : data[i + 1] = body[i]
    <3>1. head.piece \in Piece /\ body \in Seq(Piece)
      BY <1>2, <2>2
    <3>2. /\ data \in Seq(Piece) /\ Len(data) = 1 + Len(body) /\ data[1] = head.piece
          /\ \A i \in 1 .. Len(body) : data[i + 1] = body[i]
      BY <3>1, OneMore
    <3> HIDE DEF data
    <3> QED BY <2>2, <3>2
  <2> HIDE DEF data
  <2>5. \A j \in 1 .. Len(data) : data[j][1] = N
    <3> TAKE j \in 1 .. Len(data)
    <3>1. CASE j = 1
      BY <1>1, <2>4, <3>1
    <3>2. CASE j # 1
      <4>1. j - 1 \in 1 .. head.len /\ (j - 1) + 1 = j
        BY <1>2, <2>4, <3>2
      <4> QED BY <2>2, <2>4, <4>1
    <3> QED BY <3>1, <3>2
  <2>6. msg.op = "http" /\ msg.data = data /\ Number(msg) = N
    BY <1>1, <2>4 DEF Message, Number
  <2>7. Len(data) = Len(s.sent[1].data)
    BY <1>1, <1>2, <2>4
  <2> QED BY <2>5, <2>6, <2>7 DEF RequestGot, data, body
<1> QED BY <1>4, <1>5 DEF head

\* The handler of cur changes its client and goes on.
LEMMA HandlerWired ==
  ASSUME WsTypes, Wired, Looped, cur \in clients, NEW d, client' = [client EXCEPT ![cur] = d],
         UNCHANGED <<clients, cur, taken, wsHandBack, ready, wsPeerVars>>,
         pc \in {"http", "frames"},
         \/ pc' = "write"
         \/ pc' = "frames" /\ pc = "frames" /\ d.handshake_done,
         Wire(d, sock[cur], pc' = "frames", begun)
  PROVE  Wired' /\ Looped'
<1>0. cur \in Fds /\ client \in [Fds -> ClientType] /\ begun \in Nat /\ clients \subseteq Fds
  BY DEF WsTypes, WsTypeOK, ClientTypeOK, PeerTypeOK
<1>1. client'[cur] = d /\ \A e \in Fds \ {cur} : client'[e] = client[e]
  BY <1>0
<1>2. \A e \in Fds \ {cur} : Handling(e)' = Handling(e)
  BY DEF Handling
<1>3. Handling(cur)' = (pc' = "frames")
  BY DEF Handling
<1>4. Wired'
  <2>1. Wire(client'[cur], sock'[cur], Handling(cur)', begun')
    BY <1>1, <1>3
  <2> QED BY <1>0, <1>1, <1>2, <2>1, OneWire
<1>5. Looped'
  BY <1>0, <1>1 DEF Looped
<1> QED BY <1>4, <1>5

LEMMA HttpWired ==
  ASSUME WsTypes, Wired, Looped, HttpStep
  PROVE  Wired' /\ Looped'
<1> DEFINE c == client[cur]
           s == sock[cur]
           text == Together(c.in_http, c.in_buf)
           heads == {i \in 1 .. Len(text) : IsHead(text[i])}
           first == CHOOSE i \in heads : \A j \in heads : i <= j
           rest == SubSeq(text, first + 1, Len(text))
           read == [c EXCEPT !.in_http = text, !.in_buf = <<>>]
           seen == [read EXCEPT !.http_mode = TRUE, !.in_buf = rest,
                                !.http_content_length = text[first].len]
           opened == [read EXCEPT !.handshake_done = TRUE,
                                  !.out_buf = Append(@, Message("101", <<>>))]
           msg == Message(text[first].op,
                          <<text[first].piece>> \o [i \in 1 .. text[first].len |-> rest[i].piece])
           empty == [seen EXCEPT !.in_buf = <<>>]
           with == [empty EXCEPT !.handed = Append(@, msg)]
<1>0. /\ pc = "http" /\ pc' = "write" /\ cur \in clients /\ cur \in Fds /\ c \in ClientType
      /\ s \in WsSocket /\ s.rx = <<>> /\ ~c.handshake_done
      /\ UNCHANGED <<clients, cur, taken, wsHandBack, ready, wsPeerVars>>
  BY DEF HttpStep, WsTypes, WsTypeOK, ClientTypeOK, PeerTypeOK, LoopTypeOK, Looped
<1>1. Unshaken(c, s)
  BY <1>0 DEF Wired, Wire
<1>2. /\ text \in Seq(WsUnit)
      /\ s.up = "no" => text \in Parts
      /\ s.up = "asked" => Upgrade(text)
      /\ s.up = "http" => text \in Parts \/ Request(text, s)
  BY <1>0, <1>1, ReadText
<1>3. \E d : client' = [client EXCEPT ![cur] = d] /\ Wire(d, s, FALSE, begun)
  <2>1. ASSUME heads # {}
        PROVE  first \in 1 .. Len(text) /\ IsHead(text[first]) /\ text \notin Parts
    <3>1. heads \in SUBSET Nat
      BY <1>2, Sequences
    <3>2. \E i \in heads : \A j \in heads : i <= j
      <4> HIDE DEF heads
      <4> QED BY <2>1, <3>1, Least
    <3>3. first \in heads
      <4> HIDE DEF heads
      <4> QED BY <3>2
    <3> HIDE DEF first, text
    <3>4. first \in 1 .. Len(text) /\ IsHead(text[first])
      BY <3>3
    <3>5. text \notin Parts
      BY <3>4 DEF Parts, IsHead, PartUnit
    <3> QED BY <3>4, <3>5
  <2>2. read.handshake_done = FALSE /\ read.in_http = text /\ read.in_buf = <<>>
        /\ read.assembling = c.assembling /\ read.out_buf = c.out_buf /\ read.handed = c.handed
    BY <1>0 DEF ClientType
  <2>3. CASE heads = {} /\ Keep(read)
    <3>1. Unshaken(read, s)
      <4> HIDE DEF read, text, c
      <4>1. text = Together(c.in_http, c.in_buf)
        BY DEF text
      <4> QED BY <1>0, <1>1, <2>2, <4>1, ReadUnshaken
    <3>2. client' = [client EXCEPT ![cur] = read]
      BY <2>3 DEF Keep
    <3> HIDE DEF read
    <3> QED BY <2>2, <3>1, <3>2 DEF Wire
  <2>4. CASE heads # {} /\ text[first].op = "upgrade" /\ Keep(opened)
    <3>1. s.up = "asked"
      <4> HIDE DEF first, text, heads
      <4>1. text \notin Parts /\ first \in 1 .. Len(text) /\ IsHead(text[first])
        BY <2>1, <2>4
      <4>2. ~Request(text, s)
        BY <2>4, <4>1 DEF Request, IsHead
      <4> QED BY <1>1, <1>2, <4>1, <4>2 DEF Unshaken
    <3>2. opened.handshake_done /\ opened.in_buf = <<>> /\ opened.assembling = c.assembling
          /\ opened.handed = c.handed
      <4> HIDE DEF text
      <4> QED BY <1>0 DEF ClientType
    <3>3. client' = [client EXCEPT ![cur] = opened]
      BY <2>4 DEF Keep
    <3> HIDE DEF opened
    <3> QED BY <1>0, <1>1, <3>1, <3>2, <3>3, OpenShaken
  <2>5. CASE /\ heads # {} /\ text[first].op = "http"
             /\ IF Len(rest) >= text[first].len
                  THEN ScheduleHttp(seen, text[first], rest) ELSE Keep(seen)
    <3>1. s.up = "http" /\ Request(text, s)
      <4> HIDE DEF first, text, heads
      <4>1. text \notin Parts /\ first \in 1 .. Len(text) /\ IsHead(text[first])
        BY <2>1, <2>5
      <4>2. ~Upgrade(text)
        BY <2>5, <4>1 DEF Upgrade, IsHead, PartUnit
      <4> QED BY <1>1, <1>2, <4>1, <4>2 DEF Unshaken
    <3>2. Request(rest, s) /\ (Len(rest) >= text[first].len => RequestGot(msg, s))
      <4>1. RequestSent(s)
        BY <1>1, <3>1 DEF Unshaken, Speaks
      <4> HIDE DEF first, text, heads
      <4> QED BY <1>0, <1>2, <2>1, <2>5, <3>1, <4>1, HeadFound
    <3>3. \/ client' = [client EXCEPT ![cur] = seen]
          \/ client' = [client EXCEPT ![cur] = empty]
          \/ client' = [client EXCEPT ![cur] = with] /\ RequestGot(msg, s)
      <4> HIDE DEF first, text, seen
      <4> QED BY <2>5, <3>2 DEF Keep, ScheduleHttp, Schedule
    <3>4. text \notin Parts
      BY <2>1, <2>5
    <3> HIDE DEF msg
    <3>5. /\ seen.handshake_done = FALSE /\ seen.in_http = text /\ seen.in_buf = rest
          /\ seen.assembling = c.assembling /\ seen.out_buf = c.out_buf /\ seen.handed = c.handed
      <4> HIDE DEF text, rest, first
      <4> QED BY <1>0 DEF ClientType
    <3>6. /\ empty.handshake_done = FALSE /\ empty.in_http = text /\ empty.in_buf = <<>>
          /\ empty.assembling = c.assembling /\ empty.out_buf = c.out_buf
          /\ empty.handed = c.handed
      <4> HIDE DEF text, rest, first
      <4> QED BY <1>0 DEF ClientType
    <3>7. /\ with.handshake_done = FALSE /\ with.in_http = text /\ with.in_buf = <<>>
          /\ with.assembling = c.assembling /\ with.out_buf = c.out_buf
          /\ with.handed = Append(c.handed, msg)
      <4> HIDE DEF text, rest, first
      <4> QED BY <1>0 DEF ClientType
    <3> HIDE DEF seen, empty, with, rest, text, c
    <3>8. text = Together(c.in_http, c.in_buf)
      BY DEF text
    <3>9. Unshaken(seen, s)
      BY <1>0, <1>1, <3>1, <3>2, <3>4, <3>5, <3>8, ReadUnshaken
    <3>10. Unshaken(empty, s)
      BY <1>0, <1>1, <3>6, <3>8, ReadUnshaken
    <3>11. RequestGot(msg, s) => Unshaken(with, s)
      BY <1>0, <1>1, <3>1, <3>7, <3>8, ReadUnshaken
    <3> QED BY <3>3, <3>5, <3>6, <3>7, <3>9, <3>10, <3>11 DEF Wire
  <2> QED BY <2>3, <2>4, <2>5 DEF HttpStep
<1> HIDE DEF c
<1>4. PICK d : client' = [client EXCEPT ![cur] = d] /\ Wire(d, s, FALSE, begun)
  BY <1>3
<1>5. Wire(d, sock[cur], pc' = "frames", begun)
  <2>1. (pc' = "frames") = FALSE
    BY <1>0
  <2> QED BY <1>4, <2>1
<1> QED BY <1>0, <1>4, <1>5, HandlerWired

-----------------------------------------------------------------------------
(* Frames *)

\* A frame without a part in a message.
ControlFrame(c, d, u) ==
  /\ d.assembling = c.assembling /\ d.assemble_opcode = c.assemble_opcode
  /\ d.assemble_data = c.assemble_data /\ d.handed = c.handed
  /\ ~IsData(u) \/ (u.op = "cont" /\ ~c.assembling)

\* The first frame of a message that has more.
FirstFrame(c, d, u) ==
  /\ u.op \in Opcode /\ ~u.fin
  /\ d.assembling /\ d.assemble_opcode = u.op /\ d.assemble_data = <<u.piece>>
  /\ d.handed = c.handed

\* The last or only frame of one, which is handed on or dropped.
LastFrame(c, d, u) ==
  /\ ~d.assembling
  /\ \E msg :
       /\ \/ u.op \in Opcode /\ u.fin /\ msg = Message(u.op, <<u.piece>>)
          \/ /\ u.op = "cont" /\ u.fin /\ c.assembling
             /\ msg = Message(c.assemble_opcode, Append(c.assemble_data, u.piece))
       /\ d.handed = c.handed \/ d.handed = Append(c.handed, msg)

\* More of a message, which no peer sends.
MiddleFrame(c, d, u) == u.op = "cont" /\ ~u.fin

\* The frame loop takes a frame in one of these ways.
LEMMA FrameCases ==
  ASSUME WsTypes, FrameStep
  PROVE  LET c == client[cur]
             u == Head(c.in_buf)
         IN  \E d : /\ client' = [client EXCEPT ![cur] = d]
                    /\ d.in_buf = Tail(c.in_buf) /\ d.handshake_done = c.handshake_done
                    /\ \/ ControlFrame(c, d, u) \/ FirstFrame(c, d, u) \/ LastFrame(c, d, u)
                       \/ MiddleFrame(c, d, u)
<1> DEFINE c == client[cur]
           u == Head(c.in_buf)
           tail == Tail(c.in_buf)
           Goal == \E d : /\ client' = [client EXCEPT ![cur] = d]
                    /\ d.in_buf = tail /\ d.handshake_done = c.handshake_done
                    /\ \/ ControlFrame(c, d, u) \/ FirstFrame(c, d, u) \/ LastFrame(c, d, u)
                       \/ MiddleFrame(c, d, u)
<1>0. /\ c \in ClientType /\ cur \in Fds /\ cur \in clients /\ client \in [Fds -> ClientType]
      /\ Shorter \in ClientType /\ FrameThere /\ u.k = "frame"
      /\ u.op \in Opcode \cup {"cont", "ping", "close"} /\ u.fin \in BOOLEAN
  BY FrameTaken DEF FrameStep, FrameThere, WsTypes, WsTypeOK, ClientTypeOK, LoopTypeOK
<1>1. /\ Shorter.in_buf = tail /\ Shorter.handshake_done = c.handshake_done
      /\ Shorter.assembling = c.assembling /\ Shorter.assemble_opcode = c.assemble_opcode
      /\ Shorter.assemble_data = c.assemble_data /\ Shorter.handed = c.handed
  <2> HIDE DEF c
  <2> QED BY <1>0 DEF Shorter, ClientType, c
<1> HIDE DEF c, u, tail
<1>2. ASSUME NEW d \in ClientType, NEW msg, Schedule(d, msg),
             d.in_buf = tail, d.handshake_done = c.handshake_done, ~d.assembling,
             d.handed = c.handed,
             \/ u.op \in Opcode /\ u.fin /\ msg = Message(u.op, <<u.piece>>)
             \/ /\ u.op = "cont" /\ u.fin /\ c.assembling
                /\ msg = Message(c.assemble_opcode, Append(c.assemble_data, u.piece))
      PROVE  Goal
  <2> DEFINE e == [d EXCEPT !.handed = Append(@, msg)]
  <2>1. /\ e.in_buf = tail /\ e.handshake_done = c.handshake_done /\ ~e.assembling
        /\ e.handed = Append(c.handed, msg)
    BY <1>2 DEF ClientType
  <2>2. client' = [client EXCEPT ![cur] = d] \/ client' = [client EXCEPT ![cur] = e]
    BY <1>2 DEF Schedule
  <2> HIDE DEF e
  <2>3. LastFrame(c, d, u) /\ LastFrame(c, e, u)
    BY <1>2, <2>1 DEF LastFrame
  <2> QED BY <1>2, <2>1, <2>2, <2>3
<1>3. ASSUME u.op \in {"close", "ping"}, Control(u)
      PROVE  Goal
  <2> DEFINE d == [Shorter EXCEPT !.closed = TRUE]
             e == [Shorter EXCEPT !.out_buf = Append(@, Message("pong", <<>>))]
  <2>1. client' = [client EXCEPT ![cur] = d] \/ client' = [client EXCEPT ![cur] = e]
    BY <1>3 DEF Control, Keep
  <2>2. \A x \in {d, e} :
          /\ x.in_buf = tail /\ x.handshake_done = c.handshake_done
          /\ x.assembling = c.assembling /\ x.assemble_opcode = c.assemble_opcode
          /\ x.assemble_data = c.assemble_data /\ x.handed = c.handed
    BY <1>0, <1>1 DEF ClientType
  <2> HIDE DEF d, e
  <2>3. \A x \in {d, e} : ControlFrame(c, x, u)
    BY <1>3, <2>2 DEF ControlFrame, IsData
  <2> QED BY <2>1, <2>2, <2>3
<1>4. ASSUME u.op \in {"text", "binary"}, TextOrBinary(u)
      PROVE  Goal
  <2> DEFINE fresh == IF Shorter.assembling
                        THEN [Shorter EXCEPT !.assembling = FALSE, !.assemble_data = <<>>]
                        ELSE Shorter
             d == [fresh EXCEPT !.assembling = TRUE, !.assemble_opcode = u.op,
                                !.assemble_data = <<u.piece>>]
             msg == Message(u.op, <<u.piece>>)
  <2>1. /\ fresh \in ClientType /\ fresh.in_buf = tail /\ fresh.handshake_done = c.handshake_done
        /\ ~fresh.assembling /\ fresh.handed = c.handed
    <3>1. <<>> \in Seq(Piece)
      BY Sequences
    <3>2. fresh \in ClientType
      BY <1>0, <3>1, ClientUpdates
    <3> QED BY <1>0, <1>1, <3>2 DEF ClientType
  <2>2. IF u.fin THEN Schedule(fresh, msg) ELSE client' = [client EXCEPT ![cur] = d]
    BY <1>4 DEF TextOrBinary, Keep
  <2> HIDE DEF fresh
  <2>3. /\ d.in_buf = tail /\ d.handshake_done = c.handshake_done /\ d.handed = c.handed
        /\ d.assembling /\ d.assemble_opcode = u.op /\ d.assemble_data = <<u.piece>>
    BY <2>1 DEF ClientType
  <2> HIDE DEF d, msg
  <2>4. CASE u.fin
    BY <1>2, <1>4, <2>1, <2>2, <2>4 DEF msg, Opcode
  <2>5. CASE ~u.fin
    <3>1. FirstFrame(c, d, u)
      BY <1>4, <2>3, <2>5 DEF FirstFrame, Opcode
    <3> QED BY <2>2, <2>3, <2>5, <3>1
  <2> QED BY <2>4, <2>5
<1>5. ASSUME u.op = "cont", Continuation(u)
      PROVE  Goal
  <2> DEFINE whole == Append(Shorter.assemble_data, u.piece)
             done == [Shorter EXCEPT !.assembling = FALSE, !.assemble_data = <<>>]
             msg == Message(Shorter.assemble_opcode, whole)
             d == [Shorter EXCEPT !.closed = TRUE]
             e == [Shorter EXCEPT !.assemble_data = whole]
  <2>1. IF ~Shorter.assembling THEN client' = [client EXCEPT ![cur] = d]
        ELSE IF u.fin THEN Schedule(done, msg) ELSE client' = [client EXCEPT ![cur] = e]
    BY <1>5 DEF Continuation, Keep
  <2>2. /\ done \in ClientType /\ done.in_buf = tail /\ done.handshake_done = c.handshake_done
        /\ ~done.assembling /\ done.handed = c.handed
    <3>1. <<>> \in Seq(Piece)
      BY Sequences
    <3>2. done \in ClientType
      BY <1>0, <3>1, ClientUpdates
    <3> QED BY <1>0, <1>1, <3>2 DEF ClientType
  <2>3. /\ d.in_buf = tail /\ d.handshake_done = c.handshake_done
        /\ d.assembling = c.assembling /\ d.assemble_opcode = c.assemble_opcode
        /\ d.assemble_data = c.assemble_data /\ d.handed = c.handed
        /\ e.in_buf = tail /\ e.handshake_done = c.handshake_done
    <3> HIDE DEF whole
    <3> QED BY <1>0, <1>1 DEF ClientType
  <2>4. msg = Message(c.assemble_opcode, Append(c.assemble_data, u.piece))
    BY <1>1
  <2> HIDE DEF done, msg, d, e
  <2>5. CASE ~Shorter.assembling
    <3>1. ControlFrame(c, d, u)
      BY <1>1, <1>5, <2>3, <2>5 DEF ControlFrame
    <3> QED BY <2>1, <2>3, <2>5, <3>1
  <2>6. CASE Shorter.assembling /\ u.fin
    BY <1>1, <1>2, <1>5, <2>1, <2>2, <2>4, <2>6
  <2>7. CASE Shorter.assembling /\ ~u.fin
    BY <1>5, <2>1, <2>3, <2>7 DEF MiddleFrame
  <2> QED BY <2>5, <2>6, <2>7
<1>6. Goal
  BY <1>3, <1>4, <1>5 DEF FrameStep, c, u
<1> QED BY <1>6 DEF c, u, tail

LEMMA FrameWired ==
  ASSUME WsTypes, Wired, Looped, FrameStep
  PROVE  Wired' /\ Looped'
<1> DEFINE c == client[cur]
           s == sock[cur]
           u == Head(c.in_buf)
<1>0. /\ c \in ClientType /\ cur \in Fds /\ cur \in clients /\ client \in [Fds -> ClientType]
      /\ s \in WsSocket /\ begun \in Nat /\ c.handshake_done /\ pc = "frames" /\ pc' = pc
      /\ c.in_buf # <<>> /\ u.k = "frame"
      /\ UNCHANGED <<clients, cur, taken, wsHandBack, ready, wsPeerVars>>
  BY DEF FrameStep, FrameThere, WsTypes, WsTypeOK, ClientTypeOK, LoopTypeOK, PeerTypeOK, Looped
<1>1. PICK d : /\ client' = [client EXCEPT ![cur] = d]
               /\ d.in_buf = Tail(c.in_buf) /\ d.handshake_done = c.handshake_done
               /\ \/ ControlFrame(c, d, u) \/ FirstFrame(c, d, u) \/ LastFrame(c, d, u)
                  \/ MiddleFrame(c, d, u)
  BY FrameCases
<1>2. d \in ClientType
  <2>1. client'[cur] \in ClientType
    BY <1>0, FrameTypes DEF WsTypes, WsTypeOK, ClientTypeOK
  <2> QED BY <1>0, <1>1, <2>1
<1>3. Shaken(c, s, TRUE, begun)
  BY <1>0 DEF Wired, Wire, Handling
<1>4. u.k = "frame" /\ u.op \in Opcode \cup {"cont", "ping", "close"}
      /\ (u.op = "cont" => u.fin) /\ c.in_buf \in Seq(WsUnit)
  <2>1. c.in_buf \in Seq(WsUnit) /\ c.in_buf # <<>> /\ Frames(c.in_buf)
    BY <1>0, <1>3 DEF Shaken, ClientType
  <2> HIDE DEF c
  <2>2. 1 \in 1 .. Len(c.in_buf) /\ u = c.in_buf[1]
    BY <2>1
  <2> HIDE DEF u
  <2>3. u.k = "frame" /\ u \in WsUnit
    BY <1>0, <2>1, <2>2, Sequences
  <2>4. u.op \in Opcode \cup {"cont", "ping", "close"}
    BY <2>3 DEF WsUnit
  <2>5. u.op = "cont" => u.fin
    BY <2>1, <2>2, <2>3 DEF Frames, IsData
  <2> QED BY <2>1, <2>3, <2>4, <2>5
<1>5. c.assembling => c.assemble_data # <<>>
  BY <1>3 DEF Shaken
<1> HIDE DEF c, s, u
<1>6. /\ d.assembling => d.assemble_data # <<>>
      /\ Assembled(d) = After(Assembled(c), u)
      /\ \/ d.handed = c.handed
         \/ /\ Completes(Assembled(c), u)
            /\ d.handed = Append(c.handed, Whole(Assembled(c), u))
  <2>1. CASE ControlFrame(c, d, u)
    BY <1>2, <1>4, <1>5, <2>1 DEF ControlFrame, Assembled, After, IsData
  <2>2. CASE FirstFrame(c, d, u)
    BY <1>4, <2>2 DEF FirstFrame, Assembled, After, IsData, Opcode
  <2>3. CASE LastFrame(c, d, u)
    <3>1. Assembled(d) = NoMessage
      BY <2>3 DEF LastFrame, Assembled
    <3>2. PICK msg :
       /\ \/ u.op \in Opcode /\ u.fin /\ msg = Message(u.op, <<u.piece>>)
          \/ /\ u.op = "cont" /\ u.fin /\ c.assembling
             /\ msg = Message(c.assemble_opcode, Append(c.assemble_data, u.piece))
       /\ d.handed = c.handed \/ d.handed = Append(c.handed, msg)
      BY <2>3 DEF LastFrame
    <3>3. CASE u.op \in Opcode /\ u.fin /\ msg = Message(u.op, <<u.piece>>)
      <4>1. Completes(Assembled(c), u) /\ Whole(Assembled(c), u) = msg /\ After(Assembled(c), u) = NoMessage
        BY <1>4, <3>3 DEF Completes, Whole, After, IsData, Opcode
      <4> QED BY <2>3, <3>1, <3>2, <4>1 DEF LastFrame
    <3>4. CASE /\ u.op = "cont" /\ u.fin /\ c.assembling
               /\ msg = Message(c.assemble_opcode, Append(c.assemble_data, u.piece))
      <4>1. Assembled(c) = Message(c.assemble_opcode, c.assemble_data)
        BY <3>4 DEF Assembled
      <4>2. Assembled(c) # NoMessage
        BY <1>5, <3>4, <4>1 DEF NoMessage, Message
      <4>3. Whole(Assembled(c), u) = msg
        BY <3>4, <4>1 DEF Whole, Message
      <4>4. Completes(Assembled(c), u) /\ After(Assembled(c), u) = NoMessage
        BY <1>4, <3>4, <4>2 DEF Completes, After, IsData
      <4> QED BY <2>3, <3>1, <3>2, <4>3, <4>4 DEF LastFrame
    <3> QED BY <3>2, <3>3, <3>4
  <2>4. CASE MiddleFrame(c, d, u)
    BY <1>4, <2>4 DEF MiddleFrame
  <2> QED BY <1>1, <2>1, <2>2, <2>3, <2>4 DEF c, u
<1>7. Shaken(d, s, TRUE, begun)
  <2>1. u = Head(c.in_buf) /\ d.in_buf = Tail(c.in_buf) /\ c \in ClientType /\ s \in WsSocket
        /\ c.in_buf # <<>>
    BY <1>0, <1>1 DEF c, u, s
  <2> QED BY <1>0, <1>2, <1>3, <1>6, <2>1, TakeShaken
<1>8. Wire(d, sock[cur], pc' = "frames", begun)
  <2>1. (pc' = "frames") = TRUE /\ d.handshake_done
    BY <1>0, <1>1 DEF c
  <2> QED BY <1>7, <2>1 DEF Wire, s
<1> QED BY <1>0, <1>1, <1>8, HandlerWired DEF c

\* The frame loop ends with the first bytes of a frame at most.
LEMMA DoneWired ==
  ASSUME WsTypes, Wired, Looped, FramesDone
  PROVE  Wired' /\ Looped'
<1> DEFINE c == client[cur]
           s == sock[cur]
<1>0. /\ c \in ClientType /\ cur \in Fds /\ cur \in clients /\ client \in [Fds -> ClientType]
      /\ s \in WsSocket /\ begun \in Nat /\ c.handshake_done /\ pc = "frames" /\ pc' = "write"
      /\ ~(c.in_buf # <<>> /\ Head(c.in_buf).k = "frame")
      /\ UNCHANGED <<clients, client, cur, taken, wsHandBack, ready, wsPeerVars>>
  BY DEF FramesDone, FrameThere, WsTypes, WsTypeOK, ClientTypeOK, LoopTypeOK, PeerTypeOK, Looped
<1>1. Shaken(c, s, TRUE, begun)
  BY <1>0 DEF Wired, Wire, Handling
<1>2. PICK A : Run(A, c.in_buf, c, s, begun)
  BY <1>1 DEF Shaken
<1>3. c.in_buf \in Seq(WsUnit)
  BY <1>0 DEF ClientType
<1> HIDE DEF c, s
<1>4. c.in_buf \in Parts /\ A[0] = A[Len(c.in_buf)]
  <2>1. CASE c.in_buf = <<>>
    BY <2>1 DEF Parts
  <2>2. CASE c.in_buf # <<>>
    <3>1. 1 \in 1 .. Len(c.in_buf) /\ Head(c.in_buf) = c.in_buf[1] /\ Len(c.in_buf) \in Nat
      BY <1>3, <2>2
    <3>2. c.in_buf[1] = PartUnit /\ 1 = Len(c.in_buf)
      BY <1>0, <1>1, <2>2, <3>1 DEF Shaken, Frames
    <3>3. c.in_buf = <<PartUnit>>
      BY <1>3, <3>1, <3>2
    <3>4. A[1] = After(A[1 - 1], c.in_buf[1])
      BY <1>2, <3>1 DEF Run
    <3>5. A[1] = A[0]
      BY <3>2, <3>4 DEF After, IsData, PartUnit
    <3> QED BY <3>2, <3>3, <3>5 DEF Parts
  <2> QED BY <2>1, <2>2
<1>5. s.rx = <<>>
  BY <1>1 DEF Shaken
<1>6. Run(A, s.rx, c, s, begun) /\ Frames(s.rx)
  <2>1. Len(s.rx) = 0
    BY <1>5
  <2> QED BY <1>2, <1>4, <2>1 DEF Run, Frames
<1>7. Shaken(c, s, FALSE, begun)
  BY <1>1, <1>4, <1>6 DEF Shaken
<1>8. client' = [client EXCEPT ![cur] = c]
  BY <1>0 DEF c
<1>9. Wire(c, sock[cur], pc' = "frames", begun)
  <2>1. (pc' = "frames") = FALSE
    BY <1>0
  <2> QED BY <1>0, <1>7, <2>1 DEF Wire, s
<1> QED BY <1>0, <1>8, <1>9, HandlerWired

-----------------------------------------------------------------------------
(* Output *)

\* Answers are moved, not made.
LEMMA No101Moves ==
  ASSUME NEW p \in Seq(Answer), NEW q \in Seq(Answer), No101(p), No101(q)
  PROVE  /\ No101(p \o q)
         /\ \A a \in Answer : a.op # "101" => No101(Append(p, a))
         /\ \A n \in Nat : n <= Len(p) => No101(SubSeq(p, 1, n)) /\ No101(SubSeq(p, n + 1, Len(p)))
<1>1. Len(p) \in Nat /\ Len(q) \in Nat
  OBVIOUS
<1>2. No101(p \o q)
  <2> SUFFICES ASSUME NEW i \in 1 .. Len(p \o q) PROVE (p \o q)[i].op # "101"
    BY DEF No101
  <2>1. CASE i <= Len(p)
    <3>1. i \in 1 .. Len(p) /\ (p \o q)[i] = p[i]
      BY <1>1, <2>1
    <3> QED BY <3>1 DEF No101
  <2>2. CASE ~(i <= Len(p))
    <3>1. i - Len(p) \in 1 .. Len(q) /\ (p \o q)[i] = q[i - Len(p)]
      BY <1>1, <2>2
    <3> QED BY <3>1 DEF No101
  <2> QED BY <2>1, <2>2
<1>3. ASSUME NEW a \in Answer, a.op # "101" PROVE No101(Append(p, a))
  <2>1. \A i \in 1 .. Len(Append(p, a)) :
          Append(p, a)[i] = a \/ (i \in 1 .. Len(p) /\ Append(p, a)[i] = p[i])
    OBVIOUS
  <2> QED BY <1>3, <2>1 DEF No101
<1>4. ASSUME NEW n \in Nat, n <= Len(p) PROVE No101(SubSeq(p, 1, n))
  <2>1. Len(SubSeq(p, 1, n)) = n /\ \A i \in 1 .. n : i \in 1 .. Len(p) /\ SubSeq(p, 1, n)[i] = p[i]
    BY <1>1, <1>4
  <2> QED BY <2>1 DEF No101
<1>5. ASSUME NEW n \in Nat, n <= Len(p) PROVE No101(SubSeq(p, n + 1, Len(p)))
  <2> DEFINE r == SubSeq(p, n + 1, Len(p))
  <2>1. CASE n = Len(p)
    <3>1. Len(r) = 0
      BY <1>1, <2>1
    <3> QED BY <3>1 DEF No101
  <2>2. CASE n # Len(p)
    <3>1. \A i \in 1 .. Len(r) : i + n \in 1 .. Len(p) /\ r[i] = p[i + n]
      BY <1>1, <1>5, <2>2
    <3> QED BY <3>1 DEF No101
  <2> QED BY <2>1, <2>2
<1> QED BY <1>2, <1>3, <1>4, <1>5

\* A step outside the frame loop that concerns fd alone.
LEMMA OutsideWired ==
  ASSUME WsTypes, Wired, NEW fd \in Fds, NEW d, NEW t, client'[fd] = d, sock'[fd] = t,
         \A e \in Fds \ {fd} : client'[e] = client[e] /\ sock'[e] = sock[e],
         \A e \in Fds : Handling(e) = FALSE /\ Handling(e)' = FALSE,
         begun' \in Nat, begun <= begun', Wire(d, t, FALSE, begun')
  PROVE  Wired'
<1>1. Wire(client'[fd], sock'[fd], Handling(fd)', begun')
  <2>1. Handling(fd)' = FALSE
    OBVIOUS
  <2> QED BY <2>1, Zenon
<1>2. \A e \in Fds \ {fd} : Handling(e)' = Handling(e)
  OBVIOUS
<1> QED BY <1>1, <1>2, OneWire

\* send_all moves output to the socket; a closed client takes all with it.
LEMMA WriteWired ==
  ASSUME WsTypes, Wired, Looped, WriteStep
  PROVE  Wired' /\ Looped'
<1> DEFINE c == client[cur]
           s == sock[cur]
           out == c.out_buf
           left == IF s.hup THEN <<>> ELSE Left(cur)
           part == SubSeq(out, 1, Taken(cur))
           d == [c EXCEPT !.out_buf = left, !.epollout = (left # <<>>)]
           e == [s EXCEPT !.tx = @ \o part]
<1>0. /\ c \in ClientType /\ cur \in Fds /\ cur \in clients /\ client \in [Fds -> ClientType]
      /\ clients \subseteq Fds /\ NoFd \notin Fds
      /\ sock \in [Fds -> WsSocket] /\ s \in WsSocket /\ begun \in Nat
      /\ pc = "write" /\ pc' = "wait" /\ begun' = begun
      /\ UNCHANGED <<taken, g_pending_frames>>
  BY WsConstantsAssumption
  DEF WriteStep, WsTypes, WsTypeOK, ClientTypeOK, LoopTypeOK, PeerTypeOK
<1>1. \A f \in Fds : Handling(f) = FALSE /\ Handling(f)' = FALSE
  BY <1>0 DEF Handling
<1>2. CASE c.closed
  <2>1. /\ clients' = clients \ {cur} /\ client' = [client EXCEPT ![cur] = NewClient]
        /\ sock' = [sock EXCEPT ![cur] = FreeWsSock]
    BY <1>2 DEF WriteStep, CloseClient
  <2>2. FreeWsSock.up = "no" /\ FreeWsSock.open.data = <<>> /\ FreeWsSock.sent = <<>>
        /\ FreeWsSock.tx = <<>> /\ FreeWsSock.rx = <<>> /\ FreeWsSock.st = "free"
    BY DEF FreeWsSock, Message
  <2>3. /\ client'[cur] = NewClient /\ sock'[cur] = FreeWsSock
        /\ \A f \in Fds \ {cur} : client'[f] = client[f] /\ sock'[f] = sock[f]
    BY <1>0, <2>1
  <2>4. Wired'
    <3>1. Wire(NewClient, FreeWsSock, FALSE, begun')
      BY <2>2, FreshWire
    <3>2. begun' \in Nat /\ begun <= begun' /\ begun' = begun
      BY <1>0
    <3> QED BY <1>0, <1>1, <2>3, <3>1, <3>2, OutsideWired, Zenon
  <2>5. Looped'
    <3>1. \A f \in Fds : sock'[f].st = "conn" <=> f \in clients'
      BY <2>1, <2>2, <2>3 DEF Looped
    <3>2. \A f \in Fds \ clients' : client'[f] = NewClient /\ sock'[f].tx = <<>>
      BY <2>1, <2>2, <2>3 DEF Looped
    <3> QED BY <1>0, <3>1, <3>2 DEF Looped
  <2> QED BY <2>4, <2>5
<1>3. CASE ~c.closed
  <2>1. /\ SendAll(cur) /\ clients' = clients
        /\ client' \in [Fds -> ClientType] /\ sock' \in [Fds -> WsSocket]
    BY <1>0, <1>3, SendTypes DEF WriteStep, SendAll
  <2>2. /\ client' = [client EXCEPT ![cur] = d]
        /\ sock' = IF s.eof THEN sock ELSE [sock EXCEPT ![cur] = e]
    BY <2>1 DEF SendAll
  <2>3. /\ d.handshake_done = c.handshake_done /\ d.in_http = c.in_http /\ d.in_buf = c.in_buf
        /\ d.assembling = c.assembling /\ d.assemble_opcode = c.assemble_opcode
        /\ d.assemble_data = c.assemble_data /\ d.handed = c.handed
        /\ d.out_buf = left
    <3> HIDE DEF left
    <3> QED BY <1>0 DEF ClientType
  <2>4. /\ e.rx = s.rx /\ e.open = s.open /\ e.sent = s.sent /\ e.up = s.up /\ e.st = s.st
        /\ e.tx = s.tx \o part
    <3> HIDE DEF part
    <3> QED BY <1>0 DEF WsSocket
  <2>5. out \in Seq(Answer) /\ s.tx \in Seq(Answer) /\ Taken(cur) \in Nat /\ Taken(cur) <= Len(out)
    <3>1. /\ out \in Seq(Answer) /\ s.tx \in Seq(Answer) /\ Len(s.tx) <= SndBuf /\ Len(out) \in Nat
          /\ Len(s.tx) \in Nat /\ SndBuf \in Nat
      BY <1>0, WsConstantsAssumption, Sequences DEF ClientType, WsSocket, SentAnswers
    <3>2. Room(cur) \in Nat
      <4>1. Room(cur) = IF s.eof THEN Len(out) ELSE SndBuf - Len(s.tx)
        BY DEF Room
      <4> HIDE DEF out, s
      <4> QED BY <3>1, <4>1
    <3>3. Taken(cur) = IF Room(cur) < Len(out) THEN Room(cur) ELSE Len(out)
      BY DEF Taken
    <3> HIDE DEF out
    <3> QED BY <3>1, <3>2, <3>3
  <2>6. Wire(c, s, FALSE, begun)
    BY <1>0, <1>1 DEF Wired
  <2>7. ASSUME ~c.handshake_done PROVE No101(left) /\ No101(s.tx) /\ No101(s.tx \o part)
    <3>1. No101(out) /\ No101(s.tx)
      BY <2>6, <2>7 DEF Wire, Unshaken
    <3>2. No101(part) /\ No101(Left(cur)) /\ part \in Seq(Answer)
      <4>1. Left(cur) = SubSeq(out, Taken(cur) + 1, Len(out))
        BY DEF Left
      <4>2. part \in Seq(Answer)
        BY <2>5, Sequences
      <4> HIDE DEF out
      <4> QED BY <2>5, <3>1, <4>1, <4>2, No101Moves
    <3>3. No101(<<>>)
      BY DEF No101
    <3> HIDE DEF part, out
    <3> QED BY <2>5, <3>1, <3>2, <3>3, No101Moves
  <2> HIDE DEF d, e, left, part, c, s
  <2>8. Wire(d, s, FALSE, begun) /\ Wire(d, e, FALSE, begun)
    BY <2>3, <2>4, <2>6, <2>7, WireSame
  <2>9. /\ client'[cur] = d /\ sock'[cur] \in {s, e} /\ sock'[cur].st = s.st
        /\ \A f \in Fds \ {cur} : client'[f] = client[f] /\ sock'[f] = sock[f]
    BY <1>0, <2>2, <2>4 DEF s
  <2>10. Wired'
    <3>1. begun' \in Nat /\ begun <= begun' /\ begun' = begun
      BY <1>0
    <3>2. PICK t : t = sock'[cur]
      OBVIOUS
    <3>3. Wire(d, t, FALSE, begun')
      BY <2>8, <2>9, <3>1, <3>2
    <3> QED BY <1>0, <1>1, <2>9, <3>1, <3>2, <3>3, OutsideWired, Zenon
  <2>11. Looped'
    <3>1. \A f \in Fds : sock'[f].st = sock[f].st
      BY <2>9 DEF s
    <3>2. \A f \in Fds \ clients' : f # cur
      BY <1>0, <2>1
    <3> QED BY <1>0, <2>1, <2>9, <3>1, <3>2 DEF Looped
  <2> QED BY <2>10, <2>11
<1> QED BY <1>2, <1>3

\* An answer joins the output of whoever has the descriptor.
LEMMA GiveWired ==
  ASSUME WsTypes, Wired, Looped, GiveStep
  PROVE  Wired' /\ Looped'
<1> DEFINE p == Head(taken)
<1>0. /\ pc = "give" /\ pc' \in {"wait", "give"} /\ client \in [Fds -> ClientType]
      /\ clients \subseteq Fds /\ taken \in Seq(PendingFrame) /\ taken # <<>>
      /\ begun \in Nat
      /\ taken' = Tail(taken)
      /\ UNCHANGED <<clients, cur, wsHandBack, wsPeerVars>>
  BY DEF GiveStep, WsTypes, WsTypeOK, ClientTypeOK, LoopTypeOK, PeerTypeOK
<1>1. \A f \in Fds : Handling(f) = FALSE /\ Handling(f)' = FALSE
  BY <1>0 DEF Handling
<1>2. /\ p.fd \in Fds /\ p.frame \in Answer /\ p.frame.op # "101"
      /\ \A i \in 1 .. Len(taken') : taken'[i].frame.op # "101"
  <2>1. /\ p = taken[1] /\ 1 \in 1 .. Len(taken)
        /\ \A i \in 1 .. Len(taken') : i + 1 \in 1 .. Len(taken) /\ taken'[i] = taken[i + 1]
    BY <1>0
  <2>2. p \in PendingFrame
    BY <1>0, Sequences
  <2> HIDE DEF p
  <2> QED BY <2>1, <2>2 DEF Looped, PendingFrame
<1> HIDE DEF p
<1>3. CASE UNCHANGED client
  <2>1. Wired'
    BY <1>0, <1>1, <1>3, NoWire
  <2> QED BY <1>0, <1>2, <1>3, <2>1 DEF Looped
<1>4. CASE p.fd \in clients /\ GiveOut(p.fd, p.frame)
  <2> DEFINE c == client[p.fd]
             s == sock[p.fd]
             out == Append(c.out_buf, p.frame)
             d == [c EXCEPT !.out_buf = out, !.epollout = TRUE]
  <2>1. client' = [client EXCEPT ![p.fd] = d] /\ c \in ClientType
    BY <1>0, <1>2, <1>4 DEF GiveOut
  <2>2. /\ d.handshake_done = c.handshake_done /\ d.in_http = c.in_http /\ d.in_buf = c.in_buf
        /\ d.assembling = c.assembling /\ d.assemble_opcode = c.assemble_opcode
        /\ d.assemble_data = c.assemble_data /\ d.handed = c.handed
        /\ d.out_buf = out
    <3> HIDE DEF out
    <3> QED BY <2>1 DEF ClientType
  <2>3. Wire(c, s, FALSE, begun)
    BY <1>1, <1>2 DEF Wired
  <2>4. ~c.handshake_done => No101(out) /\ No101(s.tx)
    <3>1. ~c.handshake_done => No101(c.out_buf) /\ No101(s.tx)
      BY <2>3 DEF Wire, Unshaken
    <3>2. c.out_buf \in Seq(Answer)
      BY <2>1 DEF ClientType
    <3> HIDE DEF c, s
    <3> QED BY <1>2, <3>1, <3>2, No101Moves
  <2> HIDE DEF c, s, out, d
  <2>5. Wire(d, s, FALSE, begun)
    BY <2>2, <2>3, <2>4, WireSame
  <2>6. client'[p.fd] = d /\ \A f \in Fds \ {p.fd} : client'[f] = client[f]
    BY <1>0, <1>2, <2>1
  <2>7. Wired'
    <3>1. begun' \in Nat /\ begun <= begun' /\ begun' = begun /\ sock' = sock
      BY <1>0
    <3> QED BY <1>1, <1>2, <2>5, <2>6, <3>1, OutsideWired DEF s
  <2>8. Looped'
    BY <1>0, <1>2, <1>4, <2>6 DEF Looped
  <2> QED BY <2>7, <2>8
<1> QED BY <1>3, <1>4 DEF GiveStep, p

\* The answer of a worker is no handshake.
LEMMA HandBackWired ==
  ASSUME WsTypes, Wired, Looped, DrainStep \/ SwapStep \/ WsWorkers \/ FcgiServer
  PROVE  Wired' /\ Looped'
<1>0. UNCHANGED <<clients, client, cur, sock, begun>>
  BY DEF DrainStep, SwapStep, WsWorkers, WsTaskStart, WsTaskReply, WsTaskRelease, FcgiServer
<1>1. /\ \/ pc' = pc
         \/ pc \in {"wait", "swap"} /\ pc' \in {"wait", "swap", "give"}
  BY DEF DrainStep, SwapStep, WsWorkers, WsTaskStart, WsTaskReply, WsTaskRelease, FcgiServer
<1>2. Wired'
  <2>1. \A fd \in Fds : Handling(fd)' = Handling(fd)
    BY <1>0, <1>1 DEF Handling
  <2> QED BY <1>0, <2>1, NoWire
<1>3. /\ \A i \in 1 .. Len(g_pending_frames') : g_pending_frames'[i].frame.op # "101"
      /\ \A i \in 1 .. Len(taken') : taken'[i].frame.op # "101"
  <2>1. CASE UNCHANGED <<g_pending_frames, taken>>
    BY <2>1 DEF Looped
  <2>2. CASE SwapStep
    BY <2>2 DEF SwapStep, Looped
  <2>3. ASSUME NEW t \in running, WsTaskReply(t)
        PROVE  /\ \A i \in 1 .. Len(g_pending_frames') : g_pending_frames'[i].frame.op # "101"
               /\ taken' = taken
    <3>1. t.msg.op # "101" /\ g_pending_frames \in Seq(PendingFrame)
      BY DEF WsTypes, WsTypeOK, WorkerTypeOK, WsClosure, MessageOf, Opcode
    <3> DEFINE p == [fd |-> t.fd, frame |-> t.msg]
    <3>2. p.frame = t.msg /\ g_pending_frames' = Append(g_pending_frames, p) /\ taken' = taken
      BY <2>3 DEF WsTaskReply, Push
    <3> HIDE DEF p
    <3>3. \A i \in 1 .. Len(g_pending_frames') :
            \/ g_pending_frames'[i] = p
            \/ i \in 1 .. Len(g_pending_frames) /\ g_pending_frames'[i] = g_pending_frames[i]
      BY <3>1, <3>2
    <3> QED BY <3>1, <3>2, <3>3 DEF Looped
  <2> QED BY <2>1, <2>2, <2>3 DEF DrainStep, WsWorkers, WsTaskStart, WsTaskRelease, FcgiServer, Looped
<1>4. Looped'
  BY <1>0, <1>1, <1>3 DEF Looped
<1> QED BY <1>2, <1>4

-----------------------------------------------------------------------------
(* Peers *)

\* A step of a peer leaves its socket as t.
LEMMA PeerWired ==
  ASSUME WsTypes, Wired, Looped, NEW fd \in Fds, AtSocket, NEW t,
         sock' = [sock EXCEPT ![fd] = t], begun' \in Nat, begun <= begun',
         UNCHANGED <<poolVars, wsClientVars, wsIoVars, wsTaskVars, wsHandBack, fcgi>>,
         t.st = "conn" <=> fd \in clients, fd \notin clients => t.tx = <<>>,
         Wire(client[fd], t, FALSE, begun')
  PROVE  Wired' /\ Looped'
<1>0. /\ sock'[fd] = t /\ \A e \in Fds \ {fd} : sock'[e] = sock[e]
      /\ \A e \in Fds : Handling(e) = FALSE /\ Handling(e)' = FALSE
  BY DEF WsTypes, WsTypeOK, PeerTypeOK, AtSocket, Handling
<1>1. Wired'
  <2>1. /\ client'[fd] = client[fd] /\ \A e \in Fds \ {fd} : client'[e] = client[e] /\ sock'[e] = sock[e]
    BY <1>0
  <2> QED BY <1>0, <2>1, OutsideWired
<1>2. Looped'
  BY <1>0 DEF Looped, AtSocket
<1> QED BY <1>1, <1>2

\* With unit u sent to it a socket x is Wired.
Sends(c, x, u, n) ==
  \A t \in WsSocket : /\ t.rx = Together(x.rx, <<u>>) /\ t.st = x.st /\ t.tx = x.tx
                      /\ t.up = x.up /\ t.sent = x.sent /\ t.open = x.open
    => Wire(c, t, FALSE, n)

\* The peer sends a unit; what its side becomes is given without it.
LEMMA UnitWired ==
  ASSUME WsTypes, Wired, Looped, NEW fd \in Fds, AtSocket, NEW x \in WsSocket, NEW u \in WsUnit,
         Send(fd, x, <<u>>), x.st = sock[fd].st, x.tx = sock[fd].tx,
         begun' \in Nat, begun <= begun',
         UNCHANGED <<poolVars, wsClientVars, wsIoVars, wsTaskVars, wsHandBack, fcgi>>,
         NEW c, c = client[fd], Sends(c, x, u, begun')
  PROVE  Wired' /\ Looped'
<1> DEFINE rx == Together(x.rx, <<u>>)
           t == [x EXCEPT !.rx = rx]
<1>1. sock' = [sock EXCEPT ![fd] = t]
  BY DEF Send
<1>2. rx \in Seq(WsUnit)
  <2>1. x.rx \in Seq(WsUnit) /\ <<u>> \in Seq(WsUnit)
    BY Sequences DEF WsSocket
  <2> QED BY <2>1, TogetherType
<1>3. /\ t \in WsSocket /\ t.rx = rx /\ t.st = x.st /\ t.tx = x.tx /\ t.up = x.up
      /\ t.sent = x.sent /\ t.open = x.open
  <2> HIDE DEF rx
  <2>1. t \in WsSocket
    BY <1>2, SocketUpdates
  <2>2. /\ t.rx = rx /\ t.st = x.st /\ t.tx = x.tx /\ t.up = x.up
        /\ t.sent = x.sent /\ t.open = x.open
    BY DEF WsSocket
  <2> QED BY <2>1, <2>2
<1>4. rx = Together(x.rx, <<u>>)
  OBVIOUS
<1> HIDE DEF t, rx
<1>5. Wire(client[fd], t, FALSE, begun')
  BY <1>3, <1>4 DEF Sends
<1>6. (t.st = "conn" <=> fd \in clients) /\ (fd \notin clients => t.tx = <<>>)
  BY <1>3 DEF Looped
<1> QED BY <1>1, <1>5, <1>6, PeerWired

\* A peer whose connection is open sends a unit.
LEMMA OpenWired ==
  ASSUME WsTypes, Wired, Looped, NEW fd \in Fds, AtSocket, NEW x \in WsSocket, NEW u \in WsUnit,
         Send(fd, x, <<u>>), x.st = sock[fd].st, x.tx = sock[fd].tx, x.rx = sock[fd].rx,
         begun' \in Nat, begun <= begun',
         UNCHANGED <<poolVars, wsClientVars, wsIoVars, wsTaskVars, wsHandBack, fcgi>>,
         sock[fd].up = "open", x.up \in {"open", "left"},
         u.k = "frame" \/ u = PartUnit, IsData(u) /\ u.op = "cont" => u.fin,
         \A msg : InSent(sock[fd], msg) => InSent(x, msg),
         After(Begun(sock[fd]), u) = Begun(x),
         Completes(Begun(sock[fd]), u) =>
           LET w == Whole(Begun(sock[fd]), u) IN
             /\ InSent(x, w) /\ Number(w) = u.piece[1]
             /\ \/ u.piece[1] \in begun + 1 .. begun'
                \/ Begun(sock[fd]) # NoMessage /\ u.piece[1] = Number(sock[fd].open),
         Begun(x) # NoMessage =>
           x.open = sock[fd].open \/ Number(x.open) \in begun + 1 .. begun'
  PROVE  Wired' /\ Looped'
<1> DEFINE c == client[fd]
           s == sock[fd]
<1>0. c \in ClientType /\ s \in WsSocket /\ begun \in Nat /\ Handling(fd) = FALSE
  BY DEF WsTypes, WsTypeOK, ClientTypeOK, PeerTypeOK, AtSocket, Handling
<1>1. Wire(c, s, FALSE, begun)
  BY <1>0 DEF Wired
<1>2. c.handshake_done /\ Shaken(c, s, FALSE, begun)
  BY <1>1 DEF Wire, Unshaken
<1>3. Begun(s) # NoMessage => Number(s.open) \in 0 .. begun
  BY <1>2 DEF Shaken, GotWhole
<1>4. ASSUME NEW t \in WsSocket,
             /\ t.rx = Together(x.rx, <<u>>) /\ t.st = x.st /\ t.tx = x.tx
             /\ t.up = x.up /\ t.sent = x.sent /\ t.open = x.open
      PROVE  Wire(c, t, FALSE, begun')
  <2>1. Begun(t) = Begun(x) /\ \A msg : InSent(t, msg) <=> InSent(x, msg)
    BY <1>4 DEF Begun, InSent
  <2>2. u.piece[1] \in Nat
    BY UnitFields
  <2>3. Completes(Begun(s), u) =>
           LET w == Whole(Begun(s), u) IN
             /\ InSent(t, w) /\ Number(w) = u.piece[1] /\ u.piece[1] <= begun'
             /\ u.piece[1] > begun \/ (Begun(s) # NoMessage /\ u.piece[1] = Number(s.open))
    BY <1>0, <1>3, <2>1, <2>2
  <2>4. Begun(t) # NoMessage =>
             /\ Number(t.open) \in 0 .. begun'
             /\ Number(t.open) > begun \/ (Begun(s) # NoMessage /\ Number(t.open) = Number(s.open))
    <3>1. x.open = s.open => Begun(x) = Begun(s)
      BY DEF Begun
    <3> QED BY <1>0, <1>3, <1>4, <2>1, <3>1
  <2>5. /\ t.up \in {"asked", "open", "left"} /\ t.rx = Together(s.rx, <<u>>)
        /\ \A msg : InSent(s, msg) => InSent(t, msg)
        /\ After(Begun(s), u) = Begun(t)
    BY <1>4, <2>1
  <2>6. Shaken(c, t, FALSE, begun')
    <3> HIDE DEF c, s
    <3> QED BY <1>0, <1>2, <1>4, <2>3, <2>4, <2>5, SendShaken
  <2> QED BY <1>2, <2>6 DEF Wire
<1>5. Sends(c, x, u, begun')
  BY <1>4 DEF Sends
<1> HIDE DEF c, s
<1>6. c = client[fd]
  BY DEF c
<1> QED BY <1>5, <1>6, UnitWired

\* The first unit a peer sends.
LEMMA FirstUnit ==
  ASSUME NEW q, q \in Parts, NEW u \in WsUnit
  PROVE  Together(q, <<u>>) = <<u>>
<1>1. q \in Seq(WsUnit) /\ <<u>> \in Seq(WsUnit) /\ <<u>> # <<>>
  BY UnitTypes, Sequences DEF Parts
<1> QED BY <1>1, TogetherIs

LEMMA UpgradeWired ==
  ASSUME WsTypes, Wired, Looped, NEW fd \in Fds, AtSocket, PeerUpgrade(fd),
         UNCHANGED <<poolVars, wsClientVars, wsIoVars, wsTaskVars, wsHandBack, fcgi>>
  PROVE  Wired' /\ Looped'
<1> DEFINE c == client[fd]
           s == sock[fd]
           u == HeadUnit("upgrade", 0, 0)
           x == [s EXCEPT !.up = "asked"]
<1>0. /\ s \in WsSocket /\ begun \in Nat /\ begun' = begun /\ s.up = "no" /\ u \in WsUnit
      /\ Handling(fd) = FALSE
  BY DEF WsTypes, WsTypeOK, PeerTypeOK, PeerUpgrade, AtSocket, Handling, HeadUnit, WsUnit, Piece
<1>1. /\ x \in WsSocket /\ x.up = "asked" /\ x.st = s.st /\ x.tx = s.tx /\ x.rx = s.rx
      /\ x.sent = s.sent /\ x.open = s.open
  <2>1. x \in WsSocket
    BY <1>0, SocketUpdates
  <2> HIDE DEF s
  <2> QED BY <1>0, <2>1 DEF WsSocket
<1>2. Unshaken(c, s) /\ ~c.handshake_done
  <2>1. Wire(c, s, FALSE, begun)
    BY <1>0 DEF Wired
  <2> QED BY <1>0, <2>1 DEF Wire, Shaken
<1>3. Send(fd, x, <<u>>)
  BY DEF PeerUpgrade
<1>4. /\ c.in_http \in Parts /\ c.in_buf \in Parts /\ s.rx \in Parts
      /\ c.handed = <<>> /\ s.sent = <<>>
  BY <1>0, <1>2 DEF Unshaken, Speaks
<1>5. \A q \in Parts : Upgrade(q)
  BY DEF Parts, Upgrade
<1>6. Upgrade(<<u>>)
  BY DEF Upgrade, HeadUnit
<1> HIDE DEF c, s, u, x
<1>7. ASSUME NEW t \in WsSocket,
             /\ t.rx = Together(x.rx, <<u>>) /\ t.st = x.st /\ t.tx = x.tx
             /\ t.up = x.up /\ t.sent = x.sent /\ t.open = x.open
      PROVE  Wire(c, t, FALSE, begun')
  <2>1. t.rx = <<u>>
    BY <1>0, <1>1, <1>4, <1>7, FirstUnit
  <2>2. Speaks(c, t)
    BY <1>1, <1>4, <1>5, <1>6, <1>7, <2>1 DEF Speaks
  <2> QED BY <1>1, <1>2, <1>7, <2>2 DEF Wire, Unshaken
<1>10. Sends(c, x, u, begun')
  BY <1>7 DEF Sends
<1>11. /\ c = client[fd] /\ x.st = sock[fd].st /\ x.tx = sock[fd].tx
       /\ begun' \in Nat /\ begun <= begun' /\ u \in WsUnit /\ x \in WsSocket
  BY <1>0, <1>1, <1>3, <1>7 DEF c, s
<1> QED BY <1>10, <1>11, <1>3, UnitWired

LEMMA RequestWired ==
  ASSUME WsTypes, Wired, Looped, NEW fd \in Fds, AtSocket, NEW len \in BodyLens,
         PeerRequest(fd, len),
         UNCHANGED <<poolVars, wsClientVars, wsIoVars, wsTaskVars, wsHandBack, fcgi>>
  PROVE  Wired' /\ Looped'
<1> DEFINE c == client[fd]
           s == sock[fd]
           m == begun + 1
           data == [i \in 1 .. len + 1 |-> <<m, i - 1>>]
           all == Message("http", data)
           u == HeadUnit("http", m, len)
           x == [s EXCEPT !.up = "http", !.owed = len, !.sent = <<all>>]
<1>0. /\ s \in WsSocket /\ begun \in Nat /\ begun' = m /\ m \in Nat /\ len \in Nat /\ s.up = "no"
      /\ Handling(fd) = FALSE
  BY WsConstantsAssumption
  DEF WsTypes, WsTypeOK, PeerTypeOK, PeerRequest, AtSocket, Handling
<1>1. data \in Seq(Piece) /\ Len(data) = len + 1 /\ \A i \in 1 .. len + 1 : data[i][1] = m
  <2>1. \A i \in 1 .. len + 1 : <<m, i - 1>> \in Piece /\ <<m, i - 1>>[1] = m
    BY <1>0 DEF Piece
  <2>2. data \in [1 .. len + 1 -> Piece] /\ len + 1 \in Nat
    BY <1>0, <2>1
  <2> QED BY <2>1, <2>2
<1> HIDE DEF data
<1>2. all \in MessageOf(Opcode \cup {"http"}) /\ all.data = data /\ Number(all) = m
  <2>1. all.data = data
    BY DEF Message
  <2>2. all \in MessageOf(Opcode \cup {"http"})
    BY <1>1, MessageType
  <2>3. 1 \in 1 .. len + 1
    BY <1>0
  <2> HIDE DEF all
  <2> QED BY <1>1, <2>1, <2>2, <2>3 DEF Number
<1>3. Send(fd, x, <<u>>)
  BY DEF PeerRequest, data
<1> HIDE DEF all
<1>4. /\ x \in WsSocket /\ x.up = "http" /\ x.st = s.st /\ x.tx = s.tx /\ x.rx = s.rx
      /\ x.sent = <<all>> /\ x.open = s.open
  <2>1. <<all>> \in Seq(MessageOf(Opcode \cup {"http"}))
    BY <1>2, Sequences
  <2>2. x \in WsSocket
    BY <1>0, <2>1, SocketUpdates
  <2> HIDE DEF s
  <2> QED BY <1>0, <2>2 DEF WsSocket
<1>5. u \in WsUnit /\ u.k = "head" /\ u.op = "http" /\ u.piece[1] = m /\ u.len = len
  BY <1>0 DEF HeadUnit, WsUnit, Piece
<1>6. Unshaken(c, s) /\ ~c.handshake_done
  <2>1. Wire(c, s, FALSE, begun)
    BY <1>0 DEF Wired
  <2> QED BY <1>0, <2>1 DEF Wire, Shaken
<1>7. /\ c.in_http \in Parts /\ c.in_buf \in Parts /\ s.rx \in Parts /\ c.handed = <<>>
  BY <1>0, <1>6 DEF Unshaken, Speaks
<1> HIDE DEF c, s, u, x, m
<1>8. ASSUME NEW t \in WsSocket,
             /\ t.rx = Together(x.rx, <<u>>) /\ t.st = x.st /\ t.tx = x.tx
             /\ t.up = x.up /\ t.sent = x.sent /\ t.open = x.open
      PROVE  Wire(c, t, FALSE, begun')
  <2>1. t.rx = <<u>>
    BY <1>4, <1>5, <1>7, <1>8, FirstUnit
  <2>2. t.sent[1] = all /\ Len(t.sent) = 1
    BY <1>4, <1>8
  <2>3. RequestSent(t)
    BY <1>1, <1>2, <2>2 DEF RequestSent
  <2>4. Request(<<u>>, t)
    BY <1>1, <1>2, <1>5, <2>2 DEF Request
  <2>5. Speaks(c, t)
    BY <1>4, <1>7, <1>8, <2>1, <2>3, <2>4 DEF Speaks
  <2> QED BY <1>4, <1>6, <1>8, <2>5 DEF Wire, Unshaken
<1>9. begun <= begun'
  BY <1>0 DEF m
<1>10. Sends(c, x, u, begun')
  BY <1>8 DEF Sends
<1>11. /\ c = client[fd] /\ x.st = sock[fd].st /\ x.tx = sock[fd].tx
       /\ begun' \in Nat /\ begun <= begun' /\ u \in WsUnit /\ x \in WsSocket
  BY <1>0, <1>3, <1>4, <1>5, <1>8, <1>9 DEF c, s
<1> QED BY <1>10, <1>11, <1>3, UnitWired

LEMMA BodyWired ==
  ASSUME WsTypes, Wired, Looped, NEW fd \in Fds, AtSocket, PeerBody(fd),
         UNCHANGED <<poolVars, wsClientVars, wsIoVars, wsTaskVars, wsHandBack, fcgi>>
  PROVE  Wired' /\ Looped'
<1> DEFINE c == client[fd]
           s == sock[fd]
           all == s.sent[1].data
           p == all[Len(all) - s.owed + 1]
           u == BodyUnit(p)
           x == [s EXCEPT !.owed = @ - 1]
<1>0. /\ s \in WsSocket /\ begun \in Nat /\ begun' = begun /\ s.up = "http" /\ s.owed > 0
      /\ s.owed \in Nat /\ s.sent # <<>> /\ s.owed < Len(all) /\ Handling(fd) = FALSE
  BY DEF WsTypes, WsTypeOK, OwedTypeOK, PeerTypeOK, PeerBody, AtSocket, Handling, WsSocket
<1>1. Unshaken(c, s) /\ ~c.handshake_done
  <2>1. Wire(c, s, FALSE, begun)
    BY <1>0 DEF Wired
  <2> QED BY <1>0, <2>1 DEF Wire, Shaken
<1>2. RequestSent(s) /\ Speaks(c, s)
  BY <1>0, <1>1 DEF Unshaken, Speaks
<1>3. p \in Piece /\ p[1] = Number(s.sent[1])
  <2>1. all \in Seq(Piece)
    <3>1. s.sent \in Seq(MessageOf(Opcode \cup {"http"})) /\ s.sent # <<>>
      BY <1>0 DEF WsSocket
    <3>2. s.sent[1] \in MessageOf(Opcode \cup {"http"})
      BY <3>1
    <3> QED BY <3>2 DEF MessageOf
  <2>2. Len(all) - s.owed + 1 \in 1 .. Len(all)
    <3>1. Len(all) \in Nat
      BY <2>1
    <3>2. \A n, k \in Nat : k > 0 /\ k < n => n - k + 1 \in 1 .. n
      OBVIOUS
    <3>3. s.owed \in Nat /\ s.owed > 0 /\ s.owed < Len(all)
      BY <1>0
    <3> HIDE DEF all, s
    <3> QED BY <3>1, <3>2, <3>3
  <2>3. \A j \in 1 .. Len(all) : all[j][1] = Number(s.sent[1])
    BY <1>2 DEF RequestSent
  <2> HIDE DEF all
  <2> QED BY <2>1, <2>2, <2>3, Sequences
<1>4. Send(fd, x, <<u>>)
  BY DEF PeerBody
<1>5. u \in WsUnit /\ u.k = "body" /\ u.piece[1] = Number(s.sent[1])
  <2> HIDE DEF p
  <2> QED BY <1>3 DEF BodyUnit, WsUnit
<1> HIDE DEF u, p, all
<1>6. /\ x \in WsSocket /\ x.up = s.up /\ x.st = s.st /\ x.tx = s.tx /\ x.rx = s.rx
      /\ x.sent = s.sent /\ x.open = s.open
  <2>1. s.owed - 1 \in Nat
    BY <1>0
  <2>2. x \in WsSocket
    BY <1>0, <2>1, SocketUpdates
  <2> HIDE DEF s
  <2> QED BY <1>0, <2>2 DEF WsSocket
<1> HIDE DEF c, s, x
<1>7. ASSUME NEW t \in WsSocket,
             /\ t.rx = Together(x.rx, <<u>>) /\ t.st = x.st /\ t.tx = x.tx
             /\ t.up = x.up /\ t.sent = x.sent /\ t.open = x.open
      PROVE  Wire(c, t, FALSE, begun')
  <2>1. Request(s.rx, s) /\ s.rx \in Seq(WsUnit) /\ <<u>> \in Seq(WsUnit)
    BY <1>0, <1>2, <1>5, Sequences DEF Speaks, WsSocket
  <2>2. Request(<<u>>, s)
    BY <1>5 DEF Request
  <2> DEFINE r == Together(s.rx, <<u>>)
  <2>3. \A i \in 1 .. Len(r) : \/ \E j \in 1 .. Len(s.rx) : r[i] = s.rx[j]
                               \/ \E j \in 1 .. Len(<<u>>) : r[i] = <<u>>[j]
    BY <2>1, TogetherIs
  <2>4. t.rx = r
    BY <1>6, <1>7
  <2> HIDE DEF r
  <2>5. Request(t.rx, s)
    BY <2>1, <2>2, <2>3, <2>4 DEF Request
  <2>6. t.sent = s.sent /\ t.up = s.up /\ t.tx = s.tx /\ t.open = s.open
    BY <1>6, <1>7
  <2>7. /\ \A q : Request(q, t) <=> Request(q, s)
        /\ RequestSent(t) <=> RequestSent(s)
        /\ \A msg : RequestGot(msg, t) <=> RequestGot(msg, s)
    BY <2>6 DEF Request, RequestSent, RequestGot
  <2>8. Speaks(c, t)
    BY <1>0, <1>2, <2>5, <2>6, <2>7 DEF Speaks
  <2> QED BY <1>1, <2>6, <2>8 DEF Wire, Unshaken
<1>10. Sends(c, x, u, begun')
  BY <1>7 DEF Sends
<1>11. /\ c = client[fd] /\ x.st = sock[fd].st /\ x.tx = sock[fd].tx
       /\ begun' \in Nat /\ begun <= begun' /\ u \in WsUnit /\ x \in WsSocket
  BY <1>0, <1>4, <1>5, <1>6, <1>7 DEF c, s
<1> QED BY <1>10, <1>11, <1>4, UnitWired

LEMMA PartWired ==
  ASSUME WsTypes, Wired, Looped, NEW fd \in Fds, AtSocket, PeerPart(fd),
         UNCHANGED <<poolVars, wsClientVars, wsIoVars, wsTaskVars, wsHandBack, fcgi>>
  PROVE  Wired' /\ Looped'
<1> DEFINE c == client[fd]
           s == sock[fd]
<1>0. /\ s \in WsSocket /\ begun \in Nat /\ begun' = begun /\ s.up \in {"no", "open"}
      /\ PartUnit \in WsUnit /\ Send(fd, s, <<PartUnit>>) /\ Handling(fd) = FALSE
  BY UnitTypes
  DEF WsTypes, WsTypeOK, PeerTypeOK, PeerPart, AtSocket, Handling, PartUnit, WsUnit, NoPiece, Piece
<1>1. CASE s.up = "open"
  <2>1. /\ ~IsData(PartUnit)
        /\ After(Begun(s), PartUnit) = Begun(s) /\ ~Completes(Begun(s), PartUnit)
    BY DEF IsData, PartUnit, After, Completes
  <2> QED BY <1>0, <1>1, <2>1, OpenWired
<1>2. CASE s.up = "no"
  <2>1. Unshaken(c, s) /\ ~c.handshake_done
    <3>1. Wire(c, s, FALSE, begun)
      BY <1>0 DEF Wired
    <3> QED BY <1>2, <3>1 DEF Wire, Shaken
  <2>2. Speaks(c, s)
    BY <2>1 DEF Unshaken
  <2> HIDE DEF c, s
  <2>3. ASSUME NEW t \in WsSocket,
               /\ t.rx = Together(s.rx, <<PartUnit>>) /\ t.st = s.st /\ t.tx = s.tx
               /\ t.up = s.up /\ t.sent = s.sent /\ t.open = s.open
        PROVE  Wire(c, t, FALSE, begun')
    <3>1. s.rx \in Parts
      BY <1>2, <2>2 DEF Speaks
    <3>2. t.rx = <<PartUnit>>
      BY <1>0, <2>3, <3>1, FirstUnit
    <3>3. Speaks(c, t)
      BY <1>2, <2>2, <2>3, <3>2 DEF Speaks, Parts
    <3> QED BY <1>2, <2>1, <2>3, <3>3 DEF Wire, Unshaken
  <2>4. Sends(c, s, PartUnit, begun')
    BY <2>3 DEF Sends
  <2>5. c = client[fd] /\ s.st = sock[fd].st /\ s.tx = sock[fd].tx /\ begun <= begun'
    BY <1>0 DEF c, s
  <2> QED BY <1>0, <2>4, <2>5, UnitWired
<1> QED BY <1>0, <1>1, <1>2

LEMMA MessageWired ==
  ASSUME WsTypes, Wired, Looped, NEW fd \in Fds, AtSocket, NEW op \in Ops, NEW fin \in BOOLEAN,
         PeerMessage(fd, op, fin),
         UNCHANGED <<poolVars, wsClientVars, wsIoVars, wsTaskVars, wsHandBack, fcgi>>
  PROVE  Wired' /\ Looped'
<1> DEFINE s == sock[fd]
           m == begun + 1
           msg == Message(op, <<<<m, 1>>>>)
           u == FrameUnit(op, fin, <<m, 1>>)
           e == [s.open EXCEPT !.data = <<>>]
           x == IF fin THEN [s EXCEPT !.sent = Append(@, msg), !.open.data = <<>>]
                       ELSE [s EXCEPT !.open = msg]
<1>0. /\ s \in WsSocket /\ begun \in Nat /\ begun' = m /\ s.up = "open" /\ op \in Opcode
      /\ m \in begun + 1 .. m /\ begun <= m /\ m \in Nat
  BY WsConstantsAssumption DEF WsTypes, WsTypeOK, PeerTypeOK, PeerMessage, Opcode
<1>1. /\ msg \in MessageOf(Opcode) /\ msg \in MessageOf(Opcode \cup {"http"})
      /\ msg.op = op /\ msg.data = <<<<m, 1>>>> /\ Number(msg) = m /\ msg.data # <<>>
  <2>1. <<m, 1>> \in Piece /\ <<m, 1>>[1] = m
    BY <1>0 DEF Piece
  <2>2. <<<<m, 1>>>> \in Seq(Piece) /\ <<<<m, 1>>>>[1] = <<m, 1>>
    BY <2>1, Sequences
  <2>3. msg.op = op /\ msg.data = <<<<m, 1>>>>
    BY DEF Message
  <2>4. msg \in MessageOf(Opcode) /\ msg \in MessageOf(Opcode \cup {"http"})
    BY <1>0, <2>2, MessageType
  <2> QED BY <2>1, <2>2, <2>3, <2>4 DEF Number
<1>2. u \in WsUnit /\ u.k = "frame" /\ u.op = op /\ u.fin = fin /\ u.piece = <<m, 1>> /\ u.piece[1] = m
  <2>1. <<m, 1>> \in Piece
    BY <1>0 DEF Piece
  <2> QED BY <1>0, <2>1 DEF FrameUnit, WsUnit
<1>3. Send(fd, x, <<u>>)
  BY DEF PeerMessage
<1>4. s.open \in MessageOf(Opcode) /\ e \in MessageOf(Opcode) /\ e.data = <<>>
  <2>1. s.open \in MessageOf(Opcode)
    BY <1>0 DEF WsSocket
  <2>2. <<>> \in Seq(Piece)
    BY Sequences
  <2> HIDE DEF s
  <2> QED BY <2>1, <2>2 DEF MessageOf
<1>5. /\ x \in WsSocket /\ x.st = s.st /\ x.tx = s.tx /\ x.rx = s.rx /\ x.up = "open"
      /\ IF fin THEN x.sent = Append(s.sent, msg) /\ x.open.data = <<>>
                ELSE x.sent = s.sent /\ x.open = msg
      /\ s.sent \in Seq(MessageOf(Opcode \cup {"http"}))
  <2>0. s.sent \in Seq(MessageOf(Opcode \cup {"http"}))
    BY <1>0 DEF WsSocket
  <2>1. Append(s.sent, msg) \in Seq(MessageOf(Opcode \cup {"http"}))
    BY <1>1, <2>0, Sequences
  <2> DEFINE sent == Append(s.sent, msg)
  <2>2. CASE fin
    <3>1. x = [s EXCEPT !.sent = sent, !.open = e]
      BY <1>0, <2>2 DEF WsSocket
    <3> HIDE DEF sent, e, x, s
    <3>2. x \in WsSocket
      BY <1>0, <1>4, <2>1, <3>1, SocketUpdates DEF sent
    <3>3. /\ x.st = s.st /\ x.tx = s.tx /\ x.rx = s.rx /\ x.up = s.up /\ x.sent = sent
          /\ x.open = e
      BY <1>0, <3>1 DEF WsSocket
    <3> QED BY <1>0, <1>4, <2>0, <2>2, <3>2, <3>3 DEF sent
  <2>3. CASE ~fin
    <3>1. x = [s EXCEPT !.open = msg]
      BY <2>3
    <3> HIDE DEF msg, x, s
    <3>2. x \in WsSocket
      BY <1>0, <1>1, <3>1, SocketUpdates
    <3>3. /\ x.st = s.st /\ x.tx = s.tx /\ x.rx = s.rx /\ x.up = s.up /\ x.sent = s.sent
          /\ x.open = msg
      BY <1>0, <3>1 DEF WsSocket
    <3> QED BY <1>0, <2>0, <2>3, <3>2, <3>3
  <2> QED BY <2>2, <2>3
<1> HIDE DEF s, msg, u, e, x
<1>6. /\ IsData(u) /\ u.op # "cont"
      /\ After(Begun(s), u) = Begun(x)
      /\ Begun(x) # NoMessage => x.open = msg
  <2>1. IsData(u) /\ u.op # "cont"
    BY <1>0, <1>2 DEF IsData, Opcode
  <2>2. CASE fin
    BY <1>2, <1>5, <2>1, <2>2 DEF After, Begun
  <2>3. CASE ~fin
    <3>1. x.open.data # <<>>
      BY <1>1, <1>5, <2>3
    <3> QED BY <1>2, <1>5, <2>1, <2>3, <3>1 DEF After, Begun, msg
  <2> QED BY <2>1, <2>2, <2>3
<1>7. Completes(Begun(s), u) => fin /\ Whole(Begun(s), u) = msg
  BY <1>2, <1>6 DEF Completes, Whole, msg
<1>8. ASSUME NEW w, InSent(s, w) PROVE InSent(x, w)
  <2>1. PICK j \in 1 .. Len(s.sent) : s.sent[j] = w
    BY <1>8 DEF InSent
  <2>2. j \in 1 .. Len(x.sent) /\ x.sent[j] = w
    BY <1>1, <1>5, <2>1
  <2> QED BY <2>2 DEF InSent
<1>9. fin => InSent(x, msg)
  <2> SUFFICES ASSUME fin PROVE InSent(x, msg)
    OBVIOUS
  <2>1. Len(x.sent) \in 1 .. Len(x.sent) /\ x.sent[Len(x.sent)] = msg
    BY <1>5
  <2> QED BY <2>1 DEF InSent
<1>10. /\ begun' \in Nat /\ begun <= begun'
       /\ x.st = sock[fd].st /\ x.tx = sock[fd].tx /\ x.rx = sock[fd].rx /\ sock[fd].up = "open"
       /\ x.up \in {"open", "left"} /\ (u.k = "frame" \/ u = PartUnit)
       /\ (IsData(u) /\ u.op = "cont" => u.fin)
  BY <1>0, <1>2, <1>5, <1>6 DEF s
<1>11. /\ \A w : InSent(sock[fd], w) => InSent(x, w)
       /\ After(Begun(sock[fd]), u) = Begun(x)
  BY <1>6, <1>8 DEF s
<1>12. Completes(Begun(sock[fd]), u) =>
         LET w == Whole(Begun(sock[fd]), u) IN
           /\ InSent(x, w) /\ Number(w) = u.piece[1]
           /\ \/ u.piece[1] \in begun + 1 .. begun'
              \/ Begun(sock[fd]) # NoMessage /\ u.piece[1] = Number(sock[fd].open)
  BY <1>0, <1>1, <1>2, <1>7, <1>9 DEF s
<1>13. Begun(x) # NoMessage => x.open = sock[fd].open \/ Number(x.open) \in begun + 1 .. begun'
  BY <1>0, <1>1, <1>6
<1> QED BY <1>2, <1>3, <1>5, <1>10, <1>11, <1>12, <1>13, OpenWired

LEMMA ContinueWired ==
  ASSUME WsTypes, Wired, Looped, NEW fd \in Fds, AtSocket, PeerContinue(fd),
         UNCHANGED <<poolVars, wsClientVars, wsIoVars, wsTaskVars, wsHandBack, fcgi>>
  PROVE  Wired' /\ Looped'
<1> DEFINE s == sock[fd]
           piece == <<s.open.data[1][1], 2>>
           msg == Message(s.open.op, Append(s.open.data, piece))
           u == FrameUnit("cont", TRUE, piece)
           e == [s.open EXCEPT !.data = <<>>]
           x == [s EXCEPT !.sent = Append(@, msg), !.open.data = <<>>]
           sent == Append(s.sent, msg)
<1>0. /\ s \in WsSocket /\ begun \in Nat /\ begun' = begun /\ s.up = "open" /\ s.open.data # <<>>
  BY DEF WsTypes, WsTypeOK, PeerTypeOK, PeerContinue
<1>1. s.open \in MessageOf(Opcode) /\ s.open.op \in Opcode /\ s.open.data \in Seq(Piece)
      /\ s.sent \in Seq(MessageOf(Opcode \cup {"http"}))
  BY <1>0 DEF WsSocket, MessageOf
<1>2. piece \in Piece /\ piece[1] = Number(s.open)
  <2>1. s.open.data[1] \in Piece
    BY <1>0, <1>1
  <2>2. s.open.data[1][1] \in Nat
    BY <2>1 DEF Piece
  <2> QED BY <2>2 DEF Piece, Number
<1>3. Send(fd, x, <<u>>)
  BY DEF PeerContinue
<1> HIDE DEF piece
<1>4. /\ msg \in MessageOf(Opcode \cup {"http"}) /\ Number(msg) = Number(s.open)
  <2>1. Append(s.open.data, piece) \in Seq(Piece) /\ Append(s.open.data, piece)[1] = s.open.data[1]
    BY <1>0, <1>1, <1>2
  <2>2. msg.data = Append(s.open.data, piece)
    BY DEF Message
  <2>3. msg \in MessageOf(Opcode \cup {"http"})
    BY <1>1, <2>1, MessageType
  <2> HIDE DEF msg
  <2> QED BY <2>1, <2>2, <2>3 DEF Number
<1>5. u \in WsUnit /\ u.k = "frame" /\ u.op = "cont" /\ u.fin /\ u.piece = piece
  BY <1>2 DEF FrameUnit, WsUnit
<1>6. e \in MessageOf(Opcode) /\ e.data = <<>>
  <2>1. <<>> \in Seq(Piece)
    BY Sequences
  <2> HIDE DEF s
  <2> QED BY <1>1, <2>1 DEF MessageOf
<1>7. sent \in Seq(MessageOf(Opcode \cup {"http"}))
  BY <1>1, <1>4, Sequences
<1>8. /\ x \in WsSocket /\ x.st = s.st /\ x.tx = s.tx /\ x.rx = s.rx /\ x.up = "open"
      /\ x.sent = sent /\ x.open.data = <<>>
  <2>1. x = [s EXCEPT !.sent = sent, !.open = e]
    BY <1>0 DEF WsSocket
  <2> HIDE DEF sent, e, x, s
  <2>2. x \in WsSocket
    BY <1>0, <1>6, <1>7, <2>1, SocketUpdates
  <2>3. /\ x.st = s.st /\ x.tx = s.tx /\ x.rx = s.rx /\ x.up = s.up /\ x.sent = sent /\ x.open = e
    BY <1>0, <2>1 DEF WsSocket
  <2> QED BY <1>0, <1>6, <2>2, <2>3
<1> HIDE DEF s, msg, u, e, x
<1>9. Begun(s) = s.open /\ Begun(s) # NoMessage /\ Begun(x) = NoMessage
  BY <1>0, <1>8 DEF Begun, NoMessage, Message
<1>10. After(Begun(s), u) = Begun(x) /\ Whole(Begun(s), u) = msg
  BY <1>5, <1>9 DEF After, IsData, Whole, msg
<1>11. ASSUME NEW w, InSent(s, w) PROVE InSent(x, w)
  <2>1. PICK j \in 1 .. Len(s.sent) : s.sent[j] = w
    BY <1>11 DEF InSent
  <2>2. j \in 1 .. Len(x.sent) /\ x.sent[j] = w
    BY <1>1, <1>8, <2>1
  <2> QED BY <2>2 DEF InSent
<1>12. InSent(x, msg)
  <2>1. Len(x.sent) \in 1 .. Len(x.sent) /\ x.sent[Len(x.sent)] = msg
    BY <1>1, <1>8
  <2> QED BY <2>1 DEF InSent
<1>13. /\ begun' \in Nat /\ begun <= begun'
       /\ x.st = sock[fd].st /\ x.tx = sock[fd].tx /\ x.rx = sock[fd].rx /\ sock[fd].up = "open"
       /\ x.up \in {"open", "left"} /\ (u.k = "frame" \/ u = PartUnit)
       /\ (IsData(u) /\ u.op = "cont" => u.fin)
  BY <1>0, <1>5, <1>8 DEF s
<1>14. /\ \A w : InSent(sock[fd], w) => InSent(x, w)
       /\ After(Begun(sock[fd]), u) = Begun(x)
  BY <1>10, <1>11 DEF s
<1>15. LET w == Whole(Begun(sock[fd]), u) IN
           /\ InSent(x, w) /\ Number(w) = u.piece[1]
           /\ \/ u.piece[1] \in begun + 1 .. begun'
              \/ Begun(sock[fd]) # NoMessage /\ u.piece[1] = Number(sock[fd].open)
  BY <1>2, <1>4, <1>5, <1>9, <1>10, <1>12 DEF s
<1>16. Begun(x) # NoMessage => x.open = sock[fd].open \/ Number(x.open) \in begun + 1 .. begun'
  BY <1>9
<1> QED BY <1>3, <1>5, <1>8, <1>13, <1>14, <1>15, <1>16, OpenWired

LEMMA OtherWired ==
  ASSUME WsTypes, Wired, Looped, NEW fd \in Fds, AtSocket, PeerOther(fd),
         UNCHANGED <<poolVars, wsClientVars, wsIoVars, wsTaskVars, wsHandBack, fcgi>>
  PROVE  Wired' /\ Looped'
<1> DEFINE s == sock[fd]
           y == [s EXCEPT !.up = "left"]
<1>0. /\ s \in WsSocket /\ begun \in Nat /\ begun' \in Nat /\ begun <= begun' /\ s.up = "open"
  BY DEF WsTypes, WsTypeOK, PeerTypeOK, PeerOther
<1>1. /\ y \in WsSocket /\ y.st = s.st /\ y.tx = s.tx /\ y.rx = s.rx /\ y.up = "left"
      /\ y.sent = s.sent /\ y.open = s.open
  <2>1. y \in WsSocket
    BY <1>0, SocketUpdates
  <2> HIDE DEF s
  <2> QED BY <1>0, <2>1 DEF WsSocket
<1>2. PICK x \in {s, y}, op \in {"ping", "close", "cont"} :
        /\ Send(fd, x, <<FrameUnit(op, TRUE, NoPiece)>>)
        /\ op = "cont" => s.open.data = <<>>
  BY DEF PeerOther
<1> DEFINE u == FrameUnit(op, TRUE, NoPiece)
<1>3. u \in WsUnit /\ u.k = "frame" /\ u.op = op /\ u.fin
  BY DEF FrameUnit, WsUnit, NoPiece, Piece
<1> HIDE DEF s, y
<1>4. /\ x \in WsSocket /\ x.st = s.st /\ x.tx = s.tx /\ x.rx = s.rx /\ x.up \in {"open", "left"}
      /\ x.sent = s.sent /\ x.open = s.open
  BY <1>0, <1>1, <1>2
<1>5. Send(fd, x, <<u>>)
  BY <1>2
<1> HIDE DEF u
<1>6. Begun(x) = Begun(s) /\ \A w : InSent(s, w) => InSent(x, w)
  BY <1>4 DEF Begun, InSent
<1>7. After(Begun(s), u) = Begun(s) /\ ~Completes(Begun(s), u)
  BY <1>2, <1>3 DEF After, Completes, IsData, Begun
<1>8. /\ x.st = sock[fd].st /\ x.tx = sock[fd].tx /\ x.rx = sock[fd].rx /\ sock[fd].up = "open"
      /\ (u.k = "frame" \/ u = PartUnit) /\ (IsData(u) /\ u.op = "cont" => u.fin)
      /\ (\A w : InSent(sock[fd], w) => InSent(x, w))
      /\ After(Begun(sock[fd]), u) = Begun(x)
      /\ ~Completes(Begun(sock[fd]), u) /\ x.open = sock[fd].open
  BY <1>0, <1>3, <1>4, <1>6, <1>7 DEF s
<1> QED BY <1>0, <1>3, <1>4, <1>5, <1>8, OpenWired

\* connect(), reads and closes send nothing.
LEMMA QuietWired ==
  ASSUME WsTypes, Wired, Looped, NEW fd \in Fds, AtSocket,
         PeerConnect(fd) \/ PeerRead(fd) \/ \E hup \in BOOLEAN : PeerClose(fd, hup),
         UNCHANGED <<poolVars, wsClientVars, wsIoVars, wsTaskVars, wsHandBack, fcgi>>
  PROVE  Wired' /\ Looped'
<1> DEFINE c == client[fd]
           s == sock[fd]
<1>0. /\ s \in WsSocket /\ begun \in Nat /\ begun' = begun /\ Handling(fd) = FALSE
      /\ begun' \in Nat /\ begun <= begun'
  <2>1. begun' = begun
    BY DEF PeerConnect, PeerRead, PeerClose
  <2> QED BY <2>1 DEF WsTypes, WsTypeOK, PeerTypeOK, AtSocket, Handling
<1>1. Wire(c, s, FALSE, begun)
  BY <1>0 DEF Wired
<1>2. CASE PeerConnect(fd)
  <2> DEFINE t == [FreeWsSock EXCEPT !.st = "backlog"]
  <2>1. /\ t.up = "no" /\ t.open.data = <<>> /\ t.sent = <<>> /\ t.tx = <<>> /\ t.rx = <<>>
        /\ t.st = "backlog"
    BY DEF FreeWsSock, Message
  <2>2. sock' = [sock EXCEPT ![fd] = t] /\ s.st = "free"
    BY <1>2 DEF PeerConnect
  <2> HIDE DEF t
  <2>3. fd \notin clients /\ c = NewClient
    BY <2>2 DEF Looped
  <2>4. Wire(client[fd], t, FALSE, begun')
    BY <2>1, <2>3, FreshWire
  <2> QED BY <1>0, <2>1, <2>2, <2>3, <2>4, PeerWired
<1>3. CASE PeerRead(fd)
  <2> DEFINE got == {s.tx[i] : i \in 1 .. Len(s.tx)}
             up == IF Message("101", <<>>) \in got THEN "open" ELSE s.up
             t == [s EXCEPT !.tx = <<>>, !.up = up,
                            !.answered = @ \cup {g \in got : g.data # <<>>}]
  <2>1. sock' = [sock EXCEPT ![fd] = t]
    BY <1>3 DEF PeerRead
  <2>2. /\ t.rx = s.rx /\ t.open = s.open /\ t.sent = s.sent /\ t.up = up /\ t.tx = <<>>
        /\ t.st = s.st
    <3> HIDE DEF got, up
    <3> QED BY <1>0 DEF WsSocket
  <2>3. ~c.handshake_done => No101(c.out_buf) /\ No101(s.tx)
    BY <1>1 DEF Wire, Unshaken
  <2>4. ~c.handshake_done => up = s.up
    BY <2>3 DEF No101, Message
  <2>5. up = s.up \/ up = "open"
    OBVIOUS
  <2>6. No101(<<>>)
    BY DEF No101
  <2> HIDE DEF t, up, got, c, s
  <2>7. Wire(c, t, FALSE, begun')
    BY <1>0, <1>1, <2>2, <2>3, <2>4, <2>5, <2>6, WireSame
  <2>8. (t.st = "conn" <=> fd \in clients) /\ (fd \notin clients => t.tx = <<>>)
    BY <2>2 DEF Looped, s
  <2> QED BY <1>0, <2>1, <2>7, <2>8, PeerWired DEF c
<1>4. ASSUME NEW hup \in BOOLEAN, PeerClose(fd, hup) PROVE Wired' /\ Looped'
  <2> DEFINE t == [s EXCEPT !.eof = TRUE, !.hup = hup, !.tx = <<>>]
  <2>1. sock' = [sock EXCEPT ![fd] = t]
    BY <1>4 DEF PeerClose
  <2>2. /\ t.rx = s.rx /\ t.open = s.open /\ t.sent = s.sent /\ t.up = s.up /\ t.tx = <<>>
        /\ t.st = s.st
    BY <1>0 DEF WsSocket
  <2>3. ~c.handshake_done => No101(c.out_buf)
    BY <1>1 DEF Wire, Unshaken
  <2>4. No101(<<>>)
    BY DEF No101
  <2> HIDE DEF t, c, s
  <2>5. Wire(c, t, FALSE, begun')
    BY <1>0, <1>1, <2>2, <2>3, <2>4, WireSame
  <2>6. (t.st = "conn" <=> fd \in clients) /\ (fd \notin clients => t.tx = <<>>)
    BY <2>2 DEF Looped, s
  <2> QED BY <1>0, <2>1, <2>5, <2>6, PeerWired DEF c
<1> QED BY <1>2, <1>3, <1>4

-----------------------------------------------------------------------------
(* All steps *)

LEMMA WiredNext ==
  ASSUME WsTypes, Wired, Looped, [WsNext]_wsVars
  PROVE  Wired' /\ Looped'
<1>1. CASE UNCHANGED wsVars
  BY <1>1 DEF wsVars, Wired, Looped, Handling
<1>2. ASSUME NEW fd \in Fds, Peer(fd) PROVE Wired' /\ Looped'
  <2>1. AtSocket /\ UNCHANGED <<poolVars, wsClientVars, wsIoVars, wsTaskVars, wsHandBack, fcgi>>
    BY <1>2 DEF Peer
  <2>2. CASE PeerConnect(fd) \/ PeerRead(fd) \/ \E hup \in BOOLEAN : PeerClose(fd, hup)
    BY <2>1, <2>2, QuietWired
  <2>3. CASE PeerUpgrade(fd)
    BY <2>1, <2>3, UpgradeWired
  <2>4. CASE PeerBody(fd)
    BY <2>1, <2>4, BodyWired
  <2>5. CASE PeerContinue(fd)
    BY <2>1, <2>5, ContinueWired
  <2>6. CASE PeerOther(fd)
    BY <2>1, <2>6, OtherWired
  <2>7. CASE PeerPart(fd)
    BY <2>1, <2>7, PartWired
  <2>8. ASSUME NEW len \in BodyLens, PeerRequest(fd, len) PROVE Wired' /\ Looped'
    BY <2>1, <2>8, RequestWired
  <2>9. ASSUME NEW op \in Ops, NEW fin \in BOOLEAN, PeerMessage(fd, op, fin)
        PROVE  Wired' /\ Looped'
    BY <2>1, <2>9, MessageWired
  <2> QED BY <1>2, <2>2, <2>3, <2>4, <2>5, <2>6, <2>7, <2>8, <2>9 DEF Peer
<1>3. CASE WsIoThread
  BY <1>3, AcceptWired, EventWired, HttpWired, FrameWired, DoneWired, WriteWired, GiveWired,
     HandBackWired
  DEF WsIoThread
<1> QED BY <1>1, <1>2, <1>3, HandBackWired DEF WsNext

LEMMA AlwaysWired == WsSpec => [](WsTypes /\ Wired /\ Looped)
<1>1. WsInit => WsTypes /\ Wired /\ Looped
  BY InitTypes, InitWired
<1>2. WsTypes /\ Wired /\ Looped /\ [WsNext]_wsVars => (WsTypes /\ Wired /\ Looped)'
  BY WiredNext, WsTypesNext
<1> QED BY <1>1, <1>2, PTL DEF WsSpec

(***************************************************************************)
(* What the frame loop hands to the callback is what the peer sent: whole, *)
(* in order and once, with the opcode it began with, whatever control      *)
(* frames, abandoned fragments and cut-off reads come between.             *)
(***************************************************************************)
THEOREM WholeMessages == WsSpec => []MessagesAreWhole
<1>1. WsTypes /\ Wired => MessagesAreWhole
  <2> SUFFICES ASSUME WsTypes, Wired, NEW fd \in clients,
                      NEW i \in 1 .. Len(client[fd].handed), client[fd].handed[i].op # "http"
               PROVE  LET got == client[fd].handed IN
                      /\ \E j \in 1 .. Len(sock[fd].sent) : got[i] = sock[fd].sent[j]
                      /\ \A h \in 1 .. i - 1 : got[h].op # "http" => Number(got[h]) < Number(got[i])
    BY DEF MessagesAreWhole
  <2> DEFINE c == client[fd]
             s == sock[fd]
  <2>1. fd \in Fds /\ c \in ClientType /\ c.handed \in Seq(MessageOf(Opcode \cup {"http"}))
    BY DEF WsTypes, WsTypeOK, ClientTypeOK, ClientType
  <2>2. Wire(c, s, Handling(fd), begun)
    BY <2>1 DEF Wired
  <2>3. CASE c.handshake_done
    <3>1. GotWhole(c, s, begun)
      BY <2>2, <2>3 DEF Wire, Shaken
    <3>2. \A h \in 1 .. i - 1 : h \in 1 .. Len(c.handed) /\ h < i
      BY <2>1
    <3> QED BY <3>1, <3>2 DEF GotWhole, InSent
  <2>4. CASE ~c.handshake_done
    <3>1. Speaks(c, s) /\ s.up \in {"no", "asked", "http"}
      BY <2>2, <2>4 DEF Wire, Unshaken
    <3>2. c.handed # <<>>
      BY <2>1
    <3> QED BY <3>1, <3>2 DEF Speaks, RequestGot
  <2> QED BY <2>3, <2>4
<1> QED BY <1>1, AlwaysWired, PTL

-----------------------------------------------------------------------------
(***************************************************************************)
(* Answers.  Place says that the answer to message m is, or is to come     *)
(* from, place i of list k of x.                                           *)
(***************************************************************************)
Place(k, x, i, m) ==
  \/ /\ k = "task" /\ i = 0
     /\ \E t \in WsTasks : t.at = "callback" /\ t.msg = m /\ t.arena = x
  \/ /\ k = "pending" /\ x = NoFd
     /\ i \in 1 .. Len(g_pending_frames) /\ g_pending_frames[i].frame = m
  \/ /\ k = "taken" /\ x = NoFd /\ i \in 1 .. Len(taken) /\ taken[i].frame = m
  \/ /\ k = "out" /\ x \in Fds /\ i \in 1 .. Len(client[x].out_buf)
     /\ client[x].out_buf[i] = m
  \/ /\ k = "tx" /\ x \in Fds /\ i \in 1 .. Len(sock[x].tx) /\ sock[x].tx[i] = m
  \/ k = "read" /\ x \in Fds /\ i = 0 /\ m \in sock[x].answered

\* No WebSocket message has two places.
Once ==
  \A m \in MessageOf(Opcode) : \A k, x, i, l, y, j :
    Place(k, x, i, m) /\ Place(l, y, j, m) => k = l /\ x = y /\ i = j

\* The peer began message n.
Owns(s, n) ==
  \/ \E j \in 1 .. Len(s.sent) : Number(s.sent[j]) = n
  \/ s.open.data # <<>> /\ Number(s.open) = n

\* Each message has one sender.
Own ==
  /\ \A fd \in Fds : \A n : Owns(sock[fd], n) => n \in 0 .. begun
  /\ \A fd, gd \in Fds : \A n : Owns(sock[fd], n) /\ Owns(sock[gd], n) => fd = gd

\* The callback got this message or a later one of the client.
Reached(c, m) == \E h \in 1 .. Len(c.handed) : Number(m) <= Number(c.handed[h])

\* A message with an answer somewhere was handed to the callback, if its
\* client is still there.
Known ==
  \A m \in MessageOf(Opcode) : \A k, x, i : Place(k, x, i, m) =>
    /\ Number(m) \in 0 .. begun
    /\ \A fd \in Fds : Owns(sock[fd], Number(m)) => Reached(client[fd], m)

Answering == Once /\ Own /\ Known

-----------------------------------------------------------------------------
(* Steps, as the answers see them *)

\* No answer comes up or moves.
NothingNew ==
  \A m \in MessageOf(Opcode) : \A k, x, i : Place(k, x, i, m)' => Place(k, x, i, m)

\* Answers may move.
Kept ==
  \A m \in MessageOf(Opcode) : \A k, x, i : Place(k, x, i, m)' => \E l, y, j : Place(l, y, j, m)

\* Peers begin messages with new numbers, and what the callback got stays got.
Numbered ==
  /\ begun \in Nat /\ begun' \in Nat /\ begun <= begun'
  /\ \E f : \A fd \in Fds : \A n :
       Owns(sock'[fd], n) => Owns(sock[fd], n) \/ (fd = f /\ n \in begun + 1 .. begun')
  /\ \A fd \in Fds : \/ \A n : ~Owns(sock'[fd], n)
                     \/ \A h \in 1 .. Len(client[fd].handed) :
                          \E g \in 1 .. Len(client'[fd].handed) :
                            client'[fd].handed[g] = client[fd].handed[h]

LEMMA OwnNext ==
  ASSUME Own, Numbered
  PROVE  Own'
<1>1. PICK f : \A fd \in Fds : \A n :
        Owns(sock'[fd], n) => Owns(sock[fd], n) \/ (fd = f /\ n \in begun + 1 .. begun')
  BY DEF Numbered
<1>2. begun \in Nat /\ begun' \in Nat /\ begun <= begun'
  BY DEF Numbered
<1>3. ASSUME NEW fd \in Fds, NEW n, Owns(sock'[fd], n) PROVE n \in 0 .. begun'
  BY <1>1, <1>2, <1>3 DEF Own
<1>4. ASSUME NEW fd \in Fds, NEW gd \in Fds, NEW n, Owns(sock'[fd], n), Owns(sock'[gd], n)
      PROVE  fd = gd
  <2>1. n \in 0 .. begun => n \notin begun + 1 .. begun'
    BY <1>2
  <2> QED BY <1>1, <1>4, <2>1 DEF Own
<1> QED BY <1>3, <1>4 DEF Own

LEMMA KnownNext ==
  ASSUME Known, Numbered, Kept
  PROVE  Known'
<1>1. PICK f : \A fd \in Fds : \A n :
        Owns(sock'[fd], n) => Owns(sock[fd], n) \/ (fd = f /\ n \in begun + 1 .. begun')
  BY DEF Numbered
<1>2. begun \in Nat /\ begun' \in Nat /\ begun <= begun'
  BY DEF Numbered
<1>3. SUFFICES ASSUME NEW m \in MessageOf(Opcode), NEW k, NEW x, NEW i, Place(k, x, i, m)'
               PROVE  /\ Number(m) \in 0 .. begun'
                      /\ \A fd \in Fds : Owns(sock'[fd], Number(m)) => Reached(client'[fd], m)
  BY DEF Known
<1>4. PICK l, y, j : Place(l, y, j, m)
  BY <1>3 DEF Kept
<1>5. Number(m) \in 0 .. begun
  BY <1>4 DEF Known
<1>6. ASSUME NEW fd \in Fds, Owns(sock'[fd], Number(m)) PROVE Reached(client'[fd], m)
  <2>1. Owns(sock[fd], Number(m))
    BY <1>1, <1>2, <1>5, <1>6
  <2>2. Reached(client[fd], m)
    BY <1>4, <2>1 DEF Known
  <2>3. \A h \in 1 .. Len(client[fd].handed) :
          \E g \in 1 .. Len(client'[fd].handed) : client'[fd].handed[g] = client[fd].handed[h]
    BY <1>6 DEF Numbered
  <2> QED BY <2>2, <2>3 DEF Reached
<1> QED BY <1>2, <1>5, <1>6

LEMMA QuietAnswering ==
  ASSUME Answering, Numbered, NothingNew
  PROVE  Answering'
<1>1. Kept
  BY DEF Kept, NothingNew
<1>2. Once'
  BY DEF Answering, Once, NothingNew
<1> QED BY <1>1, <1>2, OwnNext, KnownNext DEF Answering

LEMMA MovedAnswering ==
  ASSUME Answering, Numbered, Kept, Once'
  PROVE  Answering'
BY OwnNext, KnownNext DEF Answering

\* The peers' side and what the callback got stay as they are.
LEMMA SameNumbers ==
  ASSUME WsTypes,
         \A fd \in Fds : /\ sock'[fd].sent = sock[fd].sent /\ sock'[fd].open = sock[fd].open
                         /\ client'[fd].handed = client[fd].handed,
         begun' = begun
  PROVE  Numbered
<1>1. begun \in Nat
  BY DEF WsTypes, WsTypeOK, PeerTypeOK
<1>2. \A fd \in Fds : \A n : Owns(sock'[fd], n) => Owns(sock[fd], n)
  BY DEF Owns
<1>3. \A fd \in Fds : \A h \in 1 .. Len(client[fd].handed) :
        h \in 1 .. Len(client'[fd].handed) /\ client'[fd].handed[h] = client[fd].handed[h]
  OBVIOUS
<1>4. begun' \in Nat /\ begun <= begun'
  BY <1>1
<1> QED BY <1>1, <1>2, <1>3, <1>4, Zenon DEF Numbered

LEMMA InitAnswering == WsInit => Answering
<1> SUFFICES ASSUME WsInit PROVE Answering
  OBVIOUS
<1>1. ASSUME NEW k, NEW x, NEW i, NEW m PROVE ~Place(k, x, i, m)
  BY DEF WsInit, Place, WsTasks, NewClient, FreeWsSock
<1>2. ASSUME NEW fd \in Fds, NEW n PROVE ~Owns(sock[fd], n)
  BY DEF WsInit, Owns, FreeWsSock, Message
<1> QED BY <1>1, <1>2 DEF Answering, Once, Own, Known

-----------------------------------------------------------------------------
(* The steps that make and move no answer *)

\* One peer's side changes: it begins at most new messages, and reads nothing.
LEMMA PeerSide ==
  ASSUME WsTypes, NEW fd \in Fds, NEW s, sock' = [sock EXCEPT ![fd] = s],
         s.tx \in {sock[fd].tx, <<>>}, s.answered \in {sock[fd].answered, {}},
         begun' \in Nat, begun <= begun',
         \A n : Owns(s, n) => Owns(sock[fd], n) \/ n \in begun + 1 .. begun',
         UNCHANGED <<client, taken, wsTaskVars, g_pending_frames>>
  PROVE  Numbered /\ NothingNew
<1>1. sock \in [Fds -> WsSocket] /\ begun \in Nat
  BY DEF WsTypes, WsTypeOK, PeerTypeOK
<1>2. sock'[fd] = s /\ \A gd \in Fds \ {fd} : sock'[gd] = sock[gd]
  BY <1>1
<1>3. \A gd \in Fds : \A n :
        Owns(sock'[gd], n) => Owns(sock[gd], n) \/ (gd = fd /\ n \in begun + 1 .. begun')
  BY <1>2
<1>4. Numbered
  <2>1. client' = client
    OBVIOUS
  <2> QED BY <1>1, <1>3, <2>1, Zenon DEF Numbered
<1>5. \A gd \in Fds : /\ sock'[gd].tx \in {sock[gd].tx, <<>>}
                      /\ sock'[gd].answered \in {sock[gd].answered, {}}
  BY <1>2
<1>6. NothingNew
  <2> SUFFICES ASSUME NEW m \in MessageOf(Opcode), NEW k, NEW x, NEW i, Place(k, x, i, m)'
               PROVE  Place(k, x, i, m)
    BY DEF NothingNew
  <2>1. CASE k = "tx"
    <3>1. x \in Fds /\ i \in 1 .. Len(sock'[x].tx) /\ sock'[x].tx[i] = m
      BY <2>1 DEF Place
    <3>2. sock'[x].tx = sock[x].tx
      BY <1>5, <3>1
    <3> QED BY <2>1, <3>1, <3>2 DEF Place
  <2>2. CASE k = "read"
    <3>1. x \in Fds /\ i = 0 /\ m \in sock'[x].answered
      BY <2>2 DEF Place
    <3>2. sock'[x].answered = sock[x].answered
      BY <1>5, <3>1
    <3> QED BY <2>2, <3>1, <3>2 DEF Place
  <2>3. CASE k \notin {"tx", "read"}
    BY <2>3 DEF Place, WsTasks
  <2> QED BY <2>1, <2>2, <2>3
<1> QED BY <1>4, <1>6

\* A client's output grows by what is no answer at most.
LEMMA ClientSide ==
  ASSUME NEW fd, client' = [client EXCEPT ![fd] = client'[fd]], WsTypes,
         client'[fd].out_buf = client[fd].out_buf \/ client'[fd].out_buf = <<>>
           \/ \E m : m.op \notin Opcode /\ client'[fd].out_buf = Append(client[fd].out_buf, m),
         UNCHANGED <<taken, running, g_pending_frames>>,
         \A gd \in Fds : sock'[gd].tx = sock[gd].tx /\ sock'[gd].answered = sock[gd].answered,
         UNCHANGED queue \/ \E t : t.msg.op \notin Opcode /\ queue' = Append(queue, t)
  PROVE  NothingNew
<1>0. /\ client \in [Fds -> ClientType] /\ queue \in Seq(WsClosure)
      /\ \A gd \in Fds : client[gd].out_buf \in Seq(Answer)
  <2>1. client \in [Fds -> ClientType] /\ queue \in Seq(WsClosure)
    BY DEF WsTypes, WsTypeOK, ClientTypeOK, WorkerTypeOK
  <2> QED BY <2>1 DEF ClientType
<1>1. \A m \in MessageOf(Opcode) : m.op \in Opcode
  BY DEF MessageOf
<1> SUFFICES ASSUME NEW m \in MessageOf(Opcode), NEW k, NEW x, NEW i, Place(k, x, i, m)'
             PROVE  Place(k, x, i, m)
  BY DEF NothingNew
<1>2. CASE k = "out"
  <2>1. x \in Fds /\ i \in 1 .. Len(client'[x].out_buf) /\ client'[x].out_buf[i] = m
    BY <1>2 DEF Place
  <2>2. CASE x # fd
    <3>1. client'[x] = client[x]
      BY <1>0, <2>1, <2>2
    <3> QED BY <1>2, <2>1, <3>1 DEF Place
  <2>3. CASE x = fd
    <3> DEFINE old == client[x].out_buf
               new == client'[x].out_buf
    <3>1. old \in Seq(Answer)
      BY <1>0, <2>1
    <3>2. new = old \/ new = <<>> \/ \E a : a.op \notin Opcode /\ new = Append(old, a)
      BY <2>3
    <3>3. i \in 1 .. Len(new) /\ new[i] = m
      BY <2>1
    <3> HIDE DEF old, new
    <3>4. i \in 1 .. Len(old) /\ old[i] = m
      BY <1>1, <3>1, <3>2, <3>3
    <3> QED BY <1>2, <2>1, <3>4 DEF Place, old
  <2> QED BY <2>2, <2>3
<1>3. CASE k = "task"
  <2>1. PICK t \in WsTasks' : t.at = "callback" /\ t.msg = m /\ t.arena = x /\ i = 0
    BY <1>3 DEF Place
  <2>2. t \in WsTasks
    <3>1. CASE t \in running
      BY <3>1 DEF WsTasks
    <3>2. CASE t \notin running
      <4>1. PICK j \in 1 .. Len(queue') : queue'[j] = t
        BY <2>1, <3>2 DEF WsTasks
      <4>2. t.msg.op \in Opcode
        BY <1>1, <2>1
      <4>3. j \in 1 .. Len(queue) /\ queue[j] = t
        BY <1>0, <4>1, <4>2
      <4> QED BY <4>3 DEF WsTasks
    <3> QED BY <3>1, <3>2
  <2> QED BY <1>3, <2>1, <2>2 DEF Place
<1>4. CASE k \in {"tx", "read"}
  BY <1>4 DEF Place
<1>5. CASE k \notin {"out", "task", "tx", "read"}
  BY <1>5 DEF Place
<1> QED BY <1>2, <1>3, <1>4, <1>5

\* Nothing that has answers changes.
LEMMA Elsewhere ==
  ASSUME WsTypes, Answering,
         UNCHANGED <<client, taken, wsTaskVars, g_pending_frames, sock, begun>>
  PROVE  Answering'
<1>1. NothingNew
  BY DEF NothingNew, Place, WsTasks
<1>2. Numbered
  BY SameNumbers
<1> QED BY <1>1, <1>2, QuietAnswering

LEMMA AcceptAnswering ==
  ASSUME WsTypes, Looped, Answering, NEW fd \in Fds, AcceptClient(fd)
  PROVE  Answering'
<1>0. client \in [Fds -> ClientType] /\ sock \in [Fds -> WsSocket] /\ sock[fd].st = "backlog"
  BY DEF WsTypes, WsTypeOK, ClientTypeOK, PeerTypeOK, AcceptClient
<1>1. client' = client
  <2>1. client[fd] = NewClient
    BY <1>0 DEF Looped
  <2> QED BY <1>0, <2>1 DEF AcceptClient
<1> DEFINE s == [sock[fd] EXCEPT !.st = "conn"]
<1>2. /\ sock' = [sock EXCEPT ![fd] = s] /\ begun' = begun /\ begun \in Nat
      /\ UNCHANGED <<taken, wsTaskVars, g_pending_frames>>
  BY DEF AcceptClient, WsTypes, WsTypeOK, PeerTypeOK
<1>3. /\ s.tx = sock[fd].tx /\ s.answered = sock[fd].answered /\ s.sent = sock[fd].sent
      /\ s.open = sock[fd].open
  BY <1>0 DEF WsSocket
<1> HIDE DEF s
<1>4. \A n : Owns(s, n) => Owns(sock[fd], n)
  BY <1>3 DEF Owns
<1>5. begun' \in Nat /\ begun <= begun'
  BY <1>2
<1>6. Numbered /\ NothingNew
  BY <1>1, <1>2, <1>3, <1>4, <1>5, PeerSide
<1> QED BY <1>6, QuietAnswering

LEMMA EventAnswering ==
  ASSUME WsTypes, Answering, NEW fd \in Fds, ClientEvent(fd)
  PROVE  Answering'
<1>0. client \in [Fds -> ClientType] /\ sock \in [Fds -> WsSocket]
  BY DEF WsTypes, WsTypeOK, ClientTypeOK, PeerTypeOK
<1>1. \A gd \in Fds : /\ client'[gd].out_buf = client[gd].out_buf
                      /\ client'[gd].handed = client[gd].handed
  BY <1>0 DEF ClientEvent, ClientType
<1>2. \A gd \in Fds : /\ sock'[gd].tx = sock[gd].tx /\ sock'[gd].answered = sock[gd].answered
                      /\ sock'[gd].sent = sock[gd].sent /\ sock'[gd].open = sock[gd].open
  BY <1>0 DEF ClientEvent, WsSocket
<1>3. UNCHANGED <<taken, wsTaskVars, g_pending_frames, begun>>
  BY DEF ClientEvent
<1>4. Numbered
  BY <1>1, <1>2, <1>3, SameNumbers
<1>5. NothingNew
  BY <1>1, <1>2, <1>3 DEF NothingNew, Place, WsTasks
<1> QED BY <1>4, <1>5, QuietAnswering

\* What a handler leaves of its client is used by the answers only so far.
LEMMA HandlerNumbers ==
  ASSUME WsTypes, cur \in Fds, UNCHANGED <<sock, begun>>, NEW d,
         client' = [client EXCEPT ![cur] = d],
         d.handed = client[cur].handed \/ \E m : d.handed = Append(client[cur].handed, m)
  PROVE  Numbered
<1>0. client \in [Fds -> ClientType] /\ begun \in Nat
      /\ client[cur].handed \in Seq(MessageOf(Opcode \cup {"http"}))
  BY DEF WsTypes, WsTypeOK, ClientTypeOK, PeerTypeOK, ClientType
<1>1. \A fd \in Fds : \A h \in 1 .. Len(client[fd].handed) :
        h \in 1 .. Len(client'[fd].handed) /\ client'[fd].handed[h] = client[fd].handed[h]
  <2> SUFFICES ASSUME NEW fd \in Fds, NEW h \in 1 .. Len(client[fd].handed)
               PROVE  h \in 1 .. Len(client'[fd].handed)
                        /\ client'[fd].handed[h] = client[fd].handed[h]
    OBVIOUS
  <2>1. CASE fd = cur
    <3> DEFINE old == client[cur].handed
    <3>1. client'[fd].handed = d.handed /\ old = client[fd].handed
      BY <1>0, <2>1
    <3>2. old \in Seq(MessageOf(Opcode \cup {"http"})) /\ h \in 1 .. Len(old)
          /\ (d.handed = old \/ \E m : d.handed = Append(old, m))
      BY <1>0, <2>1
    <3> HIDE DEF old
    <3>3. h \in 1 .. Len(d.handed) /\ d.handed[h] = old[h]
      BY <3>2
    <3> QED BY <3>1, <3>3
  <2>2. CASE fd # cur
    BY <1>0, <2>2
  <2> QED BY <2>1, <2>2
<1>2. begun' \in Nat /\ begun <= begun' /\ sock' = sock
  BY <1>0
<1> QED BY <1>0, <1>1, <1>2, Zenon DEF Numbered

\* A request over plain HTTP is none of the messages that are counted here.
LEMMA HttpAnswering ==
  ASSUME WsTypes, Answering, HttpStep
  PROVE  Answering'
<1> DEFINE c == client[cur]
           text == Together(c.in_http, c.in_buf)
           heads == {i \in 1 .. Len(text) : IsHead(text[i])}
           first == CHOOSE i \in heads : \A j \in heads : i <= j
           rest == SubSeq(text, first + 1, Len(text))
           read == [c EXCEPT !.in_http = text, !.in_buf = <<>>]
           seen == [read EXCEPT !.http_mode = TRUE, !.in_buf = rest,
                                !.http_content_length = text[first].len]
           opened == [read EXCEPT !.handshake_done = TRUE,
                                  !.out_buf = Append(@, Message("101", <<>>))]
           msg == Message(text[first].op,
                          <<text[first].piece>> \o [i \in 1 .. text[first].len |-> rest[i].piece])
           empty == [seen EXCEPT !.in_buf = <<>>]
           with == [empty EXCEPT !.handed = Append(@, msg)]
<1>0. /\ cur \in Fds /\ c \in ClientType /\ client \in [Fds -> ClientType]
      /\ UNCHANGED <<taken, running, g_pending_frames, sock, begun>>
  BY DEF HttpStep, WsTypes, WsTypeOK, ClientTypeOK, LoopTypeOK
<1>1. /\ \A d \in {read, seen, empty, with} : d.out_buf = c.out_buf
      /\ opened.out_buf = Append(c.out_buf, Message("101", <<>>))
      /\ \A d \in {read, seen, empty, opened} : d.handed = c.handed
      /\ with.handed = Append(c.handed, msg)
  <2> HIDE DEF text, heads, first, rest, msg
  <2> QED BY <1>0 DEF ClientType
<1>2. \/ client' = [client EXCEPT ![cur] = read] /\ UNCHANGED queue
      \/ client' = [client EXCEPT ![cur] = opened] /\ UNCHANGED queue
      \/ client' = [client EXCEPT ![cur] = seen] /\ UNCHANGED queue
      \/ client' = [client EXCEPT ![cur] = empty] /\ UNCHANGED queue
      \/ /\ client' = [client EXCEPT ![cur] = with] /\ text[first].op = "http"
         /\ \E a : queue' = Append(queue, WsTask(a, msg))
  <2> HIDE DEF text, heads, first, rest
  <2>1. ASSUME Schedule(empty, msg), text[first].op = "http"
        PROVE  \/ client' = [client EXCEPT ![cur] = empty] /\ UNCHANGED queue
               \/ /\ client' = [client EXCEPT ![cur] = with] /\ text[first].op = "http"
                  /\ \E a : queue' = Append(queue, WsTask(a, msg))
    <3> HIDE DEF msg, empty
    <3> QED BY <2>1 DEF Schedule
  <2>2. \/ Keep(read) \/ Keep(opened) \/ Keep(seen)
        \/ Schedule(empty, msg) /\ text[first].op = "http"
    BY DEF HttpStep, ScheduleHttp, text, heads, first, rest
  <2> HIDE DEF read, opened, seen, empty, msg, with
  <2> QED BY <2>1, <2>2 DEF Keep
<1>3. msg.op = text[first].op
  BY DEF Message
<1>4. Message("101", <<>>).op \notin Opcode /\ "http" \notin Opcode
  BY DEF Message, Opcode
<1> HIDE DEF c, text, heads, first, rest, read, opened, seen, empty, msg, with
<1>5. PICK d : /\ client' = [client EXCEPT ![cur] = d]
               /\ d.out_buf = c.out_buf
                    \/ \E a : a.op \notin Opcode /\ d.out_buf = Append(c.out_buf, a)
               /\ d.handed = c.handed \/ \E a : d.handed = Append(c.handed, a)
               /\ UNCHANGED queue \/ \E t : t.msg.op \notin Opcode /\ queue' = Append(queue, t)
  <2>1. \A a : WsTask(a, msg).msg = msg
    BY DEF WsTask
  <2>2. CASE client' = [client EXCEPT ![cur] = with] /\ text[first].op = "http"
             /\ \E a : queue' = Append(queue, WsTask(a, msg))
    BY <1>1, <1>3, <1>4, <2>1, <2>2
  <2> QED BY <1>1, <1>2, <1>4, <2>2
<1>6. client'[cur] = d /\ client' = [client EXCEPT ![cur] = client'[cur]]
  BY <1>0, <1>5
<1>7. Numbered
  BY <1>0, <1>5, HandlerNumbers DEF c
<1>8. NothingNew
  <2>1. client'[cur].out_buf = client[cur].out_buf
           \/ \E m : m.op \notin Opcode /\ client'[cur].out_buf = Append(client[cur].out_buf, m)
    BY <1>5, <1>6 DEF c
  <2>2. \A gd \in Fds : sock'[gd].tx = sock[gd].tx /\ sock'[gd].answered = sock[gd].answered
    BY <1>0
  <2> QED BY <1>0, <1>5, <1>6, <2>1, <2>2, ClientSide
<1> QED BY <1>7, <1>8, QuietAnswering

\* The message a frame completes, if it is handed on.
Completed(c, u, msg) ==
  \/ u.op \in Opcode /\ u.fin /\ msg = Message(u.op, <<u.piece>>)
  \/ /\ u.op = "cont" /\ u.fin /\ c.assembling
     /\ msg = Message(c.assemble_opcode, Append(c.assemble_data, u.piece))

\* What a frame makes of the client, the queue and the output.
LEMMA FrameOutcome ==
  ASSUME WsTypes, FrameStep
  PROVE  LET c == client[cur]
             u == Head(c.in_buf)
         IN  \E d : /\ client' = [client EXCEPT ![cur] = d]
                    /\ d.out_buf = c.out_buf
                         \/ \E a : a.op \notin Opcode /\ d.out_buf = Append(c.out_buf, a)
                    /\ \/ UNCHANGED queue /\ d.handed = c.handed
                       \/ \E msg : /\ Completed(c, u, msg) /\ d.handed = Append(c.handed, msg)
                                   /\ d.out_buf = c.out_buf
                                   /\ \E a \in Arena : queue' = Append(queue, WsTask(a, msg))
<1> DEFINE c == client[cur]
           u == Head(c.in_buf)
           Goal ==
             \E d : /\ client' = [client EXCEPT ![cur] = d]
                    /\ d.out_buf = c.out_buf
                         \/ \E a : a.op \notin Opcode /\ d.out_buf = Append(c.out_buf, a)
                    /\ \/ UNCHANGED queue /\ d.handed = c.handed
                       \/ \E msg : /\ Completed(c, u, msg) /\ d.handed = Append(c.handed, msg)
                                   /\ d.out_buf = c.out_buf
                                   /\ \E a \in Arena : queue' = Append(queue, WsTask(a, msg))
<1>0. /\ c \in ClientType /\ cur \in Fds /\ client \in [Fds -> ClientType]
      /\ Shorter \in ClientType /\ u.op \in Opcode \cup {"cont", "ping", "close"}
  BY FrameTaken DEF FrameStep, WsTypes, WsTypeOK, ClientTypeOK, LoopTypeOK
<1>1. /\ Shorter.out_buf = c.out_buf /\ Shorter.handed = c.handed
      /\ Shorter.assembling = c.assembling /\ Shorter.assemble_opcode = c.assemble_opcode
      /\ Shorter.assemble_data = c.assemble_data
  <2> DEFINE tail == Tail(c.in_buf)
  <2>1. Shorter = [c EXCEPT !.in_buf = tail]
    BY DEF Shorter
  <2> HIDE DEF c, tail
  <2> QED BY <1>0, <2>1 DEF ClientType
<1> HIDE DEF c, u
\* A client that hands nothing on.
<1>2. ASSUME NEW d, Keep(d), d.handed = c.handed,
             d.out_buf = c.out_buf
               \/ \E a : a.op \notin Opcode /\ d.out_buf = Append(c.out_buf, a)
      PROVE  Goal
  BY <1>2 DEF Keep
<1>3. ASSUME NEW d \in ClientType, NEW msg, Schedule(d, msg), Completed(c, u, msg),
             d.handed = c.handed, d.out_buf = c.out_buf
      PROVE  Goal
  <2> DEFINE e == [d EXCEPT !.handed = Append(@, msg)]
  <2>1. e.handed = Append(c.handed, msg) /\ e.out_buf = c.out_buf
    BY <1>3 DEF ClientType
  <2>2. \/ client' = [client EXCEPT ![cur] = d] /\ UNCHANGED queue
        \/ /\ client' = [client EXCEPT ![cur] = e]
           /\ \E a \in Arena : queue' = Append(queue, WsTask(a, msg))
    BY <1>3 DEF Schedule
  <2> HIDE DEF e
  <2> QED BY <1>3, <2>1, <2>2
<1>4. ASSUME u.op \in {"close", "ping"}, Control(u)
      PROVE  Goal
  <2> DEFINE pong == Message("pong", <<>>)
             d == [Shorter EXCEPT !.closed = TRUE]
             e == [Shorter EXCEPT !.out_buf = Append(@, pong)]
  <2>1. Keep(d) \/ Keep(e)
    BY <1>4 DEF Control
  <2>2. pong.op \notin Opcode
    BY DEF Message, Opcode
  <2> HIDE DEF pong
  <2>3. /\ d.out_buf = c.out_buf /\ e.out_buf = Append(c.out_buf, pong)
        /\ d.handed = c.handed /\ e.handed = c.handed
    BY <1>0, <1>1 DEF ClientType
  <2> HIDE DEF d, e, Goal
  <2> QED BY <1>2, <2>1, <2>2, <2>3
<1>5. ASSUME u.op \in {"text", "binary"}, TextOrBinary(u)
      PROVE  Goal
  <2> DEFINE fresh == IF Shorter.assembling
                        THEN [Shorter EXCEPT !.assembling = FALSE, !.assemble_data = <<>>]
                        ELSE Shorter
             d == [fresh EXCEPT !.assembling = TRUE, !.assemble_opcode = u.op,
                                !.assemble_data = <<u.piece>>]
             msg == Message(u.op, <<u.piece>>)
  <2>1. /\ fresh \in ClientType /\ fresh.handed = c.handed /\ fresh.out_buf = c.out_buf
    <3>1. <<>> \in Seq(Piece)
      BY Sequences
    <3>2. fresh \in ClientType
      BY <1>0, <3>1, ClientUpdates
    <3> QED BY <1>0, <1>1, <3>2 DEF ClientType
  <2>2. IF u.fin THEN Schedule(fresh, msg) ELSE Keep(d)
    BY <1>5 DEF TextOrBinary
  <2> HIDE DEF fresh
  <2>3. d.handed = c.handed /\ d.out_buf = c.out_buf
    BY <2>1 DEF ClientType
  <2> HIDE DEF d, Goal
  <2>4. u.fin => Completed(c, u, msg)
    BY <1>5 DEF Completed, Opcode
  <2> HIDE DEF msg
  <2> QED BY <1>2, <1>3, <2>1, <2>2, <2>3, <2>4
<1>6. ASSUME u.op = "cont", Continuation(u)
      PROVE  Goal
  <2> DEFINE whole == Append(Shorter.assemble_data, u.piece)
             done == [Shorter EXCEPT !.assembling = FALSE, !.assemble_data = <<>>]
             msg == Message(Shorter.assemble_opcode, whole)
             d == [Shorter EXCEPT !.closed = TRUE]
             e == [Shorter EXCEPT !.assemble_data = whole]
  <2>1. IF ~Shorter.assembling THEN Keep(d)
        ELSE IF u.fin THEN Schedule(done, msg) ELSE Keep(e)
    BY <1>6 DEF Continuation
  <2>2. /\ done \in ClientType /\ done.handed = c.handed /\ done.out_buf = c.out_buf
    <3>1. <<>> \in Seq(Piece)
      BY Sequences
    <3>2. done \in ClientType
      BY <1>0, <3>1, ClientUpdates
    <3> QED BY <1>0, <1>1, <3>2 DEF ClientType
  <2>3. /\ d.handed = c.handed /\ d.out_buf = c.out_buf
        /\ e.handed = c.handed /\ e.out_buf = c.out_buf
    <3> HIDE DEF whole
    <3> QED BY <1>0, <1>1 DEF ClientType
  <2>4. Shorter.assembling /\ u.fin => Completed(c, u, msg)
    BY <1>1, <1>6 DEF Completed
  <2> HIDE DEF done, msg, d, e, Goal
  <2> QED BY <1>2, <1>3, <2>1, <2>2, <2>3, <2>4
<1>7. Goal
  <2> HIDE DEF Goal
  <2> QED BY <1>4, <1>5, <1>6 DEF FrameStep, c, u
<1> QED BY <1>7 DEF c, u

\* A message the frame loop hands on is one of this peer's that the callback
\* had not got, and so has no answer yet.
LEMMA NewlyCompleted ==
  ASSUME WsTypes, Wired, Looped, FrameStep, NEW msg,
         Completed(client[cur], Head(client[cur].in_buf), msg)
  PROVE  /\ Owns(sock[cur], Number(msg)) /\ Number(msg) \in Nat
         /\ ~Reached(client[cur], msg)
<1> DEFINE c == client[cur]
           s == sock[cur]
           q == c.in_buf
           u == Head(q)
<1>0. /\ c \in ClientType /\ cur \in Fds /\ s \in WsSocket /\ begun \in Nat
      /\ c.handshake_done /\ pc = "frames" /\ u.k = "frame" /\ q \in Seq(WsUnit) /\ q # <<>>
  <2>1. c \in ClientType /\ cur \in Fds
    BY DEF FrameStep, WsTypes, WsTypeOK, ClientTypeOK, LoopTypeOK
  <2>2. q \in Seq(WsUnit)
    BY <2>1 DEF ClientType
  <2> QED BY <2>1, <2>2 DEF FrameStep, FrameThere, WsTypes, WsTypeOK, PeerTypeOK, Looped
<1>1. Shaken(c, s, TRUE, begun)
  BY <1>0 DEF Wired, Wire, Handling
<1>2. PICK A : Run(A, q, c, s, begun)
  BY <1>1 DEF Shaken
<1>3. (c.assembling => c.assemble_data # <<>>) /\ GotWhole(c, s, begun)
  BY <1>1 DEF Shaken
<1>4. 1 \in 1 .. Len(q) /\ u = q[1]
  <2> HIDE DEF q
  <2> QED BY <1>0
<1> HIDE DEF c, s, q, u
<1>5. Completes(Assembled(c), u) /\ Whole(Assembled(c), u) = msg
  <2>1. Completed(c, u, msg)
    BY DEF c, q, u
  <2>2. CASE u.op \in Opcode /\ u.fin /\ msg = Message(u.op, <<u.piece>>)
    BY <1>0, <2>2 DEF Completes, Whole, IsData, Opcode
  <2>3. CASE /\ u.op = "cont" /\ u.fin /\ c.assembling
             /\ msg = Message(c.assemble_opcode, Append(c.assemble_data, u.piece))
    <3>1. Assembled(c) = Message(c.assemble_opcode, c.assemble_data)
      BY <2>3 DEF Assembled
    <3>2. Assembled(c) # NoMessage
      BY <1>3, <2>3, <3>1 DEF NoMessage, Message
    <3>3. Whole(Assembled(c), u) = msg
      BY <2>3, <3>1 DEF Whole, Message
    <3> QED BY <1>0, <2>3, <3>2, <3>3 DEF Completes, IsData
  <2> QED BY <2>1, <2>2, <2>3 DEF Completed
<1>6. A[0] = Assembled(c)
  BY <1>2 DEF Run
<1>7. Completes(A[1 - 1], q[1]) /\ Whole(A[1 - 1], q[1]) = msg
  BY <1>4, <1>5, <1>6
<1>8. /\ InSent(s, msg) /\ Number(msg) = u.piece[1]
      /\ \A h \in 1 .. Len(c.handed) : Number(c.handed[h]) < Number(msg)
  <2>1. /\ InSent(s, Whole(A[1 - 1], q[1])) /\ Number(Whole(A[1 - 1], q[1])) = q[1].piece[1]
        /\ \A h \in 1 .. Len(c.handed) : Number(c.handed[h]) < q[1].piece[1]
    BY <1>2, <1>4, <1>7, Zenon DEF Run
  <2> QED BY <1>4, <1>7, <2>1
<1>9. Owns(s, Number(msg))
  BY <1>8 DEF InSent, Owns
<1>10. Number(msg) \in Nat
  <2>1. u \in WsUnit
    BY <1>0, <1>4, Sequences
  <2>2. u.piece \in Nat \X Nat
    BY <1>0, <2>1 DEF WsUnit, Piece
  <2> QED BY <1>8, <2>2
<1>11. ~Reached(c, msg)
  <2>1. \A h \in 1 .. Len(c.handed) : Number(c.handed[h]) \in Nat
    BY <1>0, <1>3 DEF GotWhole
  <2>2. ASSUME NEW h \in 1 .. Len(c.handed), Number(msg) <= Number(c.handed[h]) PROVE FALSE
    <3>1. \A a, b \in Nat : a < b => ~(b <= a)
      OBVIOUS
    <3> QED BY <1>8, <1>10, <2>1, <2>2, <3>1
  <2> QED BY <2>2 DEF Reached
<1> QED BY <1>9, <1>10, <1>11 DEF c, s

LEMMA FrameAnswering ==
  ASSUME WsTypes, Wired, Looped, Answering, FrameStep
  PROVE  Answering'
<1> DEFINE c == client[cur]
           u == Head(c.in_buf)
<1>0. /\ cur \in Fds /\ client \in [Fds -> ClientType] /\ queue \in Seq(WsClosure)
      /\ UNCHANGED <<taken, running, g_pending_frames, sock, begun>>
      /\ begun \in Nat /\ c.handed \in Seq(MessageOf(Opcode \cup {"http"}))
  BY DEF FrameStep, WsTypes, WsTypeOK, ClientTypeOK, LoopTypeOK, WorkerTypeOK, PeerTypeOK,
         ClientType
<1>1. PICK d : /\ client' = [client EXCEPT ![cur] = d]
               /\ d.out_buf = c.out_buf
                    \/ \E a : a.op \notin Opcode /\ d.out_buf = Append(c.out_buf, a)
               /\ \/ UNCHANGED queue /\ d.handed = c.handed
                  \/ \E msg : /\ Completed(c, u, msg) /\ d.handed = Append(c.handed, msg)
                              /\ d.out_buf = c.out_buf
                              /\ \E a \in Arena : queue' = Append(queue, WsTask(a, msg))
  BY FrameOutcome
<1>2. client'[cur] = d /\ client' = [client EXCEPT ![cur] = client'[cur]]
      /\ \A fd \in Fds \ {cur} : client'[fd] = client[fd]
  BY <1>0, <1>1
<1>3. Numbered
  <2>1. d.handed = c.handed \/ \E a : d.handed = Append(c.handed, a)
    BY <1>1
  <2> QED BY <1>0, <1>1, <2>1, HandlerNumbers DEF c
<1>4. CASE UNCHANGED queue
  <2>1. NothingNew
    <3>1. client'[cur].out_buf = client[cur].out_buf
             \/ \E m : m.op \notin Opcode /\ client'[cur].out_buf = Append(client[cur].out_buf, m)
      BY <1>1, <1>2 DEF c
    <3>2. \A gd \in Fds : sock'[gd].tx = sock[gd].tx /\ sock'[gd].answered = sock[gd].answered
      BY <1>0
    <3> QED BY <1>0, <1>2, <1>4, <3>1, <3>2, ClientSide
  <2> QED BY <1>3, <2>1, QuietAnswering
<1>5. ASSUME NEW msg, NEW b \in Arena, Completed(c, u, msg), d.handed = Append(c.handed, msg),
             d.out_buf = c.out_buf, queue' = Append(queue, WsTask(b, msg))
      PROVE  Answering'
  <2>1. Owns(sock[cur], Number(msg)) /\ Number(msg) \in Nat /\ ~Reached(client[cur], msg)
    BY <1>5, NewlyCompleted DEF c, u
  <2>2. ASSUME NEW k, NEW x, NEW i PROVE ~Place(k, x, i, msg) \/ msg \notin MessageOf(Opcode)
    BY <1>0, <2>1 DEF Answering, Known
  <2> DEFINE w == WsTask(b, msg)
  <2>3. w.msg = msg /\ w.arena = b
    BY DEF WsTask
  <2> HIDE DEF w
  <2>4. \A t \in WsTasks' : t \in WsTasks \/ t = w
    <3> SUFFICES ASSUME NEW t \in WsTasks', t \notin running PROVE t \in WsTasks \/ t = w
      BY DEF WsTasks
    <3>1. PICK j \in 1 .. Len(queue') : queue'[j] = t
      BY <1>0 DEF WsTasks
    <3>2. t = w \/ (j \in 1 .. Len(queue) /\ queue[j] = t)
      BY <1>0, <1>5, <3>1 DEF w
    <3> QED BY <3>2 DEF WsTasks
  <2>5. \A fd \in Fds : client'[fd].out_buf = client[fd].out_buf
    BY <1>2, <1>5 DEF c
  <2>6. ASSUME NEW m, NEW k, NEW x, NEW i, Place(k, x, i, m)', ~Place(k, x, i, m)
        PROVE  k = "task" /\ x = b /\ i = 0 /\ m = msg
    <3>1. k = "task"
      BY <1>0, <2>5, <2>6 DEF Place
    <3>2. PICK t \in WsTasks' : t.at = "callback" /\ t.msg = m /\ t.arena = x /\ i = 0
      BY <2>6, <3>1 DEF Place
    <3>3. t \notin WsTasks
      BY <2>6, <3>1, <3>2 DEF Place
    <3> QED BY <2>3, <2>4, <3>1, <3>2, <3>3
  <2>7. Once'
    <3> SUFFICES ASSUME NEW m \in MessageOf(Opcode), NEW k, NEW x, NEW i, NEW l, NEW y, NEW j,
                        Place(k, x, i, m)', Place(l, y, j, m)'
                 PROVE  k = l /\ x = y /\ i = j
      BY DEF Once
    <3>1. CASE m = msg
      BY <2>2, <2>6, <3>1
    <3>2. CASE m # msg
      BY <2>6, <3>2 DEF Answering, Once
    <3> QED BY <3>1, <3>2
  <2>8. Own'
    BY <1>3, OwnNext DEF Answering
  <2>9. Reached(client'[cur], msg)
    <3> DEFINE old == c.handed
    <3>1. old \in Seq(MessageOf(Opcode \cup {"http"})) /\ client'[cur].handed = Append(old, msg)
      BY <1>0, <1>2, <1>5
    <3> HIDE DEF old
    <3>2. Len(old) + 1 \in 1 .. Len(Append(old, msg)) /\ Append(old, msg)[Len(old) + 1] = msg
      BY <3>1
    <3>3. Number(msg) <= Number(msg)
      BY <2>1
    <3> HIDE DEF c
    <3> QED BY <3>1, <3>2, <3>3 DEF Reached
  <2>10. \A fd \in Fds : \A m : Reached(client[fd], m) => Reached(client'[fd], m)
    <3> SUFFICES ASSUME NEW m, Reached(client[cur], m) PROVE Reached(client'[cur], m)
      BY <1>2
    <3> DEFINE old == c.handed
    <3>1. old \in Seq(MessageOf(Opcode \cup {"http"})) /\ client'[cur].handed = Append(old, msg)
      BY <1>0, <1>2, <1>5
    <3>2. \E h \in 1 .. Len(old) : Number(m) <= Number(old[h])
      BY DEF Reached
    <3> HIDE DEF old, c
    <3>3. \A h \in 1 .. Len(old) : h \in 1 .. Len(Append(old, msg)) /\ Append(old, msg)[h] = old[h]
      BY <3>1
    <3> QED BY <3>1, <3>2, <3>3 DEF Reached
  <2>11. Known'
    <3> SUFFICES ASSUME NEW m \in MessageOf(Opcode), NEW k, NEW x, NEW i, Place(k, x, i, m)'
                 PROVE  /\ Number(m) \in 0 .. begun
                        /\ \A fd \in Fds : Owns(sock[fd], Number(m)) => Reached(client'[fd], m)
      BY <1>0 DEF Known
    <3>1. CASE m = msg
      <4>1. Number(m) \in 0 .. begun
        BY <1>0, <2>1, <3>1 DEF Answering, Own
      <4>2. \A fd \in Fds : Owns(sock[fd], Number(m)) => fd = cur
        BY <1>0, <2>1, <3>1 DEF Answering, Own
      <4> QED BY <2>9, <3>1, <4>1, <4>2
    <3>2. CASE m # msg
      <4>1. Place(k, x, i, m)
        BY <2>6, <3>2
      <4> QED BY <2>10, <4>1 DEF Answering, Known
    <3> QED BY <3>1, <3>2
  <2> QED BY <2>7, <2>8, <2>11 DEF Answering
<1> QED BY <1>1, <1>4, <1>5

-----------------------------------------------------------------------------
(* The steps that move answers *)

LEMMA WriteAnswering ==
  ASSUME WsTypes, Looped, Answering, WriteStep
  PROVE  Answering'
<1> DEFINE c == client[cur]
<1>0. /\ cur \in clients /\ cur \in Fds /\ client \in [Fds -> ClientType] /\ c \in ClientType
      /\ sock \in [Fds -> WsSocket] /\ begun' = begun /\ begun \in Nat
      /\ UNCHANGED <<taken, wsTaskVars, g_pending_frames>>
  BY DEF WriteStep, WsTypes, WsTypeOK, ClientTypeOK, LoopTypeOK, PeerTypeOK
<1>1. CASE c.closed
  <2>1. client' = [client EXCEPT ![cur] = NewClient] /\ sock' = [sock EXCEPT ![cur] = FreeWsSock]
    BY <1>1 DEF WriteStep, CloseClient
  <2>2. /\ client'[cur] = NewClient /\ sock'[cur] = FreeWsSock
        /\ \A fd \in Fds \ {cur} : client'[fd] = client[fd] /\ sock'[fd] = sock[fd]
    BY <1>0, <2>1
  <2>3. NewClient.out_buf = <<>> /\ FreeWsSock.tx = <<>> /\ FreeWsSock.answered = {}
        /\ \A n : ~Owns(FreeWsSock, n)
    BY DEF NewClient, FreeWsSock, Owns, Message
  <2>4. Numbered
    <3>1. \A fd \in Fds : \A n : Owns(sock'[fd], n) => Owns(sock[fd], n)
      BY <2>2, <2>3
    <3>2. \A fd \in Fds \ {cur} : \A h \in 1 .. Len(client[fd].handed) :
            h \in 1 .. Len(client'[fd].handed) /\ client'[fd].handed[h] = client[fd].handed[h]
      BY <2>2
    <3>3. \A fd \in Fds : fd = cur \/ fd \in Fds \ {cur}
      OBVIOUS
    <3>4. begun' \in Nat /\ begun <= begun' /\ \A n : ~Owns(sock'[cur], n)
      BY <1>0, <2>2, <2>3
    <3> QED BY <1>0, <3>1, <3>2, <3>3, <3>4, Zenon DEF Numbered
  <2>5. NothingNew
    <3> SUFFICES ASSUME NEW m \in MessageOf(Opcode), NEW k, NEW x, NEW i, Place(k, x, i, m)'
                 PROVE  Place(k, x, i, m)
      BY DEF NothingNew
    <3>1. CASE k \in {"out", "tx", "read"}
      <4>1. x \in Fds /\ x # cur
        BY <2>2, <2>3, <3>1 DEF Place
      <4> QED BY <2>2, <3>1, <4>1 DEF Place
    <3>2. CASE k \notin {"out", "tx", "read"}
      BY <1>0, <3>2 DEF Place, WsTasks
    <3> QED BY <3>1, <3>2
  <2> QED BY <2>4, <2>5, QuietAnswering
<1>2. CASE ~c.closed
  <2> DEFINE out == c.out_buf
             tx == sock[cur].tx
             left == client'[cur].out_buf
             sent == sock'[cur].tx
             n == Taken(cur)
  <2>1. SendAll(cur)
    BY <1>2 DEF WriteStep
  <2>2. /\ n \in Nat /\ n <= Len(out) /\ Len(out) \in Nat /\ Len(tx) \in Nat
        /\ out \in Seq(Answer) /\ tx \in Seq(Answer)
    <3>1. /\ out \in Seq(Answer) /\ tx \in Seq(Answer) /\ Len(tx) <= SndBuf
          /\ Len(out) \in Nat /\ Len(tx) \in Nat
      BY <1>0, Sequences DEF ClientType, WsSocket, SentAnswers, WsTypes, WsTypeOK, PeerTypeOK
    <3>2. SndBuf \in Nat
      BY WsConstantsAssumption
    <3>3. Room(cur) = IF sock[cur].eof THEN Len(out) ELSE SndBuf - Len(tx)
      BY DEF Room
    <3>4. n = IF Room(cur) < Len(out) THEN Room(cur) ELSE Len(out)
      BY DEF Taken
    <3> HIDE DEF out, tx, n
    <3>5. Room(cur) \in Nat
      BY <3>1, <3>2, <3>3
    <3> QED BY <3>1, <3>4, <3>5
  <2>3. /\ left = IF sock[cur].hup THEN <<>> ELSE SubSeq(out, n + 1, Len(out))
        /\ client'[cur].handed = c.handed
        /\ \A fd \in Fds \ {cur} : client'[fd] = client[fd]
    BY <1>0, <2>1 DEF SendAll, Left, ClientType
  <2>4. /\ sent = IF sock[cur].eof THEN tx ELSE tx \o SubSeq(out, 1, n)
        /\ \A fd \in Fds : /\ sock'[fd].answered = sock[fd].answered
                           /\ sock'[fd].sent = sock[fd].sent /\ sock'[fd].open = sock[fd].open
        /\ \A fd \in Fds \ {cur} : sock'[fd] = sock[fd]
    BY <1>0, <2>1 DEF SendAll, WsSocket
  <2> HIDE DEF out, tx, left, sent, n
  <2>5. \A i \in 1 .. Len(left) : i + n \in 1 .. Len(out) /\ left[i] = out[i + n]
    BY <2>2, <2>3
  <2>6. \A i \in 1 .. Len(sent) :
          \/ i \in 1 .. Len(tx) /\ sent[i] = tx[i]
          \/ i - Len(tx) \in 1 .. n /\ i - Len(tx) \in 1 .. Len(out) /\ sent[i] = out[i - Len(tx)]
    BY <2>2, <2>4
  <2>7. Numbered
    <3>1. \A fd \in Fds : client'[fd].handed = client[fd].handed
      BY <2>3
    <3> QED BY <1>0, <2>4, <3>1, SameNumbers
  \* Where an answer was before the step.
  <2> DEFINE From(k, x, i, l, y, j) ==
               /\ x = y
               /\ \/ k = l /\ i = j /\ (k = "out" => x # cur)
                  \/ x = cur /\ k = "out" /\ l = "out" /\ i \in Nat \ {0} /\ j = i + n
                  \/ /\ x = cur /\ k = "tx" /\ l = "out" /\ i \in Nat \ {0}
                     /\ j = i - Len(tx) /\ j <= n
  <2>8. ASSUME NEW m, NEW k, NEW x, NEW i, Place(k, x, i, m)'
        PROVE  \E l, y, j : Place(l, y, j, m) /\ From(k, x, i, l, y, j)
    <3>1. CASE k = "out" /\ x = cur
      <4>1. i \in 1 .. Len(left) /\ left[i] = m
        BY <2>8, <3>1 DEF Place, left
      <4>2. i \in Nat \ {0} /\ i + n \in 1 .. Len(out) /\ out[i + n] = m
        BY <2>5, <4>1
      <4>3. Place("out", cur, i + n, m)
        BY <1>0, <4>2 DEF Place, out
      <4> QED BY <3>1, <4>2, <4>3
    <3>2. CASE k = "tx" /\ x = cur
      <4>1. i \in 1 .. Len(sent) /\ sent[i] = m
        BY <2>8, <3>2 DEF Place, sent
      <4>2. CASE i \in 1 .. Len(tx) /\ tx[i] = m
        <5>1. Place("tx", cur, i, m)
          BY <1>0, <4>2 DEF Place, tx
        <5> QED BY <3>2, <5>1
      <4>3. CASE i - Len(tx) \in 1 .. n /\ i - Len(tx) \in 1 .. Len(out) /\ out[i - Len(tx)] = m
        <5>1. Place("out", cur, i - Len(tx), m)
          BY <1>0, <4>3 DEF Place, out
        <5>2. i \in Nat \ {0} /\ i - Len(tx) <= n
          BY <2>2, <4>1, <4>3
        <5> QED BY <3>2, <5>1, <5>2
      <4> QED BY <2>6, <4>1, <4>2, <4>3
    <3>3. CASE ~(k \in {"out", "tx"} /\ x = cur)
      <4>1. Place(k, x, i, m)
        BY <1>0, <2>3, <2>4, <2>8, <3>3 DEF Place, WsTasks
      <4>2. k = "out" => x # cur
        BY <3>3
      <4> QED BY <4>1, <4>2
    <3> QED BY <3>1, <3>2, <3>3
  <2>9. ASSUME NEW k, NEW x, NEW i, NEW k2, NEW x2, NEW i2, NEW l, NEW y, NEW j,
               From(k, x, i, l, y, j), From(k2, x2, i2, l, y, j), j \in Nat
        PROVE  k = k2 /\ x = x2 /\ i = i2
    BY <2>2, <2>9
  <2>10. ASSUME NEW m, NEW k, NEW x, NEW i, Place(k, x, i, m) PROVE i \in Nat
    BY <2>10 DEF Place
  <2> HIDE DEF From
  <2>11. Kept
    BY <2>8 DEF Kept
  <2>12. Once'
    <3> SUFFICES ASSUME NEW m \in MessageOf(Opcode), NEW k, NEW x, NEW i, NEW k2, NEW x2, NEW i2,
                        Place(k, x, i, m)', Place(k2, x2, i2, m)'
                 PROVE  k = k2 /\ x = x2 /\ i = i2
      BY DEF Once
    <3>1. PICK l, y, j : Place(l, y, j, m) /\ From(k, x, i, l, y, j)
      BY <2>8
    <3>2. PICK l2, y2, j2 : Place(l2, y2, j2, m) /\ From(k2, x2, i2, l2, y2, j2)
      BY <2>8
    <3>3. l = l2 /\ y = y2 /\ j = j2
      BY <3>1, <3>2 DEF Answering, Once
    <3> QED BY <2>9, <2>10, <3>1, <3>2, <3>3
  <2> QED BY <2>7, <2>11, <2>12, MovedAnswering
<1> QED BY <1>1, <1>2

LEMMA TakenPlace ==
  /\ \A x, i, m : Place("taken", x, i, m) <=>
       x = NoFd /\ i \in 1 .. Len(taken) /\ taken[i].frame = m
  /\ \A x, i, m : Place("taken", x, i, m)' <=>
       x = NoFd /\ i \in 1 .. Len(taken') /\ taken'[i].frame = m
BY DEF Place

LEMMA SwapAnswering ==
  ASSUME WsTypes, Answering, SwapStep
  PROVE  Answering'
<1>0. /\ taken = <<>> /\ taken' = g_pending_frames /\ g_pending_frames' = <<>>
      /\ UNCHANGED <<client, wsTaskVars, sock, begun>>
  BY DEF SwapStep, WsTypes, WsTypeOK, LoopTypeOK
<1>1. Numbered
  BY <1>0, SameNumbers
\* What was pending is taken; nothing was taken before.
<1>2. ASSUME NEW m, NEW k, NEW x, NEW i, Place(k, x, i, m)'
      PROVE  \/ k = "taken" /\ Place("pending", x, i, m)
             \/ k \notin {"taken", "pending"} /\ Place(k, x, i, m)
  <2>1. CASE k \in {"taken", "pending"}
    BY <1>0, <1>2, <2>1 DEF Place
  <2>2. CASE k \notin {"taken", "pending"}
    BY <1>0, <1>2, <2>2 DEF Place, WsTasks
  <2> QED BY <2>1, <2>2
<1>3. Kept
  BY <1>2 DEF Kept
<1>4. Once'
  <2> SUFFICES ASSUME NEW m \in MessageOf(Opcode), NEW k, NEW x, NEW i, NEW l, NEW y, NEW j,
                      Place(k, x, i, m)', Place(l, y, j, m)'
               PROVE  k = l /\ x = y /\ i = j
    BY DEF Once
  <2> QED BY <1>2 DEF Answering, Once
<1> QED BY <1>1, <1>3, <1>4, MovedAnswering

LEMMA GiveAnswering ==
  ASSUME WsTypes, Answering, GiveStep
  PROVE  Answering'
<1> DEFINE p == Head(taken)
           n == Len(client[p.fd].out_buf)
<1>0. /\ taken \in Seq(PendingFrame) /\ taken # <<>> /\ taken' = Tail(taken)
      /\ client \in [Fds -> ClientType] /\ clients \subseteq Fds
      /\ UNCHANGED <<wsTaskVars, g_pending_frames, sock, begun>>
  BY DEF GiveStep, WsTypes, WsTypeOK, LoopTypeOK, ClientTypeOK
<1>1. /\ 1 \in 1 .. Len(taken) /\ p = taken[1]
      /\ \A i \in 1 .. Len(taken') : i + 1 \in 1 .. Len(taken) /\ taken'[i] = taken[i + 1]
      /\ \A i \in 1 .. Len(taken') : i \in Nat \ {0}
  BY <1>0
<1>2. /\ \A fd \in Fds : client'[fd].handed = client[fd].handed
      /\ \A fd \in Fds : client'[fd].out_buf = client[fd].out_buf
           \/ (fd = p.fd /\ client'[fd].out_buf = Append(client[fd].out_buf, p.frame))
  <2>1. CASE UNCHANGED client
    BY <2>1
  <2>2. CASE GiveOut(p.fd, p.frame)
    <3> HIDE DEF p
    <3>1. client' = [client EXCEPT ![p.fd].out_buf = Append(@, p.frame), ![p.fd].epollout = TRUE]
      BY <2>2 DEF GiveOut
    <3> QED BY <1>0, <3>1 DEF ClientType
  <2> QED BY <2>1, <2>2 DEF GiveStep
<1> HIDE DEF p
<1>3. Numbered
  BY <1>0, <1>2, SameNumbers
<1> DEFINE From(k, x, i, l, j) ==
             \/ k = l /\ i = j /\ k # "taken"
             \/ k = "taken" /\ l = "taken" /\ x = NoFd /\ i \in Nat \ {0} /\ j = i + 1
             \/ k = "out" /\ l = "taken" /\ x = p.fd /\ i = n + 1 /\ j = 1
<1>4. ASSUME NEW m, NEW k, NEW x, NEW i, Place(k, x, i, m)'
      PROVE  \E l, y, j : Place(l, y, j, m) /\ From(k, x, i, l, j) /\ (l # "taken" => x = y)
  <2>1. CASE k = "taken"
    <3>1. x = NoFd /\ i \in 1 .. Len(taken') /\ taken'[i].frame = m
      BY <1>4, <2>1, TakenPlace
    <3>2. i + 1 \in 1 .. Len(taken) /\ taken[i + 1].frame = m /\ i \in Nat \ {0}
      BY <1>1, <3>1
    <3>4. Place("taken", NoFd, i + 1, m)
      BY <3>2, TakenPlace
    <3>3. From(k, x, i, "taken", i + 1)
      BY <2>1, <3>1, <3>2
    <3> QED BY <2>1, <3>3, <3>4
  <2>2. CASE k = "out"
    <3>1. x \in Fds /\ i \in 1 .. Len(client'[x].out_buf) /\ client'[x].out_buf[i] = m
      BY <1>4, <2>2 DEF Place
    <3> DEFINE old == client[x].out_buf
               new == client'[x].out_buf
    <3>2. old \in Seq(Answer)
      BY <1>0, <3>1 DEF ClientType
    <3>3. new = old \/ (x = p.fd /\ new = Append(old, p.frame))
      BY <1>2, <3>1
    <3>4. \/ i \in 1 .. Len(old) /\ old[i] = m
          \/ x = p.fd /\ i = Len(old) + 1 /\ m = p.frame
      <4> HIDE DEF old
      <4>1. i \in 1 .. Len(new) /\ new[i] = m
        BY <3>1
      <4> HIDE DEF new
      <4> QED BY <3>2, <3>3, <4>1
    <3>5. CASE i \in 1 .. Len(old) /\ old[i] = m
      <4>1. Place("out", x, i, m)
        BY <3>1, <3>5 DEF Place
      <4> QED BY <2>2, <4>1
    <3>6. CASE x = p.fd /\ i = Len(old) + 1 /\ m = p.frame
      <4>1. Place("taken", NoFd, 1, m)
        BY <1>1, <3>6, TakenPlace
      <4>2. From(k, x, i, "taken", 1)
        BY <2>2, <3>6
      <4> QED BY <4>1, <4>2
    <3> QED BY <3>4, <3>5, <3>6
  <2>3. CASE k \notin {"taken", "out"}
    <3>1. Place(k, x, i, m)
      BY <1>0, <1>4, <2>3 DEF Place, WsTasks
    <3> QED BY <2>3, <3>1
  <2> QED BY <2>1, <2>2, <2>3
<1>5. ASSUME NEW k, NEW x, NEW i, NEW k2, NEW x2, NEW i2, NEW l, NEW y, NEW j,
             From(k, x, i, l, j), From(k2, x2, i2, l, j),
             l # "taken" => x = y, l # "taken" => x2 = y
      PROVE  k = k2 /\ x = x2 /\ i = i2
  BY <1>5
<1> HIDE DEF From
<1>6. Kept
  BY <1>4 DEF Kept
<1>7. Once'
  <2> SUFFICES ASSUME NEW m \in MessageOf(Opcode), NEW k, NEW x, NEW i, NEW k2, NEW x2, NEW i2,
                      Place(k, x, i, m)', Place(k2, x2, i2, m)'
               PROVE  k = k2 /\ x = x2 /\ i = i2
    BY DEF Once
  <2>1. PICK l, y, j : Place(l, y, j, m) /\ From(k, x, i, l, j) /\ (l # "taken" => x = y)
    BY <1>4
  <2>2. PICK l2, y2, j2 : /\ Place(l2, y2, j2, m) /\ From(k2, x2, i2, l2, j2)
                          /\ (l2 # "taken" => x2 = y2)
    BY <1>4
  <2>3. l = l2 /\ y = y2 /\ j = j2
    BY <2>1, <2>2 DEF Answering, Once
  <2> QED BY <1>5, <2>1, <2>2, <2>3
<1> QED BY <1>3, <1>6, <1>7, MovedAnswering

\* A closure's answer is pushed; that it has an arena of its own makes the
\* closure the only one to be done with.
LEMMA ReplyAnswering ==
  ASSUME WsTypes, Held, Answering, NEW t \in running, WsTaskReply(t)
  PROVE  Answering'
<1> DEFINE n == Len(g_pending_frames) + 1
           u == [t EXCEPT !.at = "release"]
           p == [fd |-> t.fd, frame |-> t.msg]
<1>0. /\ t \in WsClosure /\ g_pending_frames \in Seq(PendingFrame)
      /\ t.at = "callback" /\ running' = (running \ {t}) \cup {u}
      /\ g_pending_frames' = Append(g_pending_frames, p)
      /\ UNCHANGED <<client, taken, queue, sock, begun>>
  BY DEF WsTaskReply, Push, WsTypes, WsTypeOK, WorkerTypeOK
<1>1. u.at = "release" /\ u.arena = t.arena
  BY <1>0 DEF WsClosure
<1>2. \A w \in WsTasks : w.arena = t.arena => w = t
  BY DEF WsTasks, Held
<1>3. t \notin {queue[i] : i \in 1 .. Len(queue)}
  BY DEF Held
<1>4. /\ Len(g_pending_frames') = n
      /\ \A i \in 1 .. n - 1 : g_pending_frames'[i] = g_pending_frames[i]
      /\ g_pending_frames'[n].frame = t.msg /\ n \in Nat
      /\ \A i \in 1 .. n : i = n \/ i \in 1 .. n - 1
      /\ n - 1 = Len(g_pending_frames) /\ n \notin 1 .. n - 1
  BY <1>0
<1>5. Numbered
  BY <1>0, SameNumbers
<1> HIDE DEF n, u, p
<1>6. ASSUME NEW m, NEW k, NEW x, NEW i, Place(k, x, i, m)'
      PROVE  /\ ~(k = "task" /\ x = t.arena)
             /\ \/ Place(k, x, i, m) /\ (k = "pending" => i # n)
                \/ k = "pending" /\ x = NoFd /\ i = n /\ Place("task", t.arena, 0, m)
  <2>1. CASE k = "task"
    <3>1. PICK w \in WsTasks' : w.at = "callback" /\ w.msg = m /\ w.arena = x /\ i = 0
      BY <1>6, <2>1 DEF Place
    <3>2. w # u
      BY <1>1, <3>1
    <3>3. w \in WsTasks /\ w # t
      BY <1>0, <1>3, <3>2 DEF WsTasks
    <3>4. x # t.arena
      BY <1>2, <3>1, <3>3
    <3> QED BY <2>1, <3>1, <3>3, <3>4 DEF Place
  <2>2. CASE k = "pending"
    <3>1. x = NoFd /\ i \in 1 .. n /\ g_pending_frames'[i].frame = m
      BY <1>4, <1>6, <2>2 DEF Place
    <3>2. CASE i \in 1 .. n - 1
      BY <1>4, <2>2, <3>1, <3>2 DEF Place
    <3>3. CASE i = n
      <4>1. m = t.msg /\ t \in WsTasks
        BY <1>4, <3>1, <3>3 DEF WsTasks
      <4>2. Place("task", t.arena, 0, m)
        BY <1>0, <4>1 DEF Place
      <4> QED BY <2>2, <3>1, <3>3, <4>2
    <3> QED BY <1>4, <3>1, <3>2, <3>3
  <2>3. CASE k \notin {"task", "pending"}
    BY <1>0, <1>6, <2>3 DEF Place
  <2> QED BY <2>1, <2>2, <2>3
<1>7. Kept
  BY <1>6 DEF Kept
<1>8. Once'
  <2> SUFFICES ASSUME NEW m \in MessageOf(Opcode), NEW k, NEW x, NEW i, NEW l, NEW y, NEW j,
                      Place(k, x, i, m)', Place(l, y, j, m)'
               PROVE  k = l /\ x = y /\ i = j
    BY DEF Once
  <2> QED BY <1>6 DEF Answering, Once
<1> QED BY <1>5, <1>7, <1>8, MovedAnswering

LEMMA WorkersAnswering ==
  ASSUME WsTypes, Held, Answering, WsWorkers
  PROVE  Answering'
<1>1. CASE WsTaskStart
  <2>1. /\ queue \in Seq(WsClosure) /\ queue # <<>> /\ queue' = Tail(queue)
        /\ running' = running \cup {Head(queue)}
        /\ UNCHANGED <<client, taken, g_pending_frames, sock, begun>>
    BY <1>1 DEF WsTaskStart, WsTypes, WsTypeOK, WorkerTypeOK
  <2>2. /\ 1 \in 1 .. Len(queue) /\ Head(queue) = queue[1]
        /\ \A i \in 1 .. Len(queue') : i + 1 \in 1 .. Len(queue) /\ queue'[i] = queue[i + 1]
    BY <2>1
  <2>3. WsTasks' \subseteq WsTasks
    BY <2>1, <2>2 DEF WsTasks
  <2>4. NothingNew
    BY <2>1, <2>3 DEF NothingNew, Place
  <2>5. Numbered
    BY <2>1, SameNumbers
  <2> QED BY <2>4, <2>5, QuietAnswering
<1>2. ASSUME NEW t \in running, WsTaskRelease(t) PROVE Answering'
  <2>1. /\ running' = running \ {t}
        /\ UNCHANGED <<queue, client, taken, g_pending_frames, sock, begun>>
    BY <1>2 DEF WsTaskRelease
  <2>2. WsTasks' \subseteq WsTasks
    BY <2>1 DEF WsTasks
  <2>3. NothingNew
    BY <2>1, <2>2 DEF NothingNew, Place
  <2>4. Numbered
    BY <2>1, SameNumbers
  <2> QED BY <2>3, <2>4, QuietAnswering
<1> QED BY <1>1, <1>2, ReplyAnswering DEF WsWorkers

\* A peer that reads nothing: what it sends makes messages with new numbers.
LEMMA SenderAnswering ==
  ASSUME WsTypes, Answering, NEW fd \in Fds, NEW s \in WsSocket, NEW units,
         Send(fd, s, units), s.tx = sock[fd].tx, s.answered = sock[fd].answered,
         begun' \in Nat, begun <= begun',
         \A n : Owns(s, n) => Owns(sock[fd], n) \/ n \in begun + 1 .. begun',
         UNCHANGED <<client, taken, wsTaskVars, g_pending_frames>>
  PROVE  Answering'
<1> DEFINE rx == Together(s.rx, units)
           x == [s EXCEPT !.rx = rx]
<1>1. sock' = [sock EXCEPT ![fd] = x]
  BY DEF Send
<1>2. x.tx = s.tx /\ x.answered = s.answered /\ x.sent = s.sent /\ x.open = s.open
  <2> HIDE DEF rx
  <2> QED BY DEF WsSocket
<1> HIDE DEF x
<1>3. \A n : Owns(x, n) => Owns(sock[fd], n) \/ n \in begun + 1 .. begun'
  BY <1>2 DEF Owns
<1>4. Numbered /\ NothingNew
  <2>1. x.tx \in {sock[fd].tx, <<>>} /\ x.answered \in {sock[fd].answered, {}}
    BY <1>2
  <2> QED BY <1>1, <1>3, <2>1, PeerSide
<1> QED BY <1>4, QuietAnswering

\* The same when it begins no message.
LEMMA SameSender ==
  ASSUME WsTypes, Answering, NEW fd \in Fds, NEW s \in WsSocket, NEW units,
         Send(fd, s, units), s.tx = sock[fd].tx, s.answered = sock[fd].answered,
         s.sent = sock[fd].sent, s.open = sock[fd].open, begun' \in {begun, begun + 1},
         UNCHANGED <<client, taken, wsTaskVars, g_pending_frames>>
  PROVE  Answering'
<1>1. \A n : Owns(s, n) => Owns(sock[fd], n)
  BY DEF Owns
<1>2. begun' \in Nat /\ begun <= begun'
  BY DEF WsTypes, WsTypeOK, PeerTypeOK
<1> QED BY <1>1, <1>2, SenderAnswering

\* Frames and requests of no message, and the pieces of a request.
LEMMA PlainAnswering ==
  ASSUME WsTypes, Answering, NEW fd \in Fds,
         UNCHANGED <<client, taken, wsTaskVars, g_pending_frames>>,
         PeerUpgrade(fd) \/ PeerBody(fd) \/ PeerOther(fd) \/ PeerPart(fd)
  PROVE  Answering'
<1> DEFINE s == sock[fd]
<1>0. s \in WsSocket /\ sock \in [Fds -> WsSocket] /\ begun \in Nat
  BY DEF WsTypes, WsTypeOK, PeerTypeOK
<1>1. ASSUME NEW x \in WsSocket, NEW units, Send(fd, x, units),
             x.tx = s.tx, x.answered = s.answered, x.sent = s.sent, x.open = s.open,
             begun' \in {begun, begun + 1}
      PROVE  Answering'
  BY <1>1, SameSender
<1>2. ASSUME NEW up \in {"asked", "left"}
      PROVE  LET x == [s EXCEPT !.up = up] IN
             /\ x \in WsSocket /\ x.tx = s.tx /\ x.answered = s.answered
             /\ x.sent = s.sent /\ x.open = s.open
  <2>1. [s EXCEPT !.up = up] \in WsSocket
    BY <1>0, SocketUpdates
  <2> HIDE DEF s
  <2> QED BY <1>0, <2>1 DEF WsSocket
<1>3. CASE PeerUpgrade(fd)
  <2> DEFINE x == [s EXCEPT !.up = "asked"]
  <2>1. Send(fd, x, <<HeadUnit("upgrade", 0, 0)>>) /\ begun' = begun
    BY <1>3 DEF PeerUpgrade
  <2>2. /\ x \in WsSocket /\ x.tx = s.tx /\ x.answered = s.answered
        /\ x.sent = s.sent /\ x.open = s.open
    BY <1>2
  <2> HIDE DEF x, s
  <2> QED BY <1>1, <2>1, <2>2
<1>4. CASE PeerBody(fd)
  <2> DEFINE x == [s EXCEPT !.owed = @ - 1]
  <2>1. begun' = begun /\ s.owed > 0 /\ \E units : Send(fd, x, units)
    BY <1>4 DEF PeerBody
  <2>2. s.owed \in Nat
    BY <1>0 DEF WsSocket
  <2>3. s.owed - 1 \in Nat
    <3> HIDE DEF s
    <3> QED BY <2>1, <2>2
  <2>4. /\ x \in WsSocket
    BY <1>0, <2>3, SocketUpdates
  <2>5. x.tx = s.tx /\ x.answered = s.answered /\ x.sent = s.sent /\ x.open = s.open
    <3> HIDE DEF s
    <3> QED BY <1>0 DEF WsSocket
  <2> HIDE DEF x, s
  <2> QED BY <1>1, <2>1, <2>4, <2>5
<1>5. CASE PeerPart(fd)
  <2>1. Send(fd, s, <<PartUnit>>) /\ begun' = begun
    BY <1>5 DEF PeerPart
  <2> QED BY <1>0, <1>1, <2>1
<1>6. CASE PeerOther(fd)
  <2> DEFINE x == [s EXCEPT !.up = "left"]
  <2>1. \/ Send(fd, s, <<FrameUnit("ping", TRUE, NoPiece)>>) /\ begun' = begun + 1
        \/ Send(fd, x, <<FrameUnit("close", TRUE, NoPiece)>>) /\ begun' = begun
        \/ Send(fd, x, <<FrameUnit("cont", TRUE, NoPiece)>>) /\ begun' = begun
    BY <1>6 DEF PeerOther
  <2>2. /\ x \in WsSocket /\ x.tx = s.tx /\ x.answered = s.answered
        /\ x.sent = s.sent /\ x.open = s.open
    BY <1>2
  <2> HIDE DEF x
  <2>3. CASE Send(fd, s, <<FrameUnit("ping", TRUE, NoPiece)>>) /\ begun' = begun + 1
    BY <1>0, <1>1, <2>3
  <2>4. CASE \/ Send(fd, x, <<FrameUnit("close", TRUE, NoPiece)>>) /\ begun' = begun
             \/ Send(fd, x, <<FrameUnit("cont", TRUE, NoPiece)>>) /\ begun' = begun
    <3> HIDE DEF s
    <3> QED BY <1>1, <2>2, <2>4
  <2> QED BY <2>1, <2>3, <2>4
<1> QED BY <1>3, <1>4, <1>5, <1>6

\* A message or a request begins with a number of its own.
LEMMA BeginsAnswering ==
  ASSUME WsTypes, Answering, NEW fd \in Fds,
         UNCHANGED <<client, taken, wsTaskVars, g_pending_frames>>,
         \/ \E len \in BodyLens : PeerRequest(fd, len)
         \/ \E op \in Ops, fin \in BOOLEAN : PeerMessage(fd, op, fin)
  PROVE  Answering'
<1> DEFINE s == sock[fd]
           m == begun + 1
<1>0. s \in WsSocket /\ sock \in [Fds -> WsSocket] /\ begun \in Nat /\ begun <= m /\ m \in Nat
  BY DEF WsTypes, WsTypeOK, PeerTypeOK
<1>1. ASSUME NEW x \in WsSocket, NEW units, Send(fd, x, units), begun' = m,
             x.tx = s.tx, x.answered = s.answered,
             \A n : Owns(x, n) => Owns(s, n) \/ n = m
      PROVE  Answering'
  <2>1. \A n : Owns(x, n) => Owns(sock[fd], n) \/ n \in begun + 1 .. begun'
    BY <1>0, <1>1
  <2>2. begun' \in Nat /\ begun <= begun'
    BY <1>0, <1>1
  <2> QED BY <1>1, <2>1, <2>2, SenderAnswering
<1>2. ASSUME NEW len \in BodyLens, PeerRequest(fd, len) PROVE Answering'
  <2> DEFINE all == Message("http", [i \in 1 .. len + 1 |-> <<m, i - 1>>])
             x == [s EXCEPT !.up = "http", !.owed = len, !.sent = <<all>>]
  <2>1. begun' = m /\ \E units : Send(fd, x, units)
    BY <1>2 DEF PeerRequest
  <2>2. len \in Nat /\ all \in MessageOf(Opcode \cup {"http"}) /\ Number(all) = m
    <3>1. len \in Nat
      BY WsConstantsAssumption
    <3>2. [i \in 1 .. len + 1 |-> <<m, i - 1>>] \in Seq(Piece)
      BY <1>0, <3>1 DEF Piece
    <3>3. all \in MessageOf(Opcode \cup {"http"})
      BY <3>2 DEF Message, MessageOf
    <3>4. Number(all) = m
      BY <3>1 DEF Number, Message
    <3> QED BY <3>1, <3>3, <3>4
  <2> HIDE DEF all
  <2>3. <<all>> \in Seq(MessageOf(Opcode \cup {"http"}))
    BY <2>2
  <2>4. x \in WsSocket
    <3> DEFINE one == <<all>>
    <3> HIDE DEF one, s
    <3>1. [s EXCEPT !.up = "http"] \in WsSocket
      BY <1>0, SocketUpdates
    <3>2. [[s EXCEPT !.up = "http"] EXCEPT !.owed = len] \in WsSocket
      BY <2>2, <3>1, SocketUpdates
    <3>3. [[[s EXCEPT !.up = "http"] EXCEPT !.owed = len] EXCEPT !.sent = one] \in WsSocket
      BY <2>3, <3>2, SocketUpdates DEF one
    <3> QED BY <1>0, <3>3 DEF one
  <2>5. x.tx = s.tx /\ x.answered = s.answered /\ x.sent = <<all>> /\ x.open = s.open
    <3> HIDE DEF s
    <3> QED BY <1>0 DEF WsSocket
  <2> HIDE DEF x, s
  <2>6. \A n : Owns(x, n) => Owns(s, n) \/ n = m
    BY <2>2, <2>5 DEF Owns
  <2> QED BY <1>1, <2>1, <2>4, <2>5, <2>6
<1>3. ASSUME NEW op \in Ops, NEW fin \in BOOLEAN, PeerMessage(fd, op, fin) PROVE Answering'
  <2> DEFINE msg == Message(op, <<<<m, 1>>>>)
             x == IF fin THEN [s EXCEPT !.sent = Append(@, msg), !.open.data = <<>>]
                         ELSE [s EXCEPT !.open = msg]
  <2>1. begun' = m /\ \E units : Send(fd, x, units)
    BY <1>3 DEF PeerMessage
  <2>2. /\ x.tx = s.tx /\ x.answered = s.answered
        /\ \/ x.sent = Append(s.sent, msg) /\ x.open.data = <<>>
           \/ x.sent = s.sent /\ x.open = msg
    <3> HIDE DEF s, msg
    <3> QED BY <1>0 DEF WsSocket, MessageOf
  <2>3. Number(msg) = m
    BY DEF Number, Message
  <2>4. x \in WsSocket
    <3>1. msg \in MessageOf(Opcode) /\ msg \in MessageOf(Opcode \cup {"http"})
      BY <1>0, WsConstantsAssumption DEF Message, MessageOf, Piece, Opcode
    <3> DEFINE sent == Append(s.sent, msg)
               open == [s.open EXCEPT !.data = <<>>]
    <3>2. s.sent \in Seq(MessageOf(Opcode \cup {"http"})) /\ s.open \in MessageOf(Opcode)
      BY <1>0 DEF WsSocket
    <3> HIDE DEF msg, s
    <3>3. sent \in Seq(MessageOf(Opcode \cup {"http"})) /\ open \in MessageOf(Opcode)
      BY <3>1, <3>2, Sequences DEF MessageOf
    <3>4. x = IF fin THEN [s EXCEPT !.sent = sent, !.open = open] ELSE [s EXCEPT !.open = msg]
      BY <1>0, <3>2 DEF WsSocket
    <3> HIDE DEF sent, open, x
    <3>5. CASE fin
      BY <1>0, <3>3, <3>4, <3>5 DEF WsSocket
    <3>6. CASE ~fin
      BY <1>0, <3>1, <3>4, <3>6 DEF WsSocket
    <3> QED BY <3>5, <3>6
  <2>5. s.sent \in Seq(MessageOf(Opcode \cup {"http"}))
    BY <1>0 DEF WsSocket
  <2> HIDE DEF x, s, msg
  <2>6. \A n : Owns(x, n) => Owns(s, n) \/ n = m
    <3>1. \A n : (\E j \in 1 .. Len(Append(s.sent, msg)) : Number(Append(s.sent, msg)[j]) = n)
                   => n = m \/ \E j \in 1 .. Len(s.sent) : Number(s.sent[j]) = n
      <4> DEFINE old == s.sent
      <4> HIDE DEF old
      <4>1. \A j \in 1 .. Len(Append(old, msg)) :
              \/ j \in 1 .. Len(old) /\ Append(old, msg)[j] = old[j]
              \/ Append(old, msg)[j] = msg
        BY <2>5 DEF old
      <4> QED BY <2>3, <4>1 DEF old
    <3> QED BY <2>2, <2>3, <3>1 DEF Owns
  <2> QED BY <1>1, <2>1, <2>2, <2>4, <2>6
<1> QED BY <1>2, <1>3

LEMMA ContinueAnswering ==
  ASSUME WsTypes, Answering, NEW fd \in Fds, PeerContinue(fd),
         UNCHANGED <<client, taken, wsTaskVars, g_pending_frames>>
  PROVE  Answering'
<1> DEFINE s == sock[fd]
           old == s.open
           piece == <<old.data[1][1], 2>>
           msg == Message(old.op, Append(old.data, piece))
           x == [s EXCEPT !.sent = Append(@, msg), !.open.data = <<>>]
<1>0. /\ s \in WsSocket /\ begun \in Nat /\ begun' = begun /\ old.data # <<>>
      /\ \E units : Send(fd, x, units)
  BY DEF WsTypes, WsTypeOK, PeerTypeOK, PeerContinue
<1>1. /\ s.sent \in Seq(MessageOf(Opcode \cup {"http"})) /\ old \in MessageOf(Opcode)
  BY <1>0 DEF WsSocket
<1>2. old.op \in Opcode /\ old.data \in Seq(Piece) /\ old.data # <<>>
  BY <1>0, <1>1 DEF MessageOf
<1>3. piece \in Piece
  <2> DEFINE d == old.data
  <2>1. d[1] \in Nat \X Nat
    <3> HIDE DEF d
    <3>1. d \in Seq(Piece) /\ d # <<>>
      BY <1>2 DEF d
    <3> QED BY <3>1 DEF Piece
  <2> QED BY <2>1 DEF Piece
<1>4. msg \in MessageOf(Opcode \cup {"http"}) /\ Number(msg) = Number(old)
  <2> DEFINE d == old.data
             e == Append(d, piece)
  <2> HIDE DEF piece
  <2>1. d \in Seq(Piece) /\ d # <<>>
    BY <1>2
  <2>2. e \in Seq(Piece) /\ e[1] = d[1]
    <3> HIDE DEF d
    <3> QED BY <1>3, <2>1
  <2>3. msg = [op |-> old.op, data |-> e]
    BY DEF Message
  <2> HIDE DEF e, msg
  <2> QED BY <1>2, <2>2, <2>3 DEF MessageOf, Number
<1>5. x \in WsSocket
  <2> DEFINE sent == Append(s.sent, msg)
             open == [s.open EXCEPT !.data = <<>>]
  <2> HIDE DEF msg, s
  <2>1. sent \in Seq(MessageOf(Opcode \cup {"http"})) /\ open \in MessageOf(Opcode)
    BY <1>1, <1>4, Sequences DEF MessageOf, s
  <2>2. x = [s EXCEPT !.sent = sent, !.open = open]
    BY <1>0 DEF WsSocket
  <2> HIDE DEF sent, open, x
  <2> QED BY <1>0, <2>1, <2>2 DEF WsSocket
<1>6. x.tx = s.tx /\ x.answered = s.answered /\ x.sent = Append(s.sent, msg) /\ x.open.data = <<>>
  <2> HIDE DEF s, msg
  <2> QED BY <1>0, <1>1 DEF WsSocket, MessageOf, s
<1> HIDE DEF x, msg
<1>7. \A n : Owns(x, n) => Owns(s, n)
  <2>1. \A j \in 1 .. Len(Append(s.sent, msg)) :
          \/ j \in 1 .. Len(s.sent) /\ Append(s.sent, msg)[j] = s.sent[j]
          \/ Append(s.sent, msg)[j] = msg
    <3> DEFINE q == s.sent
    <3> HIDE DEF q
    <3> QED BY <1>1 DEF q
  <2>2. Owns(s, Number(msg))
    BY <1>2, <1>4 DEF Owns
  <2> HIDE DEF s
  <2> QED BY <1>6, <2>1, <2>2 DEF Owns
<1>8. begun' \in Nat /\ begun <= begun'
  BY <1>0
<1> HIDE DEF s
<1> QED BY <1>0, <1>5, <1>6, <1>7, <1>8, SenderAnswering DEF s

\* connect() and the close.
LEMMA EndsAnswering ==
  ASSUME WsTypes, Answering, NEW fd \in Fds,
         UNCHANGED <<client, taken, wsTaskVars, g_pending_frames>>,
         PeerConnect(fd) \/ \E hup \in BOOLEAN : PeerClose(fd, hup)
  PROVE  Answering'
<1>0. sock \in [Fds -> WsSocket] /\ begun \in Nat
  BY DEF WsTypes, WsTypeOK, PeerTypeOK
<1>1. ASSUME NEW s, sock' = [sock EXCEPT ![fd] = s], begun' = begun, s.tx = <<>>,
             s.answered \in {sock[fd].answered, {}}, \A n : Owns(s, n) => Owns(sock[fd], n)
      PROVE  Answering'
  <2>1. Numbered /\ NothingNew
    <3>1. begun' \in Nat /\ begun <= begun' /\ s.tx \in {sock[fd].tx, <<>>}
      BY <1>0, <1>1
    <3>2. \A n : Owns(s, n) => Owns(sock[fd], n) \/ n \in begun + 1 .. begun'
      BY <1>1
    <3> QED BY <1>1, <3>1, <3>2, PeerSide
  <2> QED BY <2>1, QuietAnswering
<1>2. CASE PeerConnect(fd)
  <2> DEFINE s == [FreeWsSock EXCEPT !.st = "backlog"]
  <2>1. sock' = [sock EXCEPT ![fd] = s] /\ begun' = begun
    BY <1>2 DEF PeerConnect
  <2>2. s.tx = <<>> /\ s.answered = {} /\ \A n : ~Owns(s, n)
    BY DEF FreeWsSock, Owns, Message
  <2> HIDE DEF s
  <2> QED BY <1>1, <2>1, <2>2
<1>3. ASSUME NEW hup \in BOOLEAN, PeerClose(fd, hup) PROVE Answering'
  <2> DEFINE s == [sock[fd] EXCEPT !.eof = TRUE, !.hup = hup, !.tx = <<>>]
  <2>1. sock' = [sock EXCEPT ![fd] = s] /\ begun' = begun
    BY <1>0, <1>3 DEF PeerClose
  <2>2. /\ s.tx = <<>> /\ s.answered = sock[fd].answered /\ s.sent = sock[fd].sent
        /\ s.open = sock[fd].open
    BY <1>0 DEF WsSocket
  <2> HIDE DEF s
  <2>3. \A n : Owns(s, n) => Owns(sock[fd], n)
    BY <2>2 DEF Owns
  <2> QED BY <1>1, <2>1, <2>2, <2>3
<1> QED BY <1>2, <1>3

\* What the peer reads it has read.
LEMMA ReadAnswering ==
  ASSUME WsTypes, Answering, NEW fd \in Fds, PeerRead(fd),
         UNCHANGED <<client, taken, wsTaskVars, g_pending_frames>>
  PROVE  Answering'
<1> DEFINE tx == sock[fd].tx
           got == {tx[i] : i \in 1 .. Len(tx)}
<1>0. sock \in [Fds -> WsSocket] /\ begun' = begun /\ client' = client
  BY DEF WsTypes, WsTypeOK, PeerTypeOK, PeerRead
<1>1. /\ sock'[fd].tx = <<>> /\ sock'[fd].answered \subseteq sock[fd].answered \cup got
      /\ sock'[fd].sent = sock[fd].sent /\ sock'[fd].open = sock[fd].open
      /\ \A gd \in Fds \ {fd} : sock'[gd] = sock[gd]
  BY <1>0 DEF PeerRead, WsSocket
<1>2. Numbered
  BY <1>0, <1>1, SameNumbers
<1>3. ASSUME NEW m, NEW k, NEW x, NEW i, Place(k, x, i, m)'
      PROVE  \/ Place(k, x, i, m) /\ ~(k = "tx" /\ x = fd)
             \/ k = "read" /\ x = fd /\ i = 0 /\ \E j : Place("tx", fd, j, m)
  <2>1. CASE k = "tx"
    <3>1. x \in Fds /\ i \in 1 .. Len(sock'[x].tx) /\ sock'[x].tx[i] = m
      BY <1>3, <2>1 DEF Place
    <3>2. x # fd
      BY <1>1, <3>1
    <3>3. sock'[x] = sock[x]
      BY <1>1, <3>1, <3>2
    <3> QED BY <2>1, <3>1, <3>2, <3>3 DEF Place
  <2>2. CASE k = "read"
    <3>1. x \in Fds /\ i = 0 /\ m \in sock'[x].answered
      BY <1>3, <2>2 DEF Place
    <3>2. CASE m \in sock[x].answered
      BY <2>2, <3>1, <3>2 DEF Place
    <3>3. CASE m \notin sock[x].answered
      <4>1. x = fd /\ m \in got
        BY <1>1, <3>1, <3>3
      <4>2. PICK j \in 1 .. Len(tx) : tx[j] = m
        BY <4>1
      <4>3. Place("tx", fd, j, m)
        BY <4>2 DEF Place
      <4> QED BY <2>2, <3>1, <4>1, <4>3
    <3> QED BY <3>2, <3>3
  <2>3. CASE k \notin {"tx", "read"}
    <3>1. Place(k, x, i, m)
      BY <1>0, <1>3, <2>3 DEF Place, WsTasks
    <3> QED BY <2>3, <3>1
  <2> QED BY <2>1, <2>2, <2>3
<1>4. Kept
  BY <1>3 DEF Kept
<1>5. Once'
  <2> SUFFICES ASSUME NEW m \in MessageOf(Opcode), NEW k, NEW x, NEW i, NEW l, NEW y, NEW j,
                      Place(k, x, i, m)', Place(l, y, j, m)'
               PROVE  k = l /\ x = y /\ i = j
    BY DEF Once
  <2> QED BY <1>3 DEF Answering, Once
<1> QED BY <1>2, <1>4, <1>5, MovedAnswering

LEMMA AnsweringNext ==
  ASSUME WsTypes, Wired, Looped, Held, Answering, [WsNext]_wsVars
  PROVE  Answering'
<1>1. CASE WsIoThread
  <2>1. CASE FramesDone \/ DrainStep
    BY <2>1, Elsewhere DEF FramesDone, DrainStep
  <2> QED BY <1>1, <2>1, AcceptAnswering, EventAnswering, HttpAnswering, FrameAnswering,
             WriteAnswering, SwapAnswering, GiveAnswering DEF WsIoThread
<1>2. CASE FcgiServer
  BY <1>2, Elsewhere DEF FcgiServer
<1>3. CASE UNCHANGED wsVars
  BY <1>3, Elsewhere DEF wsVars
<1>4. ASSUME NEW fd \in Fds, Peer(fd) PROVE Answering'
  <2>1. UNCHANGED <<client, taken, wsTaskVars, g_pending_frames>>
    BY <1>4 DEF Peer
  <2>2. \/ PeerConnect(fd) \/ \E hup \in BOOLEAN : PeerClose(fd, hup)
        \/ PeerUpgrade(fd) \/ PeerBody(fd) \/ PeerOther(fd) \/ PeerPart(fd)
        \/ PeerContinue(fd) \/ PeerRead(fd)
        \/ \E len \in BodyLens : PeerRequest(fd, len)
        \/ \E op \in Ops, fin \in BOOLEAN : PeerMessage(fd, op, fin)
    BY <1>4 DEF Peer
  <2> QED BY <2>1, <2>2, EndsAnswering, PlainAnswering, ContinueAnswering, ReadAnswering,
             BeginsAnswering
<1> QED BY <1>1, <1>2, <1>3, <1>4, WorkersAnswering DEF WsNext

(***************************************************************************)
(* The answer to a message is in one place at most: in the closure that    *)
(* makes it, in g_pending_frames, in what the IO thread took of it, in a   *)
(* client's buffer, in a socket, or read by a peer.  The numbers of the    *)
(* messages do it: each has one sender, the callback gets a client's in    *)
(* order, and so one it gets has no answer yet.                            *)
(***************************************************************************)
THEOREM AnsweredAtMostOnce == WsSpec => []AnsweredOnce
<1>1. WsInit => Held
  BY DEF WsInit, PoolInit, Held, Arena
<1>2. WsInit => Answering
  BY InitAnswering
<1>3. WsTypes /\ Wired /\ Looped /\ Held /\ Answering /\ [WsNext]_wsVars => Held' /\ Answering'
  BY HeldNext, AnsweringNext DEF WsTypes
<1>4. WsTypes /\ Answering => AnsweredOnce
  <2> SUFFICES ASSUME WsTypes, Answering, NEW fd \in clients,
                      NEW h \in 1 .. Len(client[fd].handed), client[fd].handed[h].op # "http"
               PROVE  Cardinality(AnswersTo(client[fd].handed[h])) <= 1
    BY DEF AnsweredOnce
  <2> DEFINE m == client[fd].handed[h]
             S == AnswersTo(m)
  <2>1. m \in MessageOf(Opcode)
    <3>1. client[fd].handed \in Seq(MessageOf(Opcode \cup {"http"}))
      BY DEF WsTypes, WsTypeOK, ClientTypeOK, ClientType
    <3>2. m \in MessageOf(Opcode \cup {"http"}) /\ m.op # "http"
      <4> DEFINE q == client[fd].handed
      <4> HIDE DEF q
      <4>1. q[h] \in MessageOf(Opcode \cup {"http"})
        BY <3>1 DEF q
      <4> QED BY <4>1 DEF q
    <3> HIDE DEF m
    <3> QED BY <3>2 DEF MessageOf
  <2> HIDE DEF m
  <2>2. ASSUME NEW e \in S
        PROVE  \E k, x, i : /\ Place(k, x, i, m)
                            /\ e = CASE k \in {"task", "read"}    -> <<k, x>>
                                     [] k \in {"pending", "taken"} -> <<k, i>>
                                     [] OTHER                      -> <<k, x, i>>
    <3>1. CASE e \in {<<"task", t.arena>> : t \in {t \in WsTasks : t.at = "callback" /\ t.msg = m}}
      <4>1. PICK t \in WsTasks : t.at = "callback" /\ t.msg = m /\ e = <<"task", t.arena>>
        BY <3>1
      <4>2. Place("task", t.arena, 0, m)
        BY <4>1 DEF Place
      <4> QED BY <4>1, <4>2
    <3>2. CASE e \in {<<"pending", i>> : i \in {i \in 1 .. Len(g_pending_frames) :
                                                  g_pending_frames[i].frame = m}}
      <4>1. PICK i \in 1 .. Len(g_pending_frames) : g_pending_frames[i].frame = m /\ e = <<"pending", i>>
        BY <3>2
      <4>2. Place("pending", NoFd, i, m)
        BY <4>1 DEF Place
      <4> QED BY <4>1, <4>2
    <3>3. CASE e \in {<<"taken", i>> : i \in {i \in 1 .. Len(taken) : taken[i].frame = m}}
      <4>1. PICK i \in 1 .. Len(taken) : taken[i].frame = m /\ e = <<"taken", i>>
        BY <3>3
      <4>2. Place("taken", NoFd, i, m)
        BY <4>1 DEF Place
      <4> QED BY <4>1, <4>2
    <3>4. ASSUME NEW gd \in Fds, NEW i \in 1 .. Len(client[gd].out_buf),
                 client[gd].out_buf[i] = m, e = <<"out", gd, i>>
          PROVE  \E k, x, j : /\ Place(k, x, j, m)
                              /\ e = CASE k \in {"task", "read"}    -> <<k, x>>
                                       [] k \in {"pending", "taken"} -> <<k, j>>
                                       [] OTHER                      -> <<k, x, j>>
      <4>1. Place("out", gd, i, m)
        BY <3>4 DEF Place
      <4> QED BY <3>4, <4>1
    <3>5. ASSUME NEW gd \in Fds, NEW i \in 1 .. Len(sock[gd].tx),
                 sock[gd].tx[i] = m, e = <<"tx", gd, i>>
          PROVE  \E k, x, j : /\ Place(k, x, j, m)
                              /\ e = CASE k \in {"task", "read"}    -> <<k, x>>
                                       [] k \in {"pending", "taken"} -> <<k, j>>
                                       [] OTHER                      -> <<k, x, j>>
      <4>1. Place("tx", gd, i, m)
        BY <3>5 DEF Place
      <4> QED BY <3>5, <4>1
    <3>6. ASSUME NEW gd \in Fds, m \in sock[gd].answered, e = <<"read", gd>>
          PROVE  \E k, x, j : /\ Place(k, x, j, m)
                              /\ e = CASE k \in {"task", "read"}    -> <<k, x>>
                                       [] k \in {"pending", "taken"} -> <<k, j>>
                                       [] OTHER                      -> <<k, x, j>>
      <4>1. Place("read", gd, 0, m)
        BY <3>6 DEF Place
      <4> QED BY <3>6, <4>1
    <3>7. \/ e \in {<<"task", t.arena>> : t \in {t \in WsTasks : t.at = "callback" /\ t.msg = m}}
          \/ e \in {<<"pending", i>> : i \in {i \in 1 .. Len(g_pending_frames) :
                                                  g_pending_frames[i].frame = m}}
          \/ e \in {<<"taken", i>> : i \in {i \in 1 .. Len(taken) : taken[i].frame = m}}
          \/ \E gd \in Fds : \E i \in 1 .. Len(client[gd].out_buf) :
               client[gd].out_buf[i] = m /\ e = <<"out", gd, i>>
          \/ \E gd \in Fds : \E i \in 1 .. Len(sock[gd].tx) :
               sock[gd].tx[i] = m /\ e = <<"tx", gd, i>>
          \/ \E gd \in Fds : m \in sock[gd].answered /\ e = <<"read", gd>>
      BY DEF AnswersTo
    <3> HIDE DEF S
    <3>8. CASE \E gd \in Fds : \E i \in 1 .. Len(client[gd].out_buf) :
                 client[gd].out_buf[i] = m /\ e = <<"out", gd, i>>
      BY <3>4, <3>8, Zenon
    <3>9. CASE \E gd \in Fds : \E i \in 1 .. Len(sock[gd].tx) :
                 sock[gd].tx[i] = m /\ e = <<"tx", gd, i>>
      BY <3>5, <3>9, Zenon
    <3>10. CASE \E gd \in Fds : m \in sock[gd].answered /\ e = <<"read", gd>>
      BY <3>6, <3>10, Zenon
    <3> QED BY <3>1, <3>2, <3>3, <3>7, <3>8, <3>9, <3>10
  <2>3. ASSUME NEW e \in S, NEW f \in S PROVE e = f
    <3>1. PICK k, x, i : /\ Place(k, x, i, m)
                         /\ e = CASE k \in {"task", "read"}    -> <<k, x>>
                                  [] k \in {"pending", "taken"} -> <<k, i>>
                                  [] OTHER                      -> <<k, x, i>>
      BY <2>2
    <3>2. PICK l, y, j : /\ Place(l, y, j, m)
                         /\ f = CASE l \in {"task", "read"}    -> <<l, y>>
                                  [] l \in {"pending", "taken"} -> <<l, j>>
                                  [] OTHER                      -> <<l, y, j>>
      BY <2>2
    <3>3. k = l /\ x = y /\ i = j
      BY <2>1, <3>1, <3>2 DEF Answering, Once
    <3> QED BY <3>1, <3>2, <3>3
  <2>4. S = {} \/ \E e : S = {e}
    BY <2>3
  <2> HIDE DEF S
  <2>5. Cardinality(S) <= 1
    <3>1. CASE S = {}
      <4>1. Cardinality(S) = 0
        BY <3>1, FS_EmptySet
      <4> QED BY <4>1
    <3>2. ASSUME NEW e, S = {e} PROVE Cardinality(S) <= 1
      <4>1. Cardinality({e}) = 1
        BY FS_Singleton
      <4> QED BY <3>2, <4>1
    <3> QED BY <2>4, <3>1, <3>2
  <2> QED BY <2>5 DEF S, m
<1> QED BY <1>1, <1>2, <1>3, <1>4, AlwaysWired, PTL DEF WsSpec
=============================================================================
