------------------------------ MODULE WsServer ------------------------------
(***************************************************************************)
(* The WebSocket and plain HTTP server of websockets.cpp: one IO thread    *)
(* with an edge-triggered epoll loop, and the closures it hands to the     *)
(* worker pool.  A worker hands its answer back by descriptor number.      *)
(*                                                                         *)
(* What arrives is a sequence of units: a frame, a request head, or a      *)
(* piece of a body.  A piece is named <<m, i>>, piece i of the m-th        *)
(* message any peer began, so the content of a message is the sequence of  *)
(* its pieces; nothing in the code looks at the names.                     *)
(*                                                                         *)
(* Events are taken one at a time.  The batch of epoll_wait adds nothing:  *)
(* the loop closes a descriptor only while it handles that descriptor's    *)
(* own event, so no event of a batch is ever of a closed connection.       *)
(***************************************************************************)
EXTENDS ArenaPool, Sequences

CONSTANTS
  Fds,                    \* descriptors accept() may return
  NoFd,                   \* "no descriptor"
  SndBuf,                 \* units a socket takes before send() says EAGAIN
  Ops,                    \* opcodes of the messages peers send
  BodyLens,               \* values of Content-Length peers send
  Env,                    \* which of the liberties below peers take
  MaxConnects,            \* bound: connections ever made
  MaxMsgs,                \* bound: messages, requests and pings of all peers
  MaxFcgi                 \* bound: arenas the FastCGI server holds at once

ASSUME WsConstantsAssumption ==
  /\ NoFd \notin Fds
  /\ SndBuf \in Nat \ {0}
  /\ Ops \subseteq {"text", "binary"}
  /\ BodyLens \subseteq Nat
  /\ Env \subseteq {"close",      \* a peer closes its end
                    "goodbye",    \* a peer sends a close frame
                    "http",       \* a peer speaks plain HTTP
                    "interrupt",  \* a new message begins inside another
                    "fragment",   \* a message comes in two frames
                    "partial",    \* a unit arrives in two reads
                    "ping",       \* a peer sends pings
                    "stray"}      \* a continuation comes without a beginning
  /\ MaxConnects \in Nat /\ MaxMsgs \in Nat /\ MaxFcgi \in Nat

VARIABLES
  clients,                \* descriptors with a Client
  client,                 \* the Client of each descriptor
  pc, cur,                \* where the IO thread is, the descriptor it handles
  g_pending_frames,       \* answers the workers hand back (under its mutex)
  taken,                  \* local: the ones the IO thread took of them
  queue,                  \* closures in the worker pool's queue
  running,                \* closures the worker threads execute
  eventfd,                \* the eventfd's counter is non-zero
  ready,                  \* connections on epoll's ready list
  sock,                   \* kernel and peer side of each connection
  connects, begun,        \* connections made, messages begun
  fcgi                    \* arenas the FastCGI server holds

wsClientVars == <<clients, client>>
wsIoVars == <<pc, cur, taken>>
wsTaskVars == <<queue, running>>
wsHandBack == <<g_pending_frames, eventfd>>
wsPeerVars == <<sock, connects, begun>>
wsVars == <<poolVars, wsClientVars, wsIoVars, wsTaskVars, wsHandBack, ready, wsPeerVars,
            fcgi>>

-----------------------------------------------------------------------------
(* Values *)

NoPiece == <<0, 0>>

\* A frame; op is "cont" for opcode 0.  fin is its FIN bit.
FrameUnit(op, fin, piece) == [k |-> "frame", op |-> op, fin |-> fin, piece |-> piece]

\* A request head up to and with its empty line; len is its Content-Length.
HeadUnit(op, m, len) == [k |-> "head", op |-> op, piece |-> <<m, 0>>, len |-> len]
BodyUnit(piece) == [k |-> "body", piece |-> piece]

\* The first bytes of the next unit.
PartUnit == [k |-> "part", piece |-> NoPiece]

\* What a message is to its sender and to the callback.
Message(op, data) == [op |-> op, data |-> data]

\* struct Client.  http_headers_parsed always equals http_mode and
\* close_after_write is never set.  epollout is the EPOLLOUT bit last given to
\* epoll.  handed is not in the code: the messages of this client handed to
\* the callbacks so far.
NewClient ==
  [handshake_done |-> FALSE, http_mode |-> FALSE,
   http_content_length |-> 0, in_http |-> <<>>, in_buf |-> <<>>, out_buf |-> <<>>,
   closed |-> FALSE, assembling |-> FALSE, assemble_opcode |-> "text",
   assemble_data |-> <<>>, epollout |-> FALSE, handed |-> <<>>]

\* up: how far the peer is; sent: the messages it completed; open: the pieces
\* of the one it is sending; owed: the body pieces it still has to send;
\* answered: the answers it has read.
FreeWsSock ==
  [st |-> "free", eof |-> FALSE, hup |-> FALSE, up |-> "no", sent |-> <<>>,
   open |-> Message("text", <<>>), owed |-> 0, answered |-> {}, rx |-> <<>>, tx |-> <<>>]

EndsPart(s) == s # <<>> /\ s[Len(s)].k = "part"

\* Bytes that follow others complete the unit those ended in.
Together(s, t) ==
  IF EndsPart(s) /\ t # <<>> THEN SubSeq(s, 1, Len(s) - 1) \o t ELSE s \o t

WsInit ==
  /\ PoolInit
  /\ clients = {} /\ client = [fd \in Fds |-> NewClient]
  /\ pc = "wait" /\ cur = NoFd
  /\ g_pending_frames = <<>> /\ taken = <<>> /\ eventfd = FALSE
  /\ queue = <<>> /\ running = {}
  /\ ready = {}
  /\ sock = [fd \in Fds |-> FreeWsSock] /\ connects = 0 /\ begun = 0
  /\ fcgi = {}

-----------------------------------------------------------------------------
(* serve(): accepting and receiving *)

AcceptClient(fd) ==
  /\ pc = "wait" /\ sock[fd].st = "backlog"
  /\ sock' = [sock EXCEPT ![fd].st = "conn"]
  /\ clients' = clients \cup {fd}
  /\ client' = [client EXCEPT ![fd] = NewClient]
  /\ ready' = ready \cup {fd}
  /\ UNCHANGED <<poolVars, wsIoVars, wsTaskVars, wsHandBack, connects, begun, fcgi>>

\* What epoll_wait reports for a connection on the ready list.
Readable(fd) == sock[fd].rx # <<>> \/ sock[fd].eof
Writable(fd) == client[fd].epollout /\ (Len(sock[fd].tx) < SndBuf \/ sock[fd].hup)

\* HUP and the end of the stream mark the client closed, but what was received
\* is still parsed.
ClientEvent(fd) ==
  /\ pc = "wait" /\ fd \in ready /\ fd \in clients
  /\ Readable(fd) \/ Writable(fd) \/ sock[fd].hup
  /\ ready' = ready \ {fd}
  /\ client' = [client EXCEPT
       ![fd].closed = @ \/ sock[fd].hup \/ sock[fd].eof,
       ![fd].in_buf = Together(@, sock[fd].rx)]
  /\ sock' = [sock EXCEPT ![fd].rx = <<>>]
  /\ pc' = IF ~Readable(fd) THEN "write"
           ELSE IF client[fd].handshake_done THEN "frames" ELSE "http"
  /\ cur' = fd
  /\ UNCHANGED <<poolVars, clients, taken, wsTaskVars, wsHandBack, connects, begun, fcgi>>

-----------------------------------------------------------------------------
(***************************************************************************)
(* schedule_message and schedule_http: c is the client as the caller       *)
(* leaves it.  The request is built in an arena of its own and goes to the *)
(* worker pool; with no arena free it is dropped.                          *)
(***************************************************************************)
WsTask(a, msg) == [arena |-> a, fd |-> cur, msg |-> msg, at |-> "callback"]

Schedule(c, msg) ==
  \/ \E a \in Arena :
       /\ Get(a)
       /\ queue' = Append(queue, WsTask(a, msg))
       /\ client' = [client EXCEPT ![cur] = [c EXCEPT !.handed = Append(@, msg)]]
  \/ /\ Exhausted
     /\ client' = [client EXCEPT ![cur] = c]
     /\ UNCHANGED <<poolVars, queue>>

Keep(c) == client' = [client EXCEPT ![cur] = c] /\ UNCHANGED <<poolVars, queue>>

-----------------------------------------------------------------------------
(***************************************************************************)
(* Before the handshake all bytes go to in_http, where a head is searched  *)
(* from the front.  Nothing ever takes bytes out of in_http: schedule_http *)
(* binds it to an rvalue reference and only reads it.  So every later read *)
(* finds the same head again, copies all that follows it to in_buf anew,   *)
(* and schedules again once that is as long as the body.                   *)
(***************************************************************************)
IsHead(u) == u.k = "head"

ScheduleHttp(c, head, rest) ==
  LET msg == Message(head.op, <<head.piece>>
                                \o [i \in 1 .. head.len |-> rest[i].piece]) IN
  Schedule([c EXCEPT !.in_buf = <<>>], msg)

HttpStep ==
  LET c == client[cur]
      text == Together(c.in_http, c.in_buf)
      heads == {i \in 1 .. Len(text) : IsHead(text[i])}
      first == CHOOSE i \in heads : \A j \in heads : i <= j
      rest == SubSeq(text, first + 1, Len(text))
      read == [c EXCEPT !.in_http = text, !.in_buf = <<>>]
  IN
  /\ pc = "http" /\ pc' = "write"
  /\ \/ heads = {} /\ Keep(read)
     \/ /\ heads # {} /\ text[first].op = "upgrade"
        /\ Keep([read EXCEPT !.handshake_done = TRUE,
                             !.out_buf = Append(@, Message("101", <<>>))])
     \/ /\ heads # {} /\ text[first].op = "http"
        /\ LET seen == [read EXCEPT !.http_mode = TRUE, !.in_buf = rest,
                                    !.http_content_length = text[first].len] IN
             IF Len(rest) >= text[first].len
               THEN ScheduleHttp(seen, text[first], rest)
               ELSE Keep(seen)
  /\ UNCHANGED <<clients, cur, taken, running, wsHandBack, ready, wsPeerVars, fcgi>>

-----------------------------------------------------------------------------
(* After the handshake: one frame at a time *)

FrameThere == client[cur].in_buf # <<>> /\ Head(client[cur].in_buf).k = "frame"

\* What is left when the frame has been taken out.
Shorter == [client[cur] EXCEPT !.in_buf = Tail(@)]

Control(f) ==
  CASE f.op = "close" -> Keep([Shorter EXCEPT !.closed = TRUE])
    [] f.op = "ping"  -> Keep([Shorter EXCEPT !.out_buf = Append(@, Message("pong", <<>>))])

\* Mutation: what was assembled of an interrupted message is kept.
TextOrBinaryKeeps(f) ==
  IF f.fin
    THEN Schedule(Shorter, Message(f.op, <<f.piece>>))
    ELSE Keep([Shorter EXCEPT !.assembling = TRUE, !.assemble_opcode = f.op,
                              !.assemble_data = Append(@, f.piece)])

\* A data frame drops a message that was being assembled.
TextOrBinary(f) ==
  LET fresh == IF Shorter.assembling
                 THEN [Shorter EXCEPT !.assembling = FALSE, !.assemble_data = <<>>]
                 ELSE Shorter IN
  IF f.fin
    THEN Schedule(fresh, Message(f.op, <<f.piece>>))
    ELSE Keep([fresh EXCEPT !.assembling = TRUE, !.assemble_opcode = f.op,
                            !.assemble_data = <<f.piece>>])

\* A continuation with nothing to continue is an error.
Continuation(f) ==
  LET whole == Append(Shorter.assemble_data, f.piece) IN
  IF ~Shorter.assembling
    THEN Keep([Shorter EXCEPT !.closed = TRUE])
    ELSE IF f.fin
      THEN Schedule([Shorter EXCEPT !.assembling = FALSE, !.assemble_data = <<>>],
                    Message(Shorter.assemble_opcode, whole))
      ELSE Keep([Shorter EXCEPT !.assemble_data = whole])

\* The loop goes on after a close frame: the frames behind it count too.
FrameStep ==
  /\ pc = "frames" /\ FrameThere
  /\ LET f == Head(client[cur].in_buf) IN
       \/ f.op \in {"close", "ping"} /\ Control(f)
       \/ f.op \in {"text", "binary"} /\ TextOrBinary(f)
       \/ f.op = "cont" /\ Continuation(f)
  /\ UNCHANGED <<clients, wsIoVars, running, wsHandBack, ready, wsPeerVars, fcgi>>

FramesDone ==
  /\ pc = "frames" /\ ~FrameThere
  /\ pc' = "write"
  /\ UNCHANGED <<poolVars, wsClientVars, cur, taken, wsTaskVars, wsHandBack, ready,
                 wsPeerVars, fcgi>>

-----------------------------------------------------------------------------
(***************************************************************************)
(* The end of the handler: send_all, then the epoll mask is set by what is *)
(* left, then a closed client goes, with all that was not sent.  send_all  *)
(* drops the output when send() fails.                                     *)
(***************************************************************************)
Room(fd) == IF sock[fd].eof THEN Len(client[fd].out_buf) ELSE SndBuf - Len(sock[fd].tx)

\* Mutation: a full socket takes everything.
TakenAll(fd) == Len(client[fd].out_buf)

Taken(fd) == IF Room(fd) < Len(client[fd].out_buf) THEN Room(fd)
                                                   ELSE Len(client[fd].out_buf)

\* Mutation: nothing is erased when the socket is full.
LeftAll(fd) == IF Taken(fd) < Len(client[fd].out_buf) THEN client[fd].out_buf ELSE <<>>

\* What send_all leaves in the buffer.
Left(fd) == SubSeq(client[fd].out_buf, Taken(fd) + 1, Len(client[fd].out_buf))

SendAll(fd) ==
  LET out == client[fd].out_buf
      left == IF sock[fd].hup THEN <<>> ELSE Left(fd) IN
  /\ client' = [client EXCEPT ![fd].out_buf = left, ![fd].epollout = (left # <<>>)]
  /\ sock' = IF sock[fd].eof THEN sock
             ELSE [sock EXCEPT ![fd].tx = @ \o SubSeq(out, 1, Taken(fd))]
  /\ ready' = ready \cup {fd}
  /\ UNCHANGED clients

\* What send_all could still send before the close goes unread here.
CloseClient(fd) ==
  /\ clients' = clients \ {fd}
  /\ client' = [client EXCEPT ![fd] = NewClient]
  /\ sock' = [sock EXCEPT ![fd] = FreeWsSock]
  /\ ready' = ready \ {fd}

WriteStep ==
  /\ pc = "write"
  /\ IF client[cur].closed THEN CloseClient(cur) ELSE SendAll(cur)
  /\ pc' = "wait" /\ cur' = NoFd
  /\ UNCHANGED <<poolVars, taken, wsTaskVars, wsHandBack, connects, begun, fcgi>>

-----------------------------------------------------------------------------
(* The hand-back *)

\* read() in a loop drains the counter.
DrainStep ==
  /\ pc = "wait" /\ eventfd
  /\ eventfd' = FALSE /\ pc' = "swap"
  /\ UNCHANGED <<poolVars, wsClientVars, cur, taken, wsTaskVars, g_pending_frames, ready,
                 wsPeerVars, fcgi>>

\* Under the mutex the whole list is taken.
SwapStep ==
  /\ pc = "swap"
  /\ taken' = g_pending_frames /\ g_pending_frames' = <<>>
  /\ pc' = IF g_pending_frames = <<>> THEN "wait" ELSE "give"
  /\ UNCHANGED <<poolVars, wsClientVars, cur, wsTaskVars, eventfd, ready, wsPeerVars, fcgi>>

\* Mutation: EPOLLOUT is not asked for.
GiveOutQuietly(fd, frame) ==
  client' = [client EXCEPT ![fd].out_buf = Append(@, frame)] /\ UNCHANGED ready

\* The answer joins the client's output, and EPOLLOUT is asked for.
GiveOut(fd, frame) ==
  /\ client' = [client EXCEPT ![fd].out_buf = Append(@, frame), ![fd].epollout = TRUE]
  /\ ready' = ready \cup {fd}

\* Whoever has the descriptor now gets the answer; that of a descriptor
\* without a client is dropped.
GiveStep ==
  /\ pc = "give"
  /\ LET p == Head(taken) IN
       \/ p.fd \in clients /\ GiveOut(p.fd, p.frame)
       \/ p.fd \notin clients /\ UNCHANGED <<client, ready>>
  /\ taken' = Tail(taken)
  /\ pc' = IF Tail(taken) = <<>> THEN "wait" ELSE "give"
  /\ UNCHANGED <<poolVars, clients, cur, wsTaskVars, wsHandBack, wsPeerVars, fcgi>>

-----------------------------------------------------------------------------
(***************************************************************************)
(* The worker's closure.  It owns its request.  The answer has the opcode  *)
(* of the message, and here also its name.  As many threads run as there   *)
(* are arenas, and each closure holds one, so a thread is free for every   *)
(* closure.  The server's callback always writes something, so an answer   *)
(* is always pushed.                                                       *)
(***************************************************************************)
WsTaskStart ==
  /\ queue # <<>>
  /\ running' = running \cup {Head(queue)} /\ queue' = Tail(queue)
  /\ UNCHANGED <<poolVars, wsClientVars, wsIoVars, wsHandBack, ready, wsPeerVars, fcgi>>

\* Mutation: the eventfd is not written.
PushUnsignalled(p) ==
  g_pending_frames' = Append(g_pending_frames, p) /\ UNCHANGED eventfd

Push(p) ==
  g_pending_frames' = Append(g_pending_frames, p) /\ eventfd' = TRUE

WsTaskReply(t) ==
  /\ t.at = "callback"
  /\ Push([fd |-> t.fd, frame |-> t.msg])
  /\ running' = (running \ {t}) \cup {[t EXCEPT !.at = "release"]}
  /\ UNCHANGED <<poolVars, wsClientVars, wsIoVars, queue, ready, wsPeerVars, fcgi>>

\* Mutation: the arena is not given back.
WsTaskReleaseNot(t) ==
  /\ t.at = "release"
  /\ running' = running \ {t}
  /\ UNCHANGED <<poolVars, wsClientVars, wsIoVars, queue, wsHandBack, ready, wsPeerVars,
                 fcgi>>

WsTaskRelease(t) ==
  /\ t.at = "release"
  /\ Release(t.arena)
  /\ running' = running \ {t}
  /\ UNCHANGED <<wsClientVars, wsIoVars, queue, wsHandBack, ready, wsPeerVars, fcgi>>
-----------------------------------------------------------------------------
(* Peers *)

PeerConnect(fd) ==
  /\ sock[fd].st = "free" /\ connects < MaxConnects
  /\ connects' = connects + 1
  /\ sock' = [sock EXCEPT ![fd] = [FreeWsSock EXCEPT !.st = "backlog"]]
  /\ UNCHANGED <<begun, ready>>

\* The peer side becomes s, and units are on their way.
Send(fd, s, units) ==
  /\ sock[fd].st # "free" /\ ~sock[fd].eof
  /\ sock' = [sock EXCEPT ![fd] = [s EXCEPT !.rx = Together(@, units)]]
  /\ ready' = IF sock[fd].st = "conn" THEN ready \cup {fd} ELSE ready
  /\ UNCHANGED connects

PeerUpgrade(fd) ==
  /\ sock[fd].up = "no"
  /\ Send(fd, [sock[fd] EXCEPT !.up = "asked"], <<HeadUnit("upgrade", 0, 0)>>)
  /\ UNCHANGED begun

\* A request with a body of len pieces; they follow one by one.
PeerRequest(fd, len) ==
  LET m == begun + 1 IN
  /\ "http" \in Env /\ sock[fd].up = "no" /\ begun < MaxMsgs /\ begun' = m
  /\ LET all == Message("http", [i \in 1 .. len + 1 |-> <<m, i - 1>>]) IN
     Send(fd, [sock[fd] EXCEPT !.up = "http", !.owed = len, !.sent = <<all>>],
          <<HeadUnit("http", m, len)>>)

PeerBody(fd) ==
  /\ sock[fd].up = "http" /\ sock[fd].owed > 0
  /\ LET all == sock[fd].sent[1].data IN
     Send(fd, [sock[fd] EXCEPT !.owed = @ - 1],
          <<BodyUnit(all[Len(all) - sock[fd].owed + 1])>>)
  /\ UNCHANGED begun

\* The first or only frame of a message, not inside another one unless the
\* peer interrupts itself.
PeerMessage(fd, op, fin) ==
  LET m == begun + 1
      msg == Message(op, <<<<m, 1>>>>) IN
  /\ sock[fd].up = "open" /\ begun < MaxMsgs /\ begun' = m
  /\ fin \/ "fragment" \in Env
  /\ sock[fd].open.data = <<>> \/ "interrupt" \in Env
  /\ Send(fd, IF fin THEN [sock[fd] EXCEPT !.sent = Append(@, msg), !.open.data = <<>>]
                     ELSE [sock[fd] EXCEPT !.open = msg],
          <<FrameUnit(op, fin, <<m, 1>>)>>)

PeerContinue(fd) ==
  LET msg == sock[fd].open
      piece == <<msg.data[1][1], 2>> IN
  /\ sock[fd].up = "open" /\ msg.data # <<>>
  /\ Send(fd, [sock[fd] EXCEPT !.sent = Append(@, Message(msg.op, Append(msg.data, piece))),
                               !.open.data = <<>>],
          <<FrameUnit("cont", TRUE, piece)>>)
  /\ UNCHANGED begun

\* Frames outside messages: a ping, a close, a continuation of nothing.
PeerOther(fd) ==
  /\ sock[fd].up = "open"
  /\ \/ /\ "ping" \in Env /\ begun < MaxMsgs /\ begun' = begun + 1
        /\ Send(fd, sock[fd], <<FrameUnit("ping", TRUE, NoPiece)>>)
     \/ /\ "goodbye" \in Env /\ UNCHANGED begun
        /\ Send(fd, [sock[fd] EXCEPT !.up = "left"], <<FrameUnit("close", TRUE, NoPiece)>>)
     \/ /\ "stray" \in Env /\ sock[fd].open.data = <<>> /\ UNCHANGED begun
        /\ Send(fd, [sock[fd] EXCEPT !.up = "left"], <<FrameUnit("cont", TRUE, NoPiece)>>)

\* The first bytes of what comes next.
PeerPart(fd) ==
  /\ "partial" \in Env /\ sock[fd].up \in {"no", "open"}
  /\ ~EndsPart(sock[fd].rx)
  /\ fd \in clients => ~EndsPart(client[fd].in_buf \o sock[fd].rx)
                          /\ ~EndsPart(client[fd].in_http)
  /\ Send(fd, sock[fd], <<PartUnit>>)
  /\ UNCHANGED begun

\* Reading the 101 opens the connection; the rest are answers and pongs.
PeerRead(fd) ==
  LET got == {sock[fd].tx[i] : i \in 1 .. Len(sock[fd].tx)} IN
  /\ ~sock[fd].eof /\ sock[fd].tx # <<>>
  /\ sock' = [sock EXCEPT
       ![fd].tx = <<>>,
       ![fd].up = IF Message("101", <<>>) \in got THEN "open" ELSE @,
       ![fd].answered = @ \cup {g \in got : g.data # <<>>}]
  /\ ready' = IF client[fd].epollout /\ Len(sock[fd].tx) >= SndBuf
                THEN ready \cup {fd} ELSE ready
  /\ UNCHANGED <<connects, begun>>

\* The peer closes; a reset is seen as HUP.
PeerClose(fd, hup) ==
  /\ "close" \in Env /\ sock[fd].st # "free" /\ ~sock[fd].eof
  /\ sock' = [sock EXCEPT ![fd].eof = TRUE, ![fd].hup = hup, ![fd].tx = <<>>]
  /\ ready' = IF sock[fd].st = "conn" THEN ready \cup {fd} ELSE ready
  /\ UNCHANGED <<connects, begun>>

\* The IO thread meets its peers in epoll_wait, recv and send only.
AtSocket == pc \in {"wait", "write"}

Peer(fd) ==
  /\ AtSocket
  /\ \/ PeerConnect(fd) \/ PeerUpgrade(fd) \/ PeerBody(fd) \/ PeerContinue(fd)
     \/ PeerOther(fd) \/ PeerPart(fd) \/ PeerRead(fd)
     \/ \E len \in BodyLens : PeerRequest(fd, len)
     \/ \E op \in Ops, fin \in BOOLEAN : PeerMessage(fd, op, fin)
     \/ \E hup \in BOOLEAN : PeerClose(fd, hup)
  /\ UNCHANGED <<poolVars, wsClientVars, wsIoVars, wsTaskVars, wsHandBack, fcgi>>

\* The FastCGI server uses the same arenas.
FcgiGet(a) == Cardinality(fcgi) < MaxFcgi /\ Get(a) /\ fcgi' = fcgi \cup {a}
FcgiRelease(a) == a \in fcgi /\ Release(a) /\ fcgi' = fcgi \ {a}

FcgiServer ==
  /\ \E a \in Arena : FcgiGet(a) \/ FcgiRelease(a)
  /\ UNCHANGED <<wsClientVars, wsIoVars, wsTaskVars, wsHandBack, ready, wsPeerVars>>

-----------------------------------------------------------------------------
(* Next *)

WsIoThread ==
  \/ \E fd \in Fds : AcceptClient(fd) \/ ClientEvent(fd)
  \/ HttpStep \/ FrameStep \/ FramesDone \/ WriteStep \/ DrainStep \/ SwapStep
  \/ GiveStep

WsWorkers ==
  WsTaskStart \/ \E t \in running : WsTaskReply(t) \/ WsTaskRelease(t)

WsNext == WsIoThread \/ WsWorkers \/ FcgiServer \/ \E fd \in Fds : Peer(fd)

WsSpec == WsInit /\ [][WsNext]_wsVars

(***************************************************************************)
(* Fairness: the IO thread, each closure, and peers that read.  An event   *)
(* of one client or of the eventfd does not keep another from being taken  *)
(* for ever: epoll_wait serves its ready list in turn.                     *)
(***************************************************************************)
WsFairness ==
  /\ WF_wsVars(HttpStep \/ FrameStep \/ FramesDone \/ WriteStep \/ SwapStep \/ GiveStep)
  /\ SF_wsVars(DrainStep)
  /\ \A fd \in Fds : SF_wsVars(AcceptClient(fd)) /\ SF_wsVars(ClientEvent(fd))
  /\ WF_wsVars(WsWorkers)
  /\ \A fd \in Fds :
       SF_wsVars(AtSocket /\ PeerRead(fd)
                 /\ UNCHANGED <<poolVars, wsClientVars, wsIoVars, wsTaskVars,
                                wsHandBack, fcgi>>)

WsFairSpec == WsSpec /\ WsFairness
=============================================================================
