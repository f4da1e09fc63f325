---------------------------- MODULE WsProperties ----------------------------
(***************************************************************************)
(* What the WebSocket and HTTP server is to guarantee.                     *)
(***************************************************************************)
EXTENDS WsServer

WsIdle == pc = "wait"

WsTasks == running \cup {queue[i] : i \in 1 .. Len(queue)}

-----------------------------------------------------------------------------
(* Types *)

Opcode == {"text", "binary"}
Piece == Nat \X Nat
MessageOf(ops) == [op : ops, data : Seq(Piece)]
Answer == MessageOf(Opcode \cup {"http", "101", "pong"})

WsUnit ==
  [k : {"frame"}, op : Opcode \cup {"cont", "ping", "close"}, fin : BOOLEAN, piece : Piece]
    \cup [k : {"head"}, op : {"upgrade", "http"}, piece : Piece, len : Nat]
    \cup [k : {"body", "part"}, piece : Piece]

ClientType ==
  [handshake_done : BOOLEAN, http_mode : BOOLEAN, http_content_length : Nat,
   in_http : Seq(WsUnit), in_buf : Seq(WsUnit), out_buf : Seq(Answer), closed : BOOLEAN,
   assembling : BOOLEAN, assemble_opcode : Opcode, assemble_data : Seq(Piece),
   epollout : BOOLEAN, handed : Seq(MessageOf(Opcode \cup {"http"}))]

\* What the peer has not read yet fits the socket.
SentAnswers == {s \in Seq(Answer) : Len(s) <= SndBuf}

WsSocket ==
  [st : {"free", "backlog", "conn"}, eof : BOOLEAN, hup : BOOLEAN,
   up : {"no", "asked", "open", "http", "left"},
   sent : Seq(MessageOf(Opcode \cup {"http"})), open : MessageOf(Opcode), owed : Nat,
   answered : SUBSET Answer, rx : Seq(WsUnit), tx : SentAnswers]

PendingFrame == [fd : Fds, frame : Answer]

WsClosure == [arena : Arena, fd : Fds, msg : MessageOf(Opcode \cup {"http"}),
              at : {"callback", "release"}]

ClientTypeOK ==
  /\ clients \subseteq Fds
  /\ client \in [Fds -> ClientType]

\* The IO thread handles a client it has, and drops it if it is marked closed.
LoopTypeOK ==
  /\ pc \in {"wait", "frames", "http", "write", "swap", "give"}
  /\ cur \in IF pc \in {"wait", "swap", "give"} THEN {NoFd} ELSE clients
  /\ \A fd \in clients : client[fd].closed => fd = cur
  /\ taken \in Seq(PendingFrame) /\ (pc = "give" <=> taken # <<>>)

WorkerTypeOK ==
  /\ queue \in Seq(WsClosure) /\ running \subseteq WsClosure
  /\ g_pending_frames \in Seq(PendingFrame) /\ eventfd \in BOOLEAN
  /\ fcgi \subseteq Arena

PeerTypeOK ==
  /\ ready \subseteq Fds /\ sock \in [Fds -> WsSocket]
  /\ connects \in Nat /\ begun \in Nat

(***************************************************************************)
(* Every variable holds what its C++ counterpart can hold; the IO thread   *)
(* handles a client it has; no socket takes more than it has room for; and *)
(* a client that is marked closed does not outlive its handler.            *)
(***************************************************************************)
WsTypeOK == PoolTypeOK /\ ClientTypeOK /\ LoopTypeOK /\ WorkerTypeOK /\ PeerTypeOK

-----------------------------------------------------------------------------
(* Messages *)

Number(msg) == msg.data[1][1]

(***************************************************************************)
(* The WebSocket callback sees messages their sender completed, each whole *)
(* and with the opcode it began with, in order and once, whatever control  *)
(* frames, abandoned fragments and cut-off reads come between (the frame   *)
(* loop of serve, schedule_message).                                       *)
(***************************************************************************)
MessagesAreWhole ==
  \A fd \in clients : LET got == client[fd].handed
                         sent == sock[fd].sent IN
    \A i \in 1 .. Len(got) : got[i].op # "http" =>
      /\ \E j \in 1 .. Len(sent) : got[i] = sent[j]
      /\ \A h \in 1 .. i - 1 : got[h].op # "http" => Number(got[h]) < Number(got[i])

(***************************************************************************)
(* The callback for plain HTTP is called once per request (websockets.h).  *)
(***************************************************************************)
HttpOnce ==
  \A fd \in clients : LET h == client[fd].handed IN
    \A i, j \in 1 .. Len(h) : h[i].op = "http" /\ Number(h[i]) = Number(h[j]) => i = j

\* Every place where an answer to msg is, or is to come from.
AnswersTo(msg) ==
  {<<"task", t.arena>> : t \in {t \in WsTasks : t.at = "callback" /\ t.msg = msg}}
    \cup {<<"pending", i>> : i \in {i \in 1 .. Len(g_pending_frames) :
                                      g_pending_frames[i].frame = msg}}
    \cup {<<"taken", i>> : i \in {i \in 1 .. Len(taken) : taken[i].frame = msg}}
    \cup (UNION {{<<"out", fd, i>> : i \in {i \in 1 .. Len(client[fd].out_buf) :
                                       client[fd].out_buf[i] = msg}} : fd \in Fds})
    \cup (UNION {{<<"tx", fd, i>> : i \in {i \in 1 .. Len(sock[fd].tx) :
                                       sock[fd].tx[i] = msg}} : fd \in Fds})
    \cup {<<"read", fd>> : fd \in {fd \in Fds : msg \in sock[fd].answered}}

(***************************************************************************)
(* No WebSocket message is answered twice: between the worker, the lists,  *)
(* the client's buffer and the socket its answer is in one place.          *)
(***************************************************************************)
AnsweredOnce ==
  \A fd \in clients : \A i \in 1 .. Len(client[fd].handed) :
    LET msg == client[fd].handed[i] IN
      msg.op # "http" => Cardinality(AnswersTo(msg)) <= 1

-----------------------------------------------------------------------------
(* Arenas and wakeups *)

(***************************************************************************)
(* An arena is handed out as long as one closure, or the FastCGI server,   *)
(* holds it, and no longer: requests that were dropped on the way, and     *)
(* clients that went before their answer, leave none behind.               *)
(***************************************************************************)
ArenasAreHeld ==
  /\ \A a \in Arena : in_use[a] <=> a \in fcgi \/ \E t \in WsTasks : t.arena = a
  /\ \A t, u \in WsTasks : t.arena = u.arena => t = u
  /\ \A t \in WsTasks : t.arena \notin fcgi

\* An answer in g_pending_frames has the IO thread woken or about to look: a
\* worker that pushes between the drain and the swap is not overlooked.
WsNoLostWakeup == g_pending_frames # <<>> => eventfd \/ pc = "swap"

\* Between events, output that is still to be sent is watched for.
WsUnsentIsArmed ==
  WsIdle => \A fd \in clients : client[fd].out_buf # <<>> => client[fd].epollout

-----------------------------------------------------------------------------
(* Progress *)

\* The callback got message n from this client.
Handed(fd, n) ==
  fd \in clients /\ \E i \in 1 .. Len(client[fd].handed) : Number(client[fd].handed[i]) = n

(***************************************************************************)
(* A message that was handed to the callback is answered: the peer that    *)
(* sent it reads the answer, unless its connection ends first.             *)
(***************************************************************************)
WsAnswered ==
  \A fd \in Fds, n \in 1 .. MaxMsgs :
    Handed(fd, n) ~> \/ ~Handed(fd, n) \/ sock[fd].eof
                     \/ \E g \in sock[fd].answered : Number(g) = n
=============================================================================
