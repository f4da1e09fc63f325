----------------------------- MODULE FcgiState ------------------------------
(***************************************************************************)
(* The state of the FastCGI server (fcgi-connection.cpp, request.h) and of *)
(* what surrounds it: the globals of the file, the Connection and Request  *)
(* objects, the worker pool's closures, the call stack of the IO thread,   *)
(* and the kernel and peer side of the sockets.                            *)
(*                                                                         *)
(* A Request lives at the start of its arena, so a Request* is the arena's *)
(* name: a pointer kept too long reads whatever request the arena holds    *)
(* by then.  Serial numbers tell the successive objects apart; the code    *)
(* has no such number and no action looks at one, except to decide that a  *)
(* pointer dangles.                                                        *)
(***************************************************************************)
EXTENDS ArenaPool, FcgiProtocol

CONSTANTS
  Fds,                    \* descriptors accept() may return
  Ids,                    \* FastCGI request ids in use
  NoFd, NoId,             \* "no descriptor", "no id" in a stack frame
  ParamLens, StdinLens,   \* sizes of the non-empty records a peer sends
  SndBuf,                 \* records a socket takes before send() says EAGAIN
  Buckets,                \* entries a requests map holds before it may rehash
  KeepFlags,              \* values of KEEP_CONN peers use
  Env,                    \* which of the liberties below the environment takes
  MaxConnects,            \* bound: connections ever made
  MaxRequests,            \* bound: requests ever begun by peers
  MaxWs                   \* bound: arenas the WebSocket threads hold at once

ASSUME ConstantsAssumption ==
  /\ NoFd \notin Fds /\ NoId \notin Ids /\ IsFiniteSet(Ids)
  /\ ParamLens \subseteq Nat \ {0} /\ StdinLens \subseteq Nat \ {0}
  /\ SndBuf \in Nat \ {0} /\ Buckets \in Nat
  /\ KeepFlags \subseteq BOOLEAN
  /\ Env \subseteq {"abort",      \* a peer sends ABORT_REQUEST
                    "accept",     \* accept() fails (no descriptor left)
                    "bad",        \* a peer sends a record of another version
                    "close",      \* a peer closes its end
                    "multiplex",  \* a peer runs several requests at a time
                    "other",      \* a peer sends a management record
                    "partial",    \* a record arrives in two pieces
                    "timeout"}    \* max_request_time passes
  /\ MaxConnects \in Nat /\ MaxRequests \in Nat /\ MaxWs \in Nat

VARIABLES
  g_conns,                \* descriptors with a Connection
  conn,                   \* the Connection of each descriptor
  req,                    \* the Request last constructed in each arena
  g_pending_output,       \* requests the workers hand back (under its mutex)
  taken,                  \* the local copy process_pending_output works on
  g_close_queue,          \* deferred closes
  closing,                \* the local copy handle_io works on
  to_close,               \* the list housekeeping_close_idle made
  g_waiting_conns,        \* connections waiting for an arena
  g_accept_paused,        \* listening socket taken out of epoll
  stack,                  \* call stack of the IO thread, innermost first
  batch,                  \* events epoll_wait returned, not yet handled
  queue,                  \* closures in the worker pool's queue
  running,                \* closures the worker threads execute
  eventfd, timer,         \* counter of each descriptor is non-zero
  ready,                  \* connections on epoll's ready list
  sock,                   \* kernel and peer side of each connection
  phase,                  \* phase[fd][id]: what the peer has sent for id
  ws,                     \* arenas the WebSocket threads hold
  begun, connects, built, \* requests begun, connections made, Requests built
  fault                   \* undefined behaviour the program has run into

connVars  == <<g_conns, conn>>
objVars   == <<poolVars, connVars, req, built>>
outVars   == <<g_pending_output, taken>>
closeVars == <<g_close_queue, closing, to_close>>
waitVars  == <<g_waiting_conns, g_accept_paused>>
listVars  == <<outVars, closeVars, waitVars>>
ioVars    == <<stack, batch>>
taskVars  == <<queue, running>>
wakeVars  == <<eventfd, timer, ready>>
peerVars  == <<sock, phase, begun, connects>>
envVars   == <<wakeVars, peerVars, ws>>
vars == <<objVars, listVars, ioVars, taskVars, envVars, fault>>

-----------------------------------------------------------------------------
(* Values *)

Rec(type, id, len, keep) == [type |-> type, id |-> id, len |-> len, keep |-> keep]

\* A record without a request.
Bare(type) == Rec(type, NoId, 0, FALSE)

\* struct Connection.  epollout is the EPOLLOUT bit of epoll_mask; out_buf
\* holds one item per response still to be sent, the id it answers.
NewConnection(serial) ==
  [serial |-> serial, in_buf |-> <<>>, out_buf |-> <<>>, closed |-> FALSE,
   waiting_for_arena |-> FALSE, active_workers |-> 0, epollout |-> FALSE,
   requests |-> [id \in Ids |-> NoArena]]

\* struct Request.  live, serial, cserial, dispatches and ends are not in the
\* code: the object exists, its number, the number of the Connection conn_ptr
\* points to, how often it was handed to a worker and how often END_REQUEST
\* was written for it.
NewRequest(serial, fd, cserial, id) ==
  [live |-> TRUE, serial |-> serial, id |-> id, conn_ptr |-> fd,
   cserial |-> cserial, flags |-> {}, worker_active |-> FALSE,
   params_bytes |-> 0, body_bytes |-> 0, dispatches |-> 0, ends |-> 0]

\* ~Request followed by the arena's release: nothing clears the memory, so of
\* a destroyed Request a stale pointer still reads the flags; what else it
\* reads is left open.
Destroyed(r) ==
  [NewRequest(0, NoFd, 0, NoId) EXCEPT !.live = FALSE,
                                       !.flags = r.flags \cap {"RESPONDED"}]

NoRequest == Destroyed(NewRequest(0, NoFd, 0, NoId))

FreeSock == [st |-> "free", serial |-> 0, eof |-> FALSE, hup |-> FALSE,
             bad |-> FALSE, used |-> FALSE, keep |-> FALSE,
             rx |-> <<>>, tx |-> <<>>]

Frame(pc, fd) == [pc |-> pc, fd |-> fd, id |-> NoId, ids |-> {}, n |-> 0,
                  m |-> 0, was |-> FALSE, out |-> FALSE]

Event(src, fd) == [src |-> src, fd |-> fd, in |-> FALSE, out |-> FALSE,
                   hup |-> FALSE]

EndsPartial(s) == s # <<>> /\ s[Len(s)].type = "PARTIAL"

\* What the bytes of one recv loop make of the unfinished record before them.
Joined(in, rx) ==
  IF EndsPartial(in) /\ rx # <<>>
    THEN SubSeq(in, 1, Len(in) - 1) \o rx
    ELSE in \o rx

Init ==
  /\ PoolInit
  /\ g_conns = {}
  /\ conn = [fd \in Fds |-> NewConnection(0)]
  /\ req = [a \in Arena |-> NoRequest]
  /\ g_pending_output = <<>> /\ taken = <<>>
  /\ g_close_queue = <<>> /\ closing = <<>> /\ to_close = {}
  /\ g_waiting_conns = <<>> /\ g_accept_paused = FALSE
  /\ stack = <<>> /\ batch = {}
  /\ queue = <<>> /\ running = {}
  /\ eventfd = FALSE /\ timer = FALSE /\ ready = {}
  /\ sock = [fd \in Fds |-> FreeSock]
  /\ phase = [fd \in Fds |-> [id \in Ids |-> "idle"]]
  /\ ws = {}
  /\ begun = 0 /\ connects = 0 /\ built = 0
  /\ fault = "none"

-----------------------------------------------------------------------------
(* The call stack *)

At(pc) == stack # <<>> /\ Head(stack).pc = pc
Top == Head(stack)
Call(frames) == stack' = frames \o stack
Become(frame) == stack' = <<frame>> \o Tail(stack)
CallFrom(frame, frames) == stack' = frames \o <<frame>> \o Tail(stack)
Return == stack' = Tail(stack)
=============================================================================
