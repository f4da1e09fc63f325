--------------------------- MODULE FcgiProperties ---------------------------
(***************************************************************************)
(* What the FastCGI server is to guarantee.  The invariants that mention   *)
(* Idle speak of the moments between two events, when no function of the   *)
(* IO thread is half done.                                                 *)
(***************************************************************************)
EXTENDS FcgiConnection

Idle == stack = <<>>

-----------------------------------------------------------------------------
(* Types *)

RecordOf(types, ids) == [type : types, id : ids, len : Nat, keep : BOOLEAN]

Record == RecordOf({"BEGIN", "PARAMS", "STDIN", "ABORT"}, Ids)
            \cup RecordOf({"OTHER", "BAD", "PARTIAL"}, {NoId})

Connection ==
  [serial : Nat, in_buf : Seq(Record), out_buf : Seq(Ids \cup {NoId}),
   closed : BOOLEAN, waiting_for_arena : BOOLEAN, active_workers : Int,
   epollout : BOOLEAN, requests : [Ids -> Arena \cup {NoArena}]]

Request ==
  [live : BOOLEAN, serial : Nat, id : Ids \cup {NoId}, conn_ptr : Fds \cup {NoFd},
   cserial : Nat, flags : SUBSET Flag, worker_active : BOOLEAN,
   params_bytes : Nat, body_bytes : Nat, dispatches : Nat, ends : Nat]

\* What the peer has not read yet fits the socket.
Sent == {s \in Seq(Ids \cup {NoId}) : Len(s) <= SndBuf}

Socket ==
  [st : {"free", "backlog", "conn"}, serial : Nat, eof : BOOLEAN, hup : BOOLEAN,
   bad : BOOLEAN, used : BOOLEAN, keep : BOOLEAN, rx : Seq(Record), tx : Sent]

\* Frames of functions that work on a connection, and of those that do not.
FdPC == {"fcgi", "parsed", "outflush", "sweep", "erase", "cleanup"}
LoopPC == {"accept", "swap", "pending", "closing", "expire", "housekeeping", "waiting"}

FrameOf(pcs, fds, counts) ==
  [pc : pcs, fd : fds, id : Ids \cup {NoId}, ids : SUBSET Ids, n : counts, m : Nat,
   was : BOOLEAN, out : BOOLEAN]

\* process_waiting_connections serves a connection only while it has budget.
StackFrame == FrameOf(FdPC, Fds, Nat) \cup FrameOf({"waited"}, Fds, Nat \ {0})
                \cup FrameOf(LoopPC, {NoFd}, Nat)

EventOf(srcs, fds) ==
  [src : srcs, fd : fds, in : BOOLEAN, out : BOOLEAN, hup : BOOLEAN]

EpollEvent == EventOf({"conn"}, Fds) \cup EventOf({"listen", "eventfd", "timer"}, {NoFd})

Closure == [arena : Arena, serial : Nat, fd : Fds, cserial : Nat, nth : Nat,
            at : {"parsing", "parsed", "leaving"}]

Handback == [arena : Arena, serial : Nat]

ObjTypeOK ==
  /\ g_conns \subseteq Fds
  /\ conn \in [Fds -> Connection]
  /\ req \in [Arena -> Request]
  /\ built \in Nat

ListTypeOK ==
  /\ g_pending_output \in Seq(Handback) /\ taken \in Seq(Handback)
  /\ g_close_queue \in Seq(Fds) /\ closing \in Seq(Fds) /\ to_close \subseteq Fds
  /\ g_waiting_conns \in Seq(Fds) /\ g_accept_paused \in BOOLEAN

IoTypeOK == stack \in Seq(StackFrame) /\ batch \subseteq EpollEvent

TaskTypeOK == queue \in Seq(Closure) /\ running \subseteq Closure

EnvTypeOK ==
  /\ eventfd \in BOOLEAN /\ timer \in BOOLEAN /\ ready \subseteq Fds
  /\ sock \in [Fds -> Socket] /\ phase \in [Fds -> [Ids -> Phase]]
  /\ ws \subseteq Arena
  /\ begun \in Nat /\ connects \in Nat

(***************************************************************************)
(* Every variable holds what its C++ counterpart can hold; in particular   *)
(* no handler ever works on a descriptor, an id or an arena it does not    *)
(* have.                                                                   *)
(***************************************************************************)
TypeOK ==
  /\ PoolTypeOK
  /\ ObjTypeOK
  /\ ListTypeOK
  /\ IoTypeOK
  /\ TaskTypeOK
  /\ EnvTypeOK
  /\ fault \in {"none", "worker", "pending", "record", "rehash"}

-----------------------------------------------------------------------------
(* Objects and the threads that use them *)

Tasks == running \cup {queue[i] : i \in 1 .. Len(queue)}

(***************************************************************************)
(* The closure internal_on_request_ready hands to the pool captures a raw  *)
(* Request* and a raw Connection*.  Nothing owns them on its behalf: only  *)
(* worker_active and active_workers keep the sweep and the closing of the  *)
(* connection from freeing what the worker still uses.                     *)
(***************************************************************************)
WorkersHoldLiveObjects ==
  \A t \in Tasks : ConnOf(t) /\ (t.at # "leaving" => RequestOf(t))

(***************************************************************************)
(* active_workers is incremented by the IO thread and decremented by the   *)
(* workers; should_close_connection relies on its being exactly the number *)
(* of closures that still point to the connection.                         *)
(***************************************************************************)
WorkersAreCounted ==
  \A fd \in g_conns :
    conn[fd].active_workers =
      Cardinality({t \in Tasks : t.fd = fd /\ t.cserial = conn[fd].serial})

\* What a step of the server may do to a request that it destroys.
ReleasesSafely ==
  \A a \in Arena : req[a].live /\ ~req'[a].live =>
    /\ Responded(req[a]) \/ conn[req[a].conn_ptr].closed
    /\ \A t \in Tasks : t.arena = a /\ t.serial = req[a].serial => t.at = "leaving"

(***************************************************************************)
(* A request is destroyed only when no worker will touch it any more, and  *)
(* it dies unanswered only with a connection that was already closed       *)
(* (release_request, from the sweep and from cleanup_connection_requests). *)
(***************************************************************************)
ReleaseIsSafe == [][ReleasesSafely]_vars

(***************************************************************************)
(* The requests maps point to living requests of their own connection and  *)
(* id: the sweep and the cleanup leave no entry of a destroyed request.    *)
(***************************************************************************)
EntriesAreLive ==
  Idle => \A fd \in g_conns : \A id \in Mapped(conn[fd]) :
    LET r == req[conn[fd].requests[id]] IN
      r.live /\ r.conn_ptr = fd /\ r.id = id /\ ~ConnGone(r)

(***************************************************************************)
(* The functions nest in one way only: a release serves the waiting        *)
(* connections, which are parsed and flushed but never swept or closed     *)
(* from there.                                                             *)
(***************************************************************************)
Calls == {<<"fcgi", "parsed">>, <<"fcgi", "waited">>,
          <<"cleanup", "closing">>, <<"cleanup", "housekeeping">>,
          <<"waiting", "erase">>, <<"waiting", "cleanup">>,
          <<"waited", "erase">>, <<"waited", "cleanup">>}

StackShape ==
  \A i \in 1 .. Len(stack) - 1 : <<stack[i].pc, stack[i + 1].pc>> \in Calls

\* What the loop of frame f has still to visit, or to erase, is in the map of
\* its connection, one of cs; what it erases it will not visit again.
VisitsMapped(f, cs) ==
  /\ f.pc \in {"sweep", "erase", "cleanup"} => f.ids \subseteq Mapped(cs[f.fd])
  /\ f.pc = "erase" => f.id \in Mapped(cs[f.fd]) \ f.ids

(***************************************************************************)
(* The loops over a connection's requests (the sweep of handle_io, the one *)
(* of cleanup_connection_requests) iterate over the map while the releases *)
(* they make run other code, the parsing of their own connection included: *)
(* no call nested in them takes away an entry they have still to visit or  *)
(* to erase.                                                               *)
(***************************************************************************)
LoopsStayValid == \A i \in 1 .. Len(stack) : VisitsMapped(stack[i], conn)

\* Nor does one that inserts an entry rehash the map under them, as long as a
\* map that is not empty has a bucket for every id a peer uses.
NeverRehashed == Cardinality(Ids) <= Buckets => fault # "rehash"

(***************************************************************************)
(* Between events every arena that is handed out is reachable from a       *)
(* connection or held by a WebSocket thread: whatever order connections    *)
(* and requests end in, release_request is called for each.                *)
(***************************************************************************)
NoArenaLost ==
  Idle => \A a \in Arena : in_use[a] =>
    a \in ws \/ \E fd \in g_conns : \E id \in Ids : conn[fd].requests[id] = a

-----------------------------------------------------------------------------
(* The hand-back from the workers to the IO thread *)

(***************************************************************************)
(* A request in g_pending_output wakes the IO thread: its eventfd is       *)
(* readable, or the thread has drained it and not taken the list yet.      *)
(***************************************************************************)
NoLostWakeup == g_pending_output # <<>> => eventfd \/ At("swap")

(***************************************************************************)
(* g_pending_output holds raw pointers between the worker's push and the   *)
(* IO thread's answer; the request each one was pushed for still lives.    *)
(***************************************************************************)
PendingLive ==
  LET handed == taken \o g_pending_output IN
    \A i \in 1 .. Len(handed) :
      LET r == req[handed[i].arena] IN r.live /\ r.serial = handed[i].serial

\* What a step of the server may do to a request that it ends.
AnswersComplete ==
  \A a \in Arena : req[a].live /\ req'[a].ends > req[a].ends =>
    /\ ~Responded(req[a]) /\ Responded(req'[a])
    /\ "FAILED" \in req'[a].flags \/ Complete(req[a])

(***************************************************************************)
(* The user's callback answers only requests whose two streams are         *)
(* complete, within the limits, and not ended before; a request ended      *)
(* otherwise is marked FAILED (process_pending_output, fail_request).      *)
(***************************************************************************)
OnlyCompleteAnswered == [][AnswersComplete]_vars

(***************************************************************************)
(* Each response on its way to a peer ends a request the peer has open on  *)
(* that connection, and no request is ended twice.                         *)
(***************************************************************************)
ResponsesAreOwed ==
  \A fd \in Fds : LET out == sock[fd].tx \o conn[fd].out_buf IN
    \A i \in 1 .. Len(out) :
      /\ sock[fd].eof \/ phase[fd][out[i]] # "idle"
      /\ \A j \in 1 .. Len(out) : out[i] = out[j] => i = j

\* internal_on_request_ready runs once for a request.
DispatchedOnce == \A a \in Arena : req[a].dispatches <= 1

(***************************************************************************)
(* Output that is still to be sent is watched for: between events an open  *)
(* connection with a non-empty out_buf has EPOLLOUT in its mask.           *)
(***************************************************************************)
UnsentIsArmed ==
  Idle => \A fd \in g_conns :
    conn[fd].out_buf # <<>> /\ ~conn[fd].closed => conn[fd].epollout

-----------------------------------------------------------------------------
(* Running out of arenas *)

(***************************************************************************)
(* accept() is paused only while no arena is free: every path that frees   *)
(* one resumes it (pause_accept, release_request).                         *)
(***************************************************************************)
PausedMeansExhausted == g_accept_paused => available_count = 0

\* The records of this connection are being parsed, here or further down.
BeingParsed(fd) ==
  \E i \in 1 .. Len(stack) : stack[i].fd = fd /\ stack[i].pc \in {"fcgi", "parsed", "waited"}

(***************************************************************************)
(* A connection whose BEGIN_REQUEST was deferred is on g_waiting_conns     *)
(* from the moment its parsing has returned, through every nested          *)
(* process_waiting_connections that takes it off and fails to serve it.    *)
(***************************************************************************)
WaitingIsListed ==
  \A fd \in g_conns : conn[fd].waiting_for_arena /\ ~conn[fd].closed =>
    BeingParsed(fd) \/ \E i \in 1 .. Len(g_waiting_conns) : g_waiting_conns[i] = fd

(***************************************************************************)
(* No connection is left waiting while an arena is free: the budget of     *)
(* process_waiting_connections is spent on those that wait.                *)
(***************************************************************************)
WaitingMeansExhausted ==
  Idle => \A fd \in g_conns : conn[fd].waiting_for_arena /\ ~conn[fd].closed =>
    available_count = 0

(***************************************************************************)
(* With KEEP_CONN the connection outlives its responses: the server does   *)
(* not close it behind a response unless the peer or an error did.         *)
(***************************************************************************)
KeepConnHonoured ==
  [][\A fd \in g_conns \ g_conns' :
       sock[fd].keep /\ sock[fd].tx # <<>> => conn[fd].closed]_vars

-----------------------------------------------------------------------------
(* Progress *)

(***************************************************************************)
(* A peer that has sent all of a request and reads is not left waiting: it *)
(* gets END_REQUEST or the end of the connection.                          *)
(***************************************************************************)
CompleteAnswered ==
  \A fd \in Fds, id \in Ids : phase[fd][id] = "complete" ~> phase[fd][id] # "complete"

\* accept() does not stay paused.
AcceptResumes == g_accept_paused ~> ~g_accept_paused

\* END_REQUEST of a request that timed out reaches the peer, or the
\* connection ends.
TimedOutAnswered ==
  \A fd \in Fds, id \in Ids :
    (conn[fd].requests[id] # NoArena /\ ~sock[fd].eof
       /\ {"FAILED", "RESPONDED"} \subseteq req[conn[fd].requests[id]].flags)
      ~> (phase[fd][id] = "idle" \/ sock[fd].eof)
=============================================================================
