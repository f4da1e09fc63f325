--------------------------- MODULE FcgiConnection ---------------------------
(***************************************************************************)
(* The FastCGI server of fcgi-connection.cpp: one IO thread that runs an   *)
(* edge-triggered epoll loop, and the closures it hands to the workers.    *)
(*                                                                         *)
(* The IO thread is not a flat set of handlers.  Releasing a request calls *)
(* process_waiting_connections, which parses and flushes other connections *)
(* in the middle of the loop that was releasing.  So the thread has a call *)
(* stack; each frame holds the locals its function still needs, and each   *)
(* action executes the top frame up to the next point where a worker, a    *)
(* peer or a nested call can be seen.                                      *)
(***************************************************************************)
EXTENDS FcgiPeers

-----------------------------------------------------------------------------
(* What the handlers ask about connections and requests *)

Mapped(c) == {id \in Ids : c.requests[id] # NoArena}

\* Mutation: a closed connection is closed while workers still use it.
ShouldCloseAtOnce(c) ==
  /\ c.out_buf = <<>>
  /\ \/ c.closed
     \/ c.active_workers = 0 /\ \A id \in Mapped(c) : Responded(req[c.requests[id]])

\* should_close_connection
ShouldClose(c) ==
  /\ c.out_buf = <<>>
  /\ c.active_workers = 0
  /\ \/ c.closed
     \/ \A id \in Mapped(c) : LET r == req[c.requests[id]] IN
          Responded(r) /\ "KEEP_CONNECTION" \notin r.flags

\* Mutations: worker_active is not looked at; complete counts as answered.
SweepableInUse(r) == {"RESPONDED", "FAILED", "ABORTED"} \cap r.flags # {}
SweepableComplete(r) == ~r.worker_active /\ Complete(r)

\* The two release conditions of the loop at the end of handle_io.
Sweepable(r) ==
  ~r.worker_active /\ {"RESPONDED", "FAILED", "ABORTED"} \cap r.flags # {}

\* The Connection that conn_ptr points to has been erased.
ConnGone(r) ==
  ~(r.conn_ptr \in g_conns /\ conn[r.conn_ptr].serial = r.cserial)

\* A descriptor whose epoll mask changes is polled again at once.
Rearm(fd, before, after) == IF before = after THEN ready ELSE ready \cup {fd}

(***************************************************************************)
(* flush_connection, on the connection as the caller leaves it: everything *)
(* goes out and write interest is dropped; or the socket is full and write *)
(* interest is raised; or send() fails and the connection is marked closed *)
(* with its output still in the buffer.                                    *)
(***************************************************************************)
\* Mutation: what was sent stays in the buffer.
FlushAllKeeps(fd, c) ==
  LET drained == [c EXCEPT !.epollout = FALSE] IN
  /\ \/ c.out_buf = <<>>
     \/ ~sock[fd].hup /\ (sock[fd].eof \/ Len(sock[fd].tx) + Len(c.out_buf) <= SndBuf)
  /\ conn' = [conn EXCEPT ![fd] = drained]
  /\ sock' = IF sock[fd].eof THEN sock
             ELSE [sock EXCEPT ![fd].tx = @ \o c.out_buf]
  /\ UNCHANGED g_close_queue
  /\ ready' = Rearm(fd, c.epollout, FALSE)

FlushAll(fd, c) ==
  LET drained == [c EXCEPT !.out_buf = <<>>, !.epollout = FALSE] IN
  /\ \/ c.out_buf = <<>>
     \/ ~sock[fd].hup /\ (sock[fd].eof \/ Len(sock[fd].tx) + Len(c.out_buf) <= SndBuf)
  /\ conn' = [conn EXCEPT ![fd] = drained]
  /\ sock' = IF sock[fd].eof THEN sock
             ELSE [sock EXCEPT ![fd].tx = @ \o c.out_buf]
  /\ g_close_queue' = IF ShouldClose(drained) THEN Append(g_close_queue, fd)
                                              ELSE g_close_queue
  /\ ready' = Rearm(fd, c.epollout, FALSE)

FlushSome(fd, c) ==
  LET room == SndBuf - Len(sock[fd].tx) IN
  /\ ~sock[fd].hup /\ ~sock[fd].eof /\ Len(c.out_buf) > room
  /\ conn' = [conn EXCEPT ![fd] =
                [c EXCEPT !.out_buf = SubSeq(@, room + 1, Len(@)), !.epollout = TRUE]]
  /\ sock' = [sock EXCEPT ![fd].tx = @ \o SubSeq(c.out_buf, 1, room)]
  /\ ready' = Rearm(fd, c.epollout, TRUE)
  /\ UNCHANGED g_close_queue

FlushError(fd, c) ==
  /\ sock[fd].hup /\ c.out_buf # <<>>
  /\ conn' = [conn EXCEPT ![fd] = [c EXCEPT !.closed = TRUE]]
  /\ UNCHANGED <<g_close_queue, ready, sock>>

Flush(fd, c) == FlushAll(fd, c) \/ FlushSome(fd, c) \/ FlushError(fd, c)

-----------------------------------------------------------------------------
(* run(): the epoll loop *)

\* The bits epoll_wait reports for a descriptor on the ready list.
IoEventOf(fd) ==
  [src |-> "conn", fd |-> fd,
   in  |-> sock[fd].rx # <<>> \/ sock[fd].eof,
   out |-> conn[fd].epollout /\ (Len(sock[fd].tx) < SndBuf \/ sock[fd].hup),
   hup |-> sock[fd].hup]

Backlog == {fd \in Fds : sock[fd].st = "backlog"}

ReadyEvents ==
  (IF Backlog # {} /\ ~g_accept_paused THEN {Event("listen", NoFd)} ELSE {})
  \cup (IF eventfd THEN {Event("eventfd", NoFd)} ELSE {})
  \cup (IF timer THEN {Event("timer", NoFd)} ELSE {})
  \cup {e \in {IoEventOf(fd) : fd \in ready} : e.in \/ e.out \/ e.hup}

\* The listening socket is edge-triggered too: a backlog that a failed accept()
\* left behind is reported again only when the next peer connects.
EpollWait ==
  /\ stack = <<>> /\ batch = {} /\ ReadyEvents # {}
  /\ \/ batch' = ReadyEvents
     \/ "accept" \in Env /\ batch' = ReadyEvents \ {Event("listen", NoFd)}
  /\ ready' = {}
  /\ UNCHANGED <<objVars, listVars, stack, taskVars, eventfd, timer, peerVars, ws,
                 fault>>

\* The loop takes the next event of the batch; epoll promises no order.
Dispatching(e) == stack = <<>> /\ e \in batch /\ batch' = batch \ {e}

-----------------------------------------------------------------------------
(* handle_new_connections *)

\* With no arena free nothing is accepted and the socket leaves epoll.
ListenEvent(e) ==
  /\ Dispatching(e) /\ e.src = "listen"
  /\ IF available_count = 0
       THEN g_accept_paused' = TRUE /\ UNCHANGED stack
       ELSE Call(<<Frame("accept", NoFd)>>) /\ UNCHANGED g_accept_paused
  /\ UNCHANGED <<objVars, outVars, closeVars, g_waiting_conns, taskVars, envVars, fault>>

AcceptOne(fd) ==
  /\ At("accept") /\ fd \in Backlog
  /\ sock' = [sock EXCEPT ![fd].st = "conn"]
  /\ g_conns' = g_conns \cup {fd}
  /\ conn' = [conn EXCEPT ![fd] = NewConnection(sock[fd].serial)]
  /\ ready' = ready \cup {fd}
  /\ IF available_count = 0
       THEN g_accept_paused' = TRUE /\ Return
       ELSE UNCHANGED <<g_accept_paused, stack>>
  /\ UNCHANGED <<poolVars, req, built, outVars, closeVars, g_waiting_conns, batch,
                 taskVars, eventfd, timer, phase, begun, connects, ws, fault>>

\* accept() says EAGAIN, or fails and leaves the backlog.
AcceptDone ==
  /\ At("accept")
  /\ Backlog = {} \/ "accept" \in Env
  /\ Return
  /\ UNCHANGED <<objVars, listVars, batch, taskVars, envVars, fault>>

-----------------------------------------------------------------------------
(* The worker's side: internal_on_request_ready and its closure *)

Task(a, r) == [arena |-> a, serial |-> r.serial, fd |-> r.conn_ptr,
               cserial |-> r.cserial, nth |-> r.dispatches, at |-> "parsing"]

\* The closure's pointers still refer to the objects they were taken from.
RequestOf(t) == req[t.arena].live /\ req[t.arena].serial = t.serial
ConnOf(t) == t.fd \in g_conns /\ conn[t.fd].serial = t.cserial

Move(t, at) == running' = (running \ {t}) \cup {[t EXCEPT !.at = at]}

\* A worker thread is free: main() starts as many as there are arenas.
WorkerFree == Cardinality(running) < NArenas

\* The oldest closure starts with if (!RESPONDED && !closed); the check is not
\* repeated after the parsing.
TaskStart ==
  /\ queue # <<>> /\ WorkerFree
  /\ LET t == Head(queue) IN
       /\ RequestOf(t) /\ ConnOf(t)
       /\ running' = running \cup
            {IF Responded(req[t.arena]) \/ conn[t.fd].closed
               THEN [t EXCEPT !.at = "parsed"] ELSE t}
  /\ queue' = Tail(queue)
  /\ UNCHANGED <<objVars, listVars, ioVars, envVars, fault>>

\* Under g_pending_output_mutex: push the pointer, write the eventfd.
TaskPush(t) ==
  /\ t.at = "parsing" /\ RequestOf(t) /\ ConnOf(t)
  /\ g_pending_output' = Append(g_pending_output, [arena |-> t.arena, serial |-> t.serial])
  /\ eventfd' = TRUE
  /\ Move(t, "parsed")
  /\ UNCHANGED <<objVars, taken, closeVars, waitVars, ioVars, queue, timer, ready,
                 peerVars, ws, fault>>

\* worker_active.store(false): from here on the sweep may free the request.
TaskInactive(t) ==
  /\ t.at = "parsed" /\ RequestOf(t) /\ ConnOf(t)
  /\ req' = [req EXCEPT ![t.arena].worker_active = FALSE]
  /\ Move(t, "leaving")
  /\ UNCHANGED <<poolVars, connVars, built, listVars, ioVars, queue, envVars, fault>>

\* Mutation: the count is left as it is.
TaskLeaveUncounted(t) ==
  /\ t.at = "leaving" /\ ConnOf(t)
  /\ running' = running \ {t}
  /\ UNCHANGED <<objVars, listVars, ioVars, queue, envVars, fault>>

\* active_workers.fetch_sub(1), the last access to the Connection.
TaskLeave(t) ==
  /\ t.at = "leaving" /\ ConnOf(t)
  /\ conn' = [conn EXCEPT ![t.fd].active_workers = @ - 1]
  /\ running' = running \ {t}
  /\ UNCHANGED <<poolVars, g_conns, req, built, listVars, ioVars, queue, envVars,
                 fault>>

\* A closure that touches a destroyed object: undefined behaviour.  Once it
\* has cleared worker_active it touches the Connection only.
Dangles(t) == ~ConnOf(t) \/ (t.at # "leaving" /\ ~RequestOf(t))

TaskFault ==
  /\ \/ \E t \in running : Dangles(t)
     \/ queue # <<>> /\ WorkerFree /\ Dangles(Head(queue))
  /\ fault' = "worker"
  /\ UNCHANGED <<objVars, listVars, ioVars, taskVars, envVars>>

-----------------------------------------------------------------------------
(* process_pending_output *)

\* read() drains the counter first, then the list is taken under the mutex.
EventFdEvent(e) ==
  /\ Dispatching(e) /\ e.src = "eventfd"
  /\ eventfd' = FALSE
  /\ Call(<<Frame("swap", NoFd)>>)
  /\ UNCHANGED <<objVars, listVars, taskVars, timer, ready, peerVars, ws, fault>>

SwapPending ==
  /\ At("swap")
  /\ taken' = g_pending_output /\ g_pending_output' = <<>>
  /\ Become(Frame("pending", NoFd))
  /\ UNCHANGED <<objVars, closeVars, waitVars, batch, taskVars, envVars, fault>>

\* Requests the loop passes over: answered already, or of a closed connection.
PassOver(r) == Responded(r) \/ (~ConnGone(r) /\ conn[r.conn_ptr].closed)

\* Mutations: write interest is left alone; RESPONDED is not set.
AnswerUnarmed(a) ==
  /\ req' = [req EXCEPT ![a].flags = @ \cup {"RESPONDED"}, ![a].ends = @ + 1]
  /\ conn' = [conn EXCEPT ![req[a].conn_ptr].out_buf = Append(@, req[a].id)]
  /\ UNCHANGED ready

AnswerUnmarked(a) ==
  /\ req' = [req EXCEPT ![a].ends = @ + 1]
  /\ conn' = [conn EXCEPT ![req[a].conn_ptr].out_buf = Append(@, req[a].id),
                          ![req[a].conn_ptr].epollout = TRUE]
  /\ ready' = ready \cup {req[a].conn_ptr}

\* The user's callback answers r: output and END_REQUEST, then RESPONDED.
\* Write interest is raised only if nothing was waiting to be sent.
Answer(a) ==
  LET r == req[a]
      fd == r.conn_ptr
      c == conn[fd]
      want == c.epollout \/ c.out_buf = <<>>
  IN
  /\ req' = [req EXCEPT ![a].flags = @ \cup {"RESPONDED"}, ![a].ends = @ + 1]
  /\ conn' = [conn EXCEPT ![fd].out_buf = Append(@, r.id), ![fd].epollout = want]
  /\ ready' = Rearm(fd, c.epollout, want)

PendingAnswer ==
  /\ At("pending") /\ taken # <<>>
  /\ LET r == req[Head(taken).arena] IN
       r.live /\ ~ConnGone(r) /\ ~PassOver(r)
  /\ Answer(Head(taken).arena)
  /\ taken' = Tail(taken)
  /\ UNCHANGED <<poolVars, g_conns, built, g_pending_output, closeVars, waitVars,
                 ioVars, taskVars, eventfd, timer, peerVars, ws, fault>>

\* Freed memory of a Connection may read as closed, so a pointer that dangles
\* can be passed over too.
PendingSkip ==
  /\ At("pending") /\ taken # <<>>
  /\ LET r == req[Head(taken).arena] IN PassOver(r) \/ ConnGone(r)
  /\ taken' = Tail(taken)
  /\ UNCHANGED <<objVars, g_pending_output, closeVars, waitVars, ioVars, taskVars,
                 envVars, fault>>

\* ... or as open, and the callback runs on objects that are gone.
PendingFault ==
  /\ At("pending") /\ taken # <<>>
  /\ LET r == req[Head(taken).arena] IN
       ~Responded(r) /\ (~r.live \/ ConnGone(r))
  /\ fault' = "pending"
  /\ UNCHANGED <<objVars, listVars, ioVars, taskVars, envVars>>

\* Mutation: the eventfd is read once more behind the loop.
PendingDoneDrains ==
  /\ At("pending") /\ taken = <<>>
  /\ Return
  /\ eventfd' = FALSE
  /\ UNCHANGED <<objVars, listVars, batch, taskVars, timer, ready, peerVars, ws, fault>>

PendingDone ==
  /\ At("pending") /\ taken = <<>>
  /\ Return
  /\ UNCHANGED <<objVars, listVars, batch, taskVars, envVars, fault>>

-----------------------------------------------------------------------------
(* process_buffer: one record at a time, n records of in_buf consumed *)

InBuf == conn[Top.fd].in_buf

\* A record is there only when its last byte is.
Exists == Top.n < Len(InBuf) /\ InBuf[Top.n + 1].type # "PARTIAL"
NextRecord == InBuf[Top.n + 1]
EntryOf(rec) == conn[Top.fd].requests[rec.id]

Consumed == SubSeq(InBuf, Top.n + 1, Len(InBuf))

\* process_buffer returned OK with everything it read erased from in_buf.
ParseEnd ==
  /\ At("fcgi") /\ ~Exists
  /\ conn' = [conn EXCEPT ![Top.fd].in_buf = Consumed,
                          ![Top.fd].waiting_for_arena = FALSE]
  /\ Return
  /\ UNCHANGED <<poolVars, g_conns, req, built, listVars, batch, taskVars, envVars,
                 fault>>

\* A record of another version: CLOSE, and the connection is marked closed.
ParseBad ==
  /\ At("fcgi") /\ Exists /\ NextRecord.type = "BAD"
  /\ conn' = [conn EXCEPT ![Top.fd].in_buf = Consumed,
                          ![Top.fd].waiting_for_arena = FALSE,
                          ![Top.fd].closed = TRUE]
  /\ Return
  /\ UNCHANGED <<poolVars, g_conns, req, built, listVars, batch, taskVars, envVars,
                 fault>>

\* BEGIN_REQUEST with no arena: the early return leaves in_buf as it was,
\* the records consumed before this one included.
ParseDefer ==
  /\ At("fcgi") /\ Exists /\ NextRecord.type = "BEGIN"
  /\ EntryOf(NextRecord) = NoArena /\ Exhausted
  /\ conn' = [conn EXCEPT ![Top.fd].waiting_for_arena = TRUE]
  /\ Return
  /\ UNCHANGED <<poolVars, g_conns, req, built, listVars, batch, taskVars, envVars,
                 fault>>

\* Records of other types, and records of an unknown request when no arena is
\* left to construct it in, are consumed without effect.
ParseSkip ==
  /\ At("fcgi") /\ Exists
  /\ \/ NextRecord.type = "OTHER"
     \/ /\ NextRecord.type \in {"PARAMS", "STDIN", "ABORT"}
        /\ EntryOf(NextRecord) = NoArena /\ Exhausted
  /\ Become([Top EXCEPT !.n = @ + 1])
  /\ UNCHANGED <<objVars, listVars, batch, taskVars, envVars, fault>>

(***************************************************************************)
(* The record acts on request r of arena a, entered in the connection's    *)
(* map.  END_REQUEST of a failed request is appended to this connection;   *)
(* a request that is complete and unanswered is handed to a worker, on     *)
(* every record that finds it so.                                          *)
(***************************************************************************)
Deliver(a, r, rec) ==
  LET after == ApplyRecord(r, rec)
      ended == EndsRequest(r, after)
      go    == Ready(after)
      final == [after EXCEPT !.ends = IF ended THEN @ + 1 ELSE @,
                             !.worker_active = @ \/ go,
                             !.dispatches = IF go THEN @ + 1 ELSE @]
  IN
  /\ req' = [req EXCEPT ![a] = final]
  /\ conn' = [conn EXCEPT
       ![Top.fd].requests[rec.id] = a,
       ![Top.fd].out_buf = IF ended THEN Append(@, r.id) ELSE @,
       ![r.conn_ptr].active_workers = IF go THEN @ + 1 ELSE @]
  /\ queue' = IF go THEN Append(queue, Task(a, final)) ELSE queue
  /\ UNCHANGED running
  /\ Become([Top EXCEPT !.n = @ + 1])

\* allocate_request: any of the four record types constructs the request.
ParseNew(a) ==
  /\ At("fcgi") /\ Exists /\ NamesRequest(NextRecord)
  /\ EntryOf(NextRecord) = NoArena /\ Get(a)
  /\ built' = built + 1
  /\ Deliver(a, NewRequest(built + 1, Top.fd, conn[Top.fd].serial, NextRecord.id),
             NextRecord)
  /\ UNCHANGED <<g_conns, listVars, batch, envVars, fault>>

\* The map has an entry, whose request still exists.
ParseKnown(a) ==
  /\ At("fcgi") /\ Exists /\ NamesRequest(NextRecord)
  /\ EntryOf(NextRecord) = a /\ req[a].live /\ ~ConnGone(req[a])
  /\ Deliver(a, req[a], NextRecord)
  /\ UNCHANGED <<poolVars, g_conns, built, listVars, batch, envVars, fault>>

\* A loop over the requests of fd is in the middle of a release.
Iterated(fd) ==
  \E i \in 1 .. Len(stack) : stack[i].fd = fd /\ stack[i].pc \in {"erase", "cleanup"}

\* A nested call finds the entry of a request that was just destroyed.  Or it
\* inserts one in a map that has no bucket left for it, and the rehash takes
\* the iterator of the loop below its place; a map that grew before has room.
ParseFault(a) ==
  /\ At("fcgi") /\ Exists /\ NamesRequest(NextRecord)
  /\ \/ /\ EntryOf(NextRecord) = a /\ (~req[a].live \/ ConnGone(req[a]))
        /\ fault' = "record"
     \/ /\ EntryOf(NextRecord) = NoArena /\ FirstFree(a)
        /\ Iterated(Top.fd) /\ Cardinality(Mapped(conn[Top.fd])) >= Buckets
        /\ fault' = "rehash"
  /\ UNCHANGED <<objVars, listVars, ioVars, taskVars, envVars>>

-----------------------------------------------------------------------------
(* handle_io *)

\* process_fcgi returns at once if the connection is closed.
ProcessFcgi(c, fd) == IF c.closed THEN <<>> ELSE <<Frame("fcgi", fd)>>

\* The loop over c.requests starts; the map's ids are its itinerary.
SweepFrame(fd) == [Frame("sweep", fd) EXCEPT !.ids = Mapped(conn'[fd])]

\* HUP or ERR marks the connection closed; so does recv() returning 0.  The
\* bytes received before that are kept but a closed connection never parses.
IoEvent(e) ==
  LET fd == e.fd
      c == [conn[fd] EXCEPT
              !.closed = @ \/ e.hup \/ (e.in /\ sock[fd].eof),
              !.in_buf = IF e.in THEN Joined(@, sock[fd].rx) ELSE @]
  IN
  /\ Dispatching(e) /\ e.src = "conn" /\ fd \in g_conns
  /\ conn' = [conn EXCEPT ![fd] = c]
  /\ sock' = IF e.in THEN [sock EXCEPT ![fd].rx = <<>>] ELSE sock
  /\ Call(IF e.in
            THEN ProcessFcgi(c, fd)
                   \o <<[Frame("parsed", fd) EXCEPT !.was = c.waiting_for_arena,
                                                    !.out = e.out]>>
            ELSE <<IF e.out THEN Frame("outflush", fd) ELSE SweepFrame(fd)>>)
  /\ UNCHANGED <<poolVars, g_conns, req, built, listVars, taskVars, wakeVars, phase,
                 begun, connects, ws, fault>>

\* An event of a connection closed earlier in the batch.
IoStale(e) ==
  /\ Dispatching(e) /\ e.src = "conn" /\ e.fd \notin g_conns
  /\ UNCHANGED <<objVars, listVars, stack, taskVars, envVars, fault>>

\* Mutation: the test is for the connections that are on the list already.
StillWaits == Top.was /\ conn[Top.fd].waiting_for_arena

\* The parsing has found no arena, for the first time.
NowWaits == ~Top.was /\ conn[Top.fd].waiting_for_arena

AfterParse ==
  /\ At("parsed")
  /\ LET fd == Top.fd IN
       /\ g_waiting_conns' = IF NowWaits THEN Append(g_waiting_conns, fd)
                                         ELSE g_waiting_conns
       /\ Flush(fd, conn[fd])
       /\ Become(IF Top.out THEN Frame("outflush", fd) ELSE SweepFrame(fd))
  /\ UNCHANGED <<poolVars, g_conns, req, built, outVars, closing, to_close,
                 g_accept_paused, batch, taskVars, eventfd, timer, phase, begun,
                 connects, ws, fault>>

\* The EPOLLOUT branch.
OutFlush ==
  /\ At("outflush")
  /\ Flush(Top.fd, conn[Top.fd])
  /\ Become(SweepFrame(Top.fd))
  /\ UNCHANGED <<poolVars, g_conns, req, built, outVars, closing, to_close, waitVars,
                 batch, taskVars, eventfd, timer, phase, begun, connects, ws, fault>>

(***************************************************************************)
(* release_request: destroy the request, give the arena back, resume       *)
(* accept() if it was paused, and serve the waiting connections from here, *)
(* in the middle of the caller's loop.  under is the caller's frame as it  *)
(* is when the call returns.                                               *)
(***************************************************************************)
\* Mutations: the count is read before the release; accept() stays paused.
ResumesEarly == g_accept_paused /\ available_count > 0
ResumesNever == FALSE

Resumes == g_accept_paused /\ available_count' > 0

WaitingFrames ==
  IF available_count' > 0 /\ g_waiting_conns # <<>>
    THEN <<[Frame("waiting", NoFd) EXCEPT !.n = available_count',
                                          !.m = Len(g_waiting_conns)]>>
    ELSE <<>>

ReleaseRequest(a, under) ==
  /\ req' = [req EXCEPT ![a] = Destroyed(@)]
  /\ Release(a)
  /\ g_accept_paused' = IF Resumes THEN FALSE ELSE g_accept_paused
  /\ CallFrom(under, WaitingFrames)
  /\ UNCHANGED <<connVars, built, outVars, closeVars, g_waiting_conns, batch, taskVars,
                 envVars, fault>>

\* The sweep frees a request first and erases its map entry afterwards.
SweepFree(id) ==
  /\ At("sweep") /\ id \in Top.ids
  /\ LET a == conn[Top.fd].requests[id] IN
       /\ a # NoArena /\ Sweepable(req[a])
       /\ ReleaseRequest(a, [Top EXCEPT !.pc = "erase", !.id = id, !.ids = @ \ {id}])

SweepKeep(id) ==
  /\ At("sweep") /\ id \in Top.ids
  /\ LET a == conn[Top.fd].requests[id] IN a = NoArena \/ ~Sweepable(req[a])
  /\ Become([Top EXCEPT !.ids = @ \ {id}])
  /\ UNCHANGED <<objVars, listVars, batch, taskVars, envVars, fault>>

\* Mutation: the map entry stays.
SweepEraseNot ==
  /\ At("erase")
  /\ Become([Top EXCEPT !.pc = "sweep", !.id = NoId])
  /\ UNCHANGED <<objVars, listVars, batch, taskVars, envVars, fault>>

SweepErase ==
  /\ At("erase")
  /\ conn' = [conn EXCEPT ![Top.fd].requests[Top.id] = NoArena]
  /\ Become([Top EXCEPT !.pc = "sweep", !.id = NoId])
  /\ UNCHANGED <<poolVars, g_conns, req, built, listVars, batch, taskVars, envVars,
                 fault>>

\* Mutation: the deferred closes go on with the frame of the sweep.
SweepDoneKeeps ==
  /\ At("sweep") /\ Top.ids = {}
  /\ closing' = IF ShouldClose(conn[Top.fd]) THEN Append(g_close_queue, Top.fd)
                                             ELSE g_close_queue
  /\ g_close_queue' = <<>>
  /\ Become([Top EXCEPT !.pc = "closing"])
  /\ UNCHANGED <<objVars, outVars, to_close, waitVars, batch, taskVars, envVars, fault>>

\* The connection may be due for closing; the deferred closes are taken over.
SweepDone ==
  /\ At("sweep") /\ Top.ids = {}
  /\ closing' = IF ShouldClose(conn[Top.fd]) THEN Append(g_close_queue, Top.fd)
                                             ELSE g_close_queue
  /\ g_close_queue' = <<>>
  /\ Become(Frame("closing", NoFd))
  /\ UNCHANGED <<objVars, outVars, to_close, waitVars, batch, taskVars, envVars, fault>>

-----------------------------------------------------------------------------
(* Closing connections: the deferred closes and cleanup_connection_requests *)

CleanupFrame(fd) == [Frame("cleanup", fd) EXCEPT !.ids = Mapped(conn[fd])]

\* Each deferred close is decided again when its turn comes.
\* A descriptor queued twice has no entry the second time: g_conns[cfd] inserts
\* an empty Connection, which is closed and erased again, to no effect here.
CloseQueued ==
  /\ At("closing") /\ closing # <<>>
  /\ LET fd == Head(closing) IN
       IF fd \in g_conns /\ ShouldClose(conn[fd])
         THEN Call(<<CleanupFrame(fd)>>)
         ELSE UNCHANGED stack
  /\ closing' = Tail(closing)
  /\ UNCHANGED <<objVars, outVars, g_close_queue, to_close, waitVars, batch, taskVars,
                 envVars, fault>>

CloseQueueDone ==
  /\ At("closing") /\ closing = <<>>
  /\ Return
  /\ UNCHANGED <<objVars, listVars, batch, taskVars, envVars, fault>>

\* Mutation: a request that was answered is taken for released.
CleanupUnanswered(id) ==
  /\ At("cleanup") /\ id \in Top.ids
  /\ LET a == conn[Top.fd].requests[id] IN
       IF Responded(req[a])
         THEN /\ Become([Top EXCEPT !.ids = @ \ {id}])
              /\ UNCHANGED <<objVars, listVars, batch, taskVars, envVars, fault>>
         ELSE ReleaseRequest(a, [Top EXCEPT !.ids = @ \ {id}])

CleanupOne(id) ==
  /\ At("cleanup") /\ id \in Top.ids
  /\ ReleaseRequest(conn[Top.fd].requests[id], [Top EXCEPT !.ids = @ \ {id}])

\* requests.clear(), epoll DEL, ::close and erase.  The peer sees the end of
\* the connection whatever state it was in.
CloseFd ==
  /\ At("cleanup") /\ Top.ids = {}
  /\ g_conns' = g_conns \ {Top.fd}
  /\ conn' = [conn EXCEPT ![Top.fd] = NewConnection(0)]
  /\ sock' = [sock EXCEPT ![Top.fd] = FreeSock]
  /\ phase' = [phase EXCEPT ![Top.fd] = [id \in Ids |-> "idle"]]
  /\ ready' = ready \ {Top.fd}
  /\ Return
  /\ UNCHANGED <<poolVars, req, built, listVars, batch, taskVars, eventfd, timer, begun,
                 connects, ws, fault>>

-----------------------------------------------------------------------------
(* housekeeping_close_idle *)

TimerEvent(e) ==
  /\ Dispatching(e) /\ e.src = "timer"
  /\ timer' = FALSE
  /\ Call(<<Frame("expire", NoFd)>>)
  /\ UNCHANGED <<objVars, listVars, taskVars, eventfd, ready, peerVars, ws, fault>>

\* max_request_time has passed for the request, and so for no younger one
\* before an older one.  END_REQUEST is appended; nothing arms its sending.
Expire(fd, id) ==
  LET a == conn[fd].requests[id] IN
  /\ At("expire") /\ "timeout" \in Env
  /\ fd \in g_conns /\ a # NoArena /\ ~Responded(req[a])
  /\ \A b \in Arena : req[b].live /\ req[b].serial < req[a].serial => Responded(req[b])
  /\ req' = [req EXCEPT ![a].flags = @ \cup {"FAILED", "RESPONDED"}, ![a].ends = @ + 1]
  /\ conn' = [conn EXCEPT ![fd].out_buf = Append(@, req[a].id)]
  /\ UNCHANGED <<poolVars, g_conns, built, listVars, ioVars, taskVars, envVars, fault>>

ExpireDone ==
  /\ At("expire")
  /\ to_close' = {fd \in g_conns : ShouldClose(conn[fd])}
  /\ Become(Frame("housekeeping", NoFd))
  /\ UNCHANGED <<objVars, outVars, g_close_queue, closing, waitVars, batch, taskVars,
                 envVars, fault>>

\* The second loop closes what the first one listed, without asking again.
HousekeepingClose(fd) ==
  /\ At("housekeeping") /\ fd \in to_close
  /\ to_close' = to_close \ {fd}
  /\ IF fd \in g_conns THEN Call(<<CleanupFrame(fd)>>) ELSE UNCHANGED stack
  /\ UNCHANGED <<objVars, outVars, g_close_queue, closing, waitVars, batch, taskVars,
                 envVars, fault>>

HousekeepingDone ==
  /\ At("housekeeping") /\ to_close = {}
  /\ Return
  /\ UNCHANGED <<objVars, listVars, batch, taskVars, envVars, fault>>

-----------------------------------------------------------------------------
(* process_waiting_connections: n is the budget, m what is left of the list *)

MoreWaiting == Top.n > 0 /\ Top.m > 0 /\ g_waiting_conns # <<>>

WaitingNext ==
  /\ At("waiting") /\ MoreWaiting
  /\ LET fd == Head(g_waiting_conns)
         next == [Top EXCEPT !.m = @ - 1] IN
       IF fd \notin g_conns \/ conn[fd].closed
         THEN Become(next)
         ELSE CallFrom([next EXCEPT !.pc = "waited", !.fd = fd,
                                    !.was = conn[fd].waiting_for_arena],
                       <<Frame("fcgi", fd)>>)
  /\ g_waiting_conns' = Tail(g_waiting_conns)
  /\ UNCHANGED <<objVars, outVars, closeVars, g_accept_paused, batch, taskVars, envVars,
                 fault>>

WaitingDone ==
  /\ At("waiting") /\ ~MoreWaiting
  /\ Return
  /\ UNCHANGED <<objVars, listVars, batch, taskVars, envVars, fault>>

\* Mutation: entries that name the arena of another request are taken out.
WaitedServedTidies ==
  /\ At("waited") /\ Top.was /\ ~conn[Top.fd].waiting_for_arena
  /\ LET c == conn[Top.fd]
         stale == {id \in Mapped(c) : req[c.requests[id]].id # id} IN
       Flush(Top.fd, [c EXCEPT !.requests =
                        [id \in Ids |-> IF id \in stale THEN NoArena ELSE @[id]]])
  /\ Become([Frame("waiting", NoFd) EXCEPT !.n = Top.n - 1, !.m = Top.m])
  /\ UNCHANGED <<poolVars, g_conns, req, built, outVars, closing, to_close, waitVars,
                 batch, taskVars, eventfd, timer, phase, begun, connects, ws, fault>>

\* The connection got its arena: one less to spend, and its output is sent.
WaitedServed ==
  /\ At("waited") /\ Top.was /\ ~conn[Top.fd].waiting_for_arena
  /\ Flush(Top.fd, conn[Top.fd])
  /\ Become([Frame("waiting", NoFd) EXCEPT !.n = Top.n - 1, !.m = Top.m])
  /\ UNCHANGED <<poolVars, g_conns, req, built, outVars, closing, to_close, waitVars,
                 batch, taskVars, eventfd, timer, phase, begun, connects, ws, fault>>

\* It did not: back to the end of the list, if it is waiting at all.
WaitedAgain ==
  /\ At("waited") /\ ~(Top.was /\ ~conn[Top.fd].waiting_for_arena)
  /\ g_waiting_conns' = IF conn[Top.fd].waiting_for_arena
                          THEN Append(g_waiting_conns, Top.fd)
                          ELSE g_waiting_conns
  /\ Become([Frame("waiting", NoFd) EXCEPT !.n = Top.n, !.m = Top.m])
  /\ UNCHANGED <<objVars, outVars, closeVars, g_accept_paused, batch, taskVars, envVars,
                 fault>>

-----------------------------------------------------------------------------
(* Next *)

LoopStep ==
  \/ EpollWait
  \/ \E e \in batch : ListenEvent(e) \/ EventFdEvent(e) \/ TimerEvent(e)
                        \/ IoEvent(e) \/ IoStale(e)

AcceptStep == AcceptDone \/ \E fd \in Fds : AcceptOne(fd)

PendingStep ==
  SwapPending \/ PendingAnswer \/ PendingSkip \/ PendingFault \/ PendingDone

ParseStep ==
  \/ ParseEnd \/ ParseBad \/ ParseDefer \/ ParseSkip
  \/ \E a \in Arena : ParseNew(a) \/ ParseKnown(a) \/ ParseFault(a)

HandleStep ==
  \/ AfterParse \/ OutFlush \/ SweepErase \/ SweepDone
  \/ \E id \in Ids : SweepFree(id) \/ SweepKeep(id)

CloseStep ==
  \/ CloseQueued \/ CloseQueueDone \/ CloseFd
  \/ \E id \in Ids : CleanupOne(id)

HousekeepingStep ==
  \/ ExpireDone \/ HousekeepingDone
  \/ \E fd \in Fds : HousekeepingClose(fd) \/ \E id \in Ids : Expire(fd, id)

WaitingStep == WaitingNext \/ WaitingDone \/ WaitedServed \/ WaitedAgain

IoThread ==
  \/ LoopStep \/ AcceptStep \/ PendingStep \/ ParseStep \/ HandleStep
  \/ CloseStep \/ HousekeepingStep \/ WaitingStep

Workers ==
  \/ TaskStart \/ TaskFault
  \/ \E t \in running : TaskPush(t) \/ TaskInactive(t) \/ TaskLeave(t)

\* After undefined behaviour nothing is promised any more.
Undefined == UNCHANGED vars

Next ==
  IF fault = "none"
    THEN \/ IoThread
         \/ Workers
         \/ AtSystemCall /\ \E fd \in Fds : Peer(fd)
         \/ WsThreads
         \/ TimerTick
    ELSE Undefined

Spec == Init /\ [][Next]_vars

(***************************************************************************)
(* Fairness.  The IO thread and the workers are threads of the process,    *)
(* the timer is periodic, a WebSocket handler finishes, and a web server   *)
(* sends the whole of a request it has begun and reads what it is sent; no *)
(* peer has to begin one, to abort or to close.  The peers' fairness is    *)
(* strong only because their steps are tied to AtSystemCall, which comes   *)
(* and goes: the step itself stays possible until it is taken.             *)
(***************************************************************************)
Fairness ==
  /\ WF_vars(fault = "none" /\ IoThread)
  /\ WF_vars(fault = "none" /\ Workers)
  /\ WF_vars(fault = "none" /\ TimerTick)
  /\ \A fd \in Fds :
       /\ SF_vars(fault = "none" /\ AtSystemCall /\ PeerRead(fd))
       /\ SF_vars(fault = "none" /\ AtSystemCall /\ \E id \in Ids : PeerStream(fd, id))
  /\ WF_vars(fault = "none" /\ \E a \in Arena : WsRelease(a))

FairSpec == Spec /\ Fairness
=============================================================================
