------------------------ MODULE FcgiObjects_Proofs -------------------------
(***************************************************************************)
(* The objects of the FastCGI server and the lists that point to them, for *)
(* every value of the constants: the requests maps lead to living requests *)
(* between events, a connection whose BEGIN_REQUEST found no arena is on   *)
(* the waiting list, active_workers is the number of closures that still   *)
(* use the connection, no connection waits while an arena is free, every   *)
(* arena in use belongs to a request that is reachable, and unsent output  *)
(* is watched for.                                                         *)
(*                                                                         *)
(* All of them need to know which functions are half done: the stack is    *)
(* read as the set of its frames, since StackShape says how they nest.     *)
(***************************************************************************)
EXTENDS FcgiSafety_Proofs

USE DEF poolVars, connVars, objVars, outVars, closeVars, waitVars, listVars, ioVars,
        taskVars, wakeVars, peerVars, envVars

-----------------------------------------------------------------------------
(* The frames of the stack, in no order *)

Items(s) == {s[i] : i \in 1 .. Len(s)}
Frames == Items(stack)

\* The frames under the one on top.
Below == Items(Tail(stack))

LEMMA FramesAre ==
  ASSUME NEW S
  PROVE  /\ Items(<<>>) = {}
         /\ \A s \in Seq(S) : s # <<>> => Items(s) = {s[1]} \cup Items(Tail(s))
         /\ \A s \in Seq(S), f \in S : Items(<<f>> \o s) = {f} \cup Items(s)
<1>1. Items(<<>>) = {}
  <2>1. \A i \in 1 .. Len(<<>>) : FALSE
    OBVIOUS
  <2> QED BY <2>1 DEF Items
<1>2. ASSUME NEW s \in Seq(S), s # <<>> PROVE Items(s) = {s[1]} \cup Items(Tail(s))
  <2>1. /\ Len(s) \in Nat \ {0} /\ Len(Tail(s)) = Len(s) - 1
        /\ \A i \in 1 .. Len(s) - 1 : Tail(s)[i] = s[i + 1]
    BY <1>2
  <2>2. ASSUME NEW f \in Items(s) PROVE f \in {s[1]} \cup Items(Tail(s))
    <3>1. PICK i \in 1 .. Len(s) : f = s[i]
      BY DEF Items
    <3>2. CASE i # 1
      <4>1. i - 1 \in 1 .. Len(Tail(s)) /\ Tail(s)[i - 1] = s[i]
        BY <2>1, <3>2
      <4> QED BY <3>1, <4>1 DEF Items
    <3> QED BY <3>1, <3>2
  <2>3. s[1] \in Items(s)
    BY <2>1 DEF Items
  <2>4. ASSUME NEW f \in Items(Tail(s)) PROVE f \in Items(s)
    <3>1. PICK i \in 1 .. Len(Tail(s)) : f = Tail(s)[i]
      BY DEF Items
    <3>2. i + 1 \in 1 .. Len(s) /\ Tail(s)[i] = s[i + 1]
      BY <2>1
    <3> QED BY <3>1, <3>2 DEF Items
  <2> QED BY <2>2, <2>3, <2>4
<1>3. ASSUME NEW s \in Seq(S), NEW f \in S
      PROVE  Items(<<f>> \o s) = {f} \cup Items(s)
  <2> DEFINE t == <<f>> \o s
  <2>1. /\ Len(s) \in Nat /\ Len(t) = Len(s) + 1 /\ t[1] = f
        /\ \A i \in 2 .. Len(t) : t[i] = s[i - 1]
        /\ \A i \in 1 .. Len(s) : t[i + 1] = s[i]
    OBVIOUS
  <2> HIDE DEF t
  <2>2. ASSUME NEW g \in Items(t) PROVE g \in {f} \cup Items(s)
    <3>1. PICK i \in 1 .. Len(t) : g = t[i]
      BY DEF Items
    <3>2. CASE i # 1
      <4>1. i - 1 \in 1 .. Len(s) /\ t[i] = s[i - 1]
        BY <2>1, <3>2
      <4> QED BY <3>1, <4>1 DEF Items
    <3> QED BY <2>1, <3>1, <3>2
  <2>3. f \in Items(t)
    <3>1. 1 \in 1 .. Len(t)
      BY <2>1
    <3> QED BY <2>1, <3>1 DEF Items
  <2>4. ASSUME NEW g \in Items(s) PROVE g \in Items(t)
    <3>1. PICK i \in 1 .. Len(s) : g = s[i]
      BY DEF Items
    <3>2. i + 1 \in 1 .. Len(t) /\ t[i + 1] = s[i]
      BY <2>1
    <3> QED BY <3>1, <3>2 DEF Items
  <2>5. Items(t) = {f} \cup Items(s)
    BY <2>2, <2>3, <2>4
  <2> QED BY <2>5 DEF t
<1> QED BY <1>1, <1>2, <1>3

\* What the steps of the stack make of its frames.
LEMMA StackFrames ==
  ASSUME TypeOK, stack # <<>>
  PROVE  /\ Frames = {Top} \cup Below /\ Frames \subseteq StackFrame
         /\ Return => Frames' = Below
         /\ \A f \in StackFrame : Become(f) \/ CallFrom(f, <<>>) => Frames' = {f} \cup Below
         /\ \A f, g \in StackFrame : CallFrom(f, <<g>>) => Frames' = {f, g} \cup Below
<1>1. stack \in Seq(StackFrame) /\ Tail(stack) \in Seq(StackFrame) /\ Top = stack[1]
  BY DEF TypeOK, IoTypeOK, Top
<1>2. Frames = {Top} \cup Below /\ Frames \subseteq StackFrame
  <2>1. Items(stack) = {stack[1]} \cup Items(Tail(stack))
    BY <1>1, FramesAre
  <2>2. \A i \in 1 .. Len(stack) : stack[i] \in StackFrame
    BY <1>1
  <2> QED BY <1>1, <2>1, <2>2 DEF Frames, Items, Below
<1>3. Return => Frames' = Below
  BY DEF Return, Frames, Below
<1> DEFINE rest == Tail(stack)
<1>4. ASSUME NEW f \in StackFrame, Become(f) \/ CallFrom(f, <<>>)
      PROVE  Frames' = {f} \cup Below
  <2>1. stack' = <<f>> \o rest
    <3>1. <<>> \o <<f>> \o rest = <<f>> \o rest
      BY <1>1
    <3> QED BY <1>4, <3>1 DEF Become, CallFrom
  <2>2. Items(<<f>> \o rest) = {f} \cup Items(rest)
    <3>1. rest \in Seq(StackFrame)
      BY <1>1
    <3> HIDE DEF rest
    <3> QED BY <3>1, FramesAre
  <2> QED BY <2>1, <2>2 DEF Frames, Below
<1>5. ASSUME NEW f \in StackFrame, NEW g \in StackFrame, CallFrom(f, <<g>>)
      PROVE  Frames' = {f, g} \cup Below
  <2> DEFINE s == <<f>> \o rest
  <2>1. stack' = <<g>> \o s /\ s \in Seq(StackFrame)
    BY <1>1, <1>5 DEF CallFrom
  <2>2. Items(s) = {f} \cup Items(rest)
    <3>1. rest \in Seq(StackFrame)
      BY <1>1
    <3> HIDE DEF rest
    <3> QED BY <3>1, FramesAre
  <2>3. Items(<<g>> \o s) = {g} \cup Items(s)
    <3> HIDE DEF s
    <3> QED BY <2>1, FramesAre
  <2> HIDE DEF s
  <2> QED BY <2>1, <2>2, <2>3 DEF Frames, Below
<1> QED BY <1>2, <1>3, <1>4, <1>5

\* A call adds a frame.
LEMMA CallFrames ==
  ASSUME TypeOK
  PROVE  /\ stack = <<>> => Frames = {}
         /\ \A g \in StackFrame : Call(<<g>>) => Frames' = {g} \cup Frames
         /\ UNCHANGED stack => Frames' = Frames
<1>1. stack \in Seq(StackFrame)
  BY DEF TypeOK, IoTypeOK
<1>2. ASSUME NEW g \in StackFrame, Call(<<g>>) PROVE Frames' = {g} \cup Frames
  BY <1>1, <1>2, FramesAre DEF Call, Frames
<1> QED BY <1>2, FramesAre DEF Frames

\* The frame of a function that nothing calls is the only one.
LEMMA AloneFrames ==
  ASSUME TypeOK, Loops, stack # <<>>,
         Top.pc \notin {"fcgi", "cleanup", "waiting", "waited"}
  PROVE  Below = {}
<1>1. Len(stack) = 1
  BY Alone DEF TypeOK, Loops
<1>2. Tail(stack) = <<>>
  BY <1>1, SmallStacks DEF TypeOK, IoTypeOK
<1> QED BY <1>2, FramesAre DEF Below

\* Under a cleanup there is only the loop that closes connections.
LEMMA CleanupFrames ==
  ASSUME TypeOK, Loops, stack # <<>>, Top.pc = "cleanup"
  PROVE  \A f \in Below : f.pc \in {"closing", "housekeeping"}
<1>1. stack \in Seq(StackFrame) /\ Len(stack) \in Nat \ {0} /\ Top = stack[1]
  BY TopFrame DEF TypeOK, IoTypeOK
<1>2. ASSUME Len(stack) > 1 PROVE stack[2].pc \in {"closing", "housekeeping"}
  BY <1>2, FirstCall DEF TypeOK, Loops, Calls
<1>3. ~(Len(stack) > 2)
  <2> SUFFICES ASSUME Len(stack) > 2 PROVE FALSE
    OBVIOUS
  <2>1. 2 \in 1 .. Len(stack) - 1 /\ Len(stack) > 1
    BY <1>1
  <2>2. <<stack[2].pc, stack[3].pc>> \in Calls
    BY <2>1 DEF Loops, StackShape
  <2> QED BY <1>2, <2>1, <2>2 DEF Calls
<1>4. ASSUME NEW f \in Below PROVE f.pc \in {"closing", "housekeeping"}
  <2>1. PICK i \in 1 .. Len(Tail(stack)) : f = Tail(stack)[i]
    BY DEF Below, Items
  <2>2. Len(Tail(stack)) = Len(stack) - 1 /\ Tail(stack)[i] = stack[i + 1]
    BY <1>1
  <2>3. i = 1 /\ Len(stack) > 1
    <3> DEFINE n == Len(stack)
    <3>1. n \in Nat /\ ~(n > 2) /\ i \in 1 .. n - 1
      BY <1>1, <1>3, <2>2
    <3> HIDE DEF n
    <3>2. i = 1 /\ n > 1
      BY <3>1
    <3> QED BY <3>2 DEF n
  <2> QED BY <1>2, <2>1, <2>2, <2>3
<1> QED BY <1>4

\* The parsing of handle_io calls nothing but process_buffer.
LEMMA ParsedFrames ==
  ASSUME TypeOK, Loops, NEW f \in Frames, f.pc = "parsed"
  PROVE  stack # <<>> /\ Top.pc \in {"fcgi", "parsed"}
<1>1. PICK i \in 1 .. Len(stack) : f = stack[i]
  BY DEF Frames, Items
<1>2. stack \in Seq(StackFrame) /\ Len(stack) \in Nat /\ stack # <<>> /\ Top = stack[1]
  BY <1>1, TopFrame DEF TypeOK, IoTypeOK
<1>3. CASE i # 1
  <2>1. i - 1 \in 1 .. Len(stack) - 1 /\ (i - 1) + 1 = i
    BY <1>2, <1>3
  <2>2. <<stack[i - 1].pc, stack[i].pc>> \in Calls
    BY <2>1 DEF Loops, StackShape
  <2>3. stack[i - 1].pc = "fcgi"
    BY <1>1, <2>2 DEF Calls
  <2>4. i - 1 = 1
    <3> SUFFICES ASSUME i - 1 # 1 PROVE FALSE
      OBVIOUS
    <3>1. i - 2 \in 1 .. Len(stack) - 1 /\ (i - 2) + 1 = i - 1
      BY <2>1
    <3>2. <<stack[i - 2].pc, stack[i - 1].pc>> \in Calls
      BY <3>1 DEF Loops, StackShape
    <3> QED BY <2>3, <3>2 DEF Calls
  <2> QED BY <1>2, <2>3, <2>4
<1> QED BY <1>1, <1>2, <1>3

-----------------------------------------------------------------------------
(* What the steps make of connections and requests *)

\* What outlives most steps of a connection, and of a request.
SteadyConn(c, d) ==
  /\ d.requests = c.requests /\ d.serial = c.serial /\ d.active_workers = c.active_workers
  /\ d.waiting_for_arena = c.waiting_for_arena /\ (c.closed => d.closed)

SameRequest(r, q) ==
  /\ q.live = r.live /\ q.serial = r.serial /\ q.id = r.id /\ q.conn_ptr = r.conn_ptr
  /\ q.cserial = r.cserial

Conns == \A fd \in Fds : SteadyConn(conn[fd], conn'[fd])
Reqs == \A a \in Arena : SameRequest(req[a], req'[a]) /\ req'[a].dispatches = req[a].dispatches

LEMMA Unchanged ==
  /\ UNCHANGED conn => Conns
  /\ UNCHANGED req => Reqs
BY DEF Conns, Reqs, SteadyConn, SameRequest

LEMMA FlushSteady ==
  ASSUME TypeOK, NEW fd \in Fds, Flush(fd, conn[fd])
  PROVE  Conns
<1>1. conn \in [Fds -> Connection]
  BY DEF TypeOK, ObjTypeOK
<1>2. CASE FlushAll(fd, conn[fd])
  BY <1>1, <1>2 DEF FlushAll, Conns, SteadyConn, Connection
<1>3. CASE FlushSome(fd, conn[fd])
  BY <1>1, <1>3 DEF FlushSome, Conns, SteadyConn, Connection
<1>4. CASE FlushError(fd, conn[fd])
  BY <1>1, <1>4 DEF FlushError, Conns, SteadyConn, Connection
<1> QED BY <1>2, <1>3, <1>4 DEF Flush

LEMMA IoEventSteady ==
  ASSUME TypeOK, NEW e \in batch, IoEvent(e)
  PROVE  Conns
<1>1. conn \in [Fds -> Connection]
  BY DEF TypeOK, ObjTypeOK
<1> DEFINE fd == e.fd
           shut == conn[fd].closed \/ e.hup \/ (e.in /\ sock[fd].eof)
           in == IF e.in THEN Joined(conn[fd].in_buf, sock[fd].rx) ELSE conn[fd].in_buf
<1>2. conn' = [conn EXCEPT ![fd] = [conn[fd] EXCEPT !.closed = shut, !.in_buf = in]]
  BY DEF IoEvent
<1>3. conn[fd].closed => shut
  OBVIOUS
<1> HIDE DEF fd, shut, in
<1> QED BY <1>1, <1>2, <1>3 DEF Conns, SteadyConn, Connection

LEMMA AnswerSteady ==
  ASSUME TypeOK, PendingAnswer \/ \E fd \in Fds, id \in Ids : Expire(fd, id)
  PROVE  Conns /\ Reqs
<1>1. conn \in [Fds -> Connection] /\ req \in [Arena -> Request]
  BY DEF TypeOK, ObjTypeOK
<1>2. CASE PendingAnswer
  <2>1. Answer(Head(taken).arena)
    BY <1>2 DEF PendingAnswer
  <2> DEFINE a == Head(taken).arena
             fd == req[a].conn_ptr
             out == Append(conn[fd].out_buf, req[a].id)
             want == conn[fd].epollout \/ conn[fd].out_buf = <<>>
  <2>2. /\ conn' = [conn EXCEPT ![fd].out_buf = out, ![fd].epollout = want]
        /\ req' = [req EXCEPT ![a].flags = @ \cup {"RESPONDED"}, ![a].ends = @ + 1]
    BY <2>1 DEF Answer
  <2> HIDE DEF out, want, fd, a
  <2>3. Conns
    BY <1>1, <2>2 DEF Conns, SteadyConn, Connection
  <2>4. Reqs
    BY <1>1, <2>2 DEF Reqs, SameRequest, Request
  <2> QED BY <2>3, <2>4
<1>3. CASE \E fd \in Fds, id \in Ids : Expire(fd, id)
  <2>1. PICK fd \in Fds, id \in Ids : Expire(fd, id)
    BY <1>3
  <2> DEFINE a == conn[fd].requests[id]
             out == Append(conn[fd].out_buf, req[a].id)
  <2>2. /\ conn' = [conn EXCEPT ![fd] = [conn[fd] EXCEPT !.out_buf = out]]
        /\ req' = [req EXCEPT ![a].flags = @ \cup {"FAILED", "RESPONDED"}, ![a].ends = @ + 1]
    BY <2>1 DEF Expire
  <2> HIDE DEF out, a
  <2>3. Conns
    BY <1>1, <2>2 DEF Conns, SteadyConn, Connection
  <2>4. Reqs
    BY <1>1, <2>2 DEF Reqs, SameRequest, Request
  <2> QED BY <2>3, <2>4
<1> QED BY <1>2, <1>3

LEMMA InactiveSteady ==
  ASSUME TypeOK, NEW t \in running, TaskInactive(t)
  PROVE  Reqs
<1>1. req \in [Arena -> Request]
  BY DEF TypeOK, ObjTypeOK
<1> QED BY <1>1 DEF TaskInactive, Reqs, SameRequest, Request

\* A record leaves alone what a request is.
LEMMA ApplyRecordKeeps ==
  ASSUME NEW r \in Request, NEW rec
  PROVE  /\ SameRequest(r, ApplyRecord(r, rec))
         /\ ApplyRecord(r, rec).dispatches = r.dispatches
<1>1. \A q \in Request :
        /\ SameRequest(q, FailRequest(q)) /\ FailRequest(q).dispatches = q.dispatches
        /\ SameRequest(q, ApplyBegin(q, rec)) /\ ApplyBegin(q, rec).dispatches = q.dispatches
  BY DEF FailRequest, ApplyBegin, SameRequest, Request
<1>2. SameRequest(r, ApplyParams(r, rec)) /\ ApplyParams(r, rec).dispatches = r.dispatches
  BY <1>1 DEF ApplyParams, SameRequest, Request
<1>3. SameRequest(r, ApplyStdin(r, rec)) /\ ApplyStdin(r, rec).dispatches = r.dispatches
  BY <1>1 DEF ApplyStdin, SameRequest, Request
<1>4. SameRequest(r, ApplyAbort(r)) /\ ApplyAbort(r).dispatches = r.dispatches
  <2> DEFINE q == [r EXCEPT !.flags = @ \cup {"ABORTED"}]
  <2>1. q \in Request /\ SameRequest(r, q) /\ q.dispatches = r.dispatches
    BY DEF Request, SameRequest, Flag
  <2>2. ApplyAbort(r) = FailRequest(q)
    BY DEF ApplyAbort
  <2> HIDE DEF q
  <2> QED BY <1>1, <2>1, <2>2 DEF SameRequest
<1> QED BY <1>1, <1>2, <1>3, <1>4 DEF ApplyRecord

\* The closure internal_on_request_ready makes for request r of arena a.
ClosureOf(a, r) ==
  [arena |-> a, serial |-> r.serial, fd |-> r.conn_ptr, cserial |-> r.cserial,
   nth |-> r.dispatches + 1, at |-> "parsing"]

\* A record for request r of arena a has been applied: r is entered in the map
\* of connection fd, and perhaps (go) handed to a worker.
Delivered(a, r, fd, id, go) ==
  /\ SameRequest(r, req'[a]) /\ \A b \in Arena \ {a} : req'[b] = req[b]
  /\ req'[a].dispatches = IF go THEN r.dispatches + 1 ELSE r.dispatches
  /\ \A gd \in Fds, i \in Ids : conn'[gd].requests[i] =
       IF gd = fd /\ i = id THEN a ELSE conn[gd].requests[i]
  /\ \A gd \in Fds :
       /\ conn'[gd].serial = conn[gd].serial
       /\ conn'[gd].in_buf = conn[gd].in_buf
       /\ conn'[gd].waiting_for_arena = conn[gd].waiting_for_arena
       /\ conn'[gd].closed = conn[gd].closed
       /\ conn'[gd].active_workers = IF go /\ gd = r.conn_ptr
                                       THEN conn[gd].active_workers + 1
                                       ELSE conn[gd].active_workers
  /\ queue' = IF go THEN Append(queue, ClosureOf(a, r)) ELSE queue
  /\ UNCHANGED running

LEMMA DeliverIs ==
  ASSUME TypeOK, At("fcgi"), Exists, NamesRequest(NextRecord), NEW a \in Arena,
         NEW r \in Request, r.conn_ptr \in Fds, Deliver(a, r, NextRecord)
  PROVE  /\ Top.fd \in Fds /\ NextRecord.id \in Ids
         /\ \E go \in BOOLEAN : Delivered(a, r, Top.fd, NextRecord.id, go)
<1> DEFINE rec == NextRecord
           fd == Top.fd
           after == ApplyRecord(r, rec)
           ended == EndsRequest(r, after)
           go == Ready(after)
           ends == IF ended THEN after.ends + 1 ELSE after.ends
           active == after.worker_active \/ go
           n == IF go THEN after.dispatches + 1 ELSE after.dispatches
           final == [after EXCEPT !.ends = ends, !.worker_active = active, !.dispatches = n]
           out == IF ended THEN Append(conn[fd].out_buf, r.id) ELSE conn[fd].out_buf
<1>1. /\ conn \in [Fds -> Connection] /\ req \in [Arena -> Request]
      /\ fd \in Fds /\ rec \in Record
  BY InBufType DEF TypeOK, ObjTypeOK
<1>2. rec.id \in Ids
  BY <1>1 DEF Record, RecordOf, NamesRequest
<1>3. after \in Request /\ SameRequest(r, after) /\ after.dispatches = r.dispatches
  BY <1>1, ApplyRecordType, ApplyRecordKeeps
<1>4. /\ req' = [req EXCEPT ![a] = final]
      /\ queue' = IF go THEN Append(queue, Task(a, final)) ELSE queue
      /\ UNCHANGED running
  BY DEF Deliver
<1>5. conn' = [conn EXCEPT
        ![fd].requests[rec.id] = a,
        ![fd].out_buf = IF ended THEN Append(@, r.id) ELSE @,
        ![r.conn_ptr].active_workers = IF go THEN @ + 1 ELSE @]
  BY DEF Deliver
<1>6. /\ SameRequest(r, final) /\ final.dispatches = n
      /\ n = IF go THEN r.dispatches + 1 ELSE r.dispatches
  <2>1. n = IF go THEN r.dispatches + 1 ELSE r.dispatches
    BY <1>3
  <2> HIDE DEF ends, active, n, after
  <2> QED BY <1>3, <2>1 DEF SameRequest, Request
<1>7. go => Task(a, final) = ClosureOf(a, r)
  <2> HIDE DEF final, go
  <2> QED BY <1>6 DEF Task, ClosureOf, SameRequest
<1>8. go \in BOOLEAN
  BY DEF Ready
<1> HIDE DEF go, n, final, ended, after, ends, active
<1>9. req'[a] = final /\ \A b \in Arena \ {a} : req'[b] = req[b]
  BY <1>1, <1>4
<1>10. \A gd \in Fds, i \in Ids : conn'[gd].requests[i] =
         IF gd = fd /\ i = rec.id THEN a ELSE conn[gd].requests[i]
  BY <1>1, <1>2, <1>5 DEF Connection
<1>11. \A gd \in Fds :
       /\ conn'[gd].serial = conn[gd].serial
       /\ conn'[gd].in_buf = conn[gd].in_buf
       /\ conn'[gd].waiting_for_arena = conn[gd].waiting_for_arena
       /\ conn'[gd].closed = conn[gd].closed
  <2>1. PICK o, w : conn' = [conn EXCEPT ![fd].requests[rec.id] = a, ![fd].out_buf = o,
                                         ![r.conn_ptr].active_workers = w]
    BY <1>5
  <2>2. \A gd \in Fds : conn'[gd].serial = conn[gd].serial
    BY <1>1, <2>1 DEF Connection
  <2>3. \A gd \in Fds : conn'[gd].waiting_for_arena = conn[gd].waiting_for_arena
    BY <1>1, <2>1 DEF Connection
  <2>4. \A gd \in Fds : conn'[gd].closed = conn[gd].closed
    BY <1>1, <2>1 DEF Connection
  <2>5. \A gd \in Fds : conn'[gd].in_buf = conn[gd].in_buf
    BY <1>1, <2>1 DEF Connection
  <2> QED BY <2>2, <2>3, <2>4, <2>5
<1>12. \A gd \in Fds : conn'[gd].active_workers =
         IF go /\ gd = r.conn_ptr THEN conn[gd].active_workers + 1 ELSE conn[gd].active_workers
  BY <1>1, <1>5 DEF Connection
<1>13. Delivered(a, r, fd, rec.id, go)
  BY <1>4, <1>6, <1>7, <1>9, <1>10, <1>11, <1>12 DEF Delivered
<1> QED BY <1>1, <1>2, <1>8, <1>13

\* The two ways a record reaches a request.
LEMMA ParseDelivers ==
  ASSUME TypeOK, NEW a \in Arena, ParseNew(a) \/ ParseKnown(a)
  PROVE  LET r == IF ParseNew(a)
                    THEN NewRequest(built + 1, Top.fd, conn[Top.fd].serial, NextRecord.id)
                    ELSE req[a]
         IN /\ r \in Request /\ r.conn_ptr \in Fds
            /\ stack # <<>> /\ Top.pc = "fcgi" /\ Top.fd \in Fds /\ NextRecord.id \in Ids
            /\ \E go \in BOOLEAN : Delivered(a, r, Top.fd, NextRecord.id, go)
            /\ Become([Top EXCEPT !.n = @ + 1])
<1> DEFINE new == NewRequest(built + 1, Top.fd, conn[Top.fd].serial, NextRecord.id)
           r == IF ParseNew(a) THEN new ELSE req[a]
<1>1. /\ At("fcgi") /\ Exists /\ NamesRequest(NextRecord)
      /\ Deliver(a, r, NextRecord)
  BY DEF ParseNew, ParseKnown
<1>2. /\ stack # <<>> /\ Top.pc = "fcgi" /\ Top.fd \in Fds /\ NextRecord \in Record
      /\ conn \in [Fds -> Connection] /\ req \in [Arena -> Request] /\ built \in Nat
  BY <1>1, InBufType DEF TypeOK, ObjTypeOK, At, Top
<1>3. NextRecord.id \in Ids
  BY <1>1, <1>2 DEF Record, RecordOf, NamesRequest
<1>4. new \in Request /\ new.conn_ptr = Top.fd
  <2>1. built + 1 \in Nat /\ conn[Top.fd].serial \in Nat
    BY <1>2 DEF Connection
  <2>2. new.conn_ptr = Top.fd
    BY DEF NewRequest
  <2> QED BY <1>2, <1>3, <2>1, <2>2, NewRequestType
<1>5. ~ParseNew(a) => req[a].conn_ptr \in Fds
  BY <1>2 DEF ParseKnown, ConnGone, TypeOK, ObjTypeOK
<1>6. r \in Request /\ r.conn_ptr \in Fds
  <2> HIDE DEF new
  <2> QED BY <1>2, <1>4, <1>5
<1>7. Become([Top EXCEPT !.n = @ + 1])
  BY <1>1 DEF Deliver
<1> HIDE DEF r
<1>8. \E go \in BOOLEAN : Delivered(a, r, Top.fd, NextRecord.id, go)
  BY <1>1, <1>6, DeliverIs
<1> QED BY <1>2, <1>3, <1>6, <1>7, <1>8 DEF r

-----------------------------------------------------------------------------
(* The entries of the requests maps *)

\* A frame that works on a connection has one.
ServesConn(f) == f.pc \in FdPC \cup {"waited"} => f.fd \in g_conns

Served == \A f \in Frames : ServesConn(f)

\* The entry of id goes as soon as frame f goes on.
Dooms(f, fd, id) ==
  /\ f.fd = fd
  /\ \/ f.pc = "erase" /\ f.id = id
     \/ f.pc = "cleanup" /\ id \notin f.ids

EntryLives(fd, id) ==
  LET r == req[conn[fd].requests[id]] IN
    r.live /\ r.conn_ptr = fd /\ r.id = id /\ r.cserial = conn[fd].serial

Entries ==
  \A fd \in g_conns, id \in Ids : conn[fd].requests[id] # NoArena =>
    EntryLives(fd, id) \/ \E f \in Frames : Dooms(f, fd, id)

\* A Request that lives holds its arena, and so does a WebSocket thread; none
\* is held by both.
Held ==
  \A a \in Arena : /\ req[a].live => in_use[a] /\ a \notin ws
                   /\ a \in ws => in_use[a]

Tended == Served /\ Entries /\ Held

-----------------------------------------------------------------------------

\* The first two of a sequence.
LEMMA TwoFirst ==
  ASSUME NEW S, NEW u \in Seq(S), NEW v \in Seq(S), Len(u) = 2
  PROVE  Len(u \o v) >= 2 /\ (u \o v)[1] = u[1] /\ (u \o v)[2] = u[2]
<1>1. \A x, y \in Seq(S) :
        /\ Len(x \o y) = Len(x) + Len(y) /\ Len(y) \in Nat
        /\ \A i \in 1 .. Len(x) : (x \o y)[i] = x[i]
  OBVIOUS
<1>2. 1 \in 1 .. Len(u) /\ 2 \in 1 .. Len(u)
  OBVIOUS
<1>3. (u \o v)[1] = u[1] /\ (u \o v)[2] = u[2]
  BY <1>1, <1>2, Zenon
<1> DEFINE n == Len(v)
           k == Len(u \o v)
<1>4. k = 2 + n /\ n \in Nat
  BY <1>1, Zenon
<1>5. k >= 2
  <2> HIDE DEF n, k
  <2> QED BY <1>4
<1> QED BY <1>3, <1>5, Zenon

\* A frame that becomes the top of the stack is a frame.
LEMMA IntoStack ==
  ASSUME TypeOK, TypeOK'
  PROVE  /\ stack # <<>> => \A f : Become(f) => f \in StackFrame
         /\ stack # <<>> => \A f, g : CallFrom(f, <<g>>) => f \in StackFrame /\ g \in StackFrame
         /\ stack # <<>> => \A f : CallFrom(f, <<>>) => f \in StackFrame
         /\ \A g : Call(<<g>>) => g \in StackFrame
<1>1. stack' \in Seq(StackFrame) /\ stack \in Seq(StackFrame)
  BY DEF TypeOK, IoTypeOK
<1> DEFINE rest == Tail(stack)
<1>2. stack # <<>> => rest \in Seq(StackFrame)
  BY <1>1
<1>3. ASSUME NEW s \in Seq(StackFrame), NEW f, stack' = <<f>> \o s PROVE f \in StackFrame
  <2>1. stack'[1] = f /\ Len(stack') >= 1
    BY <1>3
  <2> QED BY <1>1, <2>1
<1>4. ASSUME NEW s \in Seq(StackFrame), NEW f, NEW g, stack' = <<g>> \o <<f>> \o s
      PROVE  f \in StackFrame /\ g \in StackFrame
  <2> DEFINE p == <<g>> \o <<f>>
  <2>1. p[1] = g /\ p[2] = f /\ Len(p) = 2 /\ p \in Seq({g, f})
    OBVIOUS
  <2>2. stack' = p \o s
    BY <1>4
  <2> HIDE DEF p
  <2>3. Len(stack') >= 2 /\ stack'[1] = g /\ stack'[2] = f
    <3> DEFINE S == {g, f} \cup StackFrame
    <3>1. p \in Seq(S) /\ s \in Seq(S)
      BY <2>1
    <3> HIDE DEF S
    <3> QED BY <2>1, <2>2, <3>1, TwoFirst
  <2> QED BY <1>1, <2>3
<1>5. ASSUME NEW s \in Seq(StackFrame), NEW f, stack' = <<>> \o <<f>> \o s PROVE f \in StackFrame
  <2>1. stack'[1] = f /\ Len(stack') >= 1
    BY <1>5
  <2> QED BY <1>1, <2>1
<1> HIDE DEF rest
<1>6. /\ \A f : Become(f) => stack' = <<f>> \o rest
      /\ \A f, g : CallFrom(f, <<g>>) => stack' = <<g>> \o <<f>> \o rest
      /\ \A f : CallFrom(f, <<>>) => stack' = <<>> \o <<f>> \o rest
      /\ \A g : Call(<<g>>) => stack' = <<g>> \o stack
  BY DEF Become, CallFrom, Call, rest
<1>7. stack # <<>> => \A f : Become(f) => f \in StackFrame
  BY <1>2, <1>3, <1>6
<1>8. stack # <<>> => \A f, g : CallFrom(f, <<g>>) => f \in StackFrame /\ g \in StackFrame
  BY <1>2, <1>4, <1>6
<1>9. stack # <<>> => \A f : CallFrom(f, <<>>) => f \in StackFrame
  BY <1>2, <1>5, <1>6
<1>10. \A g : Call(<<g>>) => g \in StackFrame
  BY <1>1, <1>3, <1>6
<1> QED BY <1>7, <1>8, <1>9, <1>10

\* What a step that erases nothing does to the stack.
FramesKept ==
  /\ \A f \in Frames : f.pc \in {"erase", "cleanup"} => f \in Frames'
  /\ \A f \in Frames' : f \in Frames \/ ServesConn(f)

LEMMA FramesAreKept ==
  ASSUME TypeOK, TypeOK'
  PROVE  /\ UNCHANGED stack => FramesKept
         /\ \A g : Call(<<g>>) /\ ServesConn(g) => FramesKept
         /\ stack # <<>> /\ Top.pc \notin {"erase", "cleanup"} =>
              /\ Return => FramesKept
              /\ \A f : Become(f) /\ ServesConn(f) => FramesKept
              /\ \A f, g : CallFrom(f, <<g>>) /\ ServesConn(f) /\ ServesConn(g) => FramesKept
<1>1. UNCHANGED stack => FramesKept
  BY CallFrames DEF FramesKept
<1>2. \A g : Call(<<g>>) /\ ServesConn(g) => FramesKept
  BY CallFrames, IntoStack DEF FramesKept
<1>3. ASSUME stack # <<>>, Top.pc \notin {"erase", "cleanup"}
      PROVE  /\ Return => FramesKept
             /\ \A f : Become(f) /\ ServesConn(f) => FramesKept
             /\ \A f, g : CallFrom(f, <<g>>) /\ ServesConn(f) /\ ServesConn(g) => FramesKept
  <2>1. Frames = {Top} \cup Below
    BY <1>3, StackFrames
  <2>2. Return => FramesKept
    BY <1>3, <2>1, StackFrames DEF FramesKept
  <2>3. ASSUME NEW f, Become(f), ServesConn(f) PROVE FramesKept
    <3>1. f \in StackFrame
      BY <1>3, <2>3, IntoStack
    <3>2. Frames' = {f} \cup Below
      BY <1>3, <2>3, <3>1, StackFrames
    <3> QED BY <1>3, <2>1, <2>3, <3>2 DEF FramesKept
  <2>4. ASSUME NEW f, NEW g, CallFrom(f, <<g>>), ServesConn(f), ServesConn(g) PROVE FramesKept
    <3>1. f \in StackFrame /\ g \in StackFrame
      BY <1>3, <2>4, IntoStack
    <3>2. Frames' = {f, g} \cup Below
      BY <1>3, <2>4, <3>1, StackFrames
    <3> QED BY <1>3, <2>1, <2>4, <3>2 DEF FramesKept
  <2> QED BY <2>2, <2>3, <2>4
<1> QED BY <1>1, <1>2, <1>3

\* Maps and requests as they were.
Maps == \A fd \in Fds : conn'[fd].requests = conn[fd].requests /\ conn'[fd].serial = conn[fd].serial
Live == \A a \in Arena : SameRequest(req[a], req'[a])

Tends == Maps /\ Live /\ FramesKept /\ UNCHANGED <<g_conns, in_use, ws>>

LEMMA TendsTended ==
  ASSUME TypeOK, Tended, Tends
  PROVE  Tended'
<1>1. g_conns \subseteq Fds /\ conn \in [Fds -> Connection]
  BY DEF TypeOK, ObjTypeOK
<1>2. Served'
  BY DEF Tended, Served, Tends, FramesKept, ServesConn
<1>3. Held'
  BY DEF Tended, Held, Tends, Live, SameRequest
<1>4. ASSUME NEW fd \in g_conns, NEW id \in Ids, conn'[fd].requests[id] # NoArena
      PROVE  EntryLives(fd, id)' \/ \E f \in Frames' : Dooms(f, fd, id)
  <2>1. /\ conn'[fd].requests[id] = conn[fd].requests[id] /\ conn'[fd].serial = conn[fd].serial
        /\ conn[fd].requests[id] \in Arena \/ conn[fd].requests[id] = NoArena
    BY <1>1 DEF Tends, Maps, Connection
  <2>2. CASE EntryLives(fd, id)
    BY <1>4, <2>1, <2>2 DEF Tends, Live, SameRequest, EntryLives
  <2>3. CASE \E f \in Frames : Dooms(f, fd, id)
    BY <2>3 DEF Dooms, Tends, FramesKept
  <2> QED BY <1>4, <2>1, <2>2, <2>3 DEF Tended, Entries
<1>5. Entries'
  BY <1>4 DEF Entries, Tends
<1> QED BY <1>2, <1>3, <1>5 DEF Tended

\* Conns and Reqs say more.
LEMMA SteadyTends ==
  /\ Conns => Maps
  /\ Reqs => Live
BY DEF Conns, Reqs, SteadyConn, Maps, Live

LEMMA TopServed ==
  ASSUME TypeOK, Tended, stack # <<>>
  PROVE  /\ Top \in StackFrame /\ ServesConn(Top)
         /\ Top.pc \in FdPC \cup {"waited"} => Top.fd \in g_conns
<1>1. Top \in StackFrame /\ Top \in Frames
  BY StackFrames, TopFrame
<1> QED BY <1>1 DEF Tended, Served, ServesConn

-----------------------------------------------------------------------------
(* Steps that tend the entries *)

\* The frame of a function that works on no connection, or on this one.
LEMMA ServingFrames ==
  /\ \A pc \in LoopPC : ServesConn(Frame(pc, NoFd))
  /\ \A pc : \A fd \in g_conns : ServesConn(Frame(pc, fd))
  /\ \A fd \in g_conns : ServesConn(SweepFrame(fd)) /\ ServesConn(CleanupFrame(fd))
BY DEF ServesConn, Frame, SweepFrame, CleanupFrame, LoopPC, FdPC

\* Steps that touch neither map, request nor arena, but the stack.
StackOnly == UNCHANGED <<conn, req, g_conns, in_use, ws>>

LEMMA StackOnlyTends ==
  StackOnly /\ FramesKept => Tends
BY Unchanged, SteadyTends DEF StackOnly, Tends

\* The frames of stacks of one or two.
LEMMA FewFrames ==
  ASSUME NEW S, NEW x \in S, NEW y \in S
  PROVE  Items(<<x>>) = {x} /\ Items(<<x>> \o <<y>>) = {x, y}
<1>1. \A s \in Seq(S) : Items(<<x>> \o s) = {x} \cup Items(s)
  BY FramesAre
<1>2. \A s \in Seq(S) : Items(<<y>> \o s) = {y} \cup Items(s)
  BY FramesAre
<1>3. <<>> \in Seq(S) /\ <<y>> \in Seq(S) /\ Items(<<>>) = {}
  BY FramesAre
<1>4. <<x>> \o <<>> = <<x>> /\ <<y>> \o <<>> = <<y>>
  BY SmallStacks
<1>5. Items(<<x>>) = {x} \cup {} /\ Items(<<y>>) = {y} \cup {}
  BY <1>1, <1>2, <1>3, <1>4, Zenon
<1>6. Items(<<x>> \o <<y>>) = {x} \cup Items(<<y>>)
  BY <1>1, <1>3, Zenon
<1> HIDE DEF Items
<1> QED BY <1>5, <1>6

LEMMA LoopTends ==
  ASSUME TypeOK, TypeOK', Tended, LoopStep
  PROVE  Tends
<1>1. CASE EpollWait \/ \E e \in batch : IoStale(e)
  BY <1>1, FramesAreKept, StackOnlyTends DEF EpollWait, IoStale, StackOnly
<1>2. CASE \E e \in batch : ListenEvent(e) \/ EventFdEvent(e) \/ TimerEvent(e)
  <2>1. PICK e \in batch : ListenEvent(e) \/ EventFdEvent(e) \/ TimerEvent(e)
    BY <1>2
  <2>2. StackOnly
    BY <2>1 DEF ListenEvent, EventFdEvent, TimerEvent, StackOnly
  <2>3. UNCHANGED stack \/ \E pc \in LoopPC : Call(<<Frame(pc, NoFd)>>)
    BY <2>1 DEF ListenEvent, EventFdEvent, TimerEvent, LoopPC
  <2> QED BY <2>2, <2>3, ServingFrames, FramesAreKept, StackOnlyTends
<1>3. CASE \E e \in batch : IoEvent(e)
  <2>1. PICK e \in batch : IoEvent(e)
    BY <1>3
  <2> DEFINE fd == e.fd
             shut == conn[fd].closed \/ e.hup \/ (e.in /\ sock[fd].eof)
             in == IF e.in THEN Joined(conn[fd].in_buf, sock[fd].rx) ELSE conn[fd].in_buf
             c == [conn[fd] EXCEPT !.closed = shut, !.in_buf = in]
             parsed == [Frame("parsed", fd) EXCEPT !.was = c.waiting_for_arena, !.out = e.out]
             next == IF e.out THEN Frame("outflush", fd) ELSE SweepFrame(fd)
  <2>2. /\ fd \in g_conns /\ stack = <<>> /\ UNCHANGED <<g_conns, req, in_use, ws>>
        /\ Call(IF e.in THEN ProcessFcgi(c, fd) \o <<parsed>> ELSE <<next>>)
    BY <2>1 DEF IoEvent, Dispatching
  <2>3. ServesConn(next) /\ ServesConn(parsed) /\ ServesConn(Frame("fcgi", fd))
    <3>1. parsed.fd = fd
      <4> HIDE DEF c
      <4> QED BY DEF Frame
    <3> HIDE DEF parsed, fd
    <3> QED BY <2>2, <3>1, ServingFrames DEF ServesConn
  <2>4. ASSUME NEW f \in Frames' PROVE ServesConn(f)
    <3> DEFINE new == IF e.in THEN ProcessFcgi(c, fd) \o <<parsed>> ELSE <<next>>
    <3>1. new = <<next>> \/ new = <<>> \o <<parsed>> \/ new = <<Frame("fcgi", fd)>> \o <<parsed>>
      BY DEF ProcessFcgi
    <3>2. stack' = new \o <<>>
      BY <2>2 DEF Call
    <3> DEFINE g == Frame("fcgi", fd)
    <3> HIDE DEF next, parsed, g
    <3>3. /\ <<next>> \o <<>> = <<next>> /\ (<<>> \o <<parsed>>) \o <<>> = <<parsed>>
          /\ (<<g>> \o <<parsed>>) \o <<>> = <<g>> \o <<parsed>>
      <4> DEFINE S == {next, parsed, g}
      <4>1. next \in S /\ parsed \in S /\ g \in S
        OBVIOUS
      <4> HIDE DEF S
      <4> QED BY <4>1, SmallStacks
    <3>4. stack' = <<next>> \/ stack' = <<parsed>> \/ stack' = <<g>> \o <<parsed>>
      <4>1. new = <<next>> \/ new = <<>> \o <<parsed>> \/ new = <<g>> \o <<parsed>>
        BY <3>1 DEF g
      <4> HIDE DEF new
      <4> QED BY <3>2, <3>3, <4>1
    <3>5. /\ Items(<<next>>) = {next} /\ Items(<<parsed>>) = {parsed}
          /\ Items(<<g>> \o <<parsed>>) = {g, parsed}
      <4> DEFINE S == {next, parsed, g}
      <4>1. next \in S /\ parsed \in S /\ g \in S
        OBVIOUS
      <4> HIDE DEF S
      <4> QED BY <4>1, FewFrames
    <3>6. f \in {next, parsed, g}
      <4>1. f \in Items(stack')
        BY <2>4 DEF Frames
      <4> HIDE DEF new, c, fd, Items
      <4>2. CASE stack' = <<next>>
        BY <4>1, <4>2, <3>5, Zenon
      <4>3. CASE stack' = <<parsed>>
        BY <4>1, <4>3, <3>5, Zenon
      <4>4. CASE stack' = <<g>> \o <<parsed>>
        BY <4>1, <4>4, <3>5, Zenon
      <4> QED BY <4>2, <4>3, <4>4, <3>4
    <3> QED BY <2>3, <3>6 DEF g
  <2>5. FramesKept
    BY <2>2, <2>4, CallFrames DEF FramesKept
  <2> QED BY <2>1, <2>2, <2>5, IoEventSteady, Unchanged, SteadyTends DEF Tends
<1> QED BY <1>1, <1>2, <1>3 DEF LoopStep

LEMMA PendingTends ==
  ASSUME TypeOK, TypeOK', Tended, PendingStep \/ AcceptDone
  PROVE  Tends
<1>1. CASE SwapPending
  <2>1. StackOnly /\ stack # <<>> /\ Top.pc = "swap" /\ Become(Frame("pending", NoFd))
    BY <1>1 DEF SwapPending, At, Top, StackOnly
  <2>2. ServesConn(Frame("pending", NoFd))
    BY ServingFrames DEF LoopPC
  <2> QED BY <2>1, <2>2, FramesAreKept, StackOnlyTends
<1>2. CASE PendingAnswer
  <2>1. UNCHANGED <<stack, g_conns, in_use, ws>>
    BY <1>2 DEF PendingAnswer
  <2> QED BY <1>2, <2>1, AnswerSteady, SteadyTends, FramesAreKept DEF Tends
<1>3. CASE PendingSkip \/ PendingFault
  BY <1>3, FramesAreKept, StackOnlyTends DEF PendingSkip, PendingFault, StackOnly
<1>4. CASE PendingDone \/ AcceptDone
  <2>1. StackOnly /\ stack # <<>> /\ Top.pc \in {"pending", "accept"} /\ Return
    BY <1>4 DEF PendingDone, AcceptDone, At, Top, StackOnly
  <2> QED BY <2>1, FramesAreKept, StackOnlyTends
<1> QED BY <1>1, <1>2, <1>3, <1>4 DEF PendingStep

LEMMA ParseTends ==
  ASSUME TypeOK, TypeOK', Tended,
         ParseEnd \/ ParseBad \/ ParseDefer \/ ParseSkip \/ \E a \in Arena : ParseFault(a)
  PROVE  Tends
<1>1. conn \in [Fds -> Connection]
  BY DEF TypeOK, ObjTypeOK
<1>2. CASE ParseEnd \/ ParseBad \/ ParseDefer
  <2>1. /\ stack # <<>> /\ Top.pc = "fcgi" /\ Return
        /\ UNCHANGED <<req, g_conns, in_use, ws>>
    BY <1>2 DEF ParseEnd, ParseBad, ParseDefer, At, Top
  <2>2. Maps
    BY <1>1, <1>2 DEF ParseEnd, ParseBad, ParseDefer, Maps, Connection
  <2> QED BY <2>1, <2>2, FramesAreKept, Unchanged, SteadyTends DEF Tends
<1>3. CASE ParseSkip
  <2>1. /\ stack # <<>> /\ Top.pc = "fcgi" /\ StackOnly
        /\ Become([Top EXCEPT !.n = @ + 1])
    BY <1>3 DEF ParseSkip, At, Top, StackOnly
  <2>2. ServesConn([Top EXCEPT !.n = @ + 1])
    <3>1. Top \in StackFrame /\ ServesConn(Top)
      BY <2>1, TopServed
    <3> QED BY <3>1 DEF ServesConn, StackFrame, FrameOf
  <2> QED BY <2>1, <2>2, FramesAreKept, StackOnlyTends
<1>4. CASE \E a \in Arena : ParseFault(a)
  BY <1>4, FramesAreKept, StackOnlyTends DEF ParseFault, StackOnly
<1> QED BY <1>2, <1>3, <1>4

LEMMA HandleTends ==
  ASSUME TypeOK, TypeOK', Tended,
         AfterParse \/ OutFlush \/ SweepDone \/ \E id \in Ids : SweepKeep(id)
  PROVE  Tends
<1>1. /\ stack # <<>> /\ Top.pc \in {"parsed", "outflush", "sweep"}
      /\ UNCHANGED <<req, g_conns, in_use, ws>>
  BY DEF AfterParse, OutFlush, SweepDone, SweepKeep, At, Top
<1>2. Top.fd \in g_conns /\ Top.fd \in Fds /\ Top \in StackFrame
  BY <1>1, TopServed DEF FdPC, TypeOK, ObjTypeOK
<1>3. CASE AfterParse \/ OutFlush
  <2>1. /\ Flush(Top.fd, conn[Top.fd])
        /\ Become(Frame("outflush", Top.fd)) \/ Become(SweepFrame(Top.fd))
    BY <1>3 DEF AfterParse, OutFlush
  <2>2. Conns
    BY <1>2, <2>1, FlushSteady
  <2> QED BY <1>1, <1>2, <2>1, <2>2, ServingFrames, FramesAreKept, Unchanged, SteadyTends DEF Tends
<1>4. CASE SweepDone
  <2>1. Become(Frame("closing", NoFd)) /\ StackOnly
    BY <1>4 DEF SweepDone, StackOnly
  <2>2. ServesConn(Frame("closing", NoFd))
    BY ServingFrames DEF LoopPC
  <2> QED BY <1>1, <2>1, <2>2, FramesAreKept, StackOnlyTends
<1>5. CASE \E id \in Ids : SweepKeep(id)
  <2>1. PICK id \in Ids : Become([Top EXCEPT !.ids = @ \ {id}]) /\ StackOnly
    BY <1>5 DEF SweepKeep, StackOnly
  <2>2. ServesConn([Top EXCEPT !.ids = @ \ {id}])
    BY <1>2 DEF ServesConn, StackFrame, FrameOf
  <2> QED BY <1>1, <2>1, <2>2, FramesAreKept, StackOnlyTends
<1> QED BY <1>3, <1>4, <1>5

LEMMA ClosingTends ==
  ASSUME TypeOK, TypeOK', Tended, CloseQueued \/ CloseQueueDone \/ HousekeepingStep
  PROVE  Tends
<1>1. CASE CloseQueued \/ \E fd \in Fds : HousekeepingClose(fd)
  <2>1. StackOnly /\ (UNCHANGED stack \/ \E fd \in g_conns : Call(<<CleanupFrame(fd)>>))
    BY <1>1 DEF CloseQueued, HousekeepingClose, StackOnly
  <2> QED BY <2>1, ServingFrames, FramesAreKept, StackOnlyTends
<1>2. CASE CloseQueueDone \/ HousekeepingDone
  <2>1. StackOnly /\ stack # <<>> /\ Top.pc \in {"closing", "housekeeping"} /\ Return
    BY <1>2 DEF CloseQueueDone, HousekeepingDone, At, Top, StackOnly
  <2> QED BY <2>1, FramesAreKept, StackOnlyTends
<1>3. CASE ExpireDone
  <2>1. StackOnly /\ stack # <<>> /\ Top.pc = "expire" /\ Become(Frame("housekeeping", NoFd))
    BY <1>3 DEF ExpireDone, At, Top, StackOnly
  <2>2. ServesConn(Frame("housekeeping", NoFd))
    BY ServingFrames DEF LoopPC
  <2> QED BY <2>1, <2>2, FramesAreKept, StackOnlyTends
<1>4. CASE \E fd \in Fds, id \in Ids : Expire(fd, id)
  <2>1. UNCHANGED <<stack, g_conns, in_use, ws>>
    BY <1>4 DEF Expire
  <2> QED BY <1>4, <2>1, AnswerSteady, SteadyTends, FramesAreKept DEF Tends
<1> QED BY <1>1, <1>2, <1>3, <1>4 DEF HousekeepingStep

LEMMA WaitingTends ==
  ASSUME TypeOK, TypeOK', Tended, WaitingStep
  PROVE  Tends
<1>1. /\ stack # <<>> /\ Top.pc \in {"waiting", "waited"}
      /\ UNCHANGED <<req, g_conns, in_use, ws>>
  BY DEF WaitingStep, WaitingNext, WaitingDone, WaitedServed, WaitedAgain, At, Top
<1>2. Top \in StackFrame /\ (Top.pc = "waited" => Top.fd \in Fds)
  BY <1>1, TopServed DEF TypeOK, ObjTypeOK
<1>3. CASE WaitingNext
  <2> DEFINE fd == Head(g_waiting_conns)
             was == conn[fd].waiting_for_arena
             next == [Top EXCEPT !.m = @ - 1]
             serve == [next EXCEPT !.pc = "waited", !.fd = fd, !.was = was]
  <2>1. /\ UNCHANGED conn /\ Top.pc = "waiting"
        /\ Become(next) \/ (fd \in g_conns /\ CallFrom(serve, <<Frame("fcgi", fd)>>))
    BY <1>3 DEF WaitingNext, At, Top
  <2>2. ServesConn(next)
    BY <1>2, <2>1 DEF ServesConn, StackFrame, FrameOf, FdPC, LoopPC
  <2>3. fd \in g_conns => ServesConn(serve) /\ ServesConn(Frame("fcgi", fd))
    <3> HIDE DEF fd, was
    <3>1. serve.fd = fd
      BY <1>2, <2>1 DEF StackFrame, FrameOf, FdPC, LoopPC
    <3> HIDE DEF serve
    <3> QED BY <3>1, ServingFrames DEF ServesConn
  <2> HIDE DEF next, serve, fd
  <2>4. FramesKept
    BY <1>1, <2>1, <2>2, <2>3, FramesAreKept
  <2> QED BY <1>1, <2>1, <2>4, StackOnlyTends DEF StackOnly
<1>4. CASE WaitingDone
  <2>1. Return /\ UNCHANGED conn
    BY <1>4 DEF WaitingDone
  <2> QED BY <1>1, <2>1, FramesAreKept, StackOnlyTends DEF StackOnly
<1>5. CASE WaitedServed \/ WaitedAgain
  <2> DEFINE n == IF WaitedServed THEN Top.n - 1 ELSE Top.n
             f == [Frame("waiting", NoFd) EXCEPT !.n = n, !.m = Top.m]
  <2>1. /\ Top.pc = "waited" /\ Become(f)
        /\ Flush(Top.fd, conn[Top.fd]) \/ UNCHANGED conn
    <3>1. CASE WaitedServed
      BY <3>1 DEF WaitedServed, At, Top
    <3>2. CASE ~WaitedServed
      BY <1>5, <3>2 DEF WaitedAgain, At, Top
    <3> QED BY <3>1, <3>2
  <2>2. ServesConn(f)
    <3> HIDE DEF n
    <3> QED BY DEF ServesConn, Frame, FdPC
  <2> HIDE DEF f
  <2>3. Maps /\ FramesKept
    BY <1>1, <1>2, <2>1, <2>2, FlushSteady, Unchanged, SteadyTends, FramesAreKept
  <2> QED BY <1>1, <2>3, Unchanged, SteadyTends DEF Tends
<1> QED BY <1>3, <1>4, <1>5 DEF WaitingStep

LEMMA OthersTend ==
  ASSUME TypeOK, TypeOK',
         \/ Workers \/ TimerTick \/ Undefined \/ UNCHANGED vars
         \/ \E fd \in Fds : Peer(fd)
  PROVE  Tends
<1>1. conn \in [Fds -> Connection]
  BY DEF TypeOK, ObjTypeOK
<1>2. UNCHANGED <<stack, g_conns, in_use, ws>>
  <2>1. CASE Workers
    BY <2>1 DEF Workers, TaskStart, TaskFault, TaskPush, TaskInactive, TaskLeave
  <2>2. CASE TimerTick \/ Undefined \/ UNCHANGED vars
    BY <2>2 DEF TimerTick, Undefined, vars
  <2>3. CASE \E fd \in Fds : Peer(fd)
    BY <2>3, PeerUnchanged
  <2> QED BY <2>1, <2>2, <2>3
<1>3. Maps /\ Live
  <2>1. CASE \E t \in running : TaskLeave(t)
    <3>1. UNCHANGED req /\ Maps
      BY <1>1, <2>1 DEF TaskLeave, Maps, Connection
    <3> QED BY <3>1, Unchanged, SteadyTends
  <2>2. CASE \E t \in running : TaskInactive(t)
    <3>1. UNCHANGED conn
      BY <2>2 DEF TaskInactive
    <3> QED BY <2>2, <3>1, InactiveSteady, Unchanged, SteadyTends
  <2>3. CASE TaskStart \/ TaskFault \/ \E t \in running : TaskPush(t)
    BY <2>3, Unchanged, SteadyTends DEF TaskStart, TaskFault, TaskPush
  <2>4. CASE TimerTick \/ Undefined \/ UNCHANGED vars
    BY <2>4, Unchanged, SteadyTends DEF TimerTick, Undefined, vars
  <2>5. CASE \E fd \in Fds : Peer(fd)
    BY <2>5, PeerUnchanged, Unchanged, SteadyTends
  <2> QED BY <2>1, <2>2, <2>3, <2>4, <2>5 DEF Workers
<1> QED BY <1>2, <1>3, FramesAreKept DEF Tends

-----------------------------------------------------------------------------
(* Steps that change a map, a request or an arena *)

LEMMA ParseTended ==
  ASSUME TypeOK, TypeOK', Tended, NEW a \in Arena, ParseNew(a) \/ ParseKnown(a)
  PROVE  Tended'
<1> DEFINE fd == Top.fd
           id == NextRecord.id
           new == NewRequest(built + 1, fd, conn[fd].serial, id)
           r == IF ParseNew(a) THEN new ELSE req[a]
<1>1. /\ r \in Request
      /\ stack # <<>> /\ Top.pc = "fcgi" /\ fd \in Fds /\ id \in Ids
      /\ \E go \in BOOLEAN : Delivered(a, r, fd, id, go)
      /\ Become([Top EXCEPT !.n = @ + 1])
  BY ParseDelivers
<1>2. UNCHANGED <<g_conns, ws>> /\ fd \in g_conns
  BY <1>1, TopServed DEF ParseNew, ParseKnown, FdPC
<1>3. FramesKept
  <2>1. Top \in StackFrame
    BY <1>1, TopServed
  <2>2. ServesConn([Top EXCEPT !.n = @ + 1])
    BY <1>2, <2>1 DEF ServesConn, StackFrame, FrameOf
  <2> QED BY <1>1, <2>2, FramesAreKept
<1>4. /\ SameRequest(r, req'[a]) /\ \A b \in Arena \ {a} : req'[b] = req[b]
      /\ \A gd \in Fds, i \in Ids : conn'[gd].requests[i] =
           IF gd = fd /\ i = id THEN a ELSE conn[gd].requests[i]
      /\ \A gd \in Fds : conn'[gd].serial = conn[gd].serial
  <2> HIDE DEF r, fd, id
  <2> QED BY <1>1 DEF Delivered
<1>5. \A b \in Arena : req[b].live => SameRequest(req[b], req'[b])
  <2>1. ParseNew(a) => ~req[a].live
    BY DEF Tended, Held, ParseNew, Get, FirstFree, FreeArenas
  <2>2. \A b \in Arena : SameRequest(req[b], req[b])
    BY DEF SameRequest
  <2> HIDE DEF new, fd, id
  <2> QED BY <1>4, <2>1, <2>2
<1>6. ASSUME ParseNew(a)
      PROVE  req'[a].live /\ req'[a].conn_ptr = fd /\ req'[a].id = id
               /\ req'[a].cserial = conn[fd].serial
  <2>1. new.live /\ new.conn_ptr = fd /\ new.id = id /\ new.cserial = conn[fd].serial
    BY DEF NewRequest
  <2> HIDE DEF new, fd, id
  <2> QED BY <1>4, <1>6, <2>1 DEF SameRequest
<1>7. Served'
  BY <1>2, <1>3 DEF Tended, Served, FramesKept, ServesConn
<1>8. Held'
  <2>1. CASE ParseNew(a)
    <3>1. ~in_use[a] /\ in_use' = [in_use EXCEPT ![a] = TRUE] /\ in_use \in [Arena -> BOOLEAN]
      BY <2>1 DEF ParseNew, Get, FirstFree, FreeArenas, TypeOK, PoolTypeOK
    <3>2. a \notin ws
      BY <3>1 DEF Tended, Held
    <3> HIDE DEF r
    <3> QED BY <1>2, <1>4, <3>1, <3>2 DEF Tended, Held
  <2>2. CASE ~ParseNew(a)
    <3>1. UNCHANGED in_use /\ r = req[a]
      BY <2>2 DEF ParseKnown
    <3> HIDE DEF r
    <3> QED BY <1>2, <1>4, <3>1 DEF Tended, Held, SameRequest
  <2> QED BY <2>1, <2>2
<1>9. ASSUME NEW gd \in g_conns, NEW i \in Ids, conn'[gd].requests[i] # NoArena
      PROVE  EntryLives(gd, i)' \/ \E f \in Frames' : Dooms(f, gd, i)
  <2>1. gd \in Fds /\ conn[gd].requests[i] \in Arena \cup {NoArena}
    BY DEF TypeOK, ObjTypeOK, Connection
  <2>2. CASE gd = fd /\ i = id /\ ParseNew(a)
    <3> HIDE DEF fd, id, r
    <3>1. conn'[gd].requests[i] = a /\ conn'[gd].serial = conn[gd].serial
      BY <1>4, <2>1, <2>2
    <3> QED BY <1>6, <2>2, <3>1 DEF EntryLives
  <2>3. CASE ~(gd = fd /\ i = id /\ ParseNew(a))
    <3>1. conn'[gd].requests[i] = conn[gd].requests[i] /\ conn'[gd].serial = conn[gd].serial
      <4>1. ~ParseNew(a) => conn[fd].requests[id] = a
        BY DEF ParseKnown, EntryOf
      <4> HIDE DEF fd, id, r
      <4> QED BY <1>4, <2>1, <2>3, <4>1
    <3> HIDE DEF fd, id, r
    <3>2. CASE EntryLives(gd, i)
      BY <1>5, <1>9, <2>1, <3>1, <3>2 DEF EntryLives, SameRequest
    <3>3. CASE ~EntryLives(gd, i)
      <4>1. PICK f \in Frames : Dooms(f, gd, i)
        BY <1>9, <3>1, <3>3 DEF Tended, Entries
      <4> QED BY <1>3, <4>1 DEF FramesKept, Dooms
    <3> QED BY <3>2, <3>3
  <2> QED BY <2>2, <2>3
<1> QED BY <1>2, <1>7, <1>8, <1>9 DEF Tended, Entries

\* A loop releases the request of an entry that lives, and dooms the entry.
LEMMA ReleaseTended ==
  ASSUME TypeOK, TypeOK', Tended, stack # <<>>, NEW fd \in g_conns, NEW id \in Ids,
         NEW a \in Arena, a = conn[fd].requests[id], EntryLives(fd, id),
         NEW under \in StackFrame, ServesConn(under), Dooms(under, fd, id),
         \A gd \in g_conns, i \in Ids : Dooms(Top, gd, i) => Dooms(under, gd, i),
         ReleaseRequest(a, under)
  PROVE  Tended'
<1>1. /\ UNCHANGED <<g_conns, conn, ws>> /\ CallFrom(under, WaitingFrames)
      /\ req' = [req EXCEPT ![a] = Destroyed(@)] /\ Release(a)
  BY DEF ReleaseRequest
<1>2. /\ req \in [Arena -> Request] /\ in_use \in [Arena -> BOOLEAN]
      /\ g_conns \subseteq Fds /\ conn \in [Fds -> Connection]
  BY DEF TypeOK, ObjTypeOK, PoolTypeOK
<1>3. ~req'[a].live /\ \A b \in Arena \ {a} : req'[b] = req[b]
  BY <1>1, <1>2 DEF Destroyed, NewRequest
<1>4. /\ \A f \in Frames' : f = under \/ f \in Below \/ f.pc = "waiting"
      /\ under \in Frames' /\ Below \subseteq Frames' /\ Frames = {Top} \cup Below
  <2>1. CASE WaitingFrames = <<>>
    <3>1. CallFrom(under, <<>>)
      BY <1>1, <2>1
    <3> QED BY <3>1, StackFrames
  <2>2. CASE WaitingFrames # <<>>
    <3> DEFINE k == available_count'
               m == Len(g_waiting_conns)
               g == [Frame("waiting", NoFd) EXCEPT !.n = k, !.m = m]
    <3>1. WaitingFrames = <<g>>
      BY <2>2 DEF WaitingFrames
    <3>2. CallFrom(under, <<g>>)
      BY <1>1, <3>1
    <3> HIDE DEF k, m
    <3>3. g.pc = "waiting"
      BY DEF Frame
    <3> HIDE DEF g
    <3>4. g \in StackFrame
      BY <3>2, IntoStack
    <3>5. Frames' = {under, g} \cup Below
      BY <3>2, <3>4, StackFrames
    <3> QED BY <3>3, <3>5, StackFrames
  <2> QED BY <2>1, <2>2
<1>5. Served'
  <2>1. ASSUME NEW f \in Frames' PROVE ServesConn(f)
    BY <1>4, <2>1 DEF Tended, Served, ServesConn, FdPC
  <2> QED BY <1>1, <2>1 DEF Served, ServesConn
<1>6. Held'
  <2>1. a \notin ws
    BY DEF EntryLives, Tended, Held
  <2>2. \A b \in Arena \ {a} : in_use'[b] = in_use[b]
    BY <1>1, <1>2 DEF Release
  <2> QED BY <1>1, <1>3, <2>1, <2>2 DEF Tended, Held
<1>7. ASSUME NEW gd \in g_conns, NEW i \in Ids, conn[gd].requests[i] # NoArena
      PROVE  EntryLives(gd, i)' \/ \E f \in Frames' : Dooms(f, gd, i)
  <2>1. CASE gd = fd /\ i = id
    BY <1>4, <2>1
  <2>2. CASE ~(gd = fd /\ i = id) /\ EntryLives(gd, i)
    <3>1. conn[gd].requests[i] \in Arena \ {a}
      BY <1>2, <1>7, <2>2 DEF EntryLives, Connection
    <3>2. req'[conn[gd].requests[i]] = req[conn[gd].requests[i]]
      BY <1>3, <3>1
    <3> QED BY <1>1, <2>2, <3>2 DEF EntryLives
  <2>3. CASE ~EntryLives(gd, i)
    <3>1. PICK f \in Frames : Dooms(f, gd, i)
      BY <1>7, <2>3 DEF Tended, Entries
    <3> QED BY <1>4, <3>1
  <2> QED BY <2>1, <2>2, <2>3
<1> QED BY <1>1, <1>5, <1>6, <1>7 DEF Tended, Entries

LEMMA SweepTended ==
  ASSUME TypeOK, TypeOK', Loops, Tended, NEW id \in Ids, SweepFree(id)
  PROVE  Tended'
<1> DEFINE fd == Top.fd
           a == conn[fd].requests[id]
           under == [Top EXCEPT !.pc = "erase", !.id = id, !.ids = @ \ {id}]
<1>1. /\ stack # <<>> /\ Top.pc = "sweep" /\ a # NoArena /\ ReleaseRequest(a, under)
  BY DEF SweepFree, At, Top
<1>2. Top \in StackFrame /\ fd \in g_conns /\ fd \in Fds /\ Below = {} /\ Frames = {Top} \cup Below
  BY <1>1, TopServed, AloneFrames, StackFrames DEF FdPC, TypeOK, ObjTypeOK
<1>3. a \in Arena
  BY <1>1, <1>2 DEF TypeOK, ObjTypeOK, Connection
<1>4. EntryLives(fd, id)
  BY <1>1, <1>2 DEF Tended, Entries, Dooms
<1>5. under.pc = "erase" /\ under.id = id /\ under.fd = fd
  BY <1>2 DEF StackFrame, FrameOf
<1>6. under \in StackFrame
  BY <1>1, <1>2 DEF StackFrame, FrameOf, FdPC, LoopPC
<1>7. \A gd, i : ~Dooms(Top, gd, i)
  BY <1>1 DEF Dooms
<1> HIDE DEF under, a, fd
<1>8. ServesConn(under) /\ Dooms(under, fd, id)
  BY <1>2, <1>5 DEF ServesConn, Dooms
<1> QED BY <1>1, <1>2, <1>3, <1>4, <1>6, <1>7, <1>8, ReleaseTended DEF a

LEMMA CleanupTended ==
  ASSUME TypeOK, TypeOK', Loops, Tended, NEW id \in Ids, CleanupOne(id)
  PROVE  Tended'
<1> DEFINE fd == Top.fd
           a == conn[fd].requests[id]
           under == [Top EXCEPT !.ids = @ \ {id}]
<1>1. stack # <<>> /\ Top.pc = "cleanup" /\ id \in Top.ids /\ ReleaseRequest(a, under)
  BY DEF CleanupOne, At, Top
<1>2. /\ Top \in StackFrame /\ fd \in g_conns /\ fd \in Fds /\ Frames = {Top} \cup Below
      /\ \A f \in Below : f.pc \in {"closing", "housekeeping"}
  BY <1>1, TopServed, CleanupFrames, StackFrames DEF FdPC, TypeOK, ObjTypeOK
<1>3. a \in Arena /\ a # NoArena
  <2>1. VisitsMapped(Top, conn)
    BY <1>1, TopFrame
  <2>2. a # NoArena
    BY <1>1, <2>1 DEF VisitsMapped, Mapped
  <2> QED BY <1>2, <2>2 DEF TypeOK, ObjTypeOK, Connection
<1>4. EntryLives(fd, id)
  <2>1. \A f \in Frames : ~Dooms(f, fd, id)
    BY <1>1, <1>2 DEF Dooms
  <2> QED BY <1>2, <1>3, <2>1 DEF Tended, Entries
<1>5. under.pc = "cleanup" /\ under.ids = Top.ids \ {id} /\ under.fd = fd
  BY <1>1, <1>2 DEF StackFrame, FrameOf
<1>6. under \in StackFrame
  BY <1>2 DEF StackFrame, FrameOf
<1>7. \A gd, i : Dooms(Top, gd, i) => Dooms(under, gd, i)
  <2> HIDE DEF under
  <2> QED BY <1>1, <1>5 DEF Dooms
<1> HIDE DEF under, a, fd
<1>8. ServesConn(under) /\ Dooms(under, fd, id)
  BY <1>2, <1>5 DEF ServesConn, Dooms
<1> QED BY <1>1, <1>2, <1>3, <1>4, <1>6, <1>7, <1>8, ReleaseTended DEF a

LEMMA EraseTended ==
  ASSUME TypeOK, TypeOK', Tended, SweepErase
  PROVE  Tended'
<1> DEFINE fd == Top.fd
           id == Top.id
           f == [Top EXCEPT !.pc = "sweep", !.id = NoId]
<1>1. /\ stack # <<>> /\ Top.pc = "erase" /\ Become(f) /\ UNCHANGED <<g_conns, req, in_use, ws>>
      /\ conn' = [conn EXCEPT ![fd].requests[id] = NoArena]
  BY DEF SweepErase, At, Top
<1>2. Top \in StackFrame /\ fd \in g_conns /\ fd \in Fds /\ conn \in [Fds -> Connection]
  BY <1>1, TopServed DEF FdPC, TypeOK, ObjTypeOK
<1>3. f.pc = "sweep" /\ f.fd = fd
  BY <1>2 DEF StackFrame, FrameOf
<1> HIDE DEF f
<1>4. Frames' = {f} \cup Below /\ Frames = {Top} \cup Below
  BY <1>1, IntoStack, StackFrames
<1>5. \A gd \in Fds, i \in Ids :
        /\ conn'[gd].serial = conn[gd].serial
        /\ conn'[gd].requests[i] =
             IF gd = fd /\ i = id THEN NoArena ELSE conn[gd].requests[i]
  <2> HIDE DEF fd, id
  <2> QED BY <1>1, <1>2 DEF Connection
<1>6. Served' /\ Held'
  BY <1>1, <1>2, <1>3, <1>4 DEF Tended, Served, Held, ServesConn
<1>7. ASSUME NEW gd \in g_conns, NEW i \in Ids, conn'[gd].requests[i] # NoArena
      PROVE  EntryLives(gd, i)' \/ \E g \in Frames' : Dooms(g, gd, i)
  <2>1. gd \in Fds
    BY DEF TypeOK, ObjTypeOK
  <2>2. /\ ~(gd = fd /\ i = id) /\ conn'[gd].requests[i] = conn[gd].requests[i]
        /\ conn'[gd].serial = conn[gd].serial
    <3> HIDE DEF fd, id
    <3> QED BY <1>5, <1>7, <2>1
  <2>3. CASE EntryLives(gd, i)
    BY <1>1, <2>2, <2>3 DEF EntryLives
  <2>4. CASE ~EntryLives(gd, i)
    <3>1. PICK g \in Frames : Dooms(g, gd, i)
      BY <1>7, <2>2, <2>4 DEF Tended, Entries
    <3>2. g # Top
      BY <1>1, <2>2, <3>1 DEF Dooms
    <3> QED BY <1>4, <3>1, <3>2
  <2> QED BY <2>3, <2>4
<1> QED BY <1>1, <1>6, <1>7 DEF Tended, Entries

LEMMA CloseTended ==
  ASSUME TypeOK, Loops, Tended, CloseFd
  PROVE  Tended'
<1>1. /\ stack # <<>> /\ Top.pc = "cleanup" /\ Return /\ UNCHANGED <<req, in_use, ws>>
      /\ conn' = [conn EXCEPT ![Top.fd] = NewConnection(0)]
      /\ g_conns' = g_conns \ {Top.fd}
  BY DEF CloseFd, At, Top
<1>2. /\ g_conns \subseteq Fds /\ conn \in [Fds -> Connection]
      /\ Frames = {Top} \cup Below /\ Frames' = Below
      /\ \A f \in Below : f.pc \in {"closing", "housekeeping"}
  BY <1>1, CleanupFrames, StackFrames DEF TypeOK, ObjTypeOK
<1>3. Served' /\ Held'
  BY <1>1, <1>2 DEF Tended, Served, Held, ServesConn, FdPC
<1>4. ASSUME NEW gd \in g_conns', NEW i \in Ids, conn'[gd].requests[i] # NoArena
      PROVE  EntryLives(gd, i)'
  <2>1. gd \in g_conns /\ gd # Top.fd /\ conn'[gd] = conn[gd]
    BY <1>1, <1>2
  <2>2. \A f \in Frames : ~Dooms(f, gd, i)
    BY <1>2, <2>1 DEF Dooms
  <2> QED BY <1>1, <1>4, <2>1, <2>2 DEF Tended, Entries, EntryLives
<1> QED BY <1>3, <1>4 DEF Tended, Entries

LEMMA AcceptTended ==
  ASSUME TypeOK, TypeOK', Tended, NEW fd \in Fds, AcceptOne(fd)
  PROVE  Tended'
<1>1. /\ stack # <<>> /\ Top.pc = "accept" /\ (UNCHANGED stack \/ Return)
      /\ UNCHANGED <<req, in_use, ws>>
      /\ conn' = [conn EXCEPT ![fd] = NewConnection(sock[fd].serial)]
      /\ g_conns' = g_conns \cup {fd}
  BY DEF AcceptOne, At, Top
<1>2. FramesKept /\ g_conns \subseteq Fds /\ conn \in [Fds -> Connection]
  BY <1>1, FramesAreKept DEF TypeOK, ObjTypeOK
<1>3. Served' /\ Held'
  BY <1>1, <1>2 DEF Tended, Served, Held, ServesConn, FramesKept
<1>4. ASSUME NEW gd \in g_conns', NEW i \in Ids, conn'[gd].requests[i] # NoArena
      PROVE  EntryLives(gd, i)' \/ \E f \in Frames' : Dooms(f, gd, i)
  <2>1. gd # fd
    <3> SUFFICES ASSUME gd = fd PROVE FALSE
      OBVIOUS
    <3>1. conn'[gd] = NewConnection(sock[fd].serial)
      BY <1>1, <1>2
    <3> QED BY <1>4, <3>1 DEF NewConnection
  <2>2. gd \in g_conns /\ conn'[gd] = conn[gd]
    BY <1>1, <1>2, <2>1
  <2>3. CASE EntryLives(gd, i)
    BY <1>1, <2>2, <2>3 DEF EntryLives
  <2>4. CASE ~EntryLives(gd, i)
    <3>1. PICK f \in Frames : Dooms(f, gd, i)
      BY <1>4, <2>2, <2>4 DEF Tended, Entries
    <3> QED BY <1>2, <3>1 DEF FramesKept, Dooms
  <2> QED BY <2>3, <2>4
<1> QED BY <1>3, <1>4 DEF Tended, Entries

LEMMA WsTended ==
  ASSUME TypeOK, Tended, WsThreads
  PROVE  Tended'
<1>1. /\ UNCHANGED <<stack, g_conns, conn, req>>
      /\ \E a \in Arena : WsGet(a) \/ WsRelease(a)
  BY DEF WsThreads, WsGet, WsRelease
<1>2. Served' /\ Entries'
  BY <1>1 DEF Tended, Served, Entries, EntryLives, ServesConn, Frames, Items
<1>3. in_use \in [Arena -> BOOLEAN] /\ ws \subseteq Arena
  BY DEF TypeOK, PoolTypeOK, EnvTypeOK
<1>4. Held'
  <2>1. PICK a \in Arena : WsGet(a) \/ WsRelease(a)
    BY <1>1
  <2>2. CASE WsGet(a)
    BY <1>1, <1>3, <2>2 DEF WsGet, Get, FirstFree, FreeArenas, Tended, Held
  <2>3. CASE WsRelease(a)
    BY <1>1, <1>3, <2>3 DEF WsRelease, Release, Tended, Held
  <2> QED BY <2>1, <2>2, <2>3
<1> QED BY <1>2, <1>4 DEF Tended

\* Tended is inductive, given Loops.
LEMMA TendedNext ==
  ASSUME TypeOK, TypeOK', Loops, Tended, [Next]_vars
  PROVE  Tended'
<1>1. CASE LoopStep \/ PendingStep \/ HousekeepingStep \/ WaitingStep
  BY <1>1, LoopTends, PendingTends, ClosingTends, WaitingTends, TendsTended
<1>2. CASE AcceptStep
  BY <1>2, AcceptTended, PendingTends, TendsTended DEF AcceptStep
<1>3. CASE ParseStep
  BY <1>3, ParseTends, ParseTended, TendsTended DEF ParseStep
<1>4. CASE HandleStep
  BY <1>4, HandleTends, SweepTended, EraseTended, TendsTended DEF HandleStep
<1>5. CASE CloseStep
  BY <1>5, ClosingTends, CleanupTended, CloseTended, TendsTended DEF CloseStep
<1>6. CASE WsThreads
  BY <1>6, WsTended
<1>7. CASE Workers \/ TimerTick \/ Undefined \/ UNCHANGED vars \/ \E fd \in Fds : Peer(fd)
  BY <1>7, OthersTend, TendsTended
<1> QED BY <1>1, <1>2, <1>3, <1>4, <1>5, <1>6, <1>7 DEF Next, IoThread

LEMMA InitTended == Init => Tended
<1> SUFFICES ASSUME Init PROVE Tended
  OBVIOUS
<1>1. Frames = {}
  BY FramesAre DEF Init, Frames
<1>2. \A a \in Arena : ~req[a].live /\ a \notin ws
  BY DEF Init, NoRequest, Destroyed, NewRequest
<1> QED BY <1>1, <1>2 DEF Init, Tended, Served, Entries, Held

(***************************************************************************)
(* Between events every entry of a requests map points to a living request *)
(* of its own connection and id: the sweep and the cleanup erase what they *)
(* release before anything else looks it up, whatever the calls nested in  *)
(* them do.                                                                *)
(***************************************************************************)
THEOREM LiveEntries == Spec => []EntriesAreLive
<1>1. Init => Tended
  BY InitTended
<1>2. TypeOK /\ TypeOK' /\ Loops /\ Tended /\ [Next]_vars => Loops' /\ Tended'
  BY LoopsNext, TendedNext
<1>3. TypeOK /\ Tended => EntriesAreLive
  <2> SUFFICES ASSUME TypeOK, Tended, Idle PROVE EntriesAreLive
    BY DEF EntriesAreLive
  <2>1. Frames = {}
    BY FramesAre DEF Idle, Frames
  <2>2. ASSUME NEW fd \in g_conns, NEW id \in Ids, conn[fd].requests[id] # NoArena
        PROVE  EntryLives(fd, id)
    BY <2>1, <2>2 DEF Tended, Entries
  <2> QED BY <2>2 DEF EntriesAreLive, EntryLives, Mapped, ConnGone
<1> QED BY <1>1, <1>2, <1>3, InitLoops, TypeCorrect, PTL DEF Spec

-----------------------------------------------------------------------------
(* The waiting list *)

\* The frames that parse: process_fcgi and the functions that called it.
ParsePC == {"fcgi", "parsed", "waited"}

Listed(fd) == \E i \in 1 .. Len(g_waiting_conns) : g_waiting_conns[i] = fd

\* process_fcgi was called for the connection of the frame below.
Nested ==
  At("fcgi") => \E f \in Below : f.pc \in {"parsed", "waited"} /\ f.fd = Top.fd

\* A connection that handle_io found waiting is on the list already.
Was == \A f \in Frames : f.pc = "parsed" /\ f.was => conn[f.fd].closed \/ Listed(f.fd)

Waiting == Nested /\ Was /\ WaitingIsListed

\* The top of the stack that a step leaves.
LEMMA NewTop ==
  ASSUME TypeOK, NEW f \in StackFrame, NEW g \in StackFrame
  PROVE  /\ Call(<<g>>) => stack' # <<>> /\ Top' = g
         /\ stack # <<>> /\ Become(f) => stack' # <<>> /\ Top' = f /\ Below' = Below
         /\ stack # <<>> /\ CallFrom(f, <<>>) => stack' # <<>> /\ Top' = f
         /\ stack # <<>> /\ CallFrom(f, <<g>>) => stack' # <<>> /\ Top' = g /\ f \in Below'
<1>1. stack \in Seq(StackFrame) /\ (stack # <<>> => Tail(stack) \in Seq(StackFrame))
  BY DEF TypeOK, IoTypeOK
<1>2. \A s \in Seq(StackFrame), x \in StackFrame :
        /\ <<x>> \o s # <<>> /\ Head(<<x>> \o s) = x /\ Tail(<<x>> \o s) = s
        /\ <<x>> \o s \in Seq(StackFrame)
  <2>1. ASSUME NEW s \in Seq(StackFrame), NEW x \in StackFrame
        PROVE  /\ <<x>> \o s # <<>> /\ Head(<<x>> \o s) = x
               /\ <<x>> \o s \in Seq(StackFrame)
    OBVIOUS
  <2>2. ASSUME NEW s \in Seq(StackFrame), NEW x \in StackFrame
        PROVE  Tail(<<x>> \o s) = s
    OBVIOUS
  <2> QED BY <2>1, <2>2
<1> DEFINE rest == Tail(stack)
<1>3. Call(<<g>>) => stack' # <<>> /\ Top' = g
  BY <1>1, <1>2, Zenon DEF Call, Top
<1>4. stack # <<>> /\ Become(f) => stack' # <<>> /\ Top' = f /\ Below' = Below
  BY <1>1, <1>2, Zenon DEF Become, Top, Below
<1>5. stack # <<>> /\ CallFrom(f, <<>>) => stack' # <<>> /\ Top' = f
  <2>1. \A s \in Seq(StackFrame) : <<>> \o s = s
    OBVIOUS
  <2>2. ASSUME stack # <<>>, CallFrom(f, <<>>) PROVE stack' = <<f>> \o rest
    <3>1. <<>> \o <<f>> \o rest = <<f>> \o rest
      BY <1>1, <2>2
    <3> QED BY <2>2, <3>1 DEF CallFrom
  <2> QED BY <1>1, <1>2, <2>2, Zenon DEF Top
<1>6. ASSUME stack # <<>>, CallFrom(f, <<g>>) PROVE stack' # <<>> /\ Top' = g /\ f \in Below'
  <2> DEFINE s == <<f>> \o rest
  <2>1. s \in Seq(StackFrame) /\ rest \in Seq(StackFrame)
    BY <1>1, <1>2, <1>6
  <2>2. stack' = <<g>> \o s
    BY <1>1, <1>6 DEF CallFrom
  <2>3. f \in Items(s)
    <3> HIDE DEF rest
    <3> QED BY <2>1, FramesAre
  <2> HIDE DEF s
  <2>4. stack' # <<>> /\ Head(stack') = g /\ Tail(stack') = s
    BY <1>2, <2>1, <2>2, Zenon
  <2> QED BY <2>3, <2>4 DEF Top, Below
<1> QED BY <1>3, <1>4, <1>5, <1>6

\* process_fcgi calls nothing.
LEMMA FcgiOnTop ==
  ASSUME TypeOK, Loops, stack # <<>>
  PROVE  \A f \in Below : f.pc # "fcgi"
<1> SUFFICES ASSUME NEW f \in Below, f.pc = "fcgi" PROVE FALSE
  OBVIOUS
<1>1. stack \in Seq(StackFrame) /\ Tail(stack) \in Seq(StackFrame)
  BY DEF TypeOK, IoTypeOK
<1>2. PICK i \in 1 .. Len(Tail(stack)) : f = Tail(stack)[i]
  BY DEF Below, Items
<1>3. i \in 1 .. Len(stack) - 1 /\ stack[i + 1] = f
  BY <1>1, <1>2
<1>4. <<stack[i].pc, stack[i + 1].pc>> \in Calls
  BY <1>3 DEF Loops, StackShape
<1> QED BY <1>3, <1>4 DEF Calls

\* A step that neither starts nor ends the parsing of a connection.
Quiet ==
  /\ \A f \in Frames : f.pc \in ParsePC => f \in Frames'
  /\ \A f \in Frames' : f.pc = "parsed" => f \in Frames
  /\ Nested'

LEMMA StaysNested ==
  ASSUME TypeOK, TypeOK', Loops', stack' # <<>> => Top'.pc # "fcgi"
  PROVE  Nested'
BY DEF Nested, At, Top

LEMMA QuietSteps ==
  ASSUME TypeOK, TypeOK', Loops, Loops', Nested
  PROVE  /\ UNCHANGED stack => Quiet
         /\ \A g : Call(<<g>>) /\ g.pc \notin {"fcgi", "parsed"} => Quiet
         /\ stack # <<>> /\ Top.pc \notin ParsePC =>
              /\ Return => Quiet
              /\ \A f : (Become(f) \/ CallFrom(f, <<>>)) /\ f.pc \notin {"fcgi", "parsed"} => Quiet
              /\ \A f, g : CallFrom(f, <<g>>) /\ f.pc \notin {"fcgi", "parsed"}
                             /\ g.pc \notin {"fcgi", "parsed"} => Quiet
<1>1. UNCHANGED stack => Quiet
  BY CallFrames DEF Quiet, Nested, At, Top, Below
<1>2. ASSUME NEW g, Call(<<g>>), g.pc \notin {"fcgi", "parsed"} PROVE Quiet
  <2>1. g \in StackFrame
    BY <1>2, IntoStack
  <2>2. Frames' = {g} \cup Frames /\ Top' = g
    BY <1>2, <2>1, CallFrames, NewTop
  <2> QED BY <1>2, <2>2, StaysNested DEF Quiet
<1>3. ASSUME stack # <<>>, Top.pc \notin ParsePC
      PROVE  /\ Return => Quiet
             /\ \A f : (Become(f) \/ CallFrom(f, <<>>)) /\ f.pc \notin {"fcgi", "parsed"} => Quiet
             /\ \A f, g : CallFrom(f, <<g>>) /\ f.pc \notin {"fcgi", "parsed"}
                            /\ g.pc \notin {"fcgi", "parsed"} => Quiet
  <2>1. Frames = {Top} \cup Below
    BY <1>3, StackFrames
  <2>2. ASSUME Return PROVE Quiet
    <3>1. Frames' = Below
      BY <1>3, <2>2, StackFrames
    <3>2. stack' # <<>> => Top'.pc # "fcgi"
      <4> SUFFICES ASSUME stack' # <<>> PROVE Top'.pc # "fcgi"
        OBVIOUS
      <4>1. Top' \in Frames'
        <5>1. stack' \in Seq(StackFrame)
          BY DEF TypeOK, IoTypeOK
        <5>2. 1 \in 1 .. Len(stack') /\ Head(stack') = stack'[1]
          BY <5>1
        <5> QED BY <5>2 DEF Frames, Items, Top
      <4> QED BY <1>3, <3>1, <4>1, FcgiOnTop
    <3> QED BY <1>3, <2>1, <3>1, <3>2, StaysNested DEF Quiet
  <2>3. ASSUME NEW f, Become(f) \/ CallFrom(f, <<>>), f.pc \notin {"fcgi", "parsed"} PROVE Quiet
    <3>1. f \in StackFrame
      BY <1>3, <2>3, IntoStack
    <3>2. Frames' = {f} \cup Below /\ Top' = f
      BY <1>3, <2>3, <3>1, StackFrames, NewTop
    <3> QED BY <1>3, <2>1, <2>3, <3>2, StaysNested DEF Quiet
  <2>4. ASSUME NEW f, NEW g, CallFrom(f, <<g>>), f.pc \notin {"fcgi", "parsed"},
               g.pc \notin {"fcgi", "parsed"}
        PROVE  Quiet
    <3>1. f \in StackFrame /\ g \in StackFrame
      BY <1>3, <2>4, IntoStack
    <3>2. Frames' = {f, g} \cup Below /\ Top' = g
      BY <1>3, <2>4, <3>1, StackFrames, NewTop
    <3> QED BY <1>3, <2>1, <2>4, <3>2, StaysNested DEF Quiet
  <2> QED BY <2>2, <2>3, <2>4
<1> QED BY <1>1, <1>2, <1>3

\* Nobody starts or stops waiting, and a connection that is closed stays so.
SameWaiting ==
  \A fd \in Fds : /\ conn'[fd].waiting_for_arena = conn[fd].waiting_for_arena
                  /\ conn[fd].closed => conn'[fd].closed

Waits == SameWaiting /\ Quiet /\ UNCHANGED <<g_conns, g_waiting_conns>>

LEMMA ParsedFd ==
  ASSUME TypeOK, NEW f \in Frames, f.pc = "parsed"
  PROVE  f.fd \in Fds
<1>1. f \in StackFrame
  BY DEF Frames, Items, TypeOK, IoTypeOK
<1> QED BY <1>1 DEF StackFrame, FrameOf, LoopPC

LEMMA BeingParsedFrames ==
  \A fd : BeingParsed(fd) <=> \E f \in Frames : f.fd = fd /\ f.pc \in ParsePC
BY DEF BeingParsed, Frames, Items, ParsePC

LEMMA BeingParsedFramesNext ==
  \A fd : BeingParsed(fd)' <=> \E f \in Frames' : f.fd = fd /\ f.pc \in ParsePC
BY DEF BeingParsed, Frames, Items, ParsePC

LEMMA WaitsWaiting ==
  ASSUME TypeOK, Waiting, Waits
  PROVE  Waiting'
<1>1. g_conns \subseteq Fds
  BY DEF TypeOK, ObjTypeOK
<1>2. Was'
  BY ParsedFd DEF Waiting, Waits, Was, Quiet, SameWaiting, Listed
<1>3. ASSUME NEW fd \in g_conns, BeingParsed(fd) PROVE BeingParsed(fd)'
  BY <1>3, BeingParsedFrames, BeingParsedFramesNext DEF Waits, Quiet
<1>4. WaitingIsListed'
  BY <1>1, <1>3 DEF Waiting, Waits, WaitingIsListed, SameWaiting
<1> QED BY <1>2, <1>4 DEF Waiting, Waits, Quiet

\* Conns says more.
LEMMA SteadyWaiting ==
  /\ Conns => SameWaiting
  /\ UNCHANGED conn => SameWaiting
BY DEF Conns, SteadyConn, SameWaiting

\* What handle_io calls first.
LEMMA IoEventStack ==
  ASSUME TypeOK, NEW e \in batch, IoEvent(e)
  PROVE  /\ stack = <<>> /\ e.fd \in g_conns /\ e.fd \in Fds
         /\ \/ ~e.in /\ \E x : x.pc \in {"outflush", "sweep"} /\ Call(<<x>>)
            \/ \E x : /\ x.pc = "parsed" /\ x.fd = e.fd
                      /\ x.was = conn[e.fd].waiting_for_arena
                      /\ \/ stack' = <<x>> /\ conn'[e.fd].closed
                         \/ stack' = <<Frame("fcgi", e.fd)>> \o <<x>>
<1> DEFINE fd == e.fd
           shut == conn[fd].closed \/ e.hup \/ (e.in /\ sock[fd].eof)
           in == IF e.in THEN Joined(conn[fd].in_buf, sock[fd].rx) ELSE conn[fd].in_buf
           c == [conn[fd] EXCEPT !.closed = shut, !.in_buf = in]
           w == c.waiting_for_arena
           parsed == [Frame("parsed", fd) EXCEPT !.was = w, !.out = e.out]
           next == IF e.out THEN Frame("outflush", fd) ELSE SweepFrame(fd)
<1>1. /\ fd \in g_conns /\ stack = <<>>
      /\ Call(IF e.in THEN ProcessFcgi(c, fd) \o <<parsed>> ELSE <<next>>)
  BY DEF IoEvent, Dispatching
<1>2. fd \in Fds /\ conn[fd] \in Connection
  BY <1>1 DEF TypeOK, ObjTypeOK
<1>3. w = conn[fd].waiting_for_arena
  <2> HIDE DEF fd, shut, in
  <2> QED BY <1>2 DEF Connection
<1>4. next.pc \in {"outflush", "sweep"}
  BY DEF Frame, SweepFrame
<1>5. parsed.pc = "parsed" /\ parsed.fd = fd /\ parsed.was = w
  <2> HIDE DEF w, fd
  <2> QED BY DEF Frame
<1> DEFINE g == Frame("fcgi", fd)
<1>6. (ProcessFcgi(c, fd) = <<>> /\ c.closed) \/ ProcessFcgi(c, fd) = <<g>>
  BY DEF ProcessFcgi
<1>7. conn'[fd] = c
  <2>1. conn' = [conn EXCEPT ![fd] = c] /\ conn \in [Fds -> Connection]
    BY DEF IoEvent, TypeOK, ObjTypeOK
  <2> HIDE DEF c, fd
  <2> QED BY <1>2, <2>1
<1> HIDE DEF next, parsed, g, c, fd, w
<1>8. CASE e.in
  <2>1. \/ stack' = (<<>> \o <<parsed>>) \o <<>> /\ c.closed
        \/ stack' = (<<g>> \o <<parsed>>) \o <<>>
    <3>1. stack' = (ProcessFcgi(c, fd) \o <<parsed>>) \o <<>>
      BY <1>1, <1>8, Zenon DEF Call
    <3> QED BY <1>6, <3>1, Zenon
  <2>2. /\ (<<>> \o <<parsed>>) \o <<>> = <<parsed>>
        /\ (<<g>> \o <<parsed>>) \o <<>> = <<g>> \o <<parsed>>
    <3> DEFINE S == {parsed, g}
    <3>1. parsed \in S /\ g \in S
      OBVIOUS
    <3> HIDE DEF S
    <3> QED BY <3>1, SmallStacks
  <2>3. \/ stack' = <<parsed>> /\ conn'[fd].closed
        \/ stack' = <<g>> \o <<parsed>>
    BY <1>7, <2>1, <2>2, Zenon
  <2> QED BY <1>1, <1>2, <1>3, <1>5, <2>3 DEF fd, g
<1>9. CASE ~e.in
  <2>1. Call(<<next>>)
    BY <1>1, <1>9
  <2>2. \E x : x.pc \in {"outflush", "sweep"} /\ Call(<<x>>)
    <3> WITNESS next
    <3> QED BY <1>4, <2>1
  <2> QED BY <1>1, <1>2, <1>9, <2>2 DEF fd
<1> QED BY <1>8, <1>9

\* A sequence with one more in front.
LEMMA Pushed ==
  ASSUME NEW S, NEW s \in Seq(S), NEW x \in S
  PROVE  /\ <<x>> \o s # <<>> /\ Head(<<x>> \o s) = x /\ Tail(<<x>> \o s) = s
         /\ <<x>> \o s \in Seq(S)
<1>1. Tail(<<x>> \o s) = s
  OBVIOUS
<1> QED BY <1>1

LEMMA IoEventWaiting ==
  ASSUME TypeOK, TypeOK', Loops, Loops', Waiting, NEW e \in batch, IoEvent(e)
  PROVE  Waiting'
<1>1. UNCHANGED <<g_conns, g_waiting_conns>> /\ SameWaiting
  BY IoEventSteady, SteadyWaiting DEF IoEvent
<1>2. CASE \E x : x.pc \in {"outflush", "sweep"} /\ Call(<<x>>)
  <2>1. Quiet
    BY <1>2, QuietSteps DEF Waiting
  <2> QED BY <1>1, <2>1, WaitsWaiting DEF Waits
<1>3. ASSUME NEW x, x.pc = "parsed", x.fd = e.fd, x.was = conn[e.fd].waiting_for_arena,
             stack' = <<x>> \/ stack' = <<Frame("fcgi", e.fd)>> \o <<x>>
      PROVE  Waiting'
  <2> DEFINE g == Frame("fcgi", e.fd)
             S == {x, g}
  <2>1. g.pc = "fcgi" /\ g.fd = e.fd /\ stack = <<>> /\ e.fd \in g_conns /\ e.fd \in Fds
    BY IoEventStack DEF Frame
  <2>2. x \in S /\ g \in S
    OBVIOUS
  <2> HIDE DEF S, g
  <2>3. Items(<<x>>) = {x} /\ Items(<<g>> \o <<x>>) = {g, x}
    BY <2>2, FewFrames
  <2>4. Frames' = {x} \/ Frames' = {g, x}
    <3>1. stack' = <<x>> \/ stack' = <<g>> \o <<x>>
      BY <1>3 DEF g
    <3>2. Frames' = Items(stack')
      BY DEF Frames
    <3> HIDE DEF Items
    <3> QED BY <2>3, <3>1, <3>2, Zenon
  <2>5. Nested'
    <3>1. CASE stack' = <<x>>
      <4>1. stack' # <<>> /\ Head(stack') = x
        BY <3>1
      <4> QED BY <1>3, <4>1, StaysNested DEF Top
    <3>2. CASE stack' = <<g>> \o <<x>>
      <4>1. <<x>> \in Seq(S)
        BY <2>2
      <4>2. Top' = g /\ Tail(stack') = <<x>>
        BY <2>2, <3>2, <4>1, Pushed, Zenon DEF Top
      <4>3. Below' = {x}
        BY <2>3, <4>2, Zenon DEF Below
      <4> QED BY <1>3, <2>1, <4>2, <4>3 DEF Nested
    <3> QED BY <1>3, <3>1, <3>2 DEF g
  <2>6. Frames = {}
    BY <2>1, CallFrames
  <2>7. x.was => conn'[e.fd].closed \/ Listed(e.fd)'
    <3>1. conn[e.fd].waiting_for_arena /\ ~conn[e.fd].closed => Listed(e.fd)
      BY <2>1, <2>6, BeingParsedFrames DEF Waiting, WaitingIsListed, Listed
    <3> QED BY <1>1, <1>3, <2>1, <3>1 DEF SameWaiting, Listed
  <2>8. Was'
    BY <1>3, <2>1, <2>4, <2>7 DEF Was
  <2>9. WaitingIsListed'
    <3>1. \A fd : ~BeingParsed(fd)
      BY <2>6, BeingParsedFrames
    <3>2. g_conns \subseteq Fds
      BY DEF TypeOK, ObjTypeOK
    <3> QED BY <1>1, <3>1, <3>2 DEF Waiting, WaitingIsListed, SameWaiting
  <2> QED BY <2>5, <2>8, <2>9 DEF Waiting
<1> QED BY <1>2, <1>3, IoEventStack

LEMMA LoopWaiting ==
  ASSUME TypeOK, TypeOK', Loops, Loops', Waiting, LoopStep
  PROVE  Waiting'
<1>1. CASE EpollWait \/ \E e \in batch : IoStale(e)
  BY <1>1, QuietSteps, SteadyWaiting, WaitsWaiting DEF EpollWait, IoStale, Waits, Waiting
<1>2. CASE \E e \in batch : ListenEvent(e) \/ EventFdEvent(e) \/ TimerEvent(e)
  <2>1. PICK e \in batch : ListenEvent(e) \/ EventFdEvent(e) \/ TimerEvent(e)
    BY <1>2
  <2>2. UNCHANGED <<conn, g_conns, g_waiting_conns>>
    BY <2>1 DEF ListenEvent, EventFdEvent, TimerEvent
  <2>3. UNCHANGED stack \/ \E pc \in LoopPC : Call(<<Frame(pc, NoFd)>>)
    BY <2>1 DEF ListenEvent, EventFdEvent, TimerEvent, LoopPC
  <2>4. \A pc \in LoopPC : Frame(pc, NoFd).pc \notin {"fcgi", "parsed"}
    BY DEF Frame, LoopPC
  <2> QED BY <2>2, <2>3, <2>4, QuietSteps, SteadyWaiting, WaitsWaiting DEF Waits, Waiting
<1>3. CASE \E e \in batch : IoEvent(e)
  BY <1>3, IoEventWaiting
<1> QED BY <1>1, <1>2, <1>3 DEF LoopStep

LEMMA PendingWaiting ==
  ASSUME TypeOK, TypeOK', Loops, Loops', Waiting, PendingStep \/ AcceptDone
  PROVE  Waiting'
<1>1. UNCHANGED <<g_conns, g_waiting_conns>>
  BY DEF PendingStep, SwapPending, PendingAnswer, PendingSkip, PendingFault, PendingDone,
         AcceptDone
<1>2. SameWaiting
  <2>1. CASE PendingAnswer
    BY <2>1, AnswerSteady, SteadyWaiting
  <2>2. CASE ~PendingAnswer
    <3>1. UNCHANGED conn
      BY <2>2 DEF PendingStep, SwapPending, PendingSkip, PendingFault, PendingDone, AcceptDone
    <3> QED BY <3>1, SteadyWaiting
  <2> QED BY <2>1, <2>2
<1>3. Quiet
  <2>1. CASE SwapPending
    <3>1. Frame("pending", NoFd).pc = "pending"
      BY DEF Frame
    <3>2. stack # <<>> /\ Top.pc = "swap" /\ Become(Frame("pending", NoFd))
      BY <2>1 DEF SwapPending, At, Top
    <3> QED BY <3>1, <3>2, QuietSteps DEF ParsePC, Waiting
  <2>2. CASE PendingAnswer \/ PendingSkip \/ PendingFault
    BY <2>2, QuietSteps DEF PendingAnswer, PendingSkip, PendingFault, Waiting
  <2>3. CASE PendingDone \/ AcceptDone
    <3>1. stack # <<>> /\ Top.pc \in {"pending", "accept"} /\ Return
      BY <2>3 DEF PendingDone, AcceptDone, At, Top
    <3> QED BY <3>1, QuietSteps DEF ParsePC, Waiting
  <2> QED BY <2>1, <2>2, <2>3 DEF PendingStep
<1> QED BY <1>1, <1>2, <1>3, WaitsWaiting DEF Waits

\* The connection that is parsed stays the one that the frame below parses.
LEMMA ParseWaiting ==
  ASSUME TypeOK, TypeOK', Loops, Loops', Waiting, ParseStep
  PROVE  Waiting'
<1>1. /\ stack # <<>> /\ Top.pc = "fcgi" /\ UNCHANGED <<g_conns, g_waiting_conns>>
  BY DEF ParseStep, ParseEnd, ParseBad, ParseDefer, ParseSkip, ParseNew, ParseKnown,
         ParseFault, At, Top
<1>2. /\ conn \in [Fds -> Connection] /\ g_conns \subseteq Fds /\ Top \in StackFrame
      /\ Top.fd \in Fds
  <2>1. Top \in StackFrame
    BY <1>1, TopFrame
  <2> QED BY <1>1, <2>1 DEF TypeOK, ObjTypeOK, StackFrame, FrameOf, LoopPC
<1>3. PICK h \in Below : h.pc \in {"parsed", "waited"} /\ h.fd = Top.fd
  BY <1>1 DEF Waiting, Nested, At, Top
<1>4. Frames = {Top} \cup Below
  BY <1>1, StackFrames
<1>5. CASE ParseEnd \/ ParseBad \/ ParseDefer
  <2>1. Return
    BY <1>5 DEF ParseEnd, ParseBad, ParseDefer
  <2>2. Frames' = Below
    BY <1>1, <2>1, StackFrames
  <2>3. \A fd \in Fds :
          /\ conn[fd].closed => conn'[fd].closed
          /\ fd # Top.fd => conn'[fd] = conn[fd]
    <3> DEFINE gd == Top.fd
               eaten == Consumed
    <3> HIDE DEF gd, eaten
    <3>1. CASE ParseEnd
      <4>1. conn' = [conn EXCEPT ![gd].in_buf = eaten, ![gd].waiting_for_arena = FALSE]
        BY <3>1 DEF ParseEnd, gd, eaten
      <4> QED BY <1>2, <4>1 DEF Connection, gd
    <3>2. CASE ParseBad
      <4>1. conn' = [conn EXCEPT ![gd].in_buf = eaten, ![gd].waiting_for_arena = FALSE,
                                 ![gd].closed = TRUE]
        BY <3>2 DEF ParseBad, gd, eaten
      <4> QED BY <1>2, <4>1 DEF Connection, gd
    <3>3. CASE ParseDefer
      <4>1. conn' = [conn EXCEPT ![gd].waiting_for_arena = TRUE]
        BY <3>3 DEF ParseDefer, gd
      <4> QED BY <1>2, <4>1 DEF Connection, gd
    <3> QED BY <1>5, <3>1, <3>2, <3>3
  <2>4. Nested'
    <3> SUFFICES ASSUME stack' # <<>> PROVE Top'.pc # "fcgi"
      BY StaysNested
    <3>1. Top' \in Frames'
      <4>1. stack' \in Seq(StackFrame)
        BY DEF TypeOK, IoTypeOK
      <4>2. 1 \in 1 .. Len(stack') /\ Head(stack') = stack'[1]
        BY <4>1
      <4> QED BY <4>2 DEF Frames, Items, Top
    <3> QED BY <1>1, <2>2, <3>1, FcgiOnTop
  <2>5. Was'
    <3>1. \A f \in Frames' : f.pc = "parsed" => f \in Frames /\ f.fd \in Fds
      BY <1>4, <2>2, ParsedFd
    <3> QED BY <1>1, <2>3, <3>1 DEF Waiting, Was, Listed
  <2>6. WaitingIsListed'
    <3>1. ASSUME NEW fd \in g_conns, BeingParsed(fd) PROVE BeingParsed(fd)'
      <4>1. PICK f \in Frames : f.fd = fd /\ f.pc \in ParsePC
        BY <3>1, BeingParsedFrames
      <4>2. f \in Below \/ h.fd = fd
        BY <1>3, <1>4, <4>1
      <4> QED BY <1>3, <2>2, <4>1, <4>2, BeingParsedFramesNext DEF ParsePC
    <3>2. BeingParsed(h.fd)'
      BY <1>3, <2>2, BeingParsedFramesNext DEF ParsePC
    <3>3. ASSUME NEW fd \in g_conns', conn'[fd].waiting_for_arena, ~conn'[fd].closed,
                 fd # h.fd
          PROVE  BeingParsed(fd)' \/ Listed(fd)'
      <4>1. conn'[fd] = conn[fd] /\ fd \in g_conns
        BY <1>1, <1>2, <1>3, <2>3, <3>3
      <4> QED BY <1>1, <3>1, <3>3, <4>1 DEF Waiting, WaitingIsListed, Listed
    <3> QED BY <3>2, <3>3 DEF WaitingIsListed, Listed
  <2> QED BY <2>4, <2>5, <2>6 DEF Waiting
<1>6. ASSUME SameWaiting, Become([Top EXCEPT !.n = @ + 1])
      PROVE  Waiting'
  <2> DEFINE f == [Top EXCEPT !.n = @ + 1]
  <2>1. f.pc = "fcgi" /\ f.fd = Top.fd
    BY <1>1, <1>2 DEF StackFrame, FrameOf
  <2>2. f \in StackFrame
    BY <1>1, <1>6, IntoStack
  <2>3. Become(f)
    BY <1>6
  <2> HIDE DEF f
  <2>4. Frames' = {f} \cup Below /\ Top' = f /\ Below' = Below
    BY <1>1, <2>2, <2>3, StackFrames, NewTop
  <2>5. Nested'
    BY <1>3, <2>1, <2>4 DEF Nested
  <2>6. Was'
    <3>1. \A k \in Frames' : k.pc = "parsed" => k \in Frames /\ k.fd \in Fds
      BY <1>4, <2>1, <2>4, ParsedFd
    <3> QED BY <1>1, <1>6, <3>1 DEF Waiting, Was, Listed, SameWaiting
  <2>7. ASSUME NEW fd \in g_conns, BeingParsed(fd) PROVE BeingParsed(fd)'
    <3>1. PICK k \in Frames : k.fd = fd /\ k.pc \in ParsePC
      BY <2>7, BeingParsedFrames
    <3> QED BY <1>1, <1>4, <2>1, <2>4, <3>1, BeingParsedFramesNext
  <2>8. WaitingIsListed'
    BY <1>1, <1>2, <1>6, <2>7 DEF Waiting, WaitingIsListed, SameWaiting
  <2> QED BY <2>5, <2>6, <2>8 DEF Waiting
<1>7. CASE ParseSkip
  BY <1>6, <1>7, SteadyWaiting DEF ParseSkip
<1>8. ASSUME NEW a \in Arena, ParseNew(a) \/ ParseKnown(a)
      PROVE  Waiting'
  <2>1. Become([Top EXCEPT !.n = @ + 1])
    BY <1>8, ParseDelivers
  <2>2. SameWaiting
    <3>1. \E r, go : Delivered(a, r, Top.fd, NextRecord.id, go)
      BY <1>8, ParseDelivers
    <3> QED BY <3>1 DEF Delivered, SameWaiting
  <2> QED BY <1>6, <2>1, <2>2
<1>9. CASE \E a \in Arena : ParseFault(a)
  BY <1>9, QuietSteps, SteadyWaiting, WaitsWaiting DEF ParseFault, Waits, Waiting
<1> QED BY <1>5, <1>7, <1>8, <1>9 DEF ParseStep

\* What is in a list stays in it when another entry is appended, or taken off.
LEMMA InList ==
  ASSUME NEW S, NEW q \in Seq(S), NEW x
  PROVE  /\ \A y \in S : (\E i \in 1 .. Len(q) : q[i] = x) =>
              \E i \in 1 .. Len(Append(q, y)) : Append(q, y)[i] = x
         /\ x \in S => \E i \in 1 .. Len(Append(q, x)) : Append(q, x)[i] = x
         /\ (\E i \in 1 .. Len(q) : q[i] = x) /\ x # Head(q) =>
              \E i \in 1 .. Len(Tail(q)) : Tail(q)[i] = x
<1>1. ASSUME NEW y \in S, NEW i \in 1 .. Len(q), q[i] = x
      PROVE  \E j \in 1 .. Len(Append(q, y)) : Append(q, y)[j] = x
  <2>1. i \in 1 .. Len(Append(q, y)) /\ Append(q, y)[i] = x
    BY <1>1
  <2> QED BY <2>1
<1>2. ASSUME x \in S PROVE \E i \in 1 .. Len(Append(q, x)) : Append(q, x)[i] = x
  <2>1. Len(q) + 1 \in 1 .. Len(Append(q, x)) /\ Append(q, x)[Len(q) + 1] = x
    BY <1>2
  <2> QED BY <2>1
<1>3. ASSUME NEW i \in 1 .. Len(q), q[i] = x, x # Head(q)
      PROVE  \E j \in 1 .. Len(Tail(q)) : Tail(q)[j] = x
  <2>1. i # 1 /\ q # <<>>
    BY <1>3
  <2>2. i - 1 \in 1 .. Len(Tail(q)) /\ Tail(q)[i - 1] = q[i]
    BY <1>3, <2>1
  <2> QED BY <1>3, <2>2
<1> QED BY <1>1, <1>2, <1>3

LEMMA ReleaseWaits ==
  ASSUME TypeOK, TypeOK', Loops, Loops', Waiting, stack # <<>>, Top.pc \notin ParsePC,
         NEW under, under.pc \notin {"fcgi", "parsed"}, NEW a, ReleaseRequest(a, under)
  PROVE  Waiting'
<1>1. UNCHANGED <<g_conns, conn, g_waiting_conns>> /\ CallFrom(under, WaitingFrames)
  BY DEF ReleaseRequest
<1>2. Quiet
  <2>1. CASE WaitingFrames = <<>>
    <3>1. CallFrom(under, <<>>)
      BY <1>1, <2>1
    <3> QED BY <3>1, QuietSteps DEF Waiting
  <2>2. CASE WaitingFrames # <<>>
    <3> DEFINE k == available_count'
               m == Len(g_waiting_conns)
               g == [Frame("waiting", NoFd) EXCEPT !.n = k, !.m = m]
    <3>1. WaitingFrames = <<g>>
      BY <2>2 DEF WaitingFrames
    <3>2. CallFrom(under, <<g>>)
      BY <1>1, <3>1
    <3> HIDE DEF k, m
    <3>3. g.pc = "waiting"
      BY DEF Frame
    <3> HIDE DEF g
    <3> QED BY <3>2, <3>3, QuietSteps DEF Waiting
  <2> QED BY <2>1, <2>2
<1> QED BY <1>1, <1>2, SteadyWaiting, WaitsWaiting DEF Waits

LEMMA HandleWaiting ==
  ASSUME TypeOK, TypeOK', Loops, Loops', Waiting, HandleStep
  PROVE  Waiting'
<1>1. /\ stack # <<>> /\ Top.pc \in {"parsed", "outflush", "sweep", "erase"}
      /\ UNCHANGED g_conns /\ Top \in StackFrame /\ Top.fd \in Fds
      /\ Below = {} /\ Frames = {Top} \cup Below
  <2>1. stack # <<>> /\ Top.pc \in {"parsed", "outflush", "sweep", "erase"} /\ UNCHANGED g_conns
    BY DEF HandleStep, AfterParse, OutFlush, SweepErase, SweepDone, SweepFree, SweepKeep,
           ReleaseRequest, At, Top
  <2>2. Top \in StackFrame
    BY <2>1, TopFrame
  <2>3. Top.fd \in Fds
    BY <2>1, <2>2 DEF StackFrame, FrameOf, LoopPC
  <2> QED BY <2>1, <2>2, <2>3, AloneFrames, StackFrames
<1>2. g_waiting_conns \in Seq(Fds) /\ conn \in [Fds -> Connection] /\ g_conns \subseteq Fds
  BY DEF TypeOK, ListTypeOK, ObjTypeOK
<1>3. CASE AfterParse
  <2> DEFINE fd == Top.fd
             x == IF Top.out THEN Frame("outflush", fd) ELSE SweepFrame(fd)
  <2>1. /\ Top.pc = "parsed" /\ Flush(fd, conn[fd]) /\ Become(x)
        /\ g_waiting_conns' = IF ~Top.was /\ conn[fd].waiting_for_arena
                                THEN Append(g_waiting_conns, fd)
                                ELSE g_waiting_conns
    BY <1>3 DEF AfterParse, NowWaits, At, Top
  <2>2. x.pc \in {"outflush", "sweep"}
    BY DEF Frame, SweepFrame
  <2> HIDE DEF x
  <2>3. Frames' = {x} /\ Top' = x
    <3>1. x \in StackFrame
      BY <1>1, <2>1, IntoStack
    <3> QED BY <1>1, <2>1, <3>1, StackFrames, NewTop
  <2>4. SameWaiting
    BY <1>1, <2>1, FlushSteady, SteadyWaiting
  <2>5. Nested' /\ Was'
    BY <2>2, <2>3, StaysNested DEF Was
  <2>6. ASSUME NEW gd \in g_conns, conn[gd].waiting_for_arena, ~conn[gd].closed
        PROVE  Listed(gd)'
    <3>1. CASE gd = fd /\ ~Top.was
      <4>1. g_waiting_conns' = Append(g_waiting_conns, gd)
        BY <2>1, <2>6, <3>1
      <4> QED BY <1>1, <1>2, <3>1, <4>1, InList DEF Listed
    <3>2. CASE ~(gd = fd /\ ~Top.was)
      <4>1. Listed(gd)
        <5>1. CASE gd = fd
          BY <1>1, <2>1, <2>6, <3>2, <5>1 DEF Waiting, Was
        <5>2. CASE gd # fd
          BY <1>1, <2>6, <5>2, BeingParsedFrames DEF Waiting, WaitingIsListed, Listed
        <5> QED BY <5>1, <5>2
      <4> QED BY <1>1, <1>2, <2>1, <4>1, InList DEF Listed
    <3> QED BY <3>1, <3>2
  <2>7. WaitingIsListed'
    BY <1>1, <1>2, <2>4, <2>6 DEF WaitingIsListed, SameWaiting, Listed
  <2> QED BY <2>5, <2>7 DEF Waiting
<1>4. CASE OutFlush
  <2>1. Top.pc = "outflush" /\ Flush(Top.fd, conn[Top.fd]) /\ Become(SweepFrame(Top.fd))
        /\ UNCHANGED g_waiting_conns
    BY <1>4 DEF OutFlush, At, Top
  <2>2. SweepFrame(Top.fd).pc = "sweep"
    BY DEF SweepFrame, Frame
  <2>3. Quiet
    BY <1>1, <2>1, <2>2, QuietSteps DEF ParsePC, Waiting
  <2> QED BY <1>1, <2>1, <2>3, FlushSteady, SteadyWaiting, WaitsWaiting DEF Waits
<1>5. CASE SweepErase
  <2> DEFINE fd == Top.fd
             id == Top.id
             f == [Top EXCEPT !.pc = "sweep", !.id = NoId]
  <2>1. /\ Top.pc = "erase" /\ Become(f) /\ UNCHANGED g_waiting_conns
        /\ conn' = [conn EXCEPT ![fd].requests[id] = NoArena]
    BY <1>5 DEF SweepErase, At, Top
  <2>2. f.pc = "sweep"
    BY <1>1 DEF StackFrame, FrameOf
  <2>3. SameWaiting
    <3> HIDE DEF fd, id
    <3> QED BY <1>2, <2>1 DEF Connection, SameWaiting
  <2> HIDE DEF f
  <2>4. Quiet
    BY <1>1, <2>1, <2>2, QuietSteps DEF ParsePC, Waiting
  <2> QED BY <1>1, <2>1, <2>3, <2>4, WaitsWaiting DEF Waits
<1>6. CASE SweepDone
  <2>1. /\ Top.pc = "sweep" /\ Become(Frame("closing", NoFd))
        /\ UNCHANGED <<conn, g_waiting_conns>>
    BY <1>6 DEF SweepDone, At, Top
  <2>2. Frame("closing", NoFd).pc = "closing"
    BY DEF Frame
  <2>3. Quiet
    BY <1>1, <2>1, <2>2, QuietSteps DEF ParsePC, Waiting
  <2> QED BY <1>1, <2>1, <2>3, SteadyWaiting, WaitsWaiting DEF Waits
<1>7. ASSUME NEW id \in Ids, SweepKeep(id) PROVE Waiting'
  <2> DEFINE f == [Top EXCEPT !.ids = @ \ {id}]
  <2>1. Top.pc = "sweep" /\ Become(f) /\ UNCHANGED <<conn, g_waiting_conns>>
    BY <1>7 DEF SweepKeep, At, Top
  <2>2. f.pc = "sweep"
    BY <1>1, <2>1 DEF StackFrame, FrameOf
  <2> HIDE DEF f
  <2>3. Quiet
    BY <1>1, <2>1, <2>2, QuietSteps DEF ParsePC, Waiting
  <2> QED BY <1>1, <2>1, <2>3, SteadyWaiting, WaitsWaiting DEF Waits
<1>8. ASSUME NEW id \in Ids, SweepFree(id) PROVE Waiting'
  <2> DEFINE a == conn[Top.fd].requests[id]
             under == [Top EXCEPT !.pc = "erase", !.id = id, !.ids = @ \ {id}]
  <2>1. Top.pc = "sweep" /\ ReleaseRequest(a, under)
    BY <1>8 DEF SweepFree, At, Top
  <2>2. under.pc = "erase"
    BY <1>1 DEF StackFrame, FrameOf
  <2> HIDE DEF under, a
  <2> QED BY <1>1, <2>1, <2>2, ReleaseWaits DEF ParsePC
<1> QED BY <1>3, <1>4, <1>5, <1>6, <1>7, <1>8 DEF HandleStep

LEMMA CloseWaiting ==
  ASSUME TypeOK, TypeOK', Loops, Loops', Waiting, CloseStep \/ HousekeepingStep
  PROVE  Waiting'
<1>1. CASE CloseQueued \/ \E fd \in Fds : HousekeepingClose(fd)
  <2>1. /\ UNCHANGED <<conn, g_conns, g_waiting_conns>>
        /\ UNCHANGED stack \/ \E fd \in g_conns : Call(<<CleanupFrame(fd)>>)
    BY <1>1 DEF CloseQueued, HousekeepingClose
  <2>2. \A fd : CleanupFrame(fd).pc = "cleanup"
    BY DEF CleanupFrame, Frame
  <2> QED BY <2>1, <2>2, QuietSteps, SteadyWaiting, WaitsWaiting DEF Waits, Waiting
<1>2. CASE CloseQueueDone \/ HousekeepingDone
  <2>1. /\ stack # <<>> /\ Top.pc \in {"closing", "housekeeping"} /\ Return
        /\ UNCHANGED <<conn, g_conns, g_waiting_conns>>
    BY <1>2 DEF CloseQueueDone, HousekeepingDone, At, Top
  <2> QED BY <2>1, QuietSteps, SteadyWaiting, WaitsWaiting DEF Waits, Waiting, ParsePC
<1>3. CASE ExpireDone
  <2>1. /\ stack # <<>> /\ Top.pc = "expire" /\ Become(Frame("housekeeping", NoFd))
        /\ UNCHANGED <<conn, g_conns, g_waiting_conns>>
    BY <1>3 DEF ExpireDone, At, Top
  <2>2. Frame("housekeeping", NoFd).pc = "housekeeping"
    BY DEF Frame
  <2> QED BY <2>1, <2>2, QuietSteps, SteadyWaiting, WaitsWaiting DEF Waits, Waiting, ParsePC
<1>4. CASE \E fd \in Fds, id \in Ids : Expire(fd, id)
  <2>1. UNCHANGED <<stack, g_conns, g_waiting_conns>>
    BY <1>4 DEF Expire
  <2> QED BY <1>4, <2>1, AnswerSteady, SteadyWaiting, QuietSteps, WaitsWaiting DEF Waits, Waiting
<1>5. ASSUME NEW id \in Ids, CleanupOne(id) PROVE Waiting'
  <2> DEFINE a == conn[Top.fd].requests[id]
             under == [Top EXCEPT !.ids = @ \ {id}]
  <2>1. stack # <<>> /\ Top.pc = "cleanup" /\ ReleaseRequest(a, under)
    BY <1>5 DEF CleanupOne, At, Top
  <2>2. under.pc = "cleanup"
    <3>1. Top \in StackFrame
      BY <2>1, TopFrame
    <3> QED BY <2>1, <3>1 DEF StackFrame, FrameOf
  <2> HIDE DEF under, a
  <2> QED BY <2>1, <2>2, ReleaseWaits DEF ParsePC
<1>6. CASE CloseFd
  <2>1. /\ stack # <<>> /\ Top.pc = "cleanup" /\ Return /\ UNCHANGED g_waiting_conns
        /\ conn' = [conn EXCEPT ![Top.fd] = NewConnection(0)]
        /\ g_conns' = g_conns \ {Top.fd}
    BY <1>6 DEF CloseFd, At, Top
  <2>2. /\ g_conns \subseteq Fds /\ conn \in [Fds -> Connection]
        /\ Frames = {Top} \cup Below /\ Frames' = Below
        /\ \A f \in Below : f.pc \in {"closing", "housekeeping"}
    BY <2>1, CleanupFrames, StackFrames DEF TypeOK, ObjTypeOK
  <2>3. Quiet
    BY <2>1, QuietSteps DEF ParsePC, Waiting
  <2>4. Was'
    BY <2>2 DEF Was
  <2>5. \A fd : ~BeingParsed(fd)
    BY <2>1, <2>2, BeingParsedFrames DEF ParsePC
  <2>6. WaitingIsListed'
    BY <2>1, <2>2, <2>5 DEF Waiting, WaitingIsListed
  <2> QED BY <2>3, <2>4, <2>6 DEF Waiting, Quiet
<1> QED BY <1>1, <1>2, <1>3, <1>4, <1>5, <1>6 DEF CloseStep, HousekeepingStep

\* process_waiting_connections takes a connection off the list to parse it.
LEMMA ListWaiting ==
  ASSUME TypeOK, TypeOK', Loops, Loops', Waiting, WaitingStep
  PROVE  Waiting'
<1>1. /\ stack # <<>> /\ Top.pc \in {"waiting", "waited"} /\ UNCHANGED g_conns
      /\ Top \in StackFrame /\ Frames = {Top} \cup Below
  <2>1. stack # <<>> /\ Top.pc \in {"waiting", "waited"} /\ UNCHANGED g_conns
    BY DEF WaitingStep, WaitingNext, WaitingDone, WaitedServed, WaitedAgain, At, Top
  <2> QED BY <2>1, TopFrame, StackFrames
<1>2. /\ g_waiting_conns \in Seq(Fds) /\ conn \in [Fds -> Connection]
      /\ g_conns \subseteq Fds
  BY DEF TypeOK, ListTypeOK, ObjTypeOK
<1>3. \A f \in Frames : f.pc # "parsed"
  BY <1>1, ParsedFrames
<1>4. CASE WaitingNext
  <2> DEFINE fd == Head(g_waiting_conns)
             was == conn[fd].waiting_for_arena
             next == [Top EXCEPT !.m = @ - 1]
             serve == [next EXCEPT !.pc = "waited", !.fd = fd, !.was = was]
             g == Frame("fcgi", fd)
  <2>1. /\ UNCHANGED conn /\ Top.pc = "waiting" /\ g_waiting_conns # <<>>
        /\ g_waiting_conns' = Tail(g_waiting_conns)
        /\ \/ (fd \notin g_conns \/ conn[fd].closed) /\ Become(next)
           \/ CallFrom(serve, <<g>>)
    BY <1>4 DEF WaitingNext, MoreWaiting, At, Top
  <2>2. next.pc = "waiting" /\ serve.pc = "waited" /\ serve.fd = fd
    <3>1. next.pc = "waiting"
      BY <1>1, <2>1 DEF StackFrame, FrameOf
    <3> HIDE DEF fd, was
    <3>2. serve.pc = "waited" /\ serve.fd = fd
      BY <1>1 DEF StackFrame, FrameOf
    <3> QED BY <3>1, <3>2
  <2>3. g.pc = "fcgi" /\ g.fd = fd
    BY DEF Frame
  <2> HIDE DEF next, serve, g, fd
  <2>4. \A gd \in g_conns : Listed(gd) /\ gd # fd => Listed(gd)'
    BY <1>2, <2>1, InList DEF Listed, fd
  <2>5. CASE (fd \notin g_conns \/ conn[fd].closed) /\ Become(next)
    <3>1. Quiet
      BY <1>1, <2>1, <2>2, <2>5, QuietSteps DEF ParsePC, Waiting
    <3>2. ASSUME NEW gd, BeingParsed(gd) PROVE BeingParsed(gd)'
      BY <3>1, <3>2, BeingParsedFrames, BeingParsedFramesNext DEF Quiet
    <3>3. WaitingIsListed'
      BY <1>1, <2>1, <2>4, <2>5, <3>2 DEF Waiting, WaitingIsListed, Listed
    <3>4. Was'
      BY <1>3, <3>1 DEF Was, Quiet
    <3> QED BY <3>1, <3>3, <3>4 DEF Waiting, Quiet
  <2>6. CASE CallFrom(serve, <<g>>)
    <3>1. /\ serve \in StackFrame /\ g \in StackFrame
      BY <1>1, <2>6, IntoStack
    <3>2. Frames' = {serve, g} \cup Below /\ Top' = g /\ serve \in Below'
      BY <1>1, <2>6, <3>1, StackFrames, NewTop
    <3>3. Nested'
      BY <2>2, <2>3, <3>2 DEF Nested
    <3>4. Was'
      BY <1>1, <1>3, <2>2, <2>3, <3>2 DEF Was
    <3>5. ASSUME NEW gd, BeingParsed(gd) \/ gd = fd PROVE BeingParsed(gd)'
      <4>1. CASE gd = fd
        BY <2>2, <3>2, <4>1, BeingParsedFramesNext DEF ParsePC
      <4>2. CASE BeingParsed(gd)
        <5>1. PICK k \in Frames : k.fd = gd /\ k.pc \in ParsePC
          BY <4>2, BeingParsedFrames
        <5> QED BY <1>1, <2>1, <3>2, <5>1, BeingParsedFramesNext DEF ParsePC
      <4> QED BY <3>5, <4>1, <4>2
    <3>6. WaitingIsListed'
      BY <1>1, <2>1, <2>4, <3>5 DEF Waiting, WaitingIsListed, Listed
    <3> QED BY <3>3, <3>4, <3>6 DEF Waiting
  <2> QED BY <2>1, <2>5, <2>6
<1>5. CASE WaitingDone
  <2>1. Top.pc = "waiting" /\ Return /\ UNCHANGED <<conn, g_waiting_conns>>
    BY <1>5 DEF WaitingDone, At, Top
  <2> QED BY <1>1, <2>1, QuietSteps, SteadyWaiting, WaitsWaiting DEF Waits, Waiting, ParsePC
<1>6. CASE WaitedServed \/ WaitedAgain
  <2> DEFINE n == IF WaitedServed THEN Top.n - 1 ELSE Top.n
             f == [Frame("waiting", NoFd) EXCEPT !.n = n, !.m = Top.m]
  <2>1. /\ Top.pc = "waited" /\ Become(f)
        /\ Flush(Top.fd, conn[Top.fd]) \/ UNCHANGED conn
        /\ \/ ~conn[Top.fd].waiting_for_arena /\ UNCHANGED g_waiting_conns
           \/ /\ conn[Top.fd].waiting_for_arena
              /\ g_waiting_conns' = Append(g_waiting_conns, Top.fd)
    <3>1. CASE WaitedServed
      BY <3>1 DEF WaitedServed, At, Top
    <3>2. CASE ~WaitedServed
      BY <1>6, <3>2 DEF WaitedAgain, At, Top
    <3> QED BY <3>1, <3>2
  <2>2. f.pc = "waiting"
    <3> HIDE DEF n
    <3> QED BY DEF Frame
  <2> HIDE DEF f
  <2>3. Top.fd \in Fds
    BY <1>1, <2>1 DEF StackFrame, FrameOf, LoopPC, FdPC
  <2>4. SameWaiting
    BY <2>1, <2>3, FlushSteady, SteadyWaiting
  <2>5. Frames' = {f} \cup Below /\ Top' = f
    <3>1. f \in StackFrame
      BY <1>1, <2>1, IntoStack
    <3> QED BY <1>1, <2>1, <3>1, StackFrames, NewTop
  <2>6. Nested' /\ Was'
    BY <1>1, <1>3, <2>2, <2>5, StaysNested DEF Was
  <2>7. ASSUME NEW gd \in g_conns, conn[gd].waiting_for_arena, ~conn[gd].closed
        PROVE  BeingParsed(gd)' \/ Listed(gd)'
    <3>1. CASE gd = Top.fd
      <4>1. g_waiting_conns' = Append(g_waiting_conns, gd)
        BY <2>1, <2>7, <3>1
      <4> QED BY <1>2, <2>3, <3>1, <4>1, InList DEF Listed
    <3>2. CASE gd # Top.fd
      <4>1. CASE BeingParsed(gd)
        <5>1. PICK k \in Frames : k.fd = gd /\ k.pc \in ParsePC
          BY <4>1, BeingParsedFrames
        <5> QED BY <1>1, <2>5, <3>2, <5>1, BeingParsedFramesNext
      <4>2. CASE Listed(gd)
        <5>1. \/ UNCHANGED g_waiting_conns
              \/ g_waiting_conns' = Append(g_waiting_conns, Top.fd)
          BY <2>1
        <5>2. Listed(gd)'
          <6>1. CASE UNCHANGED g_waiting_conns
            BY <4>2, <6>1 DEF Listed
          <6>2. CASE g_waiting_conns' = Append(g_waiting_conns, Top.fd)
            <7>1. \E i \in 1 .. Len(Append(g_waiting_conns, Top.fd)) :
                    Append(g_waiting_conns, Top.fd)[i] = gd
              BY <1>2, <2>3, <4>2, InList DEF Listed
            <7> QED BY <6>2, <7>1 DEF Listed
          <6> QED BY <5>1, <6>1, <6>2
        <5> QED BY <5>2
      <4> QED BY <2>7, <4>1, <4>2 DEF Waiting, WaitingIsListed, Listed
    <3> QED BY <3>1, <3>2
  <2>8. WaitingIsListed'
    BY <1>1, <1>2, <2>4, <2>7 DEF WaitingIsListed, SameWaiting, Listed
  <2> QED BY <2>6, <2>8 DEF Waiting
<1> QED BY <1>4, <1>5, <1>6 DEF WaitingStep

LEMMA AcceptWaiting ==
  ASSUME TypeOK, TypeOK', Loops, Loops', Waiting, NEW fd \in Fds, AcceptOne(fd)
  PROVE  Waiting'
<1>1. /\ stack # <<>> /\ Top.pc = "accept" /\ (UNCHANGED stack \/ Return)
      /\ UNCHANGED g_waiting_conns
      /\ conn' = [conn EXCEPT ![fd] = NewConnection(sock[fd].serial)]
      /\ g_conns' = g_conns \cup {fd}
  BY DEF AcceptOne, At, Top
<1>2. /\ Below = {} /\ Frames = {Top} \cup Below /\ conn \in [Fds -> Connection]
      /\ g_conns \subseteq Fds
  BY <1>1, AloneFrames, StackFrames DEF TypeOK, ObjTypeOK
<1>3. Quiet
  BY <1>1, QuietSteps DEF ParsePC, Waiting
<1>4. Was'
  BY <1>1, <1>2, <1>3 DEF Was, Quiet
<1>5. \A gd : ~BeingParsed(gd)
  BY <1>1, <1>2, BeingParsedFrames DEF ParsePC
<1>6. ~NewConnection(sock[fd].serial).waiting_for_arena
  BY DEF NewConnection
<1>7. WaitingIsListed'
  BY <1>1, <1>2, <1>5, <1>6 DEF Waiting, WaitingIsListed
<1> QED BY <1>3, <1>4, <1>7 DEF Waiting, Quiet

LEMMA OthersWait ==
  ASSUME TypeOK, TypeOK', Loops, Loops', Waiting,
         \/ Workers \/ WsThreads \/ TimerTick \/ Undefined \/ UNCHANGED vars
         \/ \E fd \in Fds : Peer(fd)
  PROVE  Waiting'
<1>1. conn \in [Fds -> Connection]
  BY DEF TypeOK, ObjTypeOK
<1>2. UNCHANGED <<stack, g_conns, g_waiting_conns>>
  <2>1. CASE Workers
    BY <2>1 DEF Workers, TaskStart, TaskFault, TaskPush, TaskInactive, TaskLeave
  <2>2. CASE WsThreads \/ TimerTick \/ Undefined \/ UNCHANGED vars
    BY <2>2 DEF WsThreads, WsGet, WsRelease, TimerTick, Undefined, vars
  <2>3. CASE \E fd \in Fds : Peer(fd)
    BY <2>3, PeerUnchanged
  <2> QED BY <2>1, <2>2, <2>3
<1>3. SameWaiting
  <2>1. CASE \E t \in running : TaskLeave(t)
    BY <1>1, <2>1 DEF TaskLeave, SameWaiting, Connection
  <2>2. CASE ~\E t \in running : TaskLeave(t)
    <3>1. UNCHANGED conn
      <4>1. CASE Workers
        BY <2>2, <4>1 DEF Workers, TaskStart, TaskFault, TaskPush, TaskInactive
      <4>2. CASE WsThreads \/ TimerTick \/ Undefined \/ UNCHANGED vars
        BY <4>2 DEF WsThreads, WsGet, WsRelease, TimerTick, Undefined, vars
      <4>3. CASE \E fd \in Fds : Peer(fd)
        BY <4>3, PeerUnchanged
      <4> QED BY <4>1, <4>2, <4>3
    <3> QED BY <3>1, SteadyWaiting
  <2> QED BY <2>1, <2>2
<1> QED BY <1>2, <1>3, QuietSteps, WaitsWaiting DEF Waits, Waiting

\* Waiting is inductive, given Loops.
LEMMA WaitingStays ==
  ASSUME TypeOK, TypeOK', Loops, Loops', Waiting, [Next]_vars
  PROVE  Waiting'
<1>1. CASE IoThread
  BY <1>1, LoopWaiting, AcceptWaiting, PendingWaiting, ParseWaiting, HandleWaiting,
     CloseWaiting, ListWaiting
  DEF IoThread, AcceptStep
<1> QED BY <1>1, OthersWait DEF Next

(***************************************************************************)
(* A connection whose BEGIN_REQUEST found no arena is never forgotten:     *)
(* once its parsing has returned it is on g_waiting_conns, however the     *)
(* parsing was reached (handle_io, or process_waiting_connections in the   *)
(* middle of a sweep or a cleanup).                                        *)
(***************************************************************************)
THEOREM WaitersListed == Spec => []WaitingIsListed
<1>1. Init => Waiting
  <2> SUFFICES ASSUME Init PROVE Waiting
    OBVIOUS
  <2>1. Frames = {}
    BY FramesAre DEF Init, Frames
  <2> QED BY <2>1 DEF Init, Waiting, Nested, Was, WaitingIsListed, At
<1>2. TypeOK /\ TypeOK' /\ Loops /\ Waiting /\ [Next]_vars => Loops' /\ Waiting'
  BY LoopsNext, WaitingStays
<1>3. Waiting => WaitingIsListed
  BY DEF Waiting
<1> QED BY <1>1, <1>2, <1>3, InitLoops, TypeCorrect, PTL DEF Spec

-----------------------------------------------------------------------------
(* The count of the workers *)

\* Two closures of the same request for the same dispatch.
Same(t, u) == t.serial = u.serial /\ t.nth = u.nth

Injective(q) == \A i, j \in 1 .. Len(q) : q[i] = q[j] => i = j

\* Each closure is in one place, once.
Once ==
  /\ IsFiniteSet(Tasks)
  /\ \A t, u \in Tasks : Same(t, u) => t = u
  /\ Injective(queue)
  /\ \A t \in running : t \notin Items(queue)

\* Closures were made for requests and connections that were made.
Numbered ==
  /\ \A t \in Tasks : t.serial \in 1 .. built /\ t.cserial <= connects
  /\ \A t \in Tasks, a \in Arena : req[a].serial = t.serial => t.nth <= req[a].dispatches

\* The number of a Request is its own as long as it lives, and 0 afterwards.
Serials ==
  /\ \A a \in Arena : req[a].serial <= built /\ (req[a].live <=> req[a].serial # 0)
  /\ \A a, b \in Arena : req[a].serial = req[b].serial /\ req[a].live => a = b

\* A connection that is not yet accepted has a new number.
Linked ==
  \A fd \in Fds :
    /\ conn[fd].serial <= connects
    /\ fd \in g_conns => sock[fd].st = "conn"
    /\ fd \notin g_conns => conn[fd].serial = 0
    /\ sock[fd].st = "backlog" =>
         /\ sock[fd].serial \in 1 .. connects
         /\ \A t \in Tasks : t.fd = fd => t.cserial # sock[fd].serial

Of(fd, s) == {t \in Tasks : t.fd = fd /\ t.cserial = s}

Counted == Once /\ Numbered /\ Serials /\ Linked /\ WorkersAreCounted

LEMMA TasksAre ==
  /\ Tasks = running \cup Items(queue)
  /\ Tasks' = running' \cup Items(queue')
BY DEF Tasks, Items

\* A queue without repetitions, and one closure less or more.
LEMMA ShortQueue ==
  ASSUME NEW S, NEW q \in Seq(S), q # <<>>, Injective(q)
  PROVE  /\ Items(Tail(q)) = Items(q) \ {Head(q)} /\ Injective(Tail(q))
         /\ Head(q) \in Items(q)
<1>1. /\ Len(q) \in Nat \ {0} /\ Head(q) = q[1] /\ Len(Tail(q)) = Len(q) - 1
      /\ \A i \in 1 .. Len(q) - 1 : Tail(q)[i] = q[i + 1]
  OBVIOUS
<1>2. Head(q) \in Items(q)
  <2>1. 1 \in 1 .. Len(q)
    BY <1>1
  <2> QED BY <1>1, <2>1 DEF Items
<1>3. Injective(Tail(q))
  <2>1. ASSUME NEW i \in 1 .. Len(q) - 1, NEW j \in 1 .. Len(q) - 1, Tail(q)[i] = Tail(q)[j]
        PROVE  i = j
    <3>1. i + 1 \in 1 .. Len(q) /\ j + 1 \in 1 .. Len(q) /\ q[i + 1] = q[j + 1]
      BY <1>1, <2>1
    <3>2. i + 1 = j + 1
      BY <3>1 DEF Injective
    <3> QED BY <1>1, <3>2
  <2> QED BY <1>1, <2>1 DEF Injective
<1>4. Items(q) = {Head(q)} \cup Items(Tail(q))
  BY <1>1, FramesAre
<1>5. Head(q) \notin Items(Tail(q))
  <2> SUFFICES ASSUME NEW i \in 1 .. Len(q) - 1, Head(q) = Tail(q)[i] PROVE FALSE
    BY <1>1 DEF Items
  <2>1. i + 1 \in 1 .. Len(q) /\ 1 \in 1 .. Len(q) /\ q[i + 1] = q[1]
    BY <1>1
  <2>2. i + 1 = 1
    BY <2>1 DEF Injective
  <2> QED BY <1>1, <2>2
<1> QED BY <1>2, <1>3, <1>4, <1>5

LEMMA LongQueue ==
  ASSUME NEW S, NEW q \in Seq(S), NEW x \in S
  PROVE  /\ Items(Append(q, x)) = Items(q) \cup {x}
         /\ Injective(q) /\ x \notin Items(q) => Injective(Append(q, x))
<1> DEFINE n == Len(q)
           r == Append(q, x)
<1>1. /\ n \in Nat /\ Len(r) = n + 1 /\ r[n + 1] = x
      /\ \A i \in 1 .. n : r[i] = q[i]
  OBVIOUS
<1>2. \A i : i \in 1 .. Len(r) <=> i \in 1 .. n \/ i = n + 1
  <2> HIDE DEF n, r
  <2> QED BY <1>1
<1>3. Items(r) = Items(q) \cup {x}
  <2>1. \A y : y \in Items(r) <=> \E i \in 1 .. Len(r) : y = r[i]
    BY DEF Items
  <2>2. \A y : y \in Items(q) <=> \E i \in 1 .. n : y = q[i]
    BY DEF Items
  <2> HIDE DEF n, r
  <2>3. \A y : y \in Items(r) <=> y \in Items(q) \/ y = x
    BY <1>1, <1>2, <2>1, <2>2
  <2> QED BY <2>3
<1>4. ASSUME Injective(q), x \notin Items(q) PROVE Injective(r)
  <2>1. \A i \in 1 .. n : q[i] # x
    BY <1>4 DEF Items
  <2>2. \A i, j \in 1 .. n : q[i] = q[j] => i = j
    BY <1>4 DEF Injective
  <2> HIDE DEF n, r
  <2> QED BY <1>1, <1>2, <2>1, <2>2 DEF Injective
<1> QED BY <1>3, <1>4

\* What does not concern the count.
SameNumbers ==
  \A fd \in Fds : conn'[fd].serial = conn[fd].serial
                    /\ conn'[fd].active_workers = conn[fd].active_workers

SameReqs ==
  \A a \in Arena : req'[a].serial = req[a].serial /\ req'[a].live = req[a].live
                     /\ req'[a].dispatches = req[a].dispatches

SameSocks ==
  \A fd \in Fds : sock'[fd].st = sock[fd].st /\ sock'[fd].serial = sock[fd].serial

Calm ==
  /\ SameNumbers /\ SameReqs /\ SameSocks
  /\ UNCHANGED <<g_conns, built, connects, queue, running>>

LEMMA CalmCounted ==
  ASSUME TypeOK, Counted, Calm
  PROVE  Counted'
<1>1. Tasks' = Tasks /\ g_conns \subseteq Fds
  BY DEF Calm, Tasks, TypeOK, ObjTypeOK
<1>2. Once' /\ Numbered' /\ Serials'
  BY <1>1 DEF Calm, SameReqs, Counted, Once, Numbered, Serials
<1>3. Linked'
  BY <1>1 DEF Calm, SameNumbers, SameSocks, Counted, Linked
<1>4. WorkersAreCounted'
  BY <1>1 DEF Calm, SameNumbers, Counted, WorkersAreCounted
<1> QED BY <1>2, <1>3, <1>4 DEF Counted

\* One in place of another.
LEMMA Exchange ==
  ASSUME NEW S, IsFiniteSet(S), NEW t \in S, NEW u, u \notin S \ {t}
  PROVE  /\ IsFiniteSet((S \ {t}) \cup {u})
         /\ Cardinality((S \ {t}) \cup {u}) = Cardinality(S)
<1>1. IsFiniteSet(S \ {t}) /\ Cardinality(S \ {t}) = Cardinality(S) - 1
  BY FS_RemoveElement
<1>2. /\ IsFiniteSet((S \ {t}) \cup {u})
      /\ Cardinality((S \ {t}) \cup {u}) = Cardinality(S \ {t}) + 1
  BY <1>1, FS_AddElement
<1>3. Cardinality(S) \in Nat
  BY FS_CardinalityType
<1> QED BY <1>1, <1>2, <1>3

\* A closure goes on.
LEMMA MovedCounted ==
  ASSUME TypeOK, Counted, NEW t \in Tasks, NEW u, Same(t, u), u.fd = t.fd,
         u.cserial = t.cserial, Tasks' = (Tasks \ {t}) \cup {u},
         SameNumbers, SameReqs, SameSocks, UNCHANGED <<g_conns, built, connects>>,
         Injective(queue'), \A x \in running' : x \notin Items(queue')
  PROVE  Counted'
<1>1. \A x \in Tasks \ {t} : ~Same(x, u) /\ ~Same(u, x)
  BY DEF Counted, Once, Same
<1>2. u \notin Tasks \ {t} /\ IsFiniteSet(Tasks)
  BY <1>1 DEF Same, Counted, Once
<1>3. Once'
  <2>1. IsFiniteSet(Tasks')
    BY <1>2, Exchange
  <2>2. \A x, y \in Tasks' : Same(x, y) => x = y
    BY <1>1 DEF Counted, Once
  <2> QED BY <2>1, <2>2 DEF Once
<1>4. Numbered' /\ Serials'
  BY DEF Counted, Numbered, Serials, SameReqs, Same
<1>5. Linked'
  BY DEF Counted, Linked, SameNumbers, SameSocks
<1>6. ASSUME NEW fd, NEW s
      PROVE  Cardinality({x \in Tasks' : x.fd = fd /\ x.cserial = s}) = Cardinality(Of(fd, s))
  <2> DEFINE now == {x \in Tasks' : x.fd = fd /\ x.cserial = s}
  <2>1. IsFiniteSet(Of(fd, s))
    BY <1>2, FS_Subset DEF Of
  <2>2. CASE t \in Of(fd, s)
    <3>1. now = (Of(fd, s) \ {t}) \cup {u}
      BY <2>2 DEF Of
    <3>2. u \notin Of(fd, s) \ {t}
      BY <1>2 DEF Of
    <3> HIDE DEF now
    <3> QED BY <2>1, <2>2, <3>1, <3>2, Exchange DEF now
  <2>3. CASE t \notin Of(fd, s)
    <3>1. now = Of(fd, s)
      BY <2>3 DEF Of
    <3> QED BY <3>1
  <2> QED BY <2>2, <2>3
<1>7. WorkersAreCounted'
  <2>1. g_conns \subseteq Fds
    BY DEF TypeOK, ObjTypeOK
  <2>2. \A fd \in g_conns : conn[fd].active_workers = Cardinality(Of(fd, conn[fd].serial))
    BY DEF Counted, WorkersAreCounted, Of
  <2> QED BY <1>6, <2>1, <2>2 DEF WorkersAreCounted, SameNumbers
<1> QED BY <1>3, <1>4, <1>5, <1>7 DEF Counted

LEMMA SameCalm ==
  /\ Conns => SameNumbers
  /\ UNCHANGED conn => SameNumbers
  /\ Reqs => SameReqs
  /\ UNCHANGED req => SameReqs
  /\ UNCHANGED sock => SameSocks
BY DEF Conns, SteadyConn, Reqs, SameRequest, SameNumbers, SameReqs, SameSocks

\* Sending moves output into the socket, and nothing else.
LEMMA FlushSocks ==
  ASSUME TypeOK, NEW fd \in Fds, NEW c, Flush(fd, c)
  PROVE  SameSocks
<1>1. sock \in [Fds -> Socket]
  BY DEF TypeOK, EnvTypeOK
<1>2. ASSUME NEW tx, sock' = [sock EXCEPT ![fd].tx = tx] PROVE SameSocks
  BY <1>1, <1>2 DEF SameSocks, Socket
<1>3. UNCHANGED sock \/ \E tx : sock' = [sock EXCEPT ![fd].tx = tx]
  BY DEF Flush, FlushAll, FlushSome, FlushError
<1> QED BY <1>2, <1>3, SameCalm

\* Peers, but for a new connection.
LEMMA PeerSocks ==
  ASSUME TypeOK, NEW fd \in Fds, Peer(fd), ~\E keep \in KeepFlags : PeerConnect(fd, keep)
  PROVE  SameSocks /\ UNCHANGED connects
<1>1. sock \in [Fds -> Socket]
  BY DEF TypeOK, EnvTypeOK
<1>2. ASSUME NEW recs, Send(fd, recs) PROVE SameSocks /\ UNCHANGED connects
  <2> DEFINE rx == Joined(sock[fd].rx, recs)
             used == sock[fd].used \/ recs[Len(recs)].type = "BEGIN"
             bad == recs[Len(recs)].type = "BAD"
  <2>1. /\ sock' = [sock EXCEPT ![fd].rx = rx, ![fd].used = used, ![fd].bad = bad]
        /\ UNCHANGED connects
    BY <1>2 DEF Send
  <2> HIDE DEF rx, used, bad
  <2> QED BY <1>1, <2>1 DEF SameSocks, Socket
<1>3. ASSUME NEW id \in Ids, PeerBegin(fd, id) \/ PeerStream(fd, id) \/ PeerAbort(fd, id)
      PROVE  \E recs : Send(fd, recs)
  <2>1. CASE PeerBegin(fd, id)
    BY <2>1 DEF PeerBegin
  <2>2. CASE PeerStream(fd, id)
    BY <2>2 DEF PeerStream
  <2>3. CASE PeerAbort(fd, id)
    BY <2>3 DEF PeerAbort
  <2> QED BY <1>3, <2>1, <2>2, <2>3
<1>4. CASE PeerBad(fd) \/ PeerPartial(fd)
  BY <1>2, <1>4 DEF PeerBad, PeerPartial
<1>5. CASE PeerRead(fd)
  BY <1>1, <1>5 DEF PeerRead, SameSocks, Socket
<1>6. ASSUME NEW hup \in BOOLEAN, PeerClose(fd, hup) PROVE SameSocks /\ UNCHANGED connects
  BY <1>1, <1>6 DEF PeerClose, SameSocks, Socket
<1> QED BY <1>2, <1>3, <1>4, <1>5, <1>6 DEF Peer

\* Steps that touch neither the count nor what is counted.
LEMMA CalmSteps ==
  ASSUME TypeOK,
         \/ LoopStep \/ AcceptDone \/ PendingStep \/ WaitingStep \/ HousekeepingStep
         \/ ParseEnd \/ ParseBad \/ ParseDefer \/ ParseSkip
         \/ \E a \in Arena : ParseFault(a)
         \/ AfterParse \/ OutFlush \/ SweepErase \/ SweepDone
         \/ \E id \in Ids : SweepKeep(id)
         \/ CloseQueued \/ CloseQueueDone
         \/ TaskFault \/ WsThreads \/ TimerTick \/ Undefined \/ UNCHANGED vars
         \/ \E fd \in Fds : Peer(fd) /\ ~\E keep \in KeepFlags : PeerConnect(fd, keep)
  PROVE  Calm
<1>1. conn \in [Fds -> Connection] /\ sock \in [Fds -> Socket]
  BY DEF TypeOK, ObjTypeOK, EnvTypeOK
<1> DEFINE Others == UNCHANGED <<g_conns, built, connects, queue, running>>
<1>2. ASSUME UNCHANGED <<conn, req, sock>>, Others PROVE Calm
  BY <1>2, SameCalm DEF Calm
<1>3. CASE \/ EpollWait \/ AcceptDone
           \/ \E e \in batch : ListenEvent(e) \/ EventFdEvent(e) \/ TimerEvent(e) \/ IoStale(e)
  BY <1>2, <1>3 DEF EpollWait, AcceptDone, ListenEvent, EventFdEvent, TimerEvent, IoStale
<1>4. CASE SwapPending \/ PendingSkip \/ PendingFault \/ PendingDone
  BY <1>2, <1>4 DEF SwapPending, PendingSkip, PendingFault, PendingDone
<1>5. CASE \/ ParseSkip \/ SweepDone \/ \E a \in Arena : ParseFault(a)
           \/ \E id \in Ids : SweepKeep(id)
  BY <1>2, <1>5 DEF ParseSkip, SweepDone, ParseFault, SweepKeep
<1>6. CASE \/ CloseQueued \/ CloseQueueDone \/ ExpireDone \/ HousekeepingDone
           \/ \E fd \in Fds : HousekeepingClose(fd)
  BY <1>2, <1>6 DEF CloseQueued, CloseQueueDone, ExpireDone, HousekeepingDone,
                    HousekeepingClose
<1>7. CASE WaitingNext \/ WaitingDone \/ WaitedAgain
  BY <1>2, <1>7 DEF WaitingNext, WaitingDone, WaitedAgain
<1>8. CASE TaskFault \/ WsThreads \/ TimerTick \/ Undefined \/ UNCHANGED vars
  BY <1>2, <1>8 DEF TaskFault, WsThreads, WsGet, WsRelease, TimerTick, Undefined, vars
<1>9. CASE PendingAnswer \/ \E fd \in Fds, id \in Ids : Expire(fd, id)
  <2>1. UNCHANGED sock /\ Others
    BY <1>9 DEF PendingAnswer, Expire
  <2> QED BY <1>9, <2>1, AnswerSteady, SameCalm DEF Calm
<1>10. CASE AfterParse \/ OutFlush \/ WaitedServed
  <2>1. /\ stack # <<>> /\ Top.pc \in {"parsed", "outflush", "waited"}
        /\ Flush(Top.fd, conn[Top.fd]) /\ UNCHANGED req /\ Others
    BY <1>10 DEF AfterParse, OutFlush, WaitedServed, At, Top
  <2>2. Top.fd \in Fds
    BY <2>1, TopFrame DEF StackFrame, FrameOf, LoopPC
  <2> QED BY <2>1, <2>2, FlushSteady, FlushSocks, SameCalm DEF Calm
<1>11. CASE ParseEnd \/ ParseBad \/ ParseDefer \/ SweepErase
  <2> DEFINE gd == Top.fd
             eaten == Consumed
             id == Top.id
  <2>1. UNCHANGED <<req, sock>> /\ Others
    BY <1>11 DEF ParseEnd, ParseBad, ParseDefer, SweepErase
  <2>2. \/ conn' = [conn EXCEPT ![gd].in_buf = eaten, ![gd].waiting_for_arena = FALSE]
        \/ conn' = [conn EXCEPT ![gd].in_buf = eaten, ![gd].waiting_for_arena = FALSE,
                                ![gd].closed = TRUE]
        \/ conn' = [conn EXCEPT ![gd].waiting_for_arena = TRUE]
        \/ conn' = [conn EXCEPT ![gd].requests[id] = NoArena]
    BY <1>11 DEF ParseEnd, ParseBad, ParseDefer, SweepErase
  <2> HIDE DEF gd, eaten, id
  <2>3. SameNumbers
    <3>1. CASE conn' = [conn EXCEPT ![gd].in_buf = eaten, ![gd].waiting_for_arena = FALSE]
      BY <1>1, <3>1 DEF SameNumbers, Connection
    <3>2. CASE conn' = [conn EXCEPT ![gd].in_buf = eaten, ![gd].waiting_for_arena = FALSE,
                                    ![gd].closed = TRUE]
      BY <1>1, <3>2 DEF SameNumbers, Connection
    <3>3. CASE conn' = [conn EXCEPT ![gd].waiting_for_arena = TRUE]
      BY <1>1, <3>3 DEF SameNumbers, Connection
    <3>4. CASE conn' = [conn EXCEPT ![gd].requests[id] = NoArena]
      BY <1>1, <3>4 DEF SameNumbers, Connection
    <3> QED BY <2>2, <3>1, <3>2, <3>3, <3>4
  <2> QED BY <2>1, <2>3, SameCalm DEF Calm
<1>12. ASSUME NEW e \in batch, IoEvent(e) PROVE Calm
  <2> DEFINE fd == e.fd
  <2>1. /\ UNCHANGED sock \/ sock' = [sock EXCEPT ![fd].rx = <<>>]
        /\ UNCHANGED req /\ Others
    BY <1>12 DEF IoEvent, Dispatching
  <2> HIDE DEF fd
  <2>2. SameSocks
    BY <1>1, <2>1 DEF SameSocks, Socket
  <2> QED BY <1>12, <2>1, <2>2, IoEventSteady, SameCalm DEF Calm
<1>13. ASSUME NEW fd \in Fds, Peer(fd), ~\E keep \in KeepFlags : PeerConnect(fd, keep)
       PROVE  Calm
  <2>1. UNCHANGED <<conn, req, g_conns, built, queue, running>>
    BY <1>13, PeerUnchanged
  <2> QED BY <1>13, <2>1, PeerSocks, SameCalm DEF Calm
<1> QED BY <1>3, <1>4, <1>5, <1>6, <1>7, <1>8, <1>9, <1>10, <1>11, <1>12, <1>13
        DEF LoopStep, PendingStep, WaitingStep, HousekeepingStep

\* A worker takes the oldest closure.
LEMMA StartCounted ==
  ASSUME TypeOK, Counted, TaskStart
  PROVE  Counted'
<1> DEFINE t == Head(queue)
           u == IF Responded(req[t.arena]) \/ conn[t.fd].closed
                  THEN [t EXCEPT !.at = "parsed"] ELSE t
<1>1. /\ queue # <<>> /\ queue \in Seq(Closure)
      /\ running' = running \cup {u} /\ queue' = Tail(queue)
      /\ UNCHANGED <<conn, req, sock, g_conns, built, connects>>
  BY DEF TaskStart, TypeOK, TaskTypeOK
<1>2. t \in Closure
  BY <1>1
<1>3. Same(t, u) /\ u.fd = t.fd /\ u.cserial = t.cserial
  BY <1>2 DEF Same, Closure
<1>4. Injective(queue)
  BY DEF Counted, Once
<1>5. /\ Items(Tail(queue)) = Items(queue) \ {t} /\ Injective(Tail(queue))
      /\ t \in Items(queue)
  BY <1>1, <1>4, ShortQueue
<1> HIDE DEF u, t
<1>6. t \in Tasks /\ t \notin running
  BY <1>5, TasksAre DEF Counted, Once
<1>7. Tasks' = (Tasks \ {t}) \cup {u}
  BY <1>1, <1>5, <1>6, TasksAre
<1>8. u \notin Items(queue')
  <2>1. ASSUME u \in Items(queue') PROVE FALSE
    <3>1. u \in Items(queue) /\ u # t
      BY <1>1, <1>5, <2>1
    <3>2. u \in Tasks
      BY <3>1, TasksAre
    <3> QED BY <1>3, <1>6, <3>1, <3>2 DEF Counted, Once
  <2> QED BY <2>1
<1>9. \A x \in running' : x \notin Items(queue')
  BY <1>1, <1>5, <1>8 DEF Counted, Once
<1> QED BY <1>1, <1>3, <1>5, <1>6, <1>7, <1>9, MovedCounted, SameCalm

\* A closure goes on to its next part.
LEMMA MoveCounted ==
  ASSUME TypeOK, Counted, NEW t \in running, TaskPush(t) \/ TaskInactive(t)
  PROVE  Counted'
<1> DEFINE at == IF t.at = "parsing" THEN "parsed" ELSE "leaving"
           u == [t EXCEPT !.at = at]
<1>1. /\ running' = (running \ {t}) \cup {u}
      /\ UNCHANGED <<conn, sock, g_conns, built, connects, queue>>
  <2>1. CASE TaskPush(t)
    BY <2>1 DEF TaskPush, Move
  <2>2. CASE TaskInactive(t)
    BY <2>2 DEF TaskInactive, Move
  <2> QED BY <2>1, <2>2
<1>2. SameReqs
  <2>1. CASE TaskPush(t)
    BY <2>1, SameCalm DEF TaskPush
  <2> QED BY <2>1, InactiveSteady, SameCalm
<1>3. t \in Closure
  BY DEF TypeOK, TaskTypeOK
<1>4. Same(t, u) /\ u.fd = t.fd /\ u.cserial = t.cserial
  <2> HIDE DEF at
  <2> QED BY <1>3 DEF Same, Closure
<1> HIDE DEF u
<1>5. t \in Tasks /\ t \notin Items(queue)
  BY TasksAre DEF Counted, Once
<1>6. Items(queue') = Items(queue)
  BY <1>1
<1>7. Tasks' = (Tasks \ {t}) \cup {u}
  BY <1>1, <1>5, <1>6, TasksAre
<1>8. u \notin Items(queue')
  <2>1. ASSUME u \in Items(queue) PROVE FALSE
    <3>1. u \in Tasks
      BY <2>1, TasksAre
    <3>2. u = t
      BY <1>4, <1>5, <3>1 DEF Counted, Once
    <3> QED BY <1>5, <2>1, <3>2
  <2> QED BY <1>6, <2>1
<1>9. Injective(queue') /\ \A x \in running' : x \notin Items(queue')
  BY <1>1, <1>6, <1>8 DEF Counted, Once
<1> QED BY <1>1, <1>2, <1>4, <1>5, <1>7, <1>9, MovedCounted, SameCalm

\* The last access of a closure to its connection.
LEMMA LeaveCounted ==
  ASSUME TypeOK, Counted, NEW t \in running, TaskLeave(t)
  PROVE  Counted'
<1>1. /\ conn' = [conn EXCEPT ![t.fd].active_workers = @ - 1]
      /\ running' = running \ {t} /\ ConnOf(t)
      /\ UNCHANGED <<req, sock, g_conns, built, connects, queue>>
      /\ conn \in [Fds -> Connection] /\ g_conns \subseteq Fds
  BY DEF TaskLeave, TypeOK, ObjTypeOK
<1>2. /\ t \in Tasks /\ t \notin Items(queue) /\ Items(queue') = Items(queue)
      /\ IsFiniteSet(Tasks)
  BY <1>1, TasksAre DEF Counted, Once
<1>3. Tasks' = Tasks \ {t}
  BY <1>1, <1>2, TasksAre
<1>4. /\ t.fd \in g_conns /\ conn[t.fd].serial = t.cserial
      /\ \A fd \in Fds : /\ conn'[fd].serial = conn[fd].serial
                         /\ fd # t.fd => conn'[fd].active_workers = conn[fd].active_workers
      /\ conn'[t.fd].active_workers = conn[t.fd].active_workers - 1
  BY <1>1 DEF ConnOf, Connection
<1>5. Once'
  BY <1>1, <1>2, <1>3, FS_Subset DEF Counted, Once
<1>6. Numbered' /\ Serials'
  BY <1>1, <1>3 DEF Counted, Numbered, Serials
<1>7. Linked'
  BY <1>1, <1>3, <1>4 DEF Counted, Linked
<1>8. ASSUME NEW fd \in g_conns
      PROVE  conn'[fd].active_workers =
               Cardinality({x \in Tasks' : x.fd = fd /\ x.cserial = conn'[fd].serial})
  <2> DEFINE s == conn[fd].serial
             now == {x \in Tasks' : x.fd = fd /\ x.cserial = conn'[fd].serial}
  <2>1. conn[fd].active_workers = Cardinality(Of(fd, s))
    BY DEF Counted, WorkersAreCounted, Of
  <2>2. now = Of(fd, s) \ {t} /\ conn'[fd].serial = s
    BY <1>1, <1>3, <1>4 DEF Of
  <2>3. CASE fd = t.fd
    <3>1. t \in Of(fd, s) /\ IsFiniteSet(Of(fd, s))
      BY <1>2, <1>4, <2>3, FS_Subset DEF Of
    <3>2. Cardinality(Of(fd, s) \ {t}) = Cardinality(Of(fd, s)) - 1
      BY <3>1, FS_RemoveElement
    <3> QED BY <1>4, <2>1, <2>2, <2>3, <3>2
  <2>4. CASE fd # t.fd
    <3>1. t \notin Of(fd, s)
      BY <2>4 DEF Of
    <3>2. Of(fd, s) \ {t} = Of(fd, s)
      BY <3>1
    <3> QED BY <1>1, <1>4, <2>1, <2>2, <2>4, <3>2
  <2> QED BY <2>3, <2>4
<1>9. WorkersAreCounted'
  BY <1>1, <1>8 DEF WorkersAreCounted
<1> QED BY <1>5, <1>6, <1>7, <1>9 DEF Counted

\* A request that is gone has number 0, which no closure carries.
LEMMA ReleaseCounted ==
  ASSUME TypeOK, Counted, NEW a, NEW under, ReleaseRequest(a, under)
  PROVE  Counted'
<1>1. /\ req' = [req EXCEPT ![a] = Destroyed(@)]
      /\ UNCHANGED <<conn, sock, g_conns, built, connects, queue, running>>
      /\ req \in [Arena -> Request] /\ built \in Nat
  BY DEF ReleaseRequest, TypeOK, ObjTypeOK
<1>2. \A r : Destroyed(r).serial = 0 /\ ~Destroyed(r).live
  BY DEF Destroyed, NewRequest
<1>3. \A b \in Arena : req'[b] = req[b] \/ (req'[b].serial = 0 /\ ~req'[b].live)
  BY <1>1, <1>2
<1>4. Tasks' = Tasks /\ g_conns \subseteq Fds
  BY <1>1 DEF Tasks, TypeOK, ObjTypeOK
<1>5. Once' /\ Linked' /\ WorkersAreCounted'
  BY <1>1, <1>4 DEF Counted, Once, Linked, WorkersAreCounted
<1>6. Numbered'
  BY <1>1, <1>3, <1>4 DEF Counted, Numbered
<1>7. Serials'
  BY <1>1, <1>3 DEF Counted, Serials
<1> QED BY <1>5, <1>6, <1>7 DEF Counted

\* A connection goes; its number is not used again.
LEMMA CloseCounted ==
  ASSUME TypeOK, Counted, CloseFd
  PROVE  Counted'
<1> DEFINE fd == Top.fd
<1>1. /\ g_conns' = g_conns \ {fd}
      /\ conn' = [conn EXCEPT ![fd] = NewConnection(0)]
      /\ sock' = [sock EXCEPT ![fd] = FreeSock]
      /\ UNCHANGED <<req, built, connects, queue, running>>
      /\ conn \in [Fds -> Connection] /\ sock \in [Fds -> Socket] /\ g_conns \subseteq Fds
      /\ connects \in Nat
  BY DEF CloseFd, TypeOK, ObjTypeOK, EnvTypeOK
<1> HIDE DEF fd
<1>2. NewConnection(0).serial = 0 /\ FreeSock.st = "free"
  BY DEF NewConnection, FreeSock
<1>3. Tasks' = Tasks
  BY <1>1 DEF Tasks
<1>4. Once' /\ Numbered' /\ Serials'
  BY <1>1, <1>3 DEF Counted, Once, Numbered, Serials
<1>5. \A gd \in Fds : gd # fd => conn'[gd] = conn[gd] /\ sock'[gd] = sock[gd]
  BY <1>1
<1>6. fd \in Fds => conn'[fd].serial = 0 /\ sock'[fd].st = "free"
  BY <1>1, <1>2
<1>7. Linked'
  BY <1>1, <1>3, <1>5, <1>6 DEF Counted, Linked
<1>8. WorkersAreCounted'
  BY <1>1, <1>3, <1>5 DEF Counted, WorkersAreCounted
<1> QED BY <1>4, <1>7, <1>8 DEF Counted

\* A new connection has a new number: no closure points to it.
LEMMA AcceptCounted ==
  ASSUME TypeOK, Counted, NEW fd \in Fds, AcceptOne(fd)
  PROVE  Counted'
<1> DEFINE s == sock[fd].serial
<1>1. /\ sock[fd].st = "backlog"
      /\ sock' = [sock EXCEPT ![fd].st = "conn"]
      /\ g_conns' = g_conns \cup {fd}
      /\ conn' = [conn EXCEPT ![fd] = NewConnection(s)]
      /\ UNCHANGED <<req, built, connects, queue, running>>
      /\ conn \in [Fds -> Connection] /\ sock \in [Fds -> Socket] /\ g_conns \subseteq Fds
  BY DEF AcceptOne, Backlog, TypeOK, ObjTypeOK, EnvTypeOK
<1>2. s \in 1 .. connects /\ \A t \in Tasks : t.fd = fd => t.cserial # s
  BY <1>1 DEF Counted, Linked
<1> HIDE DEF s
<1>3. NewConnection(s).serial = s /\ NewConnection(s).active_workers = 0
  BY DEF NewConnection
<1>4. Tasks' = Tasks
  BY <1>1 DEF Tasks
<1>5. Once' /\ Numbered' /\ Serials'
  BY <1>1, <1>4 DEF Counted, Once, Numbered, Serials
<1>6. /\ \A gd \in Fds : gd # fd => conn'[gd] = conn[gd] /\ sock'[gd] = sock[gd]
      /\ conn'[fd].serial = s /\ conn'[fd].active_workers = 0
      /\ sock'[fd].st = "conn"
  <2>1. sock'[fd].st = "conn"
    BY <1>1 DEF Socket
  <2> QED BY <1>1, <1>3, <2>1
<1>7. connects \in Nat
  BY DEF TypeOK, EnvTypeOK
<1>8. Linked'
  <2>1. ASSUME NEW gd \in Fds, gd # fd
        PROVE  /\ conn'[gd].serial <= connects
               /\ gd \in g_conns' => sock'[gd].st = "conn"
               /\ gd \notin g_conns' => conn'[gd].serial = 0
               /\ sock'[gd].st = "backlog" =>
                    /\ sock'[gd].serial \in 1 .. connects
                    /\ \A t \in Tasks : t.fd = gd => t.cserial # sock'[gd].serial
    BY <1>1, <1>6, <2>1 DEF Counted, Linked
  <2>2. s <= connects
    BY <1>2, <1>7
  <2> QED BY <1>1, <1>4, <1>6, <2>1, <2>2 DEF Linked
<1>9. WorkersAreCounted'
  <2>1. {t \in Tasks : t.fd = fd /\ t.cserial = s} = {}
    BY <1>2
  <2>2. Cardinality({t \in Tasks : t.fd = fd /\ t.cserial = s}) = 0
    BY <2>1, FS_EmptySet
  <2> QED BY <1>1, <1>4, <1>6, <2>2 DEF Counted, WorkersAreCounted
<1> QED BY <1>5, <1>8, <1>9 DEF Counted

LEMMA ConnectCounted ==
  ASSUME TypeOK, Counted, NEW fd \in Fds, NEW keep \in KeepFlags, PeerConnect(fd, keep)
  PROVE  Counted'
<1> DEFINE new == [FreeSock EXCEPT !.st = "backlog", !.keep = keep, !.serial = connects + 1]
<1>1. /\ sock[fd].st = "free" /\ connects' = connects + 1
      /\ sock' = [sock EXCEPT ![fd] = new]
      /\ UNCHANGED <<conn, req, g_conns, built, queue, running>>
      /\ sock \in [Fds -> Socket] /\ g_conns \subseteq Fds /\ connects \in Nat
      /\ conn \in [Fds -> Connection]
  BY DEF PeerConnect, TypeOK, ObjTypeOK, EnvTypeOK
<1>2. new.st = "backlog" /\ new.serial = connects + 1
  BY DEF FreeSock
<1> HIDE DEF new
<1>3. /\ sock'[fd].st = "backlog" /\ sock'[fd].serial = connects + 1
      /\ \A gd \in Fds : gd # fd => sock'[gd] = sock[gd]
  BY <1>1, <1>2
<1>4. Tasks' = Tasks /\ Tasks \subseteq Closure
  <2>1. queue \in Seq(Closure) /\ running \subseteq Closure
    BY DEF TypeOK, TaskTypeOK
  <2> QED BY <1>1, <2>1 DEF Tasks
<1>5. Once' /\ Serials' /\ WorkersAreCounted'
  BY <1>1, <1>4 DEF Counted, Once, Serials, WorkersAreCounted
<1>6. \A t \in Tasks : t.cserial \in Nat /\ t.cserial <= connects
  BY <1>4 DEF Counted, Numbered, Closure
<1>7. Numbered'
  BY <1>1, <1>4, <1>6 DEF Counted, Numbered
<1>8. fd \notin g_conns
  BY <1>1 DEF Counted, Linked
<1>9. \A gd \in Fds : conn[gd].serial \in Nat /\ conn[gd].serial <= connects
  BY <1>1 DEF Counted, Linked, Connection
<1>10. Linked'
  <2>1. ASSUME NEW gd \in Fds, gd # fd
        PROVE  /\ conn'[gd].serial <= connects'
               /\ gd \in g_conns' => sock'[gd].st = "conn"
               /\ gd \notin g_conns' => conn'[gd].serial = 0
               /\ sock'[gd].st = "backlog" =>
                    /\ sock'[gd].serial \in 1 .. connects'
                    /\ \A t \in Tasks' : t.fd = gd => t.cserial # sock'[gd].serial
    <3>1. conn'[gd].serial <= connects'
      BY <1>1, <1>9
    <3>2. ASSUME sock[gd].st = "backlog" PROVE sock[gd].serial \in 1 .. connects'
      <4>1. sock[gd].serial \in 1 .. connects
        BY <3>2 DEF Counted, Linked
      <4> QED BY <1>1, <4>1
    <3> QED BY <1>1, <1>3, <1>4, <2>1, <3>1, <3>2 DEF Counted, Linked
  <2>2. connects + 1 \in 1 .. connects' /\ conn'[fd].serial <= connects'
    BY <1>1, <1>9
  <2>3. \A t \in Tasks' : t.cserial # connects + 1
    BY <1>1, <1>4, <1>6
  <2>4. conn'[fd].serial = 0
    BY <1>1, <1>8 DEF Counted, Linked
  <2> QED BY <1>1, <1>3, <1>8, <2>1, <2>2, <2>3, <2>4 DEF Linked
<1> QED BY <1>5, <1>7, <1>10 DEF Counted

\* A record for request r of arena a: r is new, or it is the one in the arena.
LEMMA DeliveredCounted ==
  ASSUME TypeOK, Counted, NEW a \in Arena, NEW r \in Request, r.conn_ptr \in Fds,
         NEW fd, NEW id, NEW go \in BOOLEAN, Delivered(a, r, fd, id, go),
         UNCHANGED <<g_conns, connects, sock>>,
         built' \in Nat, built <= built', r.live, r.serial \in 1 .. built',
         conn[r.conn_ptr].serial = r.cserial,
         \A t \in Tasks : t.serial = r.serial => t.nth <= r.dispatches,
         \A b \in Arena \ {a} : req[b].serial # r.serial
  PROVE  Counted'
<1> DEFINE u == ClosureOf(a, r)
           gd == r.conn_ptr
<1>1. /\ u.serial = r.serial /\ u.nth = r.dispatches + 1 /\ u.fd = gd
      /\ u.cserial = r.cserial /\ r.dispatches \in Nat
  BY DEF ClosureOf, Request
<1>2. /\ req'[a].serial = r.serial /\ req'[a].live
      /\ req'[a].dispatches = IF go THEN r.dispatches + 1 ELSE r.dispatches
      /\ \A b \in Arena \ {a} : req'[b] = req[b]
  BY DEF Delivered, SameRequest
<1>3. /\ \A k \in Fds : conn'[k].serial = conn[k].serial
      /\ \A k \in Fds : conn'[k].active_workers = IF go /\ k = gd
                                                    THEN conn[k].active_workers + 1
                                                    ELSE conn[k].active_workers
      /\ queue' = IF go THEN Append(queue, u) ELSE queue
      /\ UNCHANGED running
  BY DEF Delivered
<1>4. /\ queue \in Seq(Closure) /\ Tasks \subseteq Closure /\ g_conns \subseteq Fds
      /\ built \in Nat /\ connects \in Nat
  <2>1. queue \in Seq(Closure) /\ running \subseteq Closure
    BY DEF TypeOK, TaskTypeOK
  <2> QED BY <2>1 DEF Tasks, TypeOK, ObjTypeOK, EnvTypeOK
<1> HIDE DEF u, gd
<1>5. gd \in Fds
  BY DEF gd
<1>6. \A t \in Tasks : ~Same(t, u) /\ ~Same(u, t)
  <2> SUFFICES ASSUME NEW t \in Tasks, t.serial = r.serial, t.nth = r.dispatches + 1
               PROVE FALSE
    BY <1>1 DEF Same
  <2>1. t.nth <= r.dispatches /\ t.nth \in Nat
    BY <1>4 DEF Closure
  <2> QED BY <1>1, <2>1
<1>7. u \notin Tasks
  BY <1>6 DEF Same
<1>8. Serials'
  <2>1. \A b \in Arena \ {a} : req[b].serial <= built /\ req[b].serial \in Nat
    BY DEF Counted, Serials, TypeOK, ObjTypeOK, Request
  <2>2. \A b \in Arena \ {a} : req'[b].serial <= built'
    BY <1>2, <1>4, <2>1
  <2>3. r.serial <= built' /\ r.serial # 0
    OBVIOUS
  <2>4. \A b \in Arena : req'[b].serial <= built' /\ (req'[b].live <=> req'[b].serial # 0)
    BY <1>2, <2>2, <2>3 DEF Counted, Serials
  <2>5. \A b, c \in Arena : req'[b].serial = req'[c].serial /\ req'[b].live => b = c
    BY <1>2 DEF Counted, Serials
  <2> QED BY <2>4, <2>5 DEF Serials
<1>9. conn[gd].serial = r.cserial
  BY DEF gd
<1>10. r.cserial <= connects
  BY <1>5, <1>9 DEF Counted, Linked
<1>11. \A t \in Tasks : t.serial \in 1 .. built' /\ t.cserial <= connects
  <2>1. \A t \in Tasks : t.serial \in 1 .. built /\ t.cserial <= connects
    BY DEF Counted, Numbered
  <2> QED BY <1>4, <2>1
<1>12. \A t \in Tasks, b \in Arena : req'[b].serial = t.serial => t.nth <= req'[b].dispatches
  <2>1. ASSUME NEW t \in Tasks, t.serial = r.serial PROVE t.nth <= req'[a].dispatches
    <3>1. t.nth <= r.dispatches /\ t.nth \in Nat
      BY <1>4, <2>1 DEF Closure
    <3> QED BY <1>1, <1>2, <3>1
  <2>2. ASSUME NEW t \in Tasks, NEW b \in Arena \ {a}, req[b].serial = t.serial
        PROVE  t.nth <= req[b].dispatches
    BY <2>2 DEF Counted, Numbered
  <2> QED BY <1>2, <2>1, <2>2
<1>13. CASE ~go
  <2>1. Tasks' = Tasks /\ UNCHANGED queue
    BY <1>3, <1>13 DEF Tasks
  <2>2. Once'
    BY <1>3, <2>1 DEF Counted, Once
  <2>3. Numbered'
    BY <1>11, <1>12, <2>1 DEF Numbered
  <2>4. Linked'
    BY <1>3, <2>1 DEF Counted, Linked
  <2>5. WorkersAreCounted'
    BY <1>3, <1>4, <1>13, <2>1 DEF Counted, WorkersAreCounted
  <2> QED BY <1>8, <2>2, <2>3, <2>4, <2>5 DEF Counted
<1>14. CASE go
  <2>1. queue' = Append(queue, u)
    BY <1>3, <1>14
  <2>2. u \notin Items(queue) /\ u \notin running
    BY <1>7, TasksAre
  <2>3. Items(queue') = Items(queue) \cup {u} /\ Injective(queue')
    <3> DEFINE S == Closure \cup {u}
    <3>1. queue \in Seq(S) /\ u \in S
      BY <1>4
    <3>2. Injective(queue)
      BY DEF Counted, Once
    <3> HIDE DEF S
    <3> QED BY <2>1, <2>2, <3>1, <3>2, LongQueue
  <2>4. Tasks' = Tasks \cup {u}
    BY <1>3, <2>3, TasksAre
  <2>5. Once'
    <3>1. IsFiniteSet(Tasks')
      <4>1. IsFiniteSet(Tasks)
        BY DEF Counted, Once
      <4> QED BY <2>4, <4>1, FS_AddElement
    <3>2. \A x, y \in Tasks' : Same(x, y) => x = y
      BY <1>6, <2>4 DEF Counted, Once
    <3>3. \A x \in running' : x \notin Items(queue')
      BY <1>3, <2>2, <2>3 DEF Counted, Once
    <3> QED BY <2>3, <3>1, <3>2, <3>3 DEF Once
  <2>6. Numbered'
    <3>1. \A b \in Arena : req'[b].serial = u.serial => u.nth <= req'[b].dispatches
      <4>1. u.nth <= req'[a].dispatches
        BY <1>1, <1>2, <1>14
      <4> QED BY <1>1, <1>2, <4>1
    <3> QED BY <1>1, <1>10, <1>11, <1>12, <2>4, <3>1 DEF Numbered
  <2>7. Linked'
    <3>1. ASSUME NEW k \in Fds, sock[k].st = "backlog", u.fd = k
          PROVE  u.cserial # sock[k].serial
      <4>1. k \notin g_conns /\ sock[k].serial \in 1 .. connects
        BY <3>1 DEF Counted, Linked
      <4>2. conn[k].serial = 0
        BY <4>1 DEF Counted, Linked
      <4> QED BY <1>1, <1>9, <3>1, <4>1, <4>2
    <3> QED BY <1>3, <2>4, <3>1 DEF Counted, Linked
  <2>8. ASSUME NEW k \in g_conns
        PROVE  conn'[k].active_workers =
                 Cardinality({x \in Tasks' : x.fd = k /\ x.cserial = conn'[k].serial})
    <3> DEFINE s == conn[k].serial
               now == {x \in Tasks' : x.fd = k /\ x.cserial = conn'[k].serial}
    <3>1. conn[k].active_workers = Cardinality(Of(k, s)) /\ k \in Fds
      BY <1>4 DEF Counted, WorkersAreCounted, Of
    <3>2. conn'[k].serial = s
      BY <1>3, <3>1
    <3>3. CASE k = gd
      <4>1. now = Of(k, s) \cup {u}
        BY <1>1, <1>9, <2>4, <3>2, <3>3 DEF Of
      <4>2. IsFiniteSet(Of(k, s)) /\ u \notin Of(k, s)
        BY <1>7, FS_Subset DEF Of, Counted, Once
      <4>3. Cardinality(Of(k, s) \cup {u}) = Cardinality(Of(k, s)) + 1
        BY <4>2, FS_AddElement
      <4>4. conn'[k].active_workers = conn[k].active_workers + 1
        BY <1>3, <1>14, <3>1, <3>3
      <4> QED BY <3>1, <4>1, <4>3, <4>4
    <3>4. CASE k # gd
      <4>1. now = Of(k, s)
        BY <1>1, <2>4, <3>2, <3>4 DEF Of
      <4>2. conn'[k].active_workers = conn[k].active_workers
        BY <1>3, <3>1, <3>4
      <4> QED BY <3>1, <4>1, <4>2
    <3> QED BY <3>3, <3>4
  <2>9. WorkersAreCounted'
    BY <2>8 DEF WorkersAreCounted
  <2> QED BY <1>8, <2>5, <2>6, <2>7, <2>9 DEF Counted
<1> QED BY <1>13, <1>14

LEMMA NewCounted ==
  ASSUME TypeOK, Counted, NEW a \in Arena, ParseNew(a)
  PROVE  Counted'
<1> DEFINE r == NewRequest(built + 1, Top.fd, conn[Top.fd].serial, NextRecord.id)
<1>1. /\ r \in Request /\ r.conn_ptr \in Fds
      /\ \E go \in BOOLEAN : Delivered(a, r, Top.fd, NextRecord.id, go)
  BY ParseDelivers
<1>2. /\ r.live /\ r.serial = built + 1 /\ r.conn_ptr = Top.fd /\ r.dispatches = 0
      /\ r.cserial = conn[Top.fd].serial
  BY DEF NewRequest
<1>3. /\ built' = built + 1 /\ UNCHANGED <<g_conns, connects, sock>> /\ built \in Nat
      /\ req \in [Arena -> Request]
  BY DEF ParseNew, TypeOK, ObjTypeOK
<1> HIDE DEF r
<1>4. built' \in Nat /\ built <= built' /\ r.serial \in 1 .. built'
  BY <1>2, <1>3
<1>5. \A t \in Tasks : t.serial # r.serial
  <2>1. \A t \in Tasks : t.serial \in 1 .. built
    BY DEF Counted, Numbered
  <2> QED BY <1>2, <1>3, <2>1
<1>6. \A b \in Arena : req[b].serial # r.serial
  <2>1. \A b \in Arena : req[b].serial <= built /\ req[b].serial \in Nat
    BY <1>3 DEF Counted, Serials, Request
  <2> QED BY <1>2, <1>3, <2>1
<1> QED BY <1>1, <1>2, <1>3, <1>4, <1>5, <1>6, DeliveredCounted

LEMMA KnownCounted ==
  ASSUME TypeOK, Counted, NEW a \in Arena, ParseKnown(a), ~ParseNew(a)
  PROVE  Counted'
<1> DEFINE r == req[a]
<1>1. /\ r \in Request /\ r.conn_ptr \in Fds
      /\ \E go \in BOOLEAN : Delivered(a, r, Top.fd, NextRecord.id, go)
  BY ParseDelivers
<1>2. /\ r.live /\ conn[r.conn_ptr].serial = r.cserial
      /\ UNCHANGED <<g_conns, connects, sock, built>> /\ built \in Nat
  BY DEF ParseKnown, ConnGone, TypeOK, ObjTypeOK
<1>3. r.serial \in 1 .. built
  <2>1. r.serial <= built /\ r.serial # 0 /\ r.serial \in Nat
    BY <1>1, <1>2 DEF Counted, Serials, Request
  <2> QED BY <1>2, <2>1
<1>4. \A b \in Arena \ {a} : req[b].serial # r.serial
  BY <1>2 DEF Counted, Serials
<1>5. \A t \in Tasks : t.serial = r.serial => t.nth <= r.dispatches
  BY DEF Counted, Numbered
<1> HIDE DEF r
<1> QED BY <1>1, <1>2, <1>3, <1>4, <1>5, DeliveredCounted

LEMMA CountedStays ==
  ASSUME TypeOK, Counted, [Next]_vars
  PROVE  Counted'
<1>1. CASE \E fd \in Fds : AcceptOne(fd)
  BY <1>1, AcceptCounted
<1>2. CASE \E a \in Arena : ParseNew(a) \/ ParseKnown(a)
  BY <1>2, NewCounted, KnownCounted
<1>3. CASE \E id \in Ids : SweepFree(id) \/ CleanupOne(id)
  <2>1. \E a, under : ReleaseRequest(a, under)
    BY <1>3 DEF SweepFree, CleanupOne
  <2> QED BY <2>1, ReleaseCounted
<1>4. CASE CloseFd
  BY <1>4, CloseCounted
<1>5. CASE TaskStart \/ \E t \in running : TaskPush(t) \/ TaskInactive(t) \/ TaskLeave(t)
  BY <1>5, StartCounted, MoveCounted, LeaveCounted
<1>6. CASE \E fd \in Fds, keep \in KeepFlags : PeerConnect(fd, keep)
  BY <1>6, ConnectCounted
<1>7. CASE ~\E fd \in Fds, keep \in KeepFlags : PeerConnect(fd, keep)
  BY <1>1, <1>2, <1>3, <1>4, <1>5, <1>7, CalmSteps, CalmCounted
     DEF Next, IoThread, Workers, AcceptStep, ParseStep, HandleStep, CloseStep
<1> QED BY <1>6, <1>7

LEMMA InitCounted == Init => Counted
<1> SUFFICES ASSUME Init PROVE Counted
  OBVIOUS
<1>1. Items(<<>>) = {}
  BY FramesAre
<1>2. Tasks = {} /\ Items(queue) = {} /\ running = {}
  BY <1>1, TasksAre DEF Init
<1>3. Once
  <2>1. IsFiniteSet({})
    BY FS_EmptySet
  <2>2. Injective(queue)
    <3>1. queue = <<>> /\ \A i \in 1 .. Len(<<>>) : FALSE
      BY DEF Init
    <3> QED BY <3>1 DEF Injective
  <2> QED BY <1>2, <2>1, <2>2 DEF Once
<1>4. \A a \in Arena : req[a].serial = 0 /\ ~req[a].live
  BY DEF Init, NoRequest, Destroyed, NewRequest
<1>5. \A fd \in Fds : conn[fd].serial = 0 /\ sock[fd].st = "free" /\ fd \notin g_conns
  BY DEF Init, NewConnection, FreeSock
<1>6. built = 0 /\ connects = 0
  BY DEF Init
<1>7. Numbered /\ Serials
  BY <1>2, <1>4, <1>6 DEF Numbered, Serials
<1>8. Linked /\ WorkersAreCounted
  BY <1>5, <1>6 DEF Linked, WorkersAreCounted, Init
<1> QED BY <1>3, <1>7, <1>8 DEF Counted

(***************************************************************************)
(* active_workers, which should_close_connection relies on, is at every    *)
(* moment the number of closures, queued or running, that still point to   *)
(* the connection: one is made with each increment (process_buffer) and    *)
(* ends with its decrement, under whatever interleaving with the IO        *)
(* thread, and a descriptor that is used again starts from no closure.     *)
(***************************************************************************)
THEOREM CountsExact == Spec => []WorkersAreCounted
<1>1. Init => Counted
  BY InitCounted
<1>2. TypeOK /\ Counted /\ [Next]_vars => Counted'
  BY CountedStays
<1>3. Counted => WorkersAreCounted
  BY DEF Counted
<1> QED BY <1>1, <1>2, <1>3, TypeCorrect, PTL DEF Spec

-----------------------------------------------------------------------------
(* Waiting and the arenas *)

\* The frames that parse a connection, and those that serve the waiting list.
Parsers == {f \in Frames : f.pc = "fcgi"}
Servers == {f \in Frames : f.pc \in {"waiting", "waited"}}

\* Records that process_buffer reads past.
Whole(rec) == rec.type \notin {"BAD", "PARTIAL"}

\* Record k of in_buf is the BEGIN_REQUEST of a request not in the map, and
\* nothing before it keeps the parser from reaching it.
BeginAt(fd, k) ==
  /\ k \in 1 .. Len(conn[fd].in_buf)
  /\ conn[fd].in_buf[k].type = "BEGIN"
  /\ conn[fd].requests[conn[fd].in_buf[k].id] = NoArena
  /\ \A i \in 1 .. k - 1 : Whole(conn[fd].in_buf[i])

\* Such a record is left after the first n.
Deferred(fd, n) == \E k : BeginAt(fd, k) /\ k > n

OpenWaiting(fd) == conn[fd].waiting_for_arena /\ ~conn[fd].closed

Parsing(fd) == \E f \in Parsers : f.fd = fd

\* A frame that serves the waiting list has fd still before it.
ToVisit(f, fd) == \E i \in 1 .. Len(g_waiting_conns) : i <= f.m /\ g_waiting_conns[i] = fd

AllRead ==
  \A f \in Parsers : /\ f.n <= Len(conn[f.fd].in_buf)
                     /\ \A i \in 1 .. f.n : Whole(conn[f.fd].in_buf[i])

\* The deferred BEGIN_REQUEST is still in the buffer.
Defers ==
  \A fd \in g_conns : OpenWaiting(fd) => Parsing(fd) \/ Deferred(fd, 0)

Budget == \A f \in Servers : available_count <= f.n

\* A connection that was waiting and is so no longer has taken an arena.
Spent ==
  \A f \in Servers : f.pc = "waited" /\ f.was =>
    /\ Parsers = {} /\ ~conn[f.fd].waiting_for_arena => available_count < f.n
    /\ \A g \in Parsers : available_count < f.n \/ Deferred(g.fd, g.n)

\* While an arena is free, all that wait are being served or will be.
Visits ==
  \A fd \in g_conns : OpenWaiting(fd) =>
    available_count = 0 \/ Parsing(fd) \/ \E f \in Servers : ToVisit(f, fd)

Queued == AllRead /\ Defers /\ Budget /\ Spent /\ Visits

\* What a connection keeps in a step that does not parse it.
KeepsConn(c, d) ==
  /\ d.in_buf = c.in_buf /\ d.waiting_for_arena = c.waiting_for_arena
  /\ c.closed => d.closed
  /\ \A id \in Ids : c.requests[id] = NoArena => d.requests[id] = NoArena

Keeps == \A fd \in Fds : KeepsConn(conn[fd], conn'[fd])

Carried ==
  \A fd \in g_conns' : \/ fd \in g_conns /\ KeepsConn(conn[fd], conn'[fd])
                       \/ ~conn'[fd].waiting_for_arena

LEMMA KeptDeferred ==
  ASSUME TypeOK, NEW fd \in Fds, KeepsConn(conn[fd], conn'[fd])
  PROVE  /\ \A n : Deferred(fd, n) => Deferred(fd, n)'
         /\ OpenWaiting(fd)' => OpenWaiting(fd)
<1>1. \A k \in 1 .. Len(conn[fd].in_buf) : conn[fd].in_buf[k].type = "BEGIN" =>
        conn[fd].in_buf[k].id \in Ids
  <2>1. conn[fd].in_buf \in Seq(Record)
    BY DEF TypeOK, ObjTypeOK, Connection
  <2> QED BY <2>1 DEF Record, RecordOf
<1>2. \A k : BeginAt(fd, k) => BeginAt(fd, k)'
  BY <1>1 DEF BeginAt, KeepsConn
<1> QED BY <1>2 DEF Deferred, OpenWaiting, KeepsConn

\* A step between states in which nothing is parsed and nobody served.
LEMMA RestKeeps ==
  ASSUME TypeOK, TypeOK', Queued, Parsers = {}, Servers = {}, Parsers' = {}, Servers' = {},
         Carried, UNCHANGED available_count
  PROVE  Queued'
<1>1. ASSUME NEW fd \in g_conns', OpenWaiting(fd)'
      PROVE  Deferred(fd, 0)' /\ available_count' = 0
  <2>1. fd \in g_conns /\ KeepsConn(conn[fd], conn'[fd]) /\ fd \in Fds
    BY <1>1 DEF Carried, OpenWaiting, TypeOK, ObjTypeOK
  <2> QED BY <1>1, <2>1, KeptDeferred DEF Queued, Defers, Visits, Parsing
<1> QED BY <1>1 DEF Queued, AllRead, Defers, Budget, Spent, Visits

\* A step beside the IO thread, or of it that leaves these frames alone.
LEMMA FramesKeep ==
  ASSUME TypeOK, TypeOK', Queued, Parsers' = Parsers, Servers' = Servers,
         Keeps, UNCHANGED <<g_conns, g_waiting_conns, available_count>>
  PROVE  Queued'
<1>1. \A f \in Parsers \cup Servers : f.pc # "waiting" => f.fd \in Fds
  <2>1. Frames \subseteq StackFrame
    BY DEF Frames, Items, TypeOK, IoTypeOK
  <2> QED BY <2>1 DEF Parsers, Servers, StackFrame, FrameOf, FdPC, LoopPC
<1>2. \A f \in Parsers : f.fd \in Fds
  BY <1>1 DEF Parsers
<1>3. AllRead'
  BY <1>2 DEF Queued, AllRead, Keeps, KeepsConn
<1>4. g_conns \subseteq Fds
  BY DEF TypeOK, ObjTypeOK
<1>5. Defers'
  BY <1>4, KeptDeferred DEF Queued, Defers, Keeps, Parsing
<1>6. Spent'
  BY <1>1, <1>2, KeptDeferred DEF Queued, Spent, Keeps, KeepsConn
<1>7. Visits'
  BY <1>4, KeptDeferred DEF Queued, Visits, Keeps, Parsing, ToVisit
<1> QED BY <1>3, <1>5, <1>6, <1>7 DEF Queued, Budget

\* Where the frames of these two kinds are in the stack.
LEMMA QuietStack ==
  ASSUME TypeOK, Loops, stack # <<>> => Top.pc \notin {"fcgi", "waiting", "waited"}
  PROVE  Parsers = {} /\ Servers = {}
<1>1. CASE stack = <<>>
  BY <1>1, CallFrames DEF Parsers, Servers
<1>2. CASE stack # <<>>
  <2>1. Frames = {Top} \cup Below
    BY <1>2, StackFrames
  <2>2. \A f \in Below : f.pc \in {"closing", "housekeeping"}
    BY <1>2, AloneFrames, CleanupFrames
  <2> QED BY <1>2, <2>1, <2>2 DEF Parsers, Servers
<1> QED BY <1>1, <1>2

LEMMA OnTop ==
  ASSUME TypeOK, Loops, stack # <<>>
  PROVE  /\ Top.pc = "fcgi" => /\ Parsers = {Top}
                               /\ Servers = {f \in Below : f.pc \in {"waiting", "waited"}}
                               /\ \A f \in Below : f.pc # "waiting"
         /\ Top.pc \in {"waiting", "waited"} =>
              /\ Parsers = {} /\ Servers = {Top}
              /\ \A f \in Below : f.pc \notin {"fcgi", "waiting", "waited"}
<1>1. Frames = {Top} \cup Below
  BY StackFrames
<1>2. stack \in Seq(StackFrame) /\ Tail(stack) \in Seq(StackFrame)
  BY DEF TypeOK, IoTypeOK
<1>3. ASSUME NEW f \in Below
      PROVE  \E i \in 1 .. Len(stack) - 1 : stack[i + 1] = f /\ <<stack[i].pc, f.pc>> \in Calls
  <2>1. PICK i \in 1 .. Len(Tail(stack)) : f = Tail(stack)[i]
    BY DEF Below, Items
  <2>2. i \in 1 .. Len(stack) - 1 /\ stack[i + 1] = f
    BY <1>2, <2>1
  <2> QED BY <2>2 DEF Loops, StackShape
<1>4. \A f \in Below : f.pc \notin {"fcgi", "waiting"}
  BY <1>3 DEF Calls
<1>5. ASSUME NEW f \in Below, f.pc = "waited" PROVE Top.pc = "fcgi"
  <2>1. PICK i \in 1 .. Len(stack) - 1 :
          stack[i + 1] = f /\ <<stack[i].pc, f.pc>> \in Calls
    BY <1>3
  <2>2. stack[i].pc = "fcgi"
    BY <1>5, <2>1 DEF Calls
  <2>3. i = 1
    <3> SUFFICES ASSUME i # 1 PROVE FALSE
      OBVIOUS
    <3>1. i - 1 \in 1 .. Len(stack) - 1 /\ (i - 1) + 1 = i
      BY <1>2
    <3>2. <<stack[i - 1].pc, stack[(i - 1) + 1].pc>> \in Calls
      BY <3>1 DEF Loops, StackShape
    <3> QED BY <2>2, <3>1, <3>2 DEF Calls
  <2> QED BY <2>2, <2>3, TopFrame
<1> QED BY <1>1, <1>4, <1>5 DEF Parsers, Servers

\* Sending, answering and timing out leave what was received alone.
SameInput == \A fd \in Fds : conn'[fd].in_buf = conn[fd].in_buf

LEMMA SteadyKeeps ==
  /\ Conns /\ SameInput => Keeps
  /\ UNCHANGED conn => Keeps
BY DEF Conns, SteadyConn, SameInput, Keeps, KeepsConn

LEMMA FlushKeeps ==
  ASSUME TypeOK, NEW fd \in Fds, Flush(fd, conn[fd])
  PROVE  Keeps
<1>1. conn \in [Fds -> Connection]
  BY DEF TypeOK, ObjTypeOK
<1>2. SameInput
  <2>1. CASE FlushAll(fd, conn[fd])
    BY <1>1, <2>1 DEF FlushAll, SameInput, Connection
  <2>2. CASE FlushSome(fd, conn[fd])
    BY <1>1, <2>2 DEF FlushSome, SameInput, Connection
  <2>3. CASE FlushError(fd, conn[fd])
    BY <1>1, <2>3 DEF FlushError, SameInput, Connection
  <2> QED BY <2>1, <2>2, <2>3 DEF Flush
<1> QED BY <1>2, FlushSteady, SteadyKeeps

LEMMA AnswerKeeps ==
  ASSUME TypeOK, PendingAnswer \/ \E fd \in Fds, id \in Ids : Expire(fd, id)
  PROVE  Keeps
<1>1. conn \in [Fds -> Connection]
  BY DEF TypeOK, ObjTypeOK
<1>2. CASE PendingAnswer
  <2> DEFINE a == Head(taken).arena
             fd == req[a].conn_ptr
             out == Append(conn[fd].out_buf, req[a].id)
             want == conn[fd].epollout \/ conn[fd].out_buf = <<>>
  <2>1. conn' = [conn EXCEPT ![fd].out_buf = out, ![fd].epollout = want]
    BY <1>2 DEF PendingAnswer, Answer
  <2> HIDE DEF out, want, fd, a
  <2>2. SameInput
    BY <1>1, <2>1 DEF SameInput, Connection
  <2> QED BY <2>2, AnswerSteady, SteadyKeeps
<1>3. ASSUME NEW fd \in Fds, NEW id \in Ids, Expire(fd, id)
      PROVE  Keeps
  <2> DEFINE out == Append(conn[fd].out_buf, req[conn[fd].requests[id]].id)
  <2>1. conn' = [conn EXCEPT ![fd] = [conn[fd] EXCEPT !.out_buf = out]]
    BY <1>3 DEF Expire
  <2> HIDE DEF out
  <2>2. SameInput
    BY <1>1, <2>1 DEF SameInput, Connection
  <2> QED BY <1>3, <2>2, AnswerSteady, SteadyKeeps
<1> QED BY <1>2, <1>3

\* Nobody is parsed or served before and after.
Rest == Parsers = {} /\ Servers = {} /\ Parsers' = {} /\ Servers' = {}

LEMMA RestStacks ==
  ASSUME TypeOK, TypeOK', Loops, stack # <<>> => Top.pc \notin {"fcgi", "waiting", "waited"}
  PROVE  /\ UNCHANGED stack => Rest
         /\ \A g : Call(<<g>>) /\ g.pc \notin {"fcgi", "waiting", "waited"} => Rest
         /\ stack # <<>> =>
              /\ Return => Rest
              /\ \A f : (Become(f) \/ CallFrom(f, <<>>))
                         /\ f.pc \notin {"fcgi", "waiting", "waited"} => Rest
<1>1. Parsers = {} /\ Servers = {}
  BY QuietStack
<1>2. UNCHANGED stack => Rest
  BY <1>1, CallFrames DEF Rest, Parsers, Servers
<1>3. ASSUME NEW g, Call(<<g>>), g.pc \notin {"fcgi", "waiting", "waited"} PROVE Rest
  <2>1. g \in StackFrame
    BY <1>3, IntoStack
  <2>2. Frames' = {g} \cup Frames
    BY <1>3, <2>1, CallFrames
  <2> QED BY <1>1, <1>3, <2>2 DEF Rest, Parsers, Servers
<1>4. ASSUME stack # <<>>, Return PROVE Rest
  <2>1. Frames = {Top} \cup Below /\ Frames' = Below
    BY <1>4, StackFrames
  <2> QED BY <1>1, <2>1 DEF Rest, Parsers, Servers
<1>5. ASSUME stack # <<>>, NEW f, Become(f) \/ CallFrom(f, <<>>),
             f.pc \notin {"fcgi", "waiting", "waited"}
      PROVE  Rest
  <2>1. f \in StackFrame
    BY <1>5, IntoStack
  <2>2. Frames = {Top} \cup Below /\ Frames' = {f} \cup Below
    BY <1>5, <2>1, StackFrames
  <2> QED BY <1>1, <1>5, <2>2 DEF Rest, Parsers, Servers
<1> QED BY <1>2, <1>3, <1>4, <1>5

LEMMA Rests ==
  ASSUME TypeOK, TypeOK', Queued, Rest, UNCHANGED available_count,
         Carried \/ (Keeps /\ g_conns' \subseteq g_conns)
  PROVE  Queued'
<1>1. g_conns \subseteq Fds
  BY DEF TypeOK, ObjTypeOK
<1>2. Carried
  BY <1>1 DEF Carried, Keeps
<1> QED BY <1>2, RestKeeps DEF Rest

-----------------------------------------------------------------------------
\* What was received is joined to the records that are there behind them.
LEMMA JoinedKeeps ==
  ASSUME NEW in \in Seq(Record), NEW rx \in Seq(Record), NEW k \in 1 .. Len(in),
         Whole(in[k])
  PROVE  k \in 1 .. Len(Joined(in, rx)) /\ Joined(in, rx)[k] = in[k]
<1>1. CASE EndsPartial(in) /\ rx # <<>>
  <2> DEFINE head == SubSeq(in, 1, Len(in) - 1)
  <2>1. in # <<>> /\ in[Len(in)].type = "PARTIAL" /\ k # Len(in)
    BY <1>1 DEF EndsPartial, Whole
  <2>2. head \in Seq(Record) /\ Len(head) = Len(in) - 1 /\ k \in 1 .. Len(head)
        /\ head[k] = in[k]
    BY <2>1
  <2>3. Joined(in, rx) = head \o rx
    BY <1>1 DEF Joined
  <2> HIDE DEF head
  <2> QED BY <2>2, <2>3
<1>2. CASE ~(EndsPartial(in) /\ rx # <<>>)
  BY <1>2 DEF Joined
<1> QED BY <1>1, <1>2

\* handle_io may read, and call process_fcgi at the first record.
LEMMA IoEventQueued ==
  ASSUME TypeOK, TypeOK', Loops, Queued, NEW e \in batch, IoEvent(e)
  PROVE  Queued'
<1>1. /\ UNCHANGED <<g_conns, g_waiting_conns, available_count>> /\ Conns
      /\ conn \in [Fds -> Connection] /\ g_conns \subseteq Fds
  <2>1. UNCHANGED <<poolVars, g_conns, listVars>>
    BY DEF IoEvent
  <2>2. UNCHANGED <<g_conns, g_waiting_conns, available_count>>
    BY <2>1 DEF listVars, waitVars, poolVars
  <2> QED BY <2>2, IoEventSteady DEF TypeOK, ObjTypeOK
<1>2. stack = <<>> /\ e.fd \in Fds
  BY IoEventStack
<1>3. Parsers = {} /\ Servers = {}
  BY <1>2, QuietStack
<1>4. Servers' = {} /\ \A f \in Parsers' : f.n = 0
  <2>1. CASE \E x : x.pc \in {"outflush", "sweep"} /\ Call(<<x>>)
    BY <1>2, <2>1, RestStacks DEF Rest
  <2>2. ASSUME NEW x, x.pc = "parsed", stack' = <<x>> \/ stack' = <<Frame("fcgi", e.fd)>> \o <<x>>
        PROVE  Servers' = {} /\ \A f \in Parsers' : f.n = 0
    <3> DEFINE g == Frame("fcgi", e.fd)
               S == {x, g}
    <3>1. g.pc = "fcgi" /\ g.n = 0
      BY DEF Frame
    <3>2. x \in S /\ g \in S
      OBVIOUS
    <3>3. stack' = <<x>> \/ stack' = <<g>> \o <<x>>
      BY <2>2
    <3> HIDE DEF S, g
    <3>4. Items(<<x>>) = {x} /\ Items(<<g>> \o <<x>>) = {g, x}
      BY <3>2, FewFrames
    <3>5. Frames' = {x} \/ Frames' = {g, x}
      <4>1. Frames' = Items(stack')
        BY DEF Frames
      <4> HIDE DEF Items
      <4> QED BY <3>3, <3>4, <4>1, Zenon
    <3> QED BY <2>2, <3>1, <3>5 DEF Parsers, Servers
  <2> QED BY <2>1, <2>2, IoEventStack
<1>5. \A fd \in Fds : conn'[fd].in_buf \in {conn[fd].in_buf, Joined(conn[fd].in_buf, sock[fd].rx)}
  <2> DEFINE fd == e.fd
             shut == conn[fd].closed \/ e.hup \/ (e.in /\ sock[fd].eof)
             in == IF e.in THEN Joined(conn[fd].in_buf, sock[fd].rx) ELSE conn[fd].in_buf
  <2>1. conn' = [conn EXCEPT ![fd] = [conn[fd] EXCEPT !.closed = shut, !.in_buf = in]]
    BY DEF IoEvent
  <2>2. in \in {conn[fd].in_buf, Joined(conn[fd].in_buf, sock[fd].rx)}
    OBVIOUS
  <2> HIDE DEF in, shut, fd
  <2> QED BY <1>1, <2>1, <2>2 DEF Connection
<1>6. ASSUME NEW fd \in g_conns, OpenWaiting(fd)'
      PROVE  available_count' = 0 /\ Deferred(fd, 0)'
  <2>1. OpenWaiting(fd) /\ SteadyConn(conn[fd], conn'[fd])
    BY <1>1, <1>6 DEF OpenWaiting, Conns, SteadyConn
  <2>2. available_count = 0 /\ Deferred(fd, 0)
    BY <1>3, <1>6, <2>1 DEF Queued, Visits, Defers, Parsing
  <2>3. PICK k : BeginAt(fd, k) /\ k > 0
    BY <2>2 DEF Deferred
  <2> DEFINE in == conn[fd].in_buf
             rx == sock[fd].rx
             new == conn'[fd].in_buf
  <2>4. in \in Seq(Record) /\ rx \in Seq(Record) /\ new \in {in, Joined(in, rx)}
    BY <1>1, <1>5, <1>6 DEF TypeOK, EnvTypeOK, Connection, Socket
  <2>5. \A i \in 1 .. Len(in) : Whole(in[i]) => i \in 1 .. Len(new) /\ new[i] = in[i]
    BY <2>4, JoinedKeeps
  <2>6. k \in 1 .. Len(in) /\ in[k].type = "BEGIN" /\ \A i \in 1 .. k - 1 : Whole(in[i])
    BY <2>3 DEF BeginAt
  <2>7. k \in 1 .. Len(new) /\ new[k] = in[k] /\ \A i \in 1 .. k - 1 : Whole(new[i])
    <3>1. Whole(in[k])
      BY <2>6 DEF Whole
    <3>2. \A i \in 1 .. k - 1 : i \in 1 .. Len(in)
      BY <2>4, <2>6
    <3> HIDE DEF in, new
    <3> QED BY <2>5, <2>6, <3>1, <3>2
  <2>8. BeginAt(fd, k)'
    BY <2>1, <2>3, <2>6, <2>7 DEF BeginAt, SteadyConn
  <2> QED BY <1>1, <2>2, <2>3, <2>8 DEF Deferred
<1>7. AllRead'
  BY <1>4, <1>5 DEF AllRead
<1>8. Defers' /\ Budget' /\ Spent' /\ Visits'
  BY <1>1, <1>4, <1>6 DEF Defers, Budget, Spent, Visits
<1> QED BY <1>7, <1>8 DEF Queued

LEMMA LoopQueued ==
  ASSUME TypeOK, TypeOK', Loops, Queued, LoopStep
  PROVE  Queued'
<1>1. CASE EpollWait \/ \E e \in batch : IoStale(e) \/ ListenEvent(e) \/ EventFdEvent(e) \/ TimerEvent(e)
  <2>1. /\ UNCHANGED <<poolVars, connVars>> /\ stack = <<>>
        /\ UNCHANGED stack \/ \E pc \in {"accept", "swap", "expire"} : Call(<<Frame(pc, NoFd)>>)
    BY <1>1 DEF EpollWait, IoStale, ListenEvent, EventFdEvent, TimerEvent, Dispatching, objVars
  <2>2. \A pc \in {"accept", "swap", "expire"} : Frame(pc, NoFd).pc = pc
    BY DEF Frame
  <2>3. Rest
    BY <2>1, <2>2, RestStacks
  <2> QED BY <2>1, <2>3, SteadyKeeps, Rests DEF poolVars, connVars
<1>2. CASE \E e \in batch : IoEvent(e)
  BY <1>2, IoEventQueued
<1> QED BY <1>1, <1>2 DEF LoopStep

LEMMA AcceptQueued ==
  ASSUME TypeOK, TypeOK', Loops, Queued, NEW fd \in Fds, AcceptOne(fd)
  PROVE  Queued'
<1>1. /\ stack # <<>> /\ Top.pc = "accept" /\ (UNCHANGED stack \/ Return)
      /\ UNCHANGED poolVars
      /\ conn' = [conn EXCEPT ![fd] = NewConnection(sock[fd].serial)]
      /\ g_conns' = g_conns \cup {fd}
  BY DEF AcceptOne, At, Top
<1>2. conn \in [Fds -> Connection] /\ g_conns \subseteq Fds
  BY DEF TypeOK, ObjTypeOK
<1>3. ~NewConnection(sock[fd].serial).waiting_for_arena
  BY DEF NewConnection
<1>4. \A gd \in g_conns : gd # fd => KeepsConn(conn[gd], conn'[gd])
  BY <1>1, <1>2 DEF KeepsConn
<1>5. Carried
  BY <1>1, <1>2, <1>3, <1>4 DEF Carried
<1>6. Rest
  BY <1>1, RestStacks
<1> QED BY <1>1, <1>5, <1>6, Rests DEF poolVars

LEMMA PendingQueued ==
  ASSUME TypeOK, TypeOK', Loops, Queued, PendingStep \/ AcceptDone
  PROVE  Queued'
<1>1. UNCHANGED <<poolVars, g_conns>> /\ stack # <<>> /\ Top.pc \in {"swap", "pending", "accept"}
  BY DEF PendingStep, SwapPending, PendingAnswer, PendingSkip, PendingFault, PendingDone,
         AcceptDone, objVars, connVars, poolVars, At, Top
<1>2. Keeps
  <2>1. CASE ~PendingAnswer
    <3>1. UNCHANGED conn
      BY <2>1 DEF PendingStep, SwapPending, PendingSkip, PendingFault, PendingDone,
                  AcceptDone, objVars, connVars
    <3> QED BY <3>1, SteadyKeeps
  <2> QED BY <2>1, AnswerKeeps
<1>3. UNCHANGED stack \/ Return \/ Become(Frame("pending", NoFd))
  BY DEF PendingStep, SwapPending, PendingAnswer, PendingSkip, PendingFault, PendingDone,
         AcceptDone, ioVars
<1>4. Frame("pending", NoFd).pc = "pending"
  BY DEF Frame
<1>5. Rest
  BY <1>1, <1>3, <1>4, RestStacks
<1> QED BY <1>1, <1>2, <1>5, Rests DEF poolVars

\* A release either finds nobody waiting, or serves the list from here.
LEMMA ReleaseQueued ==
  ASSUME TypeOK, TypeOK', Loops, PoolAccounting, Waiting, Queued,
         stack # <<>>, Top.pc \in {"sweep", "cleanup"},
         NEW under, under.pc \notin {"fcgi", "waiting", "waited"},
         NEW a \in Arena, ReleaseRequest(a, under)
  PROVE  Queued'
<1>1. /\ UNCHANGED <<conn, g_conns, g_waiting_conns>> /\ CallFrom(under, WaitingFrames)
      /\ Release(a)
  BY DEF ReleaseRequest, connVars
<1>2. Parsers = {} /\ Servers = {} /\ Frames = {Top} \cup Below
  BY QuietStack, StackFrames
<1>3. available_count' \in Nat
  <2>1. PoolAccounting' /\ PoolTypeOK
    BY <1>1, ReleaseAccounting DEF TypeOK
  <2>2. Cardinality(FreeArenas) \in Nat
    BY FreeFinite
  <2> QED BY <1>1, <2>1, <2>2 DEF PoolAccounting, Release
<1>4. ASSUME NEW fd \in g_conns, OpenWaiting(fd) PROVE Listed(fd) /\ Deferred(fd, 0)
  <2>1. ~BeingParsed(fd)
    <3>1. \A f \in Frames : f.pc \notin ParsePC
      <4>1. \A f \in Below : f.pc \in {"closing", "housekeeping"}
        BY AloneFrames, CleanupFrames
      <4> QED BY <1>2, <4>1 DEF ParsePC
    <3> QED BY <3>1, BeingParsedFrames
  <2> QED BY <1>2, <1>4, <2>1
          DEF OpenWaiting, Waiting, WaitingIsListed, Listed, Queued, Defers, Parsing
<1>5. CASE WaitingFrames = <<>>
  <2>1. Rest
    <3>1. CallFrom(under, <<>>)
      BY <1>1, <1>5
    <3> QED BY <3>1, RestStacks
  <2>2. available_count' = 0 \/ g_waiting_conns = <<>>
    BY <1>3, <1>5 DEF WaitingFrames
  <2>3. \A fd \in g_conns : OpenWaiting(fd) => available_count' = 0
    BY <1>4, <2>2 DEF Listed
  <2>4. Defers' /\ Visits'
    BY <1>1, <1>4, <2>3 DEF Defers, Visits, OpenWaiting, Deferred, BeginAt
  <2> QED BY <2>1, <2>4 DEF Rest, Queued, AllRead, Budget, Spent
<1>6. CASE WaitingFrames # <<>>
  <2> DEFINE k == available_count'
             m == Len(g_waiting_conns)
             g == [Frame("waiting", NoFd) EXCEPT !.n = k, !.m = m]
  <2>1. WaitingFrames = <<g>>
    BY <1>6 DEF WaitingFrames
  <2>2. CallFrom(under, <<g>>)
    BY <1>1, <2>1
  <2>3. g.pc = "waiting" /\ g.n = k /\ g.m = m
    <3> HIDE DEF k, m
    <3> QED BY DEF Frame
  <2> HIDE DEF g
  <2>4. Frames' = {under, g} \cup Below
    <3>1. under \in StackFrame /\ g \in StackFrame
      BY <2>2, IntoStack
    <3> QED BY <2>2, <3>1, StackFrames
  <2>5. Parsers' = {} /\ Servers' = {g}
    BY <1>2, <2>3, <2>4 DEF Parsers, Servers
  <2>6. \A fd \in g_conns : OpenWaiting(fd) => ToVisit(g, fd)
    BY <1>4, <2>3 DEF Listed, ToVisit
  <2>7. Defers' /\ Visits'
    BY <1>1, <1>4, <2>5, <2>6 DEF Defers, Visits, OpenWaiting, Deferred, BeginAt, ToVisit
  <2> QED BY <1>3, <2>3, <2>5, <2>7 DEF Queued, AllRead, Budget, Spent
<1> QED BY <1>5, <1>6

LEMMA HandleQueued ==
  ASSUME TypeOK, TypeOK', Loops, PoolAccounting, Waiting, Queued, HandleStep
  PROVE  Queued'
<1>1. /\ stack # <<>> /\ Top.pc \in {"parsed", "outflush", "sweep", "erase"}
      /\ UNCHANGED g_conns /\ Top \in StackFrame /\ Top.fd \in Fds
  <2>1. stack # <<>> /\ Top.pc \in {"parsed", "outflush", "sweep", "erase"} /\ UNCHANGED g_conns
    BY DEF HandleStep, AfterParse, OutFlush, SweepErase, SweepDone, SweepFree, SweepKeep,
           ReleaseRequest, At, Top, objVars, connVars
  <2>2. Top \in StackFrame
    BY <2>1, TopFrame
  <2> QED BY <2>1, <2>2 DEF StackFrame, FrameOf, LoopPC
<1>2. ASSUME NEW x, x.pc \in {"outflush", "sweep", "closing"}, Become(x), Keeps,
             UNCHANGED poolVars
      PROVE  Queued'
  BY <1>1, <1>2, RestStacks, Rests DEF poolVars
<1>3. CASE AfterParse
  <2> DEFINE x == IF Top.out THEN Frame("outflush", Top.fd) ELSE SweepFrame(Top.fd)
  <2>1. Flush(Top.fd, conn[Top.fd]) /\ Become(x) /\ UNCHANGED poolVars
    BY <1>3 DEF AfterParse
  <2>2. x.pc \in {"outflush", "sweep"}
    BY DEF Frame, SweepFrame
  <2> HIDE DEF x
  <2> QED BY <1>1, <1>2, <2>1, <2>2, FlushKeeps
<1>4. CASE OutFlush
  <2>1. Flush(Top.fd, conn[Top.fd]) /\ Become(SweepFrame(Top.fd)) /\ UNCHANGED poolVars
    BY <1>4 DEF OutFlush
  <2>2. SweepFrame(Top.fd).pc = "sweep"
    BY DEF SweepFrame, Frame
  <2> QED BY <1>1, <1>2, <2>1, <2>2, FlushKeeps
<1>5. CASE SweepErase
  <2> DEFINE fd == Top.fd
             id == Top.id
             f == [Top EXCEPT !.pc = "sweep", !.id = NoId]
  <2>1. /\ Become(f) /\ UNCHANGED poolVars
        /\ conn' = [conn EXCEPT ![fd].requests[id] = NoArena]
    BY <1>5 DEF SweepErase
  <2>2. f.pc = "sweep"
    BY <1>1 DEF StackFrame, FrameOf
  <2>3. Keeps
    <3> HIDE DEF fd, id
    <3>1. conn \in [Fds -> Connection]
      BY DEF TypeOK, ObjTypeOK
    <3> QED BY <2>1, <3>1 DEF Connection, Keeps, KeepsConn
  <2> HIDE DEF f
  <2> QED BY <1>2, <2>1, <2>2, <2>3
<1>6. CASE SweepDone
  <2>1. Become(Frame("closing", NoFd)) /\ UNCHANGED <<poolVars, conn>>
    BY <1>6 DEF SweepDone, objVars, connVars
  <2>2. Frame("closing", NoFd).pc = "closing"
    BY DEF Frame
  <2> QED BY <1>2, <2>1, <2>2, SteadyKeeps
<1>7. ASSUME NEW id \in Ids, SweepKeep(id) PROVE Queued'
  <2> DEFINE f == [Top EXCEPT !.ids = @ \ {id}]
  <2>1. Top.pc = "sweep" /\ Become(f) /\ UNCHANGED <<poolVars, conn>>
    BY <1>7 DEF SweepKeep, At, Top, objVars, connVars
  <2>2. f.pc = "sweep"
    BY <1>1, <2>1 DEF StackFrame, FrameOf
  <2> HIDE DEF f
  <2> QED BY <1>2, <2>1, <2>2, SteadyKeeps
<1>8. ASSUME NEW id \in Ids, SweepFree(id) PROVE Queued'
  <2> DEFINE a == conn[Top.fd].requests[id]
             under == [Top EXCEPT !.pc = "erase", !.id = id, !.ids = @ \ {id}]
  <2>1. Top.pc = "sweep" /\ ReleaseRequest(a, under) /\ a # NoArena
    BY <1>8 DEF SweepFree, At, Top
  <2>2. under.pc = "erase"
    BY <1>1 DEF StackFrame, FrameOf
  <2>3. a \in Arena
    BY <1>1, <2>1 DEF TypeOK, ObjTypeOK, Connection
  <2> HIDE DEF under, a
  <2> QED BY <1>1, <2>1, <2>2, <2>3, ReleaseQueued
<1> QED BY <1>3, <1>4, <1>5, <1>6, <1>7, <1>8 DEF HandleStep

LEMMA ClosingQueued ==
  ASSUME TypeOK, TypeOK', Loops, PoolAccounting, Waiting, Queued,
         CloseStep \/ HousekeepingStep
  PROVE  Queued'
<1>1. CASE CloseQueued \/ \E fd \in Fds : HousekeepingClose(fd)
  <2>1. UNCHANGED <<objVars, waitVars>> /\ stack # <<>>
        /\ Top.pc \in {"closing", "housekeeping"}
    BY <1>1 DEF CloseQueued, HousekeepingClose, At, Top
  <2>2. UNCHANGED stack \/ \E fd \in g_conns : Call(<<CleanupFrame(fd)>>)
    BY <1>1 DEF CloseQueued, HousekeepingClose
  <2>3. \A fd : CleanupFrame(fd).pc = "cleanup"
    BY DEF CleanupFrame, Frame
  <2>4. Rest
    BY <2>1, <2>2, <2>3, RestStacks
  <2> QED BY <2>1, <2>4, SteadyKeeps, Rests DEF objVars, connVars, poolVars
<1>2. CASE CloseQueueDone \/ HousekeepingDone \/ ExpireDone
  <2>1. UNCHANGED objVars /\ stack # <<>> /\ Top.pc \in {"closing", "housekeeping", "expire"}
        /\ (Return \/ Become(Frame("housekeeping", NoFd)))
    BY <1>2 DEF CloseQueueDone, HousekeepingDone, ExpireDone, At, Top
  <2>2. Frame("housekeeping", NoFd).pc = "housekeeping"
    BY DEF Frame
  <2>3. Rest
    BY <2>1, <2>2, RestStacks
  <2> QED BY <2>1, <2>3, SteadyKeeps, Rests DEF objVars, connVars, poolVars
<1>3. ASSUME NEW fd \in Fds, NEW id \in Ids, Expire(fd, id) PROVE Queued'
  <2>1. UNCHANGED <<poolVars, g_conns, stack>> /\ stack # <<>> /\ Top.pc = "expire"
    BY <1>3 DEF Expire, ioVars, At, Top
  <2>2. Rest /\ Keeps
    BY <1>3, <2>1, RestStacks, AnswerKeeps
  <2> QED BY <2>1, <2>2, Rests DEF poolVars
<1>4. ASSUME NEW id \in Ids, CleanupOne(id) PROVE Queued'
  <2> DEFINE a == conn[Top.fd].requests[id]
             under == [Top EXCEPT !.ids = @ \ {id}]
  <2>1. /\ stack # <<>> /\ Top.pc = "cleanup" /\ ReleaseRequest(a, under) /\ id \in Top.ids
    BY <1>4 DEF CleanupOne, At, Top
  <2>2. Top \in StackFrame /\ VisitsMapped(Top, conn)
    BY <2>1, TopFrame
  <2>3. under.pc = "cleanup"
    BY <2>1, <2>2 DEF StackFrame, FrameOf
  <2>4. a \in Arena
    <3>1. Top.fd \in Fds
      BY <2>1, <2>2 DEF StackFrame, FrameOf, LoopPC
    <3>2. a # NoArena
      BY <2>1, <2>2 DEF VisitsMapped, Mapped
    <3> QED BY <3>1, <3>2 DEF TypeOK, ObjTypeOK, Connection
  <2> HIDE DEF under, a
  <2> QED BY <2>1, <2>3, <2>4, ReleaseQueued
<1>5. CASE CloseFd
  <2>1. /\ stack # <<>> /\ Top.pc = "cleanup" /\ Return /\ UNCHANGED poolVars
        /\ conn' = [conn EXCEPT ![Top.fd] = NewConnection(0)]
        /\ g_conns' = g_conns \ {Top.fd}
    BY <1>5 DEF CloseFd, At, Top
  <2>2. Rest
    BY <2>1, RestStacks
  <2>3. Carried
    <3>1. conn \in [Fds -> Connection] /\ g_conns \subseteq Fds
      BY DEF TypeOK, ObjTypeOK
    <3> QED BY <2>1, <3>1 DEF Carried, KeepsConn
  <2> QED BY <2>1, <2>2, <2>3, Rests DEF poolVars
<1> QED BY <1>1, <1>2, <1>3, <1>4, <1>5 DEF CloseStep, HousekeepingStep

\* The frames between steps of the parser.
LEMMA ParseFrames ==
  ASSUME TypeOK, TypeOK', Loops, stack # <<>>, Top.pc = "fcgi"
  PROVE  /\ Return => /\ Parsers' = {} /\ Servers' = Servers
         /\ \A f : Become(f) /\ f.pc = "fcgi" => Parsers' = {f} /\ Servers' = Servers
<1>1. /\ Frames = {Top} \cup Below
      /\ Servers = {f \in Below : f.pc \in {"waiting", "waited"}}
      /\ \A f \in Below : f.pc # "fcgi"
  BY StackFrames, OnTop, FcgiOnTop
<1>2. ASSUME Return PROVE Parsers' = {} /\ Servers' = Servers
  <2>1. Frames' = Below
    BY <1>2, StackFrames
  <2> QED BY <1>1, <2>1 DEF Parsers, Servers
<1>3. ASSUME NEW f, Become(f), f.pc = "fcgi" PROVE Parsers' = {f} /\ Servers' = Servers
  <2>1. Frames' = {f} \cup Below
    BY <1>3, IntoStack, StackFrames
  <2> QED BY <1>1, <1>3, <2>1 DEF Parsers, Servers
<1> QED BY <1>2, <1>3

\* process_buffer has returned: either it waits, with its BEGIN_REQUEST in
\* in_buf and no arena free, or nothing is left to wait for.
LEMMA ReturnQueued ==
  ASSUME TypeOK, TypeOK', Loops, Queued, stack # <<>>, Top.pc = "fcgi", Return,
         NEW cfd \in Fds, cfd = Top.fd,
         UNCHANGED <<g_conns, g_waiting_conns, available_count>>,
         \A fd \in Fds \ {cfd} : UNCHANGED conn[fd],
         \/ ~Deferred(cfd, Top.n) /\ ~conn'[cfd].waiting_for_arena
         \/ /\ conn'[cfd].waiting_for_arena /\ Deferred(cfd, 0)'
            /\ available_count = 0
  PROVE  Queued'
<1>1. /\ Parsers = {Top} /\ Parsers' = {} /\ Servers' = Servers
      /\ Servers \subseteq Below /\ \A f \in Servers : f.pc = "waited"
  BY OnTop, ParseFrames DEF Servers
<1>2. Servers \subseteq StackFrame /\ g_conns \subseteq Fds
  BY <1>1, StackFrames DEF TypeOK, ObjTypeOK
<1>3. \A f \in Servers : f.fd \in Fds /\ f.n \in Nat \ {0}
  BY <1>1, <1>2 DEF StackFrame, FrameOf, FdPC, LoopPC
<1>4. Defers'
  <2> SUFFICES ASSUME NEW fd \in g_conns, OpenWaiting(fd)' PROVE Deferred(fd, 0)'
    BY DEF Defers
  <2>1. CASE fd = cfd
    BY <2>1 DEF OpenWaiting
  <2>2. CASE fd # cfd
    <3>1. OpenWaiting(fd) /\ conn'[fd] = conn[fd]
      BY <1>2, <2>2 DEF OpenWaiting
    <3>2. Deferred(fd, 0)
      BY <1>1, <2>2, <3>1 DEF Queued, Defers, Parsing
    <3> QED BY <3>1, <3>2 DEF Deferred, BeginAt
  <2> QED BY <2>1, <2>2
<1>5. Visits'
  <2> SUFFICES ASSUME NEW fd \in g_conns, OpenWaiting(fd)'
               PROVE  available_count' = 0 \/ \E f \in Servers' : ToVisit(f, fd)'
    BY DEF Visits
  <2>1. CASE fd = cfd
    BY <2>1 DEF OpenWaiting
  <2>2. CASE fd # cfd
    <3>1. OpenWaiting(fd)
      BY <1>2, <2>2 DEF OpenWaiting
    <3>2. available_count = 0 \/ \E f \in Servers : ToVisit(f, fd)
      BY <1>1, <2>2, <3>1 DEF Queued, Visits, Parsing
    <3> QED BY <1>1, <3>2 DEF ToVisit
  <2> QED BY <2>1, <2>2
<1>6. Spent'
  <2> SUFFICES ASSUME NEW f \in Servers, f.was, ~conn'[f.fd].waiting_for_arena
               PROVE  available_count < f.n
    BY <1>1 DEF Spent
  <2>1. available_count < f.n \/ Deferred(cfd, Top.n)
    BY <1>1 DEF Queued, Spent
  <2>2. available_count = 0 => available_count < f.n
    BY <1>3
  <2> QED BY <2>1, <2>2
<1> QED BY <1>1, <1>4, <1>5, <1>6 DEF Queued, AllRead, Budget

\* The parser is behind another record, and may have taken an arena for it.
LEMMA AdvanceQueued ==
  ASSUME TypeOK, TypeOK', Loops, Queued, stack # <<>>, Top.pc = "fcgi",
         NEW cfd \in Fds, cfd = Top.fd, Exists, NextRecord.type # "BAD",
         Become([Top EXCEPT !.n = @ + 1]), UNCHANGED <<g_conns, g_waiting_conns>>,
         SameInput, SameWaiting, available_count' \in Nat,
         \A fd \in Fds \ {cfd} : conn'[fd].requests = conn[fd].requests,
         \/ available_count' = available_count - 1
         \/ /\ UNCHANGED available_count
            /\ conn'[cfd].requests = conn[cfd].requests /\ ~BeginAt(cfd, Top.n + 1)
  PROVE  Queued'
<1> DEFINE f == [Top EXCEPT !.n = @ + 1]
<1>0. PICK n \in Nat : n = Top.n
  BY TopFrame DEF StackFrame, FrameOf
<1>1. Top \in StackFrame /\ f.pc = "fcgi" /\ f.fd = cfd /\ f.n = n + 1
  BY <1>0, TopFrame DEF StackFrame, FrameOf
<1>2. Become(f)
  OBVIOUS
<1> HIDE DEF f
<1>3. /\ Parsers = {Top} /\ Parsers' = {f} /\ Servers' = Servers
      /\ Servers \subseteq Below /\ \A g \in Servers : g.pc = "waited"
  BY <1>1, <1>2, OnTop, ParseFrames DEF Servers
<1>4. /\ Servers \subseteq StackFrame /\ g_conns \subseteq Fds
      /\ \A g \in Servers : g.fd \in Fds /\ g.n \in Nat \ {0}
  <2>1. Servers \subseteq StackFrame
    BY <1>3, StackFrames
  <2> QED BY <1>3, <2>1 DEF StackFrame, FrameOf, FdPC, LoopPC, TypeOK, ObjTypeOK
<1>5. conn[cfd].in_buf \in Seq(Record) /\ conn'[cfd].in_buf = conn[cfd].in_buf
  BY DEF TypeOK, ObjTypeOK, Connection, SameInput
<1>6. AllRead'
  <2>1. n + 1 <= Len(conn[cfd].in_buf) /\ Whole(conn[cfd].in_buf[n + 1])
    BY <1>0, <1>5 DEF Exists, NextRecord, InBuf, Whole
  <2>2. \A i \in 1 .. n : Whole(conn[cfd].in_buf[i])
    BY <1>0, <1>3 DEF Queued, AllRead
  <2>3. \A i \in 1 .. n + 1 : Whole(conn[cfd].in_buf[i])
    BY <1>1, <2>1, <2>2
  <2> QED BY <1>1, <1>3, <1>5, <2>1, <2>3 DEF AllRead
<1>7. \A fd \in Fds \ {cfd} : KeepsConn(conn[fd], conn'[fd])
  BY DEF KeepsConn, SameInput, SameWaiting
<1>8. Defers'
  <2> SUFFICES ASSUME NEW fd \in g_conns, fd # cfd, OpenWaiting(fd)' PROVE Deferred(fd, 0)'
    BY <1>1, <1>3 DEF Defers, Parsing
  <2>1. OpenWaiting(fd) /\ \A k : Deferred(fd, k) => Deferred(fd, k)'
    BY <1>4, <1>7, KeptDeferred
  <2> QED BY <1>3, <2>1 DEF Queued, Defers, Parsing
<1>9. Budget'
  BY <1>3, <1>4 DEF Queued, Budget, TypeOK, PoolTypeOK
<1>10. Spent'
  <2> SUFFICES ASSUME NEW g \in Servers, g.was
               PROVE  available_count' < g.n \/ Deferred(cfd, n + 1)'
    BY <1>1, <1>3 DEF Spent
  <2>1. CASE available_count' = available_count - 1
    BY <1>3, <1>4, <2>1 DEF Queued, Budget, TypeOK, PoolTypeOK
  <2>2. CASE /\ UNCHANGED available_count
             /\ conn'[cfd].requests = conn[cfd].requests /\ ~BeginAt(cfd, n + 1)
    <3>1. available_count < g.n \/ Deferred(cfd, n)
      BY <1>0, <1>3 DEF Queued, Spent
    <3>2. CASE Deferred(cfd, n)
      <4>1. PICK k : BeginAt(cfd, k) /\ k > n
        BY <3>2 DEF Deferred
      <4>2. k > n + 1
        BY <1>1, <1>5, <2>2, <4>1 DEF BeginAt
      <4>3. BeginAt(cfd, k)'
        BY <1>5, <2>2, <4>1 DEF BeginAt
      <4> QED BY <4>2, <4>3 DEF Deferred
    <3> QED BY <2>2, <3>1, <3>2
  <2> QED BY <1>0, <2>1, <2>2
<1>11. Visits'
  <2> SUFFICES ASSUME NEW fd \in g_conns, fd # cfd, OpenWaiting(fd)'
               PROVE  available_count' = 0 \/ \E g \in Servers : ToVisit(g, fd)
    BY <1>1, <1>3 DEF Visits, Parsing, ToVisit
  <2>1. OpenWaiting(fd)
    BY <1>4, <1>7, KeptDeferred
  <2>2. available_count = 0 \/ \E g \in Servers : ToVisit(g, fd)
    BY <1>3, <2>1 DEF Queued, Visits, Parsing
  <2> QED BY <2>2
<1> QED BY <1>6, <1>8, <1>9, <1>10, <1>11 DEF Queued

LEMMA ParseQueued ==
  ASSUME TypeOK, TypeOK', Loops, PoolAccounting, Queued, ParseStep
  PROVE  Queued'
<1>1. /\ stack # <<>> /\ Top.pc = "fcgi" /\ UNCHANGED <<g_conns, g_waiting_conns>>
  BY DEF ParseStep, ParseEnd, ParseBad, ParseDefer, ParseSkip, ParseNew, ParseKnown,
         ParseFault, At, Top
<1>2. conn \in [Fds -> Connection] /\ Top \in StackFrame /\ Top.n \in Nat /\ Top.fd \in Fds
  <2>1. Top \in StackFrame
    BY <1>1, TopFrame
  <2> QED BY <1>1, <2>1 DEF TypeOK, ObjTypeOK, StackFrame, FrameOf, LoopPC
<1> DEFINE cfd == Top.fd
           n == Top.n
           in == conn[cfd].in_buf
<1>3. in \in Seq(Record) /\ InBuf = in /\ NextRecord = in[n + 1] /\ n <= Len(in)
      /\ \A i \in 1 .. n : Whole(in[i])
  <2>1. in \in Seq(Record)
    BY <1>2 DEF Connection
  <2>2. Parsers = {Top}
    BY <1>1, OnTop
  <2> QED BY <2>1, <2>2 DEF InBuf, NextRecord, Queued, AllRead
<1>4. available_count \in Nat
  BY FreeFinite, FS_CardinalityType DEF PoolAccounting
<1>5. CASE ParseEnd \/ ParseBad
  <2>1. Return /\ UNCHANGED available_count
    BY <1>5 DEF ParseEnd, ParseBad, poolVars
  <2>2. ~conn'[cfd].waiting_for_arena /\ \A fd \in Fds \ {cfd} : UNCHANGED conn[fd]
    <3> DEFINE eaten == Consumed
    <3> HIDE DEF eaten, cfd
    <3>1. CASE ParseEnd
      <4>1. conn' = [conn EXCEPT ![cfd].in_buf = eaten, ![cfd].waiting_for_arena = FALSE]
        BY <3>1 DEF ParseEnd, cfd, eaten
      <4> QED BY <1>2, <4>1 DEF Connection, cfd
    <3>2. CASE ParseBad
      <4>1. conn' = [conn EXCEPT ![cfd].in_buf = eaten, ![cfd].waiting_for_arena = FALSE,
                                 ![cfd].closed = TRUE]
        BY <3>2 DEF ParseBad, cfd, eaten
      <4> QED BY <1>2, <4>1 DEF Connection, cfd
    <3> QED BY <1>5, <3>1, <3>2
  <2>3. n + 1 \in 1 .. Len(in) => ~Whole(in[n + 1])
    BY <1>2, <1>3, <1>5 DEF ParseEnd, ParseBad, Exists, Whole
  <2>4. ~Deferred(cfd, n)
    <3> SUFFICES ASSUME NEW k, BeginAt(cfd, k), k > n PROVE FALSE
      BY DEF Deferred
    <3>1. k \in 1 .. Len(in) /\ in[k].type = "BEGIN" /\ \A i \in 1 .. k - 1 : Whole(in[i])
      BY DEF BeginAt
    <3>2. n + 1 \in 1 .. Len(in) /\ (k = n + 1 \/ n + 1 \in 1 .. k - 1)
      BY <1>2, <3>1
    <3> QED BY <2>3, <3>1, <3>2 DEF Whole
  <2> HIDE DEF in
  <2> QED BY <1>1, <1>2, <2>1, <2>2, <2>4, ReturnQueued
<1>6. CASE ParseDefer
  <2>1. /\ Return /\ UNCHANGED available_count
        /\ conn' = [conn EXCEPT ![cfd].waiting_for_arena = TRUE]
        /\ n < Len(in) /\ in[n + 1].type = "BEGIN"
        /\ conn[cfd].requests[in[n + 1].id] = NoArena /\ FreeArenas = {}
    BY <1>3, <1>6 DEF ParseDefer, poolVars, Exists, EntryOf, Exhausted
  <2>2. available_count = 0
    BY <2>1, FS_EmptySet DEF PoolAccounting
  <2>3. BeginAt(cfd, n + 1)
    BY <1>2, <1>3, <2>1 DEF BeginAt
  <2>4. /\ \A fd \in Fds \ {cfd} : UNCHANGED conn[fd]
        /\ conn'[cfd].waiting_for_arena
        /\ conn'[cfd].in_buf = conn[cfd].in_buf /\ conn'[cfd].requests = conn[cfd].requests
    <3> HIDE DEF cfd
    <3> QED BY <1>2, <2>1 DEF Connection, cfd
  <2>5. \E x \in Fds : x = cfd /\ Deferred(x, 0)'
    <3> SUFFICES ASSUME NEW x \in Fds, x = cfd PROVE Deferred(x, 0)'
      BY <1>2
    <3>1. BeginAt(x, n + 1) /\ conn'[x].in_buf = conn[x].in_buf
          /\ conn'[x].requests = conn[x].requests
      BY <2>3, <2>4
    <3>2. PICK k \in Nat : k > 0 /\ BeginAt(x, k)
      BY <1>2, <3>1
    <3>3. BeginAt(x, k)'
      BY <3>1, <3>2 DEF BeginAt
    <3> QED BY <3>2, <3>3 DEF Deferred
  <2>6. PICK x \in Fds : x = cfd /\ Deferred(x, 0)'
    BY <2>5
  <2>7. \A fd \in Fds \ {x} : UNCHANGED conn[fd]
    BY <2>4, <2>6
  <2> HIDE DEF in
  <2> QED BY <1>1, <2>1, <2>2, <2>4, <2>6, <2>7, ReturnQueued
<1>7. CASE ParseSkip
  <2>1. UNCHANGED <<available_count, conn>> /\ Become([Top EXCEPT !.n = @ + 1])
        /\ Exists /\ NextRecord.type \notin {"BEGIN", "BAD"}
    BY <1>7 DEF ParseSkip, objVars, connVars, poolVars
  <2>2. ~BeginAt(cfd, n + 1)
    BY <1>3, <2>1 DEF BeginAt
  <2>3. SameInput /\ SameWaiting
    BY <2>1 DEF SameInput, SameWaiting
  <2> HIDE DEF in
  <2> QED BY <1>1, <1>2, <1>4, <2>1, <2>2, <2>3, AdvanceQueued
<1>8. ASSUME NEW a \in Arena, ParseNew(a) \/ ParseKnown(a) PROVE Queued'
  <2>1. PICK r, go : Delivered(a, r, cfd, NextRecord.id, go)
    BY <1>8, ParseDelivers
  <2>2. Become([Top EXCEPT !.n = @ + 1]) /\ NextRecord.id \in Ids /\ Exists
        /\ NextRecord.type # "BAD"
    BY <1>8, ParseDelivers DEF ParseNew, ParseKnown, NamesRequest
  <2>3. SameInput /\ SameWaiting
    BY <2>1 DEF Delivered, SameInput, SameWaiting
  <2>4. ASSUME NEW fd \in Fds, \A i \in Ids : conn'[fd].requests[i] = conn[fd].requests[i]
        PROVE  conn'[fd].requests = conn[fd].requests
    <3> DEFINE p == conn[fd].requests
               q == conn'[fd].requests
    <3>1. p \in [Ids -> Arena \cup {NoArena}] /\ q \in [Ids -> Arena \cup {NoArena}]
      BY DEF TypeOK, ObjTypeOK, Connection
    <3>2. \A i \in Ids : q[i] = p[i]
      BY <2>4
    <3> HIDE DEF p, q
    <3>3. p = q
      BY <3>1, <3>2
    <3> QED BY <3>3 DEF p, q
  <2>5. \A fd \in Fds \ {cfd} : conn'[fd].requests = conn[fd].requests
    <3> HIDE DEF cfd
    <3>1. \A fd \in Fds \ {cfd}, i \in Ids : conn'[fd].requests[i] = conn[fd].requests[i]
      BY <2>1 DEF Delivered
    <3> QED BY <2>4, <3>1
  <2>6. CASE ParseNew(a)
    <3>1. available_count' = available_count - 1 /\ available_count > 0
      BY <2>6, GetAccounting DEF ParseNew, Get, TypeOK
    <3>2. available_count' \in Nat
      BY <1>4, <3>1
    <3> HIDE DEF in
    <3> QED BY <1>1, <1>2, <2>2, <2>3, <2>5, <3>1, <3>2, AdvanceQueued
  <2>7. CASE ParseKnown(a)
    <3>1. UNCHANGED available_count /\ conn[cfd].requests[NextRecord.id] = a /\ a # NoArena
      BY <2>7 DEF ParseKnown, poolVars, EntryOf, Arena, NoArena
    <3>2. conn'[cfd].requests = conn[cfd].requests
      <4>1. \A i \in Ids : conn'[cfd].requests[i] = conn[cfd].requests[i]
        BY <1>2, <2>1, <3>1 DEF Delivered
      <4> QED BY <1>2, <2>4, <4>1
    <3>3. ~BeginAt(cfd, n + 1)
      BY <1>3, <3>1 DEF BeginAt
    <3> HIDE DEF in
    <3> QED BY <1>1, <1>2, <1>4, <2>2, <2>3, <2>5, <3>1, <3>2, <3>3, AdvanceQueued
  <2> QED BY <1>8, <2>6, <2>7
<1>9. CASE \E a \in Arena : ParseFault(a)
  <2>1. UNCHANGED <<stack, conn, g_conns, g_waiting_conns, available_count>>
    BY <1>9 DEF ParseFault, objVars, connVars, poolVars, ioVars, listVars, waitVars
  <2>2. Parsers' = Parsers /\ Servers' = Servers
    BY <2>1, CallFrames DEF Parsers, Servers
  <2> QED BY <2>1, <2>2, SteadyKeeps, FramesKeep
<1> QED BY <1>5, <1>6, <1>7, <1>8, <1>9 DEF ParseStep

\* Nobody is being parsed, and f serves the waiting list, or nobody does.
LEMMA ServeQueued ==
  ASSUME TypeOK, TypeOK', Queued, Parsers = {}, Parsers' = {}, Keeps, UNCHANGED g_conns,
         \A f \in Servers' : f.pc = "waiting" /\ available_count' <= f.n,
         \A fd \in g_conns : OpenWaiting(fd) =>
           available_count' = 0 \/ \E f \in Servers' : ToVisit(f, fd)'
  PROVE  Queued'
<1>1. g_conns \subseteq Fds
  BY DEF TypeOK, ObjTypeOK
<1>2. ASSUME NEW fd \in g_conns, OpenWaiting(fd)'
      PROVE  OpenWaiting(fd) /\ Deferred(fd, 0)'
  <2>1. OpenWaiting(fd) /\ (Deferred(fd, 0) => Deferred(fd, 0)')
    BY <1>1, <1>2, KeptDeferred DEF Keeps
  <2> QED BY <2>1 DEF Queued, Defers, Parsing
<1> QED BY <1>2 DEF Queued, AllRead, Defers, Budget, Spent, Visits

\* The head of the list has been visited.
LEMMA Visited ==
  ASSUME g_waiting_conns \in Seq(Fds), g_waiting_conns' = Tail(g_waiting_conns),
         g_waiting_conns # <<>>, NEW f, NEW g, f.m \in Nat, g.m = f.m - 1,
         NEW fd, ToVisit(f, fd), fd # Head(g_waiting_conns)
  PROVE  ToVisit(g, fd)'
<1> DEFINE q == g_waiting_conns
<1>1. PICK i \in 1 .. Len(q) : i <= f.m /\ q[i] = fd
  BY DEF ToVisit
<1>2. i # 1
  BY <1>1
<1>3. i - 1 \in 1 .. Len(Tail(q)) /\ Tail(q)[i - 1] = fd
  BY <1>1, <1>2
<1>4. i - 1 <= g.m
  BY <1>1
<1> QED BY <1>3, <1>4 DEF ToVisit

LEMMA ServingQueued ==
  ASSUME TypeOK, TypeOK', Loops, PoolAccounting, Queued, WaitingStep
  PROVE  Queued'
<1>1. /\ stack # <<>> /\ Top.pc \in {"waiting", "waited"}
      /\ UNCHANGED <<g_conns, available_count>>
  BY DEF WaitingStep, WaitingNext, WaitingDone, WaitedServed, WaitedAgain, At, Top
<1>2. /\ Top \in StackFrame /\ Top.n \in Nat /\ Top.m \in Nat
      /\ g_waiting_conns \in Seq(Fds) /\ available_count \in Nat
  <2>1. Top \in StackFrame
    BY <1>1, TopFrame
  <2>2. available_count \in Nat
    BY FreeFinite, FS_CardinalityType DEF PoolAccounting
  <2> QED BY <2>1, <2>2 DEF StackFrame, FrameOf, TypeOK, ListTypeOK
<1>3. /\ Frames = {Top} \cup Below /\ Parsers = {} /\ Servers = {Top}
      /\ \A f \in Below : f.pc \notin {"fcgi", "waiting", "waited"}
  BY <1>1, OnTop, StackFrames
<1>4. available_count <= Top.n
  BY <1>3 DEF Queued, Budget
<1>5. ASSUME NEW fd \in g_conns, OpenWaiting(fd)
      PROVE  Deferred(fd, 0) /\ (available_count = 0 \/ ToVisit(Top, fd))
  BY <1>3, <1>5 DEF Queued, Defers, Visits, Parsing
<1>6. ASSUME NEW f, Become(f), f.pc = "waiting"
      PROVE  Parsers' = {} /\ Servers' = {f}
  <2>1. Frames' = {f} \cup Below
    BY <1>1, <1>6, IntoStack, StackFrames
  <2> QED BY <1>3, <1>6, <2>1 DEF Parsers, Servers
<1>7. CASE WaitingNext
  <2> DEFINE fd == Head(g_waiting_conns)
             was == conn[fd].waiting_for_arena
             next == [Top EXCEPT !.m = @ - 1]
             serve == [next EXCEPT !.pc = "waited", !.fd = fd, !.was = was]
             g == Frame("fcgi", fd)
  <2>1. /\ UNCHANGED conn /\ Top.pc = "waiting" /\ g_waiting_conns # <<>>
        /\ g_waiting_conns' = Tail(g_waiting_conns)
        /\ \/ (fd \notin g_conns \/ conn[fd].closed) /\ Become(next)
           \/ fd \in g_conns /\ ~conn[fd].closed /\ CallFrom(serve, <<g>>)
    BY <1>7 DEF WaitingNext, MoreWaiting, At, Top
  <2>2. next.pc = "waiting" /\ next.n = Top.n /\ next.m = Top.m - 1
    BY <1>2, <2>1 DEF StackFrame, FrameOf
  <2>3. /\ serve.pc = "waited" /\ serve.fd = fd /\ serve.was = was
        /\ serve.n = Top.n /\ serve.m = Top.m - 1
    <3> HIDE DEF fd, was
    <3> QED BY <1>2 DEF StackFrame, FrameOf
  <2>4. g.pc = "fcgi" /\ g.fd = fd /\ g.n = 0
    BY DEF Frame
  <2> HIDE DEF next, serve, g
  <2>5. ASSUME NEW f, f.m = Top.m - 1, NEW gd \in g_conns, OpenWaiting(gd), gd # fd
        PROVE  available_count = 0 \/ ToVisit(f, gd)'
    BY <1>2, <1>5, <2>1, <2>5, Visited
  <2>6. CASE (fd \notin g_conns \/ conn[fd].closed) /\ Become(next)
    <3>1. PICK f : f = next
      OBVIOUS
    <3>2. Parsers' = {} /\ Servers' = {f} /\ Keeps
      BY <1>6, <2>1, <2>2, <2>6, <3>1, SteadyKeeps
    <3>3. \A gd \in g_conns : OpenWaiting(gd) => available_count = 0 \/ ToVisit(f, gd)'
      BY <2>2, <2>5, <2>6, <3>1 DEF OpenWaiting
    <3> HIDE DEF fd
    <3> QED BY <1>1, <1>3, <1>4, <2>2, <3>1, <3>2, <3>3, ServeQueued
  <2>7. CASE fd \in g_conns /\ ~conn[fd].closed /\ CallFrom(serve, <<g>>)
    <3>1. Frames' = {serve, g} \cup Below
      BY <1>1, <2>7, IntoStack, StackFrames
    <3>2. Parsers' = {g} /\ Servers' = {serve}
      BY <1>3, <2>3, <2>4, <3>1 DEF Parsers, Servers
    <3> HIDE DEF fd
    <3>3. PICK x \in Fds : x = fd
      BY <2>7 DEF TypeOK, ObjTypeOK
    <3>4. \A gd, k : Deferred(gd, k)' <=> Deferred(gd, k)
      BY <2>1 DEF Deferred, BeginAt
    <3>5. AllRead'
      <4>1. conn[x].in_buf \in Seq(Record)
        BY DEF TypeOK, ObjTypeOK, Connection
      <4> QED BY <2>1, <2>4, <3>2, <3>3, <4>1 DEF AllRead
    <3>6. Defers'
      BY <1>1, <1>5, <2>1, <3>4 DEF Defers, OpenWaiting
    <3>7. Spent'
      <4>1. was => Deferred(x, 0)
        BY <1>5, <2>7, <3>3 DEF OpenWaiting
      <4> QED BY <2>3, <2>4, <3>2, <3>3, <3>4, <4>1 DEF Spent
    <3>8. Visits'
      <4>1. PICK f : f = serve
        OBVIOUS
      <4>2. ASSUME NEW gd \in g_conns, OpenWaiting(gd)
            PROVE  available_count = 0 \/ gd = fd \/ ToVisit(f, gd)'
        BY <2>3, <2>5, <4>1, <4>2
      <4> QED BY <1>1, <2>1, <2>4, <3>2, <4>1, <4>2 DEF Visits, Parsing, OpenWaiting
    <3> QED BY <1>1, <1>4, <2>3, <3>2, <3>5, <3>6, <3>7, <3>8 DEF Queued, Budget
  <2> QED BY <2>1, <2>6, <2>7
<1>8. CASE WaitingDone
  <2>1. Top.pc = "waiting" /\ ~MoreWaiting /\ Return /\ UNCHANGED <<conn, g_waiting_conns>>
    BY <1>8 DEF WaitingDone, At, Top
  <2>2. Parsers' = {} /\ Servers' = {}
    <3>1. Frames' = Below
      BY <1>1, <2>1, StackFrames
    <3> QED BY <1>3, <3>1 DEF Parsers, Servers
  <2>3. \A fd \in g_conns : OpenWaiting(fd) => available_count = 0
    <3> SUFFICES ASSUME NEW fd \in g_conns, OpenWaiting(fd) PROVE available_count = 0
      OBVIOUS
    <3>1. CASE ToVisit(Top, fd)
      <4>1. Top.m > 0 /\ g_waiting_conns # <<>>
        BY <1>2, <3>1 DEF ToVisit
      <4> QED BY <1>2, <1>4, <2>1, <4>1 DEF MoreWaiting
    <3> QED BY <1>5, <3>1
  <2> QED BY <1>1, <1>3, <2>1, <2>2, <2>3, SteadyKeeps, ServeQueued
<1>9. CASE WaitedServed
  <2> DEFINE n == Top.n - 1
             f == [Frame("waiting", NoFd) EXCEPT !.n = n, !.m = Top.m]
  <2>1. /\ Top.pc = "waited" /\ Top.was /\ ~conn[Top.fd].waiting_for_arena
        /\ Flush(Top.fd, conn[Top.fd]) /\ Become(f) /\ UNCHANGED g_waiting_conns
    BY <1>9 DEF WaitedServed, At, Top
  <2>2. f.pc = "waiting" /\ f.n = n /\ f.m = Top.m
    <3> HIDE DEF n
    <3> QED BY DEF Frame
  <2>3. available_count <= n
    <3>1. available_count < Top.n
      BY <1>3, <2>1 DEF Queued, Spent
    <3> QED BY <1>2, <3>1
  <2> HIDE DEF f, n
  <2>4. PICK h : h = f /\ Parsers' = {} /\ Servers' = {h}
    BY <1>6, <2>1, <2>2
  <2>5. Keeps
    <3>1. Top.fd \in Fds
      BY <1>2, <2>1 DEF StackFrame, FrameOf, LoopPC, FdPC
    <3> QED BY <2>1, <3>1, FlushKeeps
  <2>6. \A fd \in g_conns : OpenWaiting(fd) => available_count = 0 \/ ToVisit(h, fd)'
    BY <1>5, <2>1, <2>2, <2>4 DEF ToVisit
  <2> QED BY <1>1, <1>3, <2>2, <2>3, <2>4, <2>5, <2>6, ServeQueued
<1>10. CASE WaitedAgain
  <2> DEFINE f == [Frame("waiting", NoFd) EXCEPT !.n = Top.n, !.m = Top.m]
  <2>1. /\ Top.pc = "waited" /\ Become(f) /\ UNCHANGED conn
        /\ g_waiting_conns' \in {g_waiting_conns, Append(g_waiting_conns, Top.fd)}
    BY <1>10 DEF WaitedAgain, At, Top
  <2>2. f.pc = "waiting" /\ f.n = Top.n /\ f.m = Top.m
    BY DEF Frame
  <2> HIDE DEF f
  <2>3. PICK h : h = f /\ Parsers' = {} /\ Servers' = {h} /\ Keeps
    BY <1>6, <2>1, <2>2, SteadyKeeps
  <2>4. \A i \in 1 .. Len(g_waiting_conns) :
          i \in 1 .. Len(g_waiting_conns') /\ g_waiting_conns'[i] = g_waiting_conns[i]
    <3>1. Top.fd \in Fds
      BY <1>2, <2>1 DEF StackFrame, FrameOf, LoopPC, FdPC
    <3> QED BY <1>2, <2>1, <3>1
  <2>5. \A fd \in g_conns : OpenWaiting(fd) => available_count = 0 \/ ToVisit(h, fd)'
    BY <1>5, <2>2, <2>3, <2>4 DEF ToVisit
  <2> QED BY <1>1, <1>3, <1>4, <2>2, <2>3, <2>5, ServeQueued
<1> QED BY <1>7, <1>8, <1>9, <1>10 DEF WaitingStep

LEMMA OthersQueued ==
  ASSUME TypeOK, TypeOK', Queued, MaxWs = 0, NoWebSockets,
         \/ Workers \/ WsThreads \/ TimerTick \/ Undefined \/ UNCHANGED vars
         \/ \E fd \in Fds : Peer(fd)
  PROVE  Queued'
<1>1. conn \in [Fds -> Connection]
  BY DEF TypeOK, ObjTypeOK
<1>2. UNCHANGED <<stack, g_conns, g_waiting_conns, available_count>>
  <2>1. CASE Workers
    BY <2>1 DEF Workers, TaskStart, TaskFault, TaskPush, TaskInactive, TaskLeave
  <2>2. CASE WsThreads
    <3>1. Cardinality(ws) = 0
      BY FS_EmptySet DEF NoWebSockets
    <3> QED BY <2>2, <3>1 DEF WsThreads, WsGet, WsRelease, NoWebSockets
  <2>3. CASE TimerTick \/ Undefined \/ UNCHANGED vars
    BY <2>3 DEF TimerTick, Undefined, vars
  <2>4. CASE \E fd \in Fds : Peer(fd)
    BY <2>4, PeerUnchanged
  <2> QED BY <2>1, <2>2, <2>3, <2>4
<1>3. Keeps
  <2>1. CASE \E t \in running : TaskLeave(t)
    BY <1>1, <2>1 DEF TaskLeave, Keeps, KeepsConn, Connection
  <2>2. CASE ~\E t \in running : TaskLeave(t)
    <3>1. UNCHANGED conn
      <4>1. CASE Workers
        BY <2>2, <4>1 DEF Workers, TaskStart, TaskFault, TaskPush, TaskInactive
      <4>2. CASE WsThreads \/ TimerTick \/ Undefined \/ UNCHANGED vars
        BY <4>2 DEF WsThreads, WsGet, WsRelease, TimerTick, Undefined, vars
      <4>3. CASE \E fd \in Fds : Peer(fd)
        BY <4>3, PeerUnchanged
      <4> QED BY <4>1, <4>2, <4>3
    <3> QED BY <3>1, SteadyKeeps
  <2> QED BY <2>1, <2>2
<1>4. Parsers' = Parsers /\ Servers' = Servers
  BY <1>2, CallFrames DEF Parsers, Servers
<1> QED BY <1>2, <1>3, <1>4, FramesKeep

\* Queued is inductive, given Loops, PoolAccounting and Waiting.
LEMMA QueuedNext ==
  ASSUME TypeOK, TypeOK', Loops, PoolAccounting, Waiting, Queued, MaxWs = 0, NoWebSockets,
         [Next]_vars
  PROVE  Queued'
<1>1. CASE IoThread
  BY <1>1, LoopQueued, AcceptQueued, PendingQueued, ParseQueued, HandleQueued,
     ClosingQueued, ServingQueued
  DEF IoThread, AcceptStep
<1> QED BY <1>1, OthersQueued DEF Next

(***************************************************************************)
(* Between events no connection waits while an arena is free: whoever      *)
(* releases one serves the waiting connections with a budget that covers   *)
(* all that are free, each one served takes an arena, and the others stay  *)
(* on the list.  It is so as long as no WebSocket thread, which serves     *)
(* nobody, releases arenas too.                                            *)
(***************************************************************************)
THEOREM WaitersExhaust ==
  ASSUME MaxWs = 0
  PROVE  Spec => []WaitingMeansExhausted
<1> DEFINE IInv == Loops /\ PoolAccounting /\ NoWebSockets /\ PausedMeansExhausted
                   /\ Waiting /\ Queued
<1>1. Init => IInv
  <2> SUFFICES ASSUME Init PROVE Waiting /\ Queued
    BY InitLoops, PoolInitAccounting DEF Init, NoWebSockets, PausedMeansExhausted
  <2>1. Frames = {}
    BY FramesAre DEF Init, Frames
  <2> QED BY <2>1 DEF Init, Waiting, Nested, Was, WaitingIsListed, At, Queued, AllRead,
                      Defers, Budget, Spent, Visits, Parsers, Servers
<1>2. TypeOK /\ TypeOK' /\ IInv /\ [Next]_vars => IInv'
  BY LoopsNext, AccountingNext, PausedNext, WaitingStays, QueuedNext
<1>3. TypeOK /\ IInv => WaitingMeansExhausted
  <2> SUFFICES ASSUME TypeOK, IInv, Idle PROVE WaitingMeansExhausted
    BY DEF WaitingMeansExhausted
  <2>1. Parsers = {} /\ Servers = {}
    BY QuietStack DEF Idle
  <2> QED BY <2>1 DEF WaitingMeansExhausted, Queued, Visits, OpenWaiting, Parsing
<1> QED BY <1>1, <1>2, <1>3, TypeCorrect, PTL DEF Spec

-----------------------------------------------------------------------------
(* Arenas and their owners *)

\* Peers that use one request id on a connection, one request after another.
OneId == \A i, j \in Ids : i = j

\* Frames of the functions that take requests away.
EndPC == {"erase", "cleanup"}
Enders == {f \in Frames : f.pc \in EndPC}

\* The map of its connection leads to the request of arena a.
Reached(a) ==
  /\ req[a].conn_ptr \in g_conns /\ req[a].id \in Ids
  /\ conn[req[a].conn_ptr].requests[req[a].id] = a

Kindred(a, fd) == req[a].live /\ req[a].conn_ptr = fd

InUse == \A a \in Arena : in_use[a] => a \in ws \/ req[a].live

Reaches == \A a \in Arena : req[a].live => Reached(a)

\* A cleanup has all requests of its connection still before it, and while it
\* calls others the map says so: none of them enters a request of that id.
Cleans ==
  \A f \in Frames : f.pc = "cleanup" =>
    /\ \A a \in Arena : Kindred(a, f.fd) => req[a].id \in f.ids
    /\ At("cleanup") \/ Mapped(conn[f.fd]) # {}

\* The request whose entry the sweep erases next is gone.
Erases ==
  \A f \in Frames : f.pc = "erase" => \A a \in Arena : Kindred(a, f.fd) => req[a].id # f.id

Owned == InUse /\ Reaches /\ Cleans /\ Erases

\* A step that begins no cleanup, and leaves one that is under way alone.
Tidy == Enders' \subseteq Enders /\ (At("cleanup") => UNCHANGED stack)

LEMMA TidyStacks ==
  ASSUME TypeOK, TypeOK'
  PROVE  /\ UNCHANGED stack => Tidy
         /\ stack = <<>> => \A g : Call(<<g>>) /\ g.pc \notin EndPC => Tidy
         /\ stack # <<>> /\ Top.pc \notin EndPC =>
              /\ Return => Tidy
              /\ \A f : Become(f) /\ f.pc \notin EndPC => Tidy
              /\ \A f, g : CallFrom(f, <<g>>) /\ f.pc \notin EndPC /\ g.pc \notin EndPC => Tidy
<1>1. UNCHANGED stack => Tidy
  BY CallFrames DEF Tidy, Enders
<1>2. ASSUME stack = <<>>, NEW g, Call(<<g>>), g.pc \notin EndPC PROVE Tidy
  <2>1. Frames' = {g} \cup Frames
    BY <1>2, CallFrames, IntoStack
  <2> QED BY <1>2, <2>1 DEF Tidy, Enders, At
<1>3. ASSUME stack # <<>>, Top.pc \notin EndPC
      PROVE  /\ Return => Tidy
             /\ \A f : Become(f) /\ f.pc \notin EndPC => Tidy
             /\ \A f, g : CallFrom(f, <<g>>) /\ f.pc \notin EndPC /\ g.pc \notin EndPC => Tidy
  <2>1. Frames = {Top} \cup Below /\ ~At("cleanup")
    BY <1>3, StackFrames DEF At, Top, EndPC
  <2>2. Return => Tidy
    BY <1>3, <2>1, StackFrames DEF Tidy, Enders
  <2>3. ASSUME NEW f, Become(f), f.pc \notin EndPC PROVE Tidy
    <3>1. Frames' = {f} \cup Below
      BY <1>3, <2>3, IntoStack, StackFrames
    <3> QED BY <2>1, <2>3, <3>1 DEF Tidy, Enders
  <2>4. ASSUME NEW f, NEW g, CallFrom(f, <<g>>), f.pc \notin EndPC, g.pc \notin EndPC
        PROVE  Tidy
    <3>1. Frames' = {f, g} \cup Below
      BY <1>3, <2>4, IntoStack, StackFrames
    <3> QED BY <2>1, <2>4, <3>1 DEF Tidy, Enders
  <2> QED BY <2>2, <2>3, <2>4
<1> QED BY <1>1, <1>2, <1>3

\* Maps and requests as they were: all that was reached is.
LEMMA KeptReaches ==
  ASSUME TypeOK, Reaches, Maps, Live, UNCHANGED g_conns
  PROVE  /\ Reaches'
         /\ \A a \in Arena, fd \in Fds : Kindred(a, fd)' => Kindred(a, fd) /\ req'[a].id = req[a].id
         /\ \A fd \in Fds : Mapped(conn[fd])' = Mapped(conn[fd])
<1>1. g_conns \subseteq Fds
  BY DEF TypeOK, ObjTypeOK
<1> QED BY <1>1 DEF Reaches, Reached, Maps, Live, SameRequest, Kindred, Mapped

LEMMA EnderFd ==
  ASSUME TypeOK, NEW f \in Frames, f.pc \in EndPC
  PROVE  f.fd \in Fds /\ f.id \in Ids \cup {NoId}
<1>1. f \in StackFrame
  BY DEF Frames, Items, TypeOK, IoTypeOK
<1> QED BY <1>1 DEF StackFrame, FrameOf, LoopPC, EndPC

LEMMA TidyOwned ==
  ASSUME TypeOK, Owned, Tends, Tidy
  PROVE  Owned'
<1>1. InUse'
  BY DEF Owned, InUse, Tends, Live, SameRequest
<1>2. /\ Reaches'
      /\ \A a \in Arena, fd \in Fds : Kindred(a, fd)' => Kindred(a, fd) /\ req'[a].id = req[a].id
      /\ \A fd \in Fds : Mapped(conn[fd])' = Mapped(conn[fd])
  BY KeptReaches DEF Owned, Tends
<1>3. ASSUME NEW f \in Frames', f.pc = "cleanup"
      PROVE  /\ \A a \in Arena : Kindred(a, f.fd)' => req'[a].id \in f.ids
             /\ At("cleanup")' \/ Mapped(conn[f.fd])' # {}
  <2>1. f \in Frames /\ f.fd \in Fds
    BY <1>3, EnderFd DEF Tidy, Enders, EndPC
  <2>2. At("cleanup") => At("cleanup")'
    BY DEF Tidy, At
  <2> QED BY <1>2, <1>3, <2>1, <2>2 DEF Owned, Cleans
<1>4. ASSUME NEW f \in Frames', f.pc = "erase"
      PROVE  \A a \in Arena : Kindred(a, f.fd)' => req'[a].id # f.id
  <2>1. f \in Frames /\ f.fd \in Fds
    BY <1>4, EnderFd DEF Tidy, Enders, EndPC
  <2> QED BY <1>2, <1>4, <2>1 DEF Owned, Erases
<1> QED BY <1>1, <1>2, <1>3, <1>4 DEF Owned, Cleans, Erases

-----------------------------------------------------------------------------
(* The steps that begin no cleanup *)

LEMMA EventTidy ==
  ASSUME TypeOK, TypeOK', LoopStep
  PROVE  Tidy
<1>1. CASE EpollWait \/ \E e \in batch : IoStale(e)
  BY <1>1, TidyStacks DEF EpollWait, IoStale
<1>2. CASE \E e \in batch : ListenEvent(e) \/ EventFdEvent(e) \/ TimerEvent(e)
  <2>1. stack = <<>> /\ (UNCHANGED stack \/ \E pc \in LoopPC : Call(<<Frame(pc, NoFd)>>))
    BY <1>2 DEF ListenEvent, EventFdEvent, TimerEvent, LoopPC, Dispatching
  <2>2. \A pc \in LoopPC : Frame(pc, NoFd).pc \notin EndPC
    BY DEF Frame, LoopPC, EndPC
  <2> QED BY <2>1, <2>2, TidyStacks
<1>3. CASE \E e \in batch : IoEvent(e)
  <2>1. PICK e \in batch : IoEvent(e)
    BY <1>3
  <2>2. CASE \E x : x.pc \in {"outflush", "sweep"} /\ Call(<<x>>)
    <3>1. stack = <<>>
      BY <2>1, IoEventStack
    <3> QED BY <2>2, <3>1, TidyStacks DEF EndPC
  <2>3. ASSUME NEW x, x.pc = "parsed", stack' = <<x>> \/ stack' = <<Frame("fcgi", e.fd)>> \o <<x>>
        PROVE  Tidy
    <3> DEFINE g == Frame("fcgi", e.fd)
               S == {x, g}
    <3>1. g.pc = "fcgi" /\ stack = <<>>
      BY <2>1, IoEventStack DEF Frame
    <3>2. x \in S /\ g \in S
      OBVIOUS
    <3>3. stack' = <<x>> \/ stack' = <<g>> \o <<x>>
      BY <2>3
    <3> HIDE DEF S, g
    <3>4. Items(<<x>>) = {x} /\ Items(<<g>> \o <<x>>) = {g, x}
      BY <3>2, FewFrames
    <3>5. Frames' = Items(stack')
      BY DEF Frames
    <3>6. Frames' = {x} \/ Frames' = {g, x}
      <4> HIDE DEF Items
      <4> QED BY <3>3, <3>4, <3>5, Zenon
    <3> QED BY <2>3, <3>1, <3>6 DEF Tidy, Enders, EndPC, At
  <2> QED BY <2>1, <2>2, <2>3, IoEventStack
<1> QED BY <1>1, <1>2, <1>3 DEF LoopStep

LEMMA PartsTidy ==
  ASSUME TypeOK, TypeOK',
         \/ PendingStep \/ AcceptStep \/ ParseStep
         \/ AfterParse \/ OutFlush \/ SweepDone \/ \E id \in Ids : SweepKeep(id)
         \/ CloseQueueDone \/ ExpireDone \/ HousekeepingDone
         \/ \E fd \in Fds, id \in Ids : Expire(fd, id)
  PROVE  Tidy
<1>1. \A pc, fd : Frame(pc, fd).pc = pc
  BY DEF Frame
<1>2. \A fd : SweepFrame(fd).pc = "sweep"
  BY DEF SweepFrame, Frame
<1>3. CASE PendingStep \/ AcceptStep
  <2>1. stack # <<>> /\ Top.pc \in {"swap", "pending", "accept"}
    BY <1>3 DEF PendingStep, SwapPending, PendingAnswer, PendingSkip, PendingFault,
                PendingDone, AcceptStep, AcceptOne, AcceptDone, At, Top
  <2>2. UNCHANGED stack \/ Return \/ Become(Frame("pending", NoFd))
    BY <1>3 DEF PendingStep, SwapPending, PendingAnswer, PendingSkip, PendingFault,
                PendingDone, AcceptStep, AcceptOne, AcceptDone
  <2> QED BY <1>1, <2>1, <2>2, TidyStacks DEF EndPC
<1>4. CASE ParseStep
  <2>1. stack # <<>> /\ Top.pc = "fcgi"
    BY <1>4 DEF ParseStep, ParseEnd, ParseBad, ParseDefer, ParseSkip, ParseNew, ParseKnown,
                ParseFault, At, Top
  <2>2. UNCHANGED stack \/ Return \/ Become([Top EXCEPT !.n = @ + 1])
    BY <1>4 DEF ParseStep, ParseEnd, ParseBad, ParseDefer, ParseSkip, ParseNew, ParseKnown,
                ParseFault, Deliver
  <2>3. [Top EXCEPT !.n = @ + 1].pc = "fcgi"
    BY <2>1, TopFrame DEF StackFrame, FrameOf
  <2> QED BY <2>1, <2>2, <2>3, TidyStacks DEF EndPC
<1>5. CASE AfterParse \/ OutFlush \/ SweepDone
  <2>1. stack # <<>> /\ Top.pc \in {"parsed", "outflush", "sweep"}
    BY <1>5 DEF AfterParse, OutFlush, SweepDone, At, Top
  <2>2. \/ Become(Frame("outflush", Top.fd)) \/ Become(SweepFrame(Top.fd))
        \/ Become(Frame("closing", NoFd))
    BY <1>5 DEF AfterParse, OutFlush, SweepDone
  <2> QED BY <1>1, <1>2, <2>1, <2>2, TidyStacks DEF EndPC
<1>6. CASE \E id \in Ids : SweepKeep(id)
  <2>1. PICK id \in Ids : SweepKeep(id)
    BY <1>6
  <2>2. stack # <<>> /\ Top.pc = "sweep" /\ Become([Top EXCEPT !.ids = @ \ {id}])
    BY <2>1 DEF SweepKeep, At, Top
  <2>3. [Top EXCEPT !.ids = @ \ {id}].pc = "sweep"
    BY <2>2, TopFrame DEF StackFrame, FrameOf
  <2> QED BY <2>2, <2>3, TidyStacks DEF EndPC
<1>7. CASE CloseQueueDone \/ ExpireDone \/ HousekeepingDone
  <2>1. stack # <<>> /\ Top.pc \in {"closing", "expire", "housekeeping"}
    BY <1>7 DEF CloseQueueDone, ExpireDone, HousekeepingDone, At, Top
  <2>2. Return \/ Become(Frame("housekeeping", NoFd))
    BY <1>7 DEF CloseQueueDone, ExpireDone, HousekeepingDone
  <2> QED BY <1>1, <2>1, <2>2, TidyStacks DEF EndPC
<1>8. CASE \E fd \in Fds, id \in Ids : Expire(fd, id)
  BY <1>8, TidyStacks DEF Expire
<1> QED BY <1>3, <1>4, <1>5, <1>6, <1>7, <1>8

LEMMA WaitingTidy ==
  ASSUME TypeOK, TypeOK', WaitingStep
  PROVE  Tidy
<1>1. stack # <<>> /\ Top.pc \in {"waiting", "waited"} /\ Top \in StackFrame
  BY TopFrame DEF WaitingStep, WaitingNext, WaitingDone, WaitedServed, WaitedAgain, At, Top
<1>2. CASE WaitingNext
  <2> DEFINE fd == Head(g_waiting_conns)
             was == conn[fd].waiting_for_arena
             next == [Top EXCEPT !.m = @ - 1]
             serve == [next EXCEPT !.pc = "waited", !.fd = fd, !.was = was]
  <2>1. Top.pc = "waiting" /\ (Become(next) \/ CallFrom(serve, <<Frame("fcgi", fd)>>))
    BY <1>2 DEF WaitingNext, At, Top
  <2>2. next.pc = "waiting" /\ Frame("fcgi", fd).pc = "fcgi"
    BY <1>1, <2>1 DEF StackFrame, FrameOf, Frame
  <2>3. serve.pc = "waited"
    <3> HIDE DEF fd, was
    <3> QED BY <1>1 DEF StackFrame, FrameOf
  <2> HIDE DEF next, serve, fd
  <2> QED BY <1>1, <2>1, <2>2, <2>3, TidyStacks DEF EndPC
<1>3. CASE WaitingDone
  BY <1>1, <1>3, TidyStacks DEF WaitingDone, EndPC
<1>4. CASE WaitedServed \/ WaitedAgain
  <2> DEFINE n == IF WaitedServed THEN Top.n - 1 ELSE Top.n
             f == [Frame("waiting", NoFd) EXCEPT !.n = n, !.m = Top.m]
  <2>1. Become(f)
    <3>1. CASE WaitedServed
      BY <3>1 DEF WaitedServed
    <3>2. CASE ~WaitedServed
      BY <1>4, <3>2 DEF WaitedAgain
    <3> QED BY <3>1, <3>2
  <2>2. f.pc = "waiting"
    <3> HIDE DEF n
    <3> QED BY DEF Frame
  <2> HIDE DEF f
  <2> QED BY <1>1, <2>1, <2>2, TidyStacks DEF EndPC
<1> QED BY <1>2, <1>3, <1>4 DEF WaitingStep

LEMMA OthersTidy ==
  ASSUME TypeOK, TypeOK',
         \/ Workers \/ TimerTick \/ Undefined \/ UNCHANGED vars
         \/ \E fd \in Fds : Peer(fd)
  PROVE  Tidy
<1>1. UNCHANGED stack
  <2>1. CASE Workers
    BY <2>1 DEF Workers, TaskStart, TaskFault, TaskPush, TaskInactive, TaskLeave
  <2>2. CASE TimerTick \/ Undefined \/ UNCHANGED vars
    BY <2>2 DEF TimerTick, Undefined, vars
  <2>3. CASE \E fd \in Fds : Peer(fd)
    BY <2>3, PeerUnchanged
  <2> QED BY <2>1, <2>2, <2>3
<1> QED BY <1>1, TidyStacks

-----------------------------------------------------------------------------
(* The steps that begin a cleanup, or change who owns what *)

\* A cleanup begins with every request of its connection before it.
LEMMA BeginOwned ==
  ASSUME TypeOK, TypeOK', Loops, Tended, Owned, stack # <<>>,
         Top.pc \in {"closing", "housekeeping"},
         NEW fd \in g_conns, Call(<<CleanupFrame(fd)>>), StackOnly
  PROVE  Owned'
<1>1. /\ InUse' /\ Reaches'
      /\ \A gd : \A a \in Arena : Kindred(a, gd)' <=> Kindred(a, gd)
  BY DEF Owned, InUse, Reaches, Reached, Kindred, StackOnly
<1> DEFINE g == CleanupFrame(fd)
<1>2. g.pc = "cleanup" /\ g.fd = fd /\ g.ids = Mapped(conn[fd]) /\ g \in StackFrame
  BY IntoStack DEF CleanupFrame, Frame
<1>3. Call(<<g>>)
  OBVIOUS
<1> HIDE DEF g
<1>4. Frames' = {g} \cup Frames /\ stack' # <<>> /\ Top' = g
  BY <1>2, <1>3, CallFrames, NewTop
<1>5. \A f \in Frames : f.pc \notin EndPC
  <2>1. Below = {} /\ Frames = {Top} \cup Below
    BY AloneFrames, StackFrames
  <2> QED BY <2>1 DEF EndPC
<1>6. ASSUME NEW a \in Arena, Kindred(a, fd) PROVE req[a].id \in g.ids
  <2>1. a # NoArena
    BY NArenasAssumption DEF Arena, NoArena
  <2> QED BY <1>2, <1>6, <2>1 DEF Owned, Reaches, Reached, Kindred, Mapped
<1>7. At("cleanup")'
  BY <1>2, <1>4 DEF At, Top
<1> QED BY <1>1, <1>2, <1>4, <1>5, <1>6, <1>7 DEF Owned, Cleans, Erases, EndPC, StackOnly

LEMMA ClosingOwned ==
  ASSUME TypeOK, TypeOK', Loops, Tended, Owned,
         CloseQueued \/ \E fd \in Fds : HousekeepingClose(fd)
  PROVE  Owned'
<1>1. /\ StackOnly /\ stack # <<>> /\ Top.pc \in {"closing", "housekeeping"}
      /\ UNCHANGED stack \/ \E fd \in g_conns : Call(<<CleanupFrame(fd)>>)
  BY DEF CloseQueued, HousekeepingClose, StackOnly, At, Top
<1>2. CASE UNCHANGED stack
  <2>1. Tends
    BY <1>1, <1>2, FramesAreKept, StackOnlyTends
  <2> QED BY <1>2, <2>1, TidyStacks, TidyOwned
<1> QED BY <1>1, <1>2, BeginOwned

\* A record constructs a request, or goes to one.  Where a cleanup or an erase
\* is under way the one id of the connection is mapped, so none is constructed.
LEMMA ParseOwned ==
  ASSUME TypeOK, TypeOK', OneId, Loops, Tended, Owned,
         NEW a \in Arena, ParseNew(a) \/ ParseKnown(a)
  PROVE  Owned'
<1> DEFINE fd == Top.fd
           id == NextRecord.id
           new == NewRequest(built + 1, fd, conn[fd].serial, id)
           r == IF ParseNew(a) THEN new ELSE req[a]
<1>1. /\ r \in Request
      /\ stack # <<>> /\ Top.pc = "fcgi" /\ fd \in Fds /\ id \in Ids
      /\ \E go \in BOOLEAN : Delivered(a, r, fd, id, go)
  BY ParseDelivers
<1>2. UNCHANGED <<g_conns, ws>> /\ fd \in g_conns
  BY <1>1, TopServed DEF ParseNew, ParseKnown, FdPC
<1>3. Tidy /\ ~At("cleanup")
  BY <1>1, PartsTidy DEF ParseStep, At, Top
<1>4. /\ SameRequest(r, req'[a]) /\ \A b \in Arena \ {a} : req'[b] = req[b]
      /\ \A gd \in Fds, i \in Ids : conn'[gd].requests[i] =
           IF gd = fd /\ i = id THEN a ELSE conn[gd].requests[i]
  <2> HIDE DEF r, fd, id
  <2> QED BY <1>1 DEF Delivered
<1>5. conn[fd].requests[id] = IF ParseNew(a) THEN NoArena ELSE a
  BY DEF ParseNew, ParseKnown, EntryOf
<1>6. new.live /\ new.conn_ptr = fd /\ new.id = id
  BY DEF NewRequest
<1>7. a # NoArena /\ g_conns \subseteq Fds /\ in_use \in [Arena -> BOOLEAN]
  BY NArenasAssumption DEF Arena, NoArena, TypeOK, ObjTypeOK, PoolTypeOK
<1>8. /\ ParseNew(a) => in_use' = [in_use EXCEPT ![a] = TRUE] /\ ~req[a].live
      /\ ~ParseNew(a) => UNCHANGED in_use /\ req[a].live
  BY DEF Tended, Held, ParseNew, ParseKnown, Get, FirstFree, FreeArenas
<1>9. /\ req'[a].live
      /\ ParseNew(a) => req'[a].conn_ptr = fd /\ req'[a].id = id
      /\ ~ParseNew(a) => req'[a].conn_ptr = req[a].conn_ptr /\ req'[a].id = req[a].id
  <2> HIDE DEF new, fd, id
  <2> QED BY <1>4, <1>6, <1>8 DEF SameRequest
<1>10. InUse'
  <2> HIDE DEF new, r, fd, id
  <2>1. ASSUME NEW b \in Arena \ {a} PROVE in_use'[b] = in_use[b] /\ req'[b] = req[b]
    BY <1>4, <1>7, <1>8
  <2> QED BY <1>2, <1>9, <2>1 DEF Owned, InUse
<1>11. Reaches'
  <2> SUFFICES ASSUME NEW b \in Arena, req'[b].live PROVE Reached(b)'
    BY DEF Reaches
  <2> HIDE DEF new, r, fd, id
  <2>1. CASE b = a /\ ParseNew(a)
    BY <1>1, <1>2, <1>4, <1>9, <2>1 DEF Reached
  <2>2. CASE ~(b = a /\ ParseNew(a))
    <3>1. Reached(b) /\ req'[b].conn_ptr = req[b].conn_ptr /\ req'[b].id = req[b].id
      BY <1>4, <1>8, <1>9, <2>2 DEF Owned, Reaches
    <3>2. conn'[req[b].conn_ptr].requests[req[b].id] = b
      <4>1. PICK gd, i : gd = req[b].conn_ptr /\ i = req[b].id
        OBVIOUS
      <4>2. gd \in Fds /\ i \in Ids /\ conn[gd].requests[i] = b /\ b # NoArena
        BY <1>7, <3>1, <4>1, NArenasAssumption DEF Reached, Arena, NoArena
      <4>3. conn'[gd].requests[i] = b
        BY <1>4, <1>5, <4>2
      <4> QED BY <4>1, <4>3
    <3> QED BY <1>2, <3>1, <3>2 DEF Reached
  <2> QED BY <2>1, <2>2
<1>12. ASSUME NEW f \in Frames', f.pc \in EndPC
       PROVE  /\ f \in Frames /\ f.fd \in Fds
              /\ Mapped(conn[f.fd]) # {} /\ Mapped(conn[f.fd])' # {}
              /\ \A b \in Arena : Kindred(b, f.fd)' => Kindred(b, f.fd) /\ req'[b].id = req[b].id
  <2>1. f \in Frames /\ f.fd \in Fds
    BY <1>3, <1>12, EnderFd DEF Tidy, Enders
  <2>2. Mapped(conn[f.fd]) # {}
    <3>1. CASE f.pc = "cleanup"
      BY <1>3, <2>1, <3>1 DEF Owned, Cleans
    <3>2. CASE f.pc = "erase"
      BY <2>1, <3>2 DEF Loops, LoopsStayValid, VisitsMapped, Frames, Items
    <3> QED BY <1>12, <3>1, <3>2 DEF EndPC
  <2> HIDE DEF new, r, fd, id
  <2>3. Mapped(conn[f.fd])' # {}
    BY <1>4, <1>7, <2>1, <2>2 DEF Mapped
  <2>4. ASSUME NEW b \in Arena, Kindred(b, f.fd)'
        PROVE  Kindred(b, f.fd) /\ req'[b].id = req[b].id
    <3>1. CASE b = a /\ ParseNew(a)
      <4>1. fd = f.fd
        BY <1>9, <2>4, <3>1 DEF Kindred
      <4>2. PICK i \in Ids : conn[fd].requests[i] # NoArena
        BY <2>2, <4>1 DEF Mapped
      <4>3. i = id
        BY <1>1, <4>2 DEF OneId
      <4> QED BY <1>5, <3>1, <4>2, <4>3
    <3>2. CASE ~(b = a /\ ParseNew(a))
      BY <1>4, <1>8, <1>9, <2>4, <3>2 DEF Kindred
    <3> QED BY <3>1, <3>2
  <2> QED BY <2>1, <2>2, <2>3, <2>4
<1> QED BY <1>10, <1>11, <1>12 DEF Owned, Cleans, Erases, EndPC

\* The frames that a release leaves.
LEMMA ReleaseFrames ==
  ASSUME TypeOK, TypeOK', stack # <<>>, NEW a, NEW under \in StackFrame,
         ReleaseRequest(a, under)
  PROVE  \A f \in Frames' : f = under \/ f \in Below \/ f.pc = "waiting"
<1>1. CallFrom(under, WaitingFrames)
  BY DEF ReleaseRequest
<1>2. CASE WaitingFrames = <<>>
  <2>1. CallFrom(under, <<>>)
    BY <1>1, <1>2
  <2> QED BY <2>1, StackFrames
<1>3. CASE WaitingFrames # <<>>
  <2> DEFINE k == available_count'
             m == Len(g_waiting_conns)
             g == [Frame("waiting", NoFd) EXCEPT !.n = k, !.m = m]
  <2>1. WaitingFrames = <<g>>
    BY <1>3 DEF WaitingFrames
  <2>2. CallFrom(under, <<g>>)
    BY <1>1, <2>1
  <2> HIDE DEF k, m
  <2>3. g.pc = "waiting"
    BY DEF Frame
  <2> HIDE DEF g
  <2>4. g \in StackFrame
    BY <2>2, IntoStack
  <2>5. Frames' = {under, g} \cup Below
    BY <2>2, <2>4, StackFrames
  <2> QED BY <2>3, <2>5
<1> QED BY <1>2, <1>3

\* A loop releases a request that it will not see again.
LEMMA ReleaseOwned ==
  ASSUME TypeOK, TypeOK', Tended, Owned, stack # <<>>, NEW fd \in g_conns, NEW id \in Ids,
         NEW a \in Arena, a = conn[fd].requests[id], EntryLives(fd, id),
         NEW under \in StackFrame, under.fd = fd,
         \/ under.pc = "erase" /\ under.id = id
         \/ under.pc = "cleanup" /\ Top.pc = "cleanup" /\ Top.fd = fd
              /\ under.ids = Top.ids \ {id},
         \A f \in Below : f.pc \notin EndPC,
         ReleaseRequest(a, under)
  PROVE  Owned'
<1>1. /\ UNCHANGED <<g_conns, conn, ws>> /\ CallFrom(under, WaitingFrames)
      /\ req' = [req EXCEPT ![a] = Destroyed(@)] /\ Release(a)
  BY DEF ReleaseRequest
<1>2. /\ req \in [Arena -> Request] /\ in_use \in [Arena -> BOOLEAN]
      /\ g_conns \subseteq Fds /\ a # NoArena
  BY NArenasAssumption DEF TypeOK, ObjTypeOK, PoolTypeOK, Arena, NoArena
<1>3. ~req'[a].live /\ \A b \in Arena \ {a} : req'[b] = req[b]
  BY <1>1, <1>2 DEF Destroyed, NewRequest
<1>4. \A f \in Frames' : f.pc \in EndPC => f = under
  BY ReleaseFrames DEF EndPC
<1>5. InUse'
  <2>1. ~in_use'[a] /\ \A b \in Arena \ {a} : in_use'[b] = in_use[b]
    BY <1>1, <1>2 DEF Release
  <2> QED BY <1>1, <1>3, <2>1 DEF Owned, InUse
<1>6. Reaches'
  <2> SUFFICES ASSUME NEW b \in Arena, req'[b].live PROVE Reached(b)'
    BY DEF Reaches
  <2>1. b # a /\ req'[b] = req[b]
    BY <1>3
  <2>2. Reached(b)
    BY <2>1 DEF Owned, Reaches
  <2> QED BY <1>1, <2>1, <2>2 DEF Reached
<1>7. \A b \in Arena : Kindred(b, fd)' => Kindred(b, fd) /\ req'[b].id = req[b].id /\ req[b].id # id
  <2> SUFFICES ASSUME NEW b \in Arena, Kindred(b, fd)'
               PROVE  Kindred(b, fd) /\ req'[b].id = req[b].id /\ req[b].id # id
    OBVIOUS
  <2>1. b # a /\ req'[b] = req[b]
    BY <1>3 DEF Kindred
  <2>2. Kindred(b, fd) /\ Reached(b)
    BY <2>1 DEF Kindred, Owned, Reaches
  <2> QED BY <2>1, <2>2 DEF Reached, Kindred
<1>8. Mapped(conn[fd])' # {}
  BY <1>1, <1>2 DEF Mapped
<1>9. Cleans'
  <2> SUFFICES ASSUME NEW f \in Frames', f.pc = "cleanup"
               PROVE  /\ \A b \in Arena : Kindred(b, f.fd)' => req'[b].id \in f.ids
                      /\ At("cleanup")' \/ Mapped(conn[f.fd])' # {}
    BY DEF Cleans
  <2>1. f = under /\ Top.pc = "cleanup" /\ Top.fd = fd /\ f.ids = Top.ids \ {id} /\ f.fd = fd
    BY <1>4 DEF EndPC
  <2>2. \A b \in Arena : Kindred(b, fd) => req[b].id \in Top.ids
    BY <2>1, StackFrames DEF Owned, Cleans
  <2> QED BY <1>7, <1>8, <2>1, <2>2
<1>10. Erases'
  <2> SUFFICES ASSUME NEW f \in Frames', f.pc = "erase", NEW b \in Arena, Kindred(b, f.fd)'
               PROVE  req'[b].id # f.id
    BY DEF Erases
  <2>1. f = under /\ f.id = id /\ f.fd = fd
    BY <1>4 DEF EndPC
  <2> QED BY <1>7, <2>1
<1> QED BY <1>5, <1>6, <1>9, <1>10 DEF Owned

LEMMA SweepOwned ==
  ASSUME TypeOK, TypeOK', Loops, Tended, Owned, NEW id \in Ids, SweepFree(id)
  PROVE  Owned'
<1> DEFINE fd == Top.fd
           a == conn[fd].requests[id]
           under == [Top EXCEPT !.pc = "erase", !.id = id, !.ids = @ \ {id}]
<1>1. /\ stack # <<>> /\ Top.pc = "sweep" /\ a # NoArena /\ ReleaseRequest(a, under)
  BY DEF SweepFree, At, Top
<1>2. Top \in StackFrame /\ fd \in g_conns /\ fd \in Fds /\ Below = {} /\ Frames = {Top} \cup Below
  BY <1>1, TopServed, AloneFrames, StackFrames DEF FdPC, TypeOK, ObjTypeOK
<1>3. a \in Arena
  BY <1>1, <1>2 DEF TypeOK, ObjTypeOK, Connection
<1>4. EntryLives(fd, id)
  BY <1>1, <1>2 DEF Tended, Entries, Dooms
<1>5. under.pc = "erase" /\ under.id = id /\ under.fd = fd
  BY <1>2 DEF StackFrame, FrameOf
<1>6. under \in StackFrame
  BY <1>1, <1>2 DEF StackFrame, FrameOf, FdPC, LoopPC
<1> HIDE DEF under, a, fd
<1> QED BY <1>1, <1>2, <1>3, <1>4, <1>5, <1>6, ReleaseOwned DEF a

LEMMA CleanupOwned ==
  ASSUME TypeOK, TypeOK', Loops, Tended, Owned, NEW id \in Ids, CleanupOne(id)
  PROVE  Owned'
<1> DEFINE fd == Top.fd
           a == conn[fd].requests[id]
           under == [Top EXCEPT !.ids = @ \ {id}]
<1>1. stack # <<>> /\ Top.pc = "cleanup" /\ id \in Top.ids /\ ReleaseRequest(a, under)
  BY DEF CleanupOne, At, Top
<1>2. /\ Top \in StackFrame /\ fd \in g_conns /\ fd \in Fds /\ Frames = {Top} \cup Below
      /\ \A f \in Below : f.pc \in {"closing", "housekeeping"}
  BY <1>1, TopServed, CleanupFrames, StackFrames DEF FdPC, TypeOK, ObjTypeOK
<1>3. a \in Arena /\ a # NoArena
  <2>1. VisitsMapped(Top, conn)
    BY <1>1, TopFrame
  <2>2. a # NoArena
    BY <1>1, <2>1 DEF VisitsMapped, Mapped
  <2> QED BY <1>2, <2>2 DEF TypeOK, ObjTypeOK, Connection
<1>4. EntryLives(fd, id)
  <2>1. \A f \in Frames : ~Dooms(f, fd, id)
    BY <1>1, <1>2 DEF Dooms
  <2> QED BY <1>2, <1>3, <2>1 DEF Tended, Entries
<1>5. under.pc = "cleanup" /\ under.ids = Top.ids \ {id} /\ under.fd = fd
  BY <1>1, <1>2 DEF StackFrame, FrameOf
<1>6. under \in StackFrame
  BY <1>2 DEF StackFrame, FrameOf
<1>7. fd = Top.fd /\ \A f \in Below : f.pc \notin EndPC
  BY <1>2 DEF EndPC
<1> HIDE DEF under, a, fd
<1> QED BY <1>1, <1>2, <1>3, <1>4, <1>5, <1>6, <1>7, ReleaseOwned DEF a

LEMMA EraseOwned ==
  ASSUME TypeOK, TypeOK', Loops, Tended, Owned, SweepErase
  PROVE  Owned'
<1> DEFINE fd == Top.fd
           id == Top.id
           f == [Top EXCEPT !.pc = "sweep", !.id = NoId]
<1>1. /\ stack # <<>> /\ Top.pc = "erase" /\ Become(f) /\ UNCHANGED <<g_conns, req, in_use, ws>>
      /\ conn' = [conn EXCEPT ![fd].requests[id] = NoArena]
  BY DEF SweepErase, At, Top
<1>2. Top \in StackFrame /\ fd \in g_conns /\ fd \in Fds /\ conn \in [Fds -> Connection]
  BY <1>1, TopServed DEF FdPC, TypeOK, ObjTypeOK
<1>3. f.pc = "sweep"
  BY <1>2 DEF StackFrame, FrameOf
<1> HIDE DEF f
<1>4. Frames' = {f} /\ Top \in Frames
  BY <1>1, IntoStack, StackFrames, AloneFrames
<1>5. \A gd \in Fds, i \in Ids :
        conn'[gd].requests[i] = IF gd = fd /\ i = id THEN NoArena ELSE conn[gd].requests[i]
  <2> HIDE DEF fd, id
  <2> QED BY <1>1, <1>2 DEF Connection
<1>6. \A a \in Arena : Kindred(a, fd) => req[a].id # id
  BY <1>1, <1>4 DEF Owned, Erases
<1>7. Reaches'
  <2> SUFFICES ASSUME NEW a \in Arena, req[a].live PROVE Reached(a)'
    BY <1>1 DEF Reaches
  <2>1. Reached(a) /\ ~(req[a].conn_ptr = fd /\ req[a].id = id)
    BY <1>6 DEF Owned, Reaches, Kindred
  <2>2. req[a].conn_ptr \in Fds
    BY <2>1 DEF Reached, TypeOK, ObjTypeOK
  <2> HIDE DEF fd, id
  <2> QED BY <1>1, <1>5, <2>1, <2>2 DEF Reached
<1> QED BY <1>1, <1>3, <1>4, <1>7 DEF Owned, InUse, Cleans, Erases

LEMMA CloseOwned ==
  ASSUME TypeOK, TypeOK', Loops, Tended, Owned, CloseFd
  PROVE  Owned'
<1>1. /\ stack # <<>> /\ Top.pc = "cleanup" /\ Top.ids = {} /\ Return
      /\ UNCHANGED <<req, in_use, ws>>
      /\ conn' = [conn EXCEPT ![Top.fd] = NewConnection(0)]
      /\ g_conns' = g_conns \ {Top.fd}
  BY DEF CloseFd, At, Top
<1>2. /\ g_conns \subseteq Fds /\ conn \in [Fds -> Connection]
      /\ Frames = {Top} \cup Below /\ Frames' = Below
      /\ \A f \in Below : f.pc \in {"closing", "housekeeping"}
  BY <1>1, CleanupFrames, StackFrames DEF TypeOK, ObjTypeOK
<1>3. \A a \in Arena : ~Kindred(a, Top.fd)
  BY <1>1, <1>2 DEF Owned, Cleans
<1>4. Reaches'
  <2> SUFFICES ASSUME NEW a \in Arena, req[a].live PROVE Reached(a)'
    BY <1>1 DEF Reaches
  <2>1. Reached(a) /\ req[a].conn_ptr # Top.fd
    BY <1>3 DEF Owned, Reaches, Kindred
  <2>2. conn'[req[a].conn_ptr] = conn[req[a].conn_ptr]
    BY <1>1, <1>2, <2>1 DEF Reached
  <2> QED BY <1>1, <2>1, <2>2 DEF Reached
<1> QED BY <1>1, <1>2, <1>4 DEF Owned, InUse, Cleans, Erases

LEMMA AcceptOwned ==
  ASSUME TypeOK, TypeOK', Loops, Linked, Owned, NEW fd \in Fds, AcceptOne(fd)
  PROVE  Owned'
<1>1. /\ stack # <<>> /\ Top.pc = "accept" /\ fd \in Backlog
      /\ UNCHANGED <<req, in_use, ws>>
      /\ conn' = [conn EXCEPT ![fd] = NewConnection(sock[fd].serial)]
      /\ g_conns' = g_conns \cup {fd}
  BY DEF AcceptOne, At, Top
<1>2. Tidy /\ Enders = {} /\ conn \in [Fds -> Connection] /\ g_conns \subseteq Fds
  <2>1. Frames = {Top} \cup Below /\ Below = {}
    BY <1>1, StackFrames, AloneFrames
  <2> QED BY <1>1, <2>1, PartsTidy DEF AcceptStep, Enders, EndPC, TypeOK, ObjTypeOK
<1>3. fd \notin g_conns
  BY <1>1 DEF Backlog, Linked
<1>4. Reaches'
  <2> SUFFICES ASSUME NEW a \in Arena, req[a].live PROVE Reached(a)'
    BY <1>1 DEF Reaches
  <2>1. Reached(a)
    BY DEF Owned, Reaches
  <2>2. conn'[req[a].conn_ptr] = conn[req[a].conn_ptr]
    BY <1>1, <1>2, <1>3, <2>1 DEF Reached
  <2> QED BY <1>1, <2>1, <2>2 DEF Reached
<1> QED BY <1>1, <1>2, <1>4 DEF Owned, InUse, Cleans, Erases, Tidy, Enders, EndPC

LEMMA WsOwned ==
  ASSUME TypeOK, Owned, WsThreads
  PROVE  Owned'
<1>1. /\ UNCHANGED <<stack, g_conns, conn, req>>
      /\ \E a \in Arena : WsGet(a) \/ WsRelease(a)
  BY DEF WsThreads, WsGet, WsRelease
<1>2. in_use \in [Arena -> BOOLEAN]
  BY DEF TypeOK, PoolTypeOK
<1>3. InUse'
  BY <1>1, <1>2 DEF WsGet, WsRelease, Get, Release, Owned, InUse
<1>4. Reaches' /\ Cleans' /\ Erases'
  BY <1>1 DEF Owned, Reaches, Reached, Cleans, Erases, Kindred, Frames, Items, At
<1> QED BY <1>3, <1>4 DEF Owned

\* Owned is inductive, given Loops, Tended and Linked.
LEMMA OwnedNext ==
  ASSUME TypeOK, TypeOK', OneId, Loops, Tended, Linked, Owned, [Next]_vars
  PROVE  Owned'
<1>1. CASE LoopStep \/ PendingStep \/ AcceptDone \/ WaitingStep
  BY <1>1, LoopTends, PendingTends, WaitingTends, EventTidy, PartsTidy, WaitingTidy, TidyOwned
     DEF AcceptStep
<1>2. CASE \E fd \in Fds : AcceptOne(fd)
  BY <1>2, AcceptOwned
<1>3. CASE ParseStep
  <2>1. CASE \E a \in Arena : ParseNew(a) \/ ParseKnown(a)
    BY <2>1, ParseOwned
  <2>2. CASE ~\E a \in Arena : ParseNew(a) \/ ParseKnown(a)
    <3>1. Tends
      BY <1>3, <2>2, ParseTends DEF ParseStep
    <3> QED BY <1>3, <3>1, PartsTidy, TidyOwned
  <2> QED BY <2>1, <2>2
<1>4. CASE HandleStep
  <2>1. CASE \E id \in Ids : SweepFree(id)
    BY <2>1, SweepOwned
  <2>2. CASE SweepErase
    BY <2>2, EraseOwned
  <2>3. CASE AfterParse \/ OutFlush \/ SweepDone \/ \E id \in Ids : SweepKeep(id)
    BY <2>3, HandleTends, PartsTidy, TidyOwned
  <2> QED BY <1>4, <2>1, <2>2, <2>3 DEF HandleStep
<1>5. CASE CloseStep
  BY <1>5, ClosingOwned, CleanupOwned, CloseOwned, ClosingTends, PartsTidy, TidyOwned DEF CloseStep
<1>6. CASE HousekeepingStep
  <2>1. CASE \E fd \in Fds : HousekeepingClose(fd)
    BY <2>1, ClosingOwned
  <2>2. CASE ExpireDone \/ HousekeepingDone \/ \E fd \in Fds, id \in Ids : Expire(fd, id)
    <3>1. Tends
      BY <1>6, ClosingTends
    <3> QED BY <2>2, <3>1, PartsTidy, TidyOwned
  <2> QED BY <1>6, <2>1, <2>2 DEF HousekeepingStep
<1>7. CASE WsThreads
  BY <1>7, WsOwned
<1>8. CASE Workers \/ TimerTick \/ Undefined \/ UNCHANGED vars \/ \E fd \in Fds : Peer(fd)
  BY <1>8, OthersTend, OthersTidy, TidyOwned
<1> QED BY <1>1, <1>2, <1>3, <1>4, <1>5, <1>6, <1>7, <1>8 DEF Next, IoThread, AcceptStep

(***************************************************************************)
(* With peers that use one request id on a connection no arena is ever     *)
(* lost: one that is handed out belongs to a WebSocket thread or to a      *)
(* request that a requests map leads to, whether requests are answered,    *)
(* aborted, timed out or cut off by the end of their connection            *)
(* (release_request, cleanup_connection_requests).  With more ids a        *)
(* connection that is served from inside its own cleanup loses one.        *)
(***************************************************************************)
THEOREM ArenasOwned ==
  ASSUME OneId
  PROVE  Spec => []NoArenaLost
<1> DEFINE IInv == Loops /\ Tended /\ Counted /\ Owned
<1>1. Init => IInv
  <2> SUFFICES ASSUME Init PROVE Owned
    BY InitLoops, InitTended, InitCounted
  <2>1. Frames = {}
    BY FramesAre DEF Init, Frames
  <2>2. \A a \in Arena : ~req[a].live /\ ~in_use[a]
    BY DEF Init, PoolInit, NoRequest, Destroyed, NewRequest
  <2> QED BY <2>1, <2>2 DEF Owned, InUse, Reaches, Cleans, Erases, Kindred
<1>2. TypeOK /\ TypeOK' /\ IInv /\ [Next]_vars => IInv'
  BY LoopsNext, TendedNext, CountedStays, OwnedNext DEF Counted
<1>3. TypeOK /\ IInv => NoArenaLost
  BY DEF NoArenaLost, Owned, InUse, Reaches, Reached
<1> QED BY <1>1, <1>2, <1>3, TypeCorrect, PTL DEF Spec

-----------------------------------------------------------------------------
(* Output and the frames that will send it *)

\* The frames that flush a connection when its parsing has returned.
Duers == {f \in Frames : f.pc \in {"parsed", "waited"}}

\* handle_io flushes what it has parsed; process_waiting_connections does so
\* when the connection it found waiting waits no longer.
Flushes(f) ==
  f.pc = "waited" => f.was /\ IF Parsing(f.fd) THEN Mapped(conn[f.fd]) # {}
                                               ELSE ~conn[f.fd].waiting_for_arena

Due(fd) == \E f \in Duers : f.fd = fd /\ Flushes(f)

\* Output that is watched for, unless requests time out: a timeout arms nothing.
Sends(c) == "timeout" \in Env \/ (c.out_buf # <<>> /\ ~c.closed => c.epollout)

Armed == \A fd \in g_conns : Sends(conn[fd]) \/ Due(fd)

\* No whole record is left in in_buf.
Drained(fd) == conn[fd].in_buf = <<>> \/ conn[fd].in_buf[1].type = "PARTIAL"

\* What was received is parsed unless the connection waits.
Drains ==
  \A fd \in g_conns :
    \/ conn[fd].waiting_for_arena \/ conn[fd].closed \/ Drained(fd)
    \/ Parsing(fd) /\ \E f \in Duers : f.pc = "parsed" /\ f.fd = fd

\* A connection that is served although it does not wait has nothing to parse.
Dry ==
  \A f \in Duers : f.pc = "waited" /\ ~f.was =>
    Drained(f.fd) /\ \A g \in Parsers : g.n = 0

Flushed == Armed /\ Drains /\ Dry

DuePC == {"fcgi", "parsed", "waited"}

\* Neither parsing nor about to flush what was parsed.
Plain == Duers = {} /\ Parsers = {}

LEMMA PlainFrames == Plain <=> \A f \in Frames : f.pc \notin DuePC
BY DEF Plain, Duers, Parsers, DuePC

\* The function that process_fcgi returns to is the only one that flushes.
LEMMA DuersOnTop ==
  ASSUME TypeOK, Loops, Nested
  PROVE  /\ At("fcgi") => /\ \E h \in Below : Duers = {h} /\ h.fd = Top.fd
                          /\ Parsers = {Top}
         /\ stack # <<>> /\ Top.pc \in {"parsed", "waited"} => Duers = {Top} /\ Parsers = {}
         /\ (stack # <<>> => Top.pc \notin DuePC) => Plain
<1>1. stack = <<>> => Plain
  BY CallFrames DEF Plain, Duers, Parsers
<1>2. ASSUME stack # <<>>
      PROVE  /\ Frames = {Top} \cup Below /\ \A f \in Below : f.pc # "fcgi"
             /\ Top.pc # "fcgi" => \A f \in Below : f.pc \notin DuePC
             /\ Top.pc = "fcgi" => \A f, g \in Below : f \in Duers /\ g \in Duers => f = g
  <2>1. /\ stack \in Seq(StackFrame) /\ Tail(stack) \in Seq(StackFrame)
        /\ Top = stack[1] /\ Len(stack) \in Nat
    BY <1>2, TopFrame DEF TypeOK, IoTypeOK
  <2>2. ASSUME NEW f \in Below, f.pc \in {"parsed", "waited"}
        PROVE  Top.pc = "fcgi" /\ f = stack[2]
    <3>1. PICK i \in 1 .. Len(Tail(stack)) : f = Tail(stack)[i]
      BY DEF Below, Items
    <3>2. i \in 1 .. Len(stack) - 1 /\ stack[i + 1] = f
      BY <2>1, <3>1
    <3>3. <<stack[i].pc, f.pc>> \in Calls
      BY <3>2 DEF Loops, StackShape
    <3>4. stack[i].pc = "fcgi"
      BY <2>2, <3>3 DEF Calls
    <3>5. i = 1
      <4> SUFFICES ASSUME i # 1 PROVE FALSE
        OBVIOUS
      <4>1. i - 1 \in 1 .. Len(stack) - 1 /\ (i - 1) + 1 = i
        BY <2>1, <3>2
      <4>2. <<stack[i - 1].pc, stack[(i - 1) + 1].pc>> \in Calls
        BY <4>1 DEF Loops, StackShape
      <4> QED BY <3>4, <4>1, <4>2 DEF Calls
    <3> QED BY <2>1, <3>2, <3>4, <3>5
  <2>3. Frames = {Top} \cup Below /\ \A f \in Below : f.pc # "fcgi"
    BY <1>2, StackFrames, FcgiOnTop
  <2> QED BY <2>2, <2>3 DEF DuePC, Duers
<1>3. ASSUME At("fcgi")
      PROVE  (\E h \in Below : Duers = {h} /\ h.fd = Top.fd) /\ Parsers = {Top}
  <2>1. stack # <<>> /\ Top.pc = "fcgi"
    BY <1>3 DEF At, Top
  <2>2. PICK h \in Below : h.pc \in {"parsed", "waited"} /\ h.fd = Top.fd
    BY <1>3 DEF Nested
  <2>3. Duers = {h}
    BY <1>2, <2>1, <2>2 DEF Duers
  <2> QED BY <1>2, <2>1, <2>2, <2>3 DEF Parsers
<1>4. ASSUME stack # <<>>, Top.pc # "fcgi"
      PROVE  /\ Top.pc \in {"parsed", "waited"} => Duers = {Top} /\ Parsers = {}
             /\ Top.pc \notin DuePC => Plain
  BY <1>2, <1>4 DEF Duers, Parsers, Plain, DuePC
<1> QED BY <1>1, <1>3, <1>4 DEF DuePC

\* Steps from and to where nothing is parsed or about to be flushed.
LEMMA PlainStacks ==
  ASSUME TypeOK, TypeOK', Plain
  PROVE  /\ UNCHANGED stack => Plain'
         /\ \A g : Call(<<g>>) /\ g.pc \notin DuePC => Plain'
         /\ stack # <<>> =>
              /\ Return => Plain'
              /\ \A f : Become(f) /\ f.pc \notin DuePC => Plain'
              /\ \A a, f : ReleaseRequest(a, f) /\ f \in StackFrame /\ f.pc \notin DuePC => Plain'
<1>1. \A f \in Frames : f.pc \notin DuePC
  BY PlainFrames
<1>2. UNCHANGED stack => Frames' = Frames
  BY CallFrames
<1>3. \A g : Call(<<g>>) => Frames' = {g} \cup Frames
  BY CallFrames, IntoStack
<1>4. stack # <<>> => Frames = {Top} \cup Below
  BY StackFrames
<1>5. stack # <<>> /\ Return => Frames' = Below
  BY StackFrames
<1>6. ASSUME stack # <<>>, NEW f, Become(f) PROVE Frames' = {f} \cup Below
  BY <1>6, IntoStack, StackFrames
<1>7. ASSUME stack # <<>>, NEW a, NEW f, ReleaseRequest(a, f), f \in StackFrame, f.pc \notin DuePC
      PROVE  Plain'
  <2>1. \A g \in Frames' : g = f \/ g \in Below \/ g.pc = "waiting"
    BY <1>7, ReleaseFrames
  <2> QED BY <1>1, <1>4, <1>7, <2>1 DEF Plain, Duers, Parsers, DuePC
<1> QED BY <1>1, <1>2, <1>3, <1>4, <1>5, <1>6, <1>7 DEF Plain, Duers, Parsers, DuePC

\* What becomes of a connection that is neither parsed nor accepted.
Settled(c, d) ==
  /\ d.in_buf = c.in_buf /\ d.waiting_for_arena = c.waiting_for_arena
  /\ c.closed => d.closed
  /\ Sends(c) => Sends(d)

LEMMA PlainFlushed ==
  ASSUME TypeOK, Plain, Plain', Flushed,
         \A fd \in g_conns' : \/ fd \in g_conns /\ Settled(conn[fd], conn'[fd])
                              \/ conn'[fd].out_buf = <<>> /\ conn'[fd].in_buf = <<>>
  PROVE  Flushed'
<1>1. \A fd \in g_conns : /\ Sends(conn[fd])
                          /\ conn[fd].waiting_for_arena \/ conn[fd].closed \/ Drained(fd)
  BY DEF Flushed, Armed, Due, Drains, Plain
<1>2. Armed' /\ Drains'
  BY <1>1 DEF Armed, Drains, Drained, Settled, Sends
<1> QED BY <1>2 DEF Flushed, Dry, Plain

\* Steps that leave the stack, the maps and what is received and sent alone.
SameTraffic ==
  /\ UNCHANGED <<stack, g_conns>>
  /\ \A fd \in Fds : \A field \in {"in_buf", "out_buf", "closed", "epollout",
                                   "waiting_for_arena", "requests"} :
       conn'[fd][field] = conn[fd][field]

LEMMA SameFlushed ==
  ASSUME TypeOK, Flushed, SameTraffic
  PROVE  Flushed'
<1>1. /\ Frames' = Frames /\ Duers' = Duers /\ Parsers' = Parsers /\ UNCHANGED g_conns
      /\ g_conns \subseteq Fds
  BY CallFrames DEF SameTraffic, Duers, Parsers, TypeOK, ObjTypeOK
<1>2. \A fd \in Fds :
        /\ conn'[fd].in_buf = conn[fd].in_buf /\ conn'[fd].out_buf = conn[fd].out_buf
        /\ conn'[fd].closed = conn[fd].closed /\ conn'[fd].epollout = conn[fd].epollout
        /\ conn'[fd].waiting_for_arena = conn[fd].waiting_for_arena
        /\ conn'[fd].requests = conn[fd].requests
  BY DEF SameTraffic
<1>3. \A f \in Duers : f.fd \in Fds
  <2> SUFFICES ASSUME NEW f \in Duers PROVE f.fd \in Fds
    OBVIOUS
  <2>1. f \in StackFrame
    BY DEF Duers, Frames, Items, TypeOK, IoTypeOK
  <2> QED BY <2>1 DEF Duers, StackFrame, FrameOf, FdPC, LoopPC
<1>4. \A fd \in Fds : /\ Parsing(fd)' = Parsing(fd) /\ Drained(fd)' = Drained(fd)
                      /\ Sends(conn[fd])' = Sends(conn[fd])
                      /\ Mapped(conn[fd])' = Mapped(conn[fd])
  BY <1>1, <1>2 DEF Parsing, Drained, Sends, Mapped
<1>5. \A f \in Duers : Flushes(f)' = Flushes(f)
  BY <1>2, <1>3, <1>4 DEF Flushes
<1>6. Armed'
  BY <1>1, <1>4, <1>5 DEF Flushed, Armed, Due
<1>7. Drains'
  BY <1>1, <1>2, <1>4 DEF Flushed, Drains
<1>8. Dry'
  BY <1>1, <1>3, <1>4 DEF Flushed, Dry
<1> QED BY <1>6, <1>7, <1>8 DEF Flushed

\* One frame at most flushes, the one on top, and it has just done so.
LEMMA ServedFlushed ==
  ASSUME TypeOK, Flushed, stack # <<>>, Top.fd \in Fds, Duers \subseteq {Top}, Parsers = {},
         Plain', UNCHANGED g_conns, Flush(Top.fd, conn[Top.fd])
  PROVE  Flushed'
<1> DEFINE cfd == Top.fd
<1>1. conn \in [Fds -> Connection] /\ g_conns \subseteq Fds
  BY DEF TypeOK, ObjTypeOK
<1>2. \A fd \in Fds \ {cfd} : conn'[fd] = conn[fd]
  BY <1>1 DEF Flush, FlushAll, FlushSome, FlushError
<1>3. /\ Sends(conn'[cfd]) /\ conn'[cfd].in_buf = conn[cfd].in_buf
      /\ conn'[cfd].waiting_for_arena = conn[cfd].waiting_for_arena
      /\ conn[cfd].closed => conn'[cfd].closed
  <2> HIDE DEF cfd
  <2>1. CASE FlushAll(cfd, conn[cfd])
    BY <1>1, <2>1 DEF FlushAll, Connection, Sends, cfd
  <2>2. CASE FlushSome(cfd, conn[cfd])
    <3> DEFINE rest == SubSeq(conn[cfd].out_buf, SndBuf - Len(sock[cfd].tx) + 1, Len(conn[cfd].out_buf))
    <3>1. conn' = [conn EXCEPT ![cfd] = [conn[cfd] EXCEPT !.out_buf = rest, !.epollout = TRUE]]
      BY <2>2 DEF FlushSome
    <3> HIDE DEF rest
    <3> QED BY <1>1, <3>1 DEF Connection, Sends, cfd
  <2>3. CASE FlushError(cfd, conn[cfd])
    BY <1>1, <2>3 DEF FlushError, Connection, Sends, cfd
  <2> QED BY <2>1, <2>2, <2>3 DEF Flush, cfd
<1>4. \A fd \in g_conns \ {cfd} : Sends(conn[fd])
  BY DEF Flushed, Armed, Due
<1>5. \A fd \in g_conns : conn[fd].waiting_for_arena \/ conn[fd].closed \/ Drained(fd)
  BY DEF Flushed, Drains, Parsing
<1> HIDE DEF cfd
<1>6. Armed'
  BY <1>1, <1>2, <1>3, <1>4 DEF Armed, Sends
<1>7. Drains'
  <2> SUFFICES ASSUME NEW fd \in g_conns
               PROVE  conn'[fd].waiting_for_arena \/ conn'[fd].closed \/ Drained(fd)'
    BY DEF Drains
  <2>1. CASE fd = cfd
    BY <1>3, <1>5, <2>1 DEF Drained
  <2>2. CASE fd # cfd
    BY <1>1, <1>2, <1>5, <2>2 DEF Drained
  <2> QED BY <2>1, <2>2
<1> QED BY <1>6, <1>7 DEF Flushed, Dry, Plain

LEMMA OthersFlushed ==
  ASSUME TypeOK, Flushed,
         \/ Workers \/ WsThreads \/ TimerTick \/ Undefined \/ UNCHANGED vars
         \/ \E fd \in Fds : Peer(fd)
  PROVE  Flushed'
<1>1. conn \in [Fds -> Connection]
  BY DEF TypeOK, ObjTypeOK
<1>2. UNCHANGED <<stack, g_conns>>
  <2>1. CASE Workers
    BY <2>1 DEF Workers, TaskStart, TaskFault, TaskPush, TaskInactive, TaskLeave
  <2>2. CASE WsThreads \/ TimerTick \/ Undefined \/ UNCHANGED vars
    BY <2>2 DEF WsThreads, WsGet, WsRelease, TimerTick, Undefined, vars
  <2>3. CASE \E fd \in Fds : Peer(fd)
    BY <2>3, PeerUnchanged
  <2> QED BY <2>1, <2>2, <2>3
<1>3. CASE \E t \in running : TaskLeave(t)
  <2>1. PICK t \in running : TaskLeave(t)
    BY <1>3
  <2> DEFINE cfd == t.fd
             n == conn[cfd].active_workers - 1
  <2>2. conn' = [conn EXCEPT ![cfd].active_workers = n]
    BY <2>1 DEF TaskLeave
  <2> HIDE DEF n, cfd
  <2>3. SameTraffic
    BY <1>1, <1>2, <2>2 DEF SameTraffic, Connection
  <2> QED BY <2>3, SameFlushed
<1>4. CASE ~\E t \in running : TaskLeave(t)
  <2>1. UNCHANGED conn
    <3>1. CASE Workers
      BY <1>4, <3>1 DEF Workers, TaskStart, TaskFault, TaskPush, TaskInactive
    <3>2. CASE WsThreads \/ TimerTick \/ Undefined \/ UNCHANGED vars
      BY <3>2 DEF WsThreads, WsGet, WsRelease, TimerTick, Undefined, vars
    <3>3. CASE \E fd \in Fds : Peer(fd)
      BY <3>3, PeerUnchanged
    <3> QED BY <3>1, <3>2, <3>3
  <2> QED BY <1>2, <2>1, SameFlushed DEF SameTraffic
<1> QED BY <1>3, <1>4

\* Steps that begin and end with nothing parsed or to be flushed, and leave
\* what is sent and received alone.
LEMMA RestFlushed ==
  ASSUME TypeOK, TypeOK', Loops, Nested, Flushed, stack # <<>> => Top.pc \notin DuePC,
         \A fd \in g_conns' : fd \in g_conns /\ conn'[fd] = conn[fd],
         \/ UNCHANGED stack
         \/ \E g : Call(<<g>>) /\ g.pc \notin DuePC
         \/ stack # <<>> /\ \/ Return
                            \/ \E f : Become(f) /\ f.pc \notin DuePC
                            \/ \E a : \E f \in StackFrame : ReleaseRequest(a, f) /\ f.pc \notin DuePC
  PROVE  Flushed'
<1>1. Plain /\ Plain'
  BY DuersOnTop, PlainStacks
<1> QED BY <1>1, PlainFlushed DEF Settled, Sends

LEMMA LoopFlushed ==
  ASSUME TypeOK, TypeOK', Loops, Nested, Flushed, LoopStep
  PROVE  Flushed'
<1>1. stack = <<>> /\ Plain
  BY DuersOnTop DEF LoopStep, EpollWait, ListenEvent, EventFdEvent, TimerEvent, IoEvent,
                    IoStale, Dispatching
<1>2. conn \in [Fds -> Connection] /\ g_conns \subseteq Fds
  BY DEF TypeOK, ObjTypeOK
<1>3. CASE EpollWait \/ \E e \in batch : IoStale(e)
  BY <1>1, <1>3, RestFlushed DEF EpollWait, IoStale
<1>4. CASE \E e \in batch : ListenEvent(e) \/ EventFdEvent(e) \/ TimerEvent(e)
  <2>1. /\ UNCHANGED <<g_conns, conn>>
        /\ UNCHANGED stack \/ \E pc \in LoopPC : Call(<<Frame(pc, NoFd)>>)
    BY <1>4 DEF ListenEvent, EventFdEvent, TimerEvent, LoopPC
  <2>2. \A pc \in LoopPC : Frame(pc, NoFd).pc \notin DuePC
    BY DEF Frame, LoopPC, DuePC
  <2> QED BY <1>1, <2>1, <2>2, RestFlushed
<1>5. CASE \E e \in batch : IoEvent(e)
  <2>1. PICK e \in batch : IoEvent(e)
    BY <1>5
  <2> DEFINE fd == e.fd
             shut == conn[fd].closed \/ e.hup \/ (e.in /\ sock[fd].eof)
             in == IF e.in THEN Joined(conn[fd].in_buf, sock[fd].rx) ELSE conn[fd].in_buf
  <2>2. /\ UNCHANGED g_conns /\ fd \in g_conns
        /\ conn' = [conn EXCEPT ![fd] = [conn[fd] EXCEPT !.closed = shut, !.in_buf = in]]
    BY <2>1 DEF IoEvent
  <2>3. /\ conn[fd].closed => shut
        /\ e.in \/ in = conn[fd].in_buf
    OBVIOUS
  <2>4. \/ ~e.in /\ \E x : x.pc \in {"outflush", "sweep"} /\ Call(<<x>>)
        \/ \E x : /\ x.pc = "parsed" /\ x.fd = fd
                  /\ \/ stack' = <<x>> /\ conn'[fd].closed
                     \/ stack' = <<Frame("fcgi", fd)>> \o <<x>>
    BY <2>1, IoEventStack
  <2> HIDE DEF in, shut
  <2>5. /\ \A gd \in Fds \ {fd} : conn'[gd] = conn[gd]
        /\ conn'[fd].closed = shut /\ conn'[fd].in_buf = in
        /\ conn'[fd].out_buf = conn[fd].out_buf /\ conn'[fd].epollout = conn[fd].epollout
        /\ conn'[fd].waiting_for_arena = conn[fd].waiting_for_arena
    BY <1>2, <2>2 DEF Connection
  <2> HIDE DEF fd
  <2>6. CASE ~e.in /\ \E x : x.pc \in {"outflush", "sweep"} /\ Call(<<x>>)
    <3>1. Plain'
      BY <1>1, <2>6, PlainStacks DEF DuePC
    <3>2. \A gd \in g_conns' : Settled(conn[gd], conn'[gd])
      BY <1>2, <2>2, <2>3, <2>5, <2>6 DEF Settled, Sends
    <3> QED BY <1>1, <2>2, <3>1, <3>2, PlainFlushed
  <2>7. ASSUME NEW x, x.pc = "parsed", x.fd = fd,
               \/ stack' = <<x>> /\ conn'[fd].closed
               \/ stack' = <<Frame("fcgi", fd)>> \o <<x>>
        PROVE  Flushed'
    <3> DEFINE g == Frame("fcgi", fd)
               S == {x, g}
    <3>1. g.pc = "fcgi" /\ g.fd = fd
      BY DEF Frame
    <3>2. x \in S /\ g \in S
      OBVIOUS
    <3>3. (stack' = <<x>> /\ conn'[fd].closed) \/ stack' = <<g>> \o <<x>>
      BY <2>7
    <3> HIDE DEF S, g
    <3>4. Items(<<x>>) = {x} /\ Items(<<g>> \o <<x>>) = {g, x}
      BY <3>2, FewFrames
    <3>5. (Frames' = {x} /\ conn'[fd].closed) \/ Frames' = {g, x}
      <4>1. Frames' = Items(stack')
        BY DEF Frames
      <4> HIDE DEF Items
      <4> QED BY <3>3, <3>4, <4>1, Zenon
    <3>6. /\ Duers' = {x} /\ ((Parsers' = {} /\ conn'[fd].closed) \/ Parsers' = {g})
      BY <2>7, <3>1, <3>5 DEF Duers, Parsers
    <3>7. /\ \A gd \in g_conns : Sends(conn[gd])
          /\ \A gd \in g_conns : conn[gd].waiting_for_arena \/ conn[gd].closed \/ Drained(gd)
      BY <1>1 DEF Flushed, Armed, Due, Drains, Plain
    <3>8. Armed'
      BY <1>2, <2>2, <2>3, <2>5, <3>7 DEF Armed, Sends
    <3>9. Drains'
      <4> SUFFICES ASSUME NEW gd \in g_conns
                   PROVE  \/ conn'[gd].waiting_for_arena \/ conn'[gd].closed \/ Drained(gd)'
                          \/ Parsing(gd)' /\ \E f \in Duers' : f.pc = "parsed" /\ f.fd = gd
        BY <2>2 DEF Drains
      <4>1. CASE gd = fd
        BY <2>5, <2>7, <3>1, <3>6, <4>1 DEF Parsing
      <4>2. CASE gd # fd
        BY <1>2, <2>5, <3>7, <4>2 DEF Drained
      <4> QED BY <4>1, <4>2
    <3>10. Dry'
      BY <2>7, <3>6 DEF Dry
    <3> QED BY <3>8, <3>9, <3>10 DEF Flushed
  <2> QED BY <2>4, <2>6, <2>7 DEF fd
<1> QED BY <1>3, <1>4, <1>5 DEF LoopStep

LEMMA AnswersFlushed ==
  ASSUME TypeOK, TypeOK', Loops, Nested, Flushed, AcceptStep \/ PendingStep
  PROVE  Flushed'
<1>1. stack # <<>> /\ Top.pc \notin DuePC
  BY DEF PendingStep, SwapPending, PendingAnswer, PendingSkip, PendingFault, PendingDone,
         AcceptStep, AcceptOne, AcceptDone, At, Top, DuePC
<1>2. conn \in [Fds -> Connection] /\ g_conns \subseteq Fds /\ Plain
  BY <1>1, DuersOnTop DEF TypeOK, ObjTypeOK
<1>3. CASE \E fd \in Fds : AcceptOne(fd)
  <2>1. PICK fd \in Fds : AcceptOne(fd)
    BY <1>3
  <2> DEFINE new == NewConnection(sock[fd].serial)
  <2>2. /\ conn' = [conn EXCEPT ![fd] = new] /\ g_conns' = g_conns \cup {fd}
        /\ UNCHANGED stack \/ Return
    BY <2>1 DEF AcceptOne
  <2>3. new.out_buf = <<>> /\ new.in_buf = <<>>
    BY DEF NewConnection
  <2> HIDE DEF new
  <2>4. Plain'
    BY <1>1, <1>2, <2>2, PlainStacks
  <2>5. \A gd \in g_conns' : \/ gd \in g_conns /\ Settled(conn[gd], conn'[gd])
                             \/ conn'[gd].out_buf = <<>> /\ conn'[gd].in_buf = <<>>
    BY <1>2, <2>2, <2>3 DEF Settled, Sends
  <2> QED BY <1>2, <2>4, <2>5, PlainFlushed
<1>4. CASE PendingAnswer
  <2> DEFINE a == Head(taken).arena
             fd == req[a].conn_ptr
             out == Append(conn[fd].out_buf, req[a].id)
             want == conn[fd].epollout \/ conn[fd].out_buf = <<>>
  <2>1. /\ conn' = [conn EXCEPT ![fd].out_buf = out, ![fd].epollout = want]
        /\ UNCHANGED <<stack, g_conns>>
    BY <1>4 DEF PendingAnswer, Answer
  <2>2. "timeout" \in Env \/ (Sends(conn[fd]) /\ ~conn[fd].closed => want)
    BY DEF Sends
  <2> HIDE DEF out, want, fd, a
  <2>3. \A gd \in g_conns' : gd \in g_conns /\ Settled(conn[gd], conn'[gd])
    BY <1>2, <2>1, <2>2 DEF Settled, Sends, Connection
  <2>4. Plain'
    BY <1>2, <2>1, PlainStacks
  <2> QED BY <1>2, <2>3, <2>4, PlainFlushed
<1>5. CASE AcceptDone \/ SwapPending \/ PendingSkip \/ PendingFault \/ PendingDone
  <2>1. /\ UNCHANGED <<conn, g_conns>>
        /\ UNCHANGED stack \/ Return \/ Become(Frame("pending", NoFd))
    BY <1>5 DEF AcceptDone, SwapPending, PendingSkip, PendingFault, PendingDone
  <2>2. Frame("pending", NoFd).pc \notin DuePC
    BY DEF Frame, DuePC
  <2> QED BY <1>1, <2>1, <2>2, RestFlushed
<1> QED BY <1>3, <1>4, <1>5 DEF AcceptStep, PendingStep

LEMMA HandleFlushed ==
  ASSUME TypeOK, TypeOK', Loops, Tended, Nested, Flushed, HandleStep
  PROVE  Flushed'
<1>1. /\ stack # <<>> /\ Top.pc \in {"parsed", "outflush", "sweep", "erase"}
      /\ Top \in StackFrame
  BY TopFrame DEF HandleStep, AfterParse, OutFlush, SweepErase, SweepDone, SweepFree, SweepKeep,
                  At, Top
<1>2. /\ conn \in [Fds -> Connection] /\ g_conns \subseteq Fds
      /\ Top.fd \in Fds /\ Below = {}
  BY <1>1, AloneFrames, TopServed DEF TypeOK, ObjTypeOK, FdPC
<1>3. Duers \subseteq {Top} /\ Parsers = {} /\ (Top.pc # "parsed" => Plain)
  BY <1>1, DuersOnTop DEF DuePC, Plain
<1>4. \A fd : SweepFrame(fd).pc \notin DuePC /\ Frame("outflush", fd).pc \notin DuePC
              /\ Frame("closing", fd).pc \notin DuePC
  BY DEF SweepFrame, Frame, DuePC
<1>5. CASE AfterParse \/ OutFlush
  <2>1. /\ UNCHANGED g_conns /\ Flush(Top.fd, conn[Top.fd])
        /\ \E f : Become(f) /\ f.pc \notin DuePC
    BY <1>4, <1>5 DEF AfterParse, OutFlush
  <2>2. PICK f : Become(f) /\ f.pc \notin DuePC
    BY <2>1
  <2>3. Frames' = {f}
    BY <1>1, <1>2, <2>2, IntoStack, StackFrames
  <2>4. Plain'
    BY <2>2, <2>3 DEF Plain, Duers, Parsers, DuePC
  <2> QED BY <1>1, <1>2, <1>3, <2>1, <2>4, ServedFlushed
<1>6. CASE SweepErase
  <2> DEFINE fd == Top.fd
             id == Top.id
             f == [Top EXCEPT !.pc = "sweep", !.id = NoId]
  <2>1. /\ Top.pc = "erase" /\ UNCHANGED g_conns /\ Become(f)
        /\ conn' = [conn EXCEPT ![fd].requests[id] = NoArena]
    BY <1>6 DEF SweepErase, At, Top
  <2>2. f.pc \notin DuePC
    BY <1>1 DEF StackFrame, FrameOf, DuePC
  <2> HIDE DEF f, fd, id
  <2>3. Plain /\ Plain'
    BY <1>1, <1>3, <2>1, <2>2, PlainStacks
  <2>4. \A gd \in g_conns' : gd \in g_conns /\ Settled(conn[gd], conn'[gd])
    BY <1>2, <2>1 DEF Settled, Sends, Connection
  <2> QED BY <2>3, <2>4, PlainFlushed
<1>7. CASE SweepDone
  <2>1. Top.pc = "sweep" /\ UNCHANGED <<conn, g_conns>> /\ Become(Frame("closing", NoFd))
    BY <1>7 DEF SweepDone, At, Top
  <2> QED BY <1>1, <1>4, <2>1, RestFlushed DEF DuePC
<1>8. ASSUME NEW id \in Ids, SweepFree(id) \/ SweepKeep(id) PROVE Flushed'
  <2> DEFINE keep == [Top EXCEPT !.ids = @ \ {id}]
             free == [Top EXCEPT !.pc = "erase", !.id = id, !.ids = @ \ {id}]
             a == conn[Top.fd].requests[id]
  <2>1. /\ Top.pc = "sweep" /\ UNCHANGED <<conn, g_conns>>
        /\ Become(keep) \/ ReleaseRequest(a, free)
    BY <1>8 DEF SweepFree, SweepKeep, ReleaseRequest, At, Top
  <2>2. keep.pc \notin DuePC /\ free.pc \notin DuePC /\ free \in StackFrame
    BY <1>1, <2>1 DEF StackFrame, FrameOf, LoopPC, FdPC, DuePC
  <2>3. Top.pc \notin DuePC
    BY <2>1 DEF DuePC
  <2> HIDE DEF keep, free, a
  <2> QED BY <1>1, <2>1, <2>2, <2>3, RestFlushed
<1> QED BY <1>5, <1>6, <1>7, <1>8 DEF HandleStep

LEMMA ClosingFlushed ==
  ASSUME TypeOK, TypeOK', Loops, Nested, Flushed,
         CloseStep \/ HousekeepingStep
  PROVE  Flushed'
<1>1. /\ stack # <<>> /\ Top \in StackFrame
      /\ Top.pc \in {"closing", "cleanup", "expire", "housekeeping"}
  BY TopFrame DEF CloseStep, CloseQueued, CloseQueueDone, CloseFd, CleanupOne,
         HousekeepingStep, ExpireDone, HousekeepingDone, HousekeepingClose, Expire, At, Top
<1>2. conn \in [Fds -> Connection] /\ g_conns \subseteq Fds /\ Top.pc \notin DuePC
  BY <1>1 DEF TypeOK, ObjTypeOK, DuePC
<1>3. CASE CloseFd
  <2>1. /\ Return /\ g_conns' = g_conns \ {Top.fd}
        /\ conn' = [conn EXCEPT ![Top.fd] = NewConnection(0)]
    BY <1>3 DEF CloseFd
  <2>2. \A fd \in g_conns' : fd \in g_conns /\ conn'[fd] = conn[fd]
    BY <1>2, <2>1
  <2> QED BY <1>1, <1>2, <2>1, <2>2, RestFlushed
<1>4. CASE CloseQueued \/ CloseQueueDone \/ ExpireDone \/ HousekeepingDone
           \/ \E fd \in Fds : HousekeepingClose(fd)
  <2>1. /\ UNCHANGED <<conn, g_conns>>
        /\ \/ UNCHANGED stack \/ Return \/ Become(Frame("housekeeping", NoFd))
           \/ \E fd \in g_conns : Call(<<CleanupFrame(fd)>>)
    BY <1>4 DEF CloseQueued, CloseQueueDone, ExpireDone, HousekeepingDone, HousekeepingClose
  <2>2. /\ Frame("housekeeping", NoFd).pc \notin DuePC
        /\ \A fd : CleanupFrame(fd).pc \notin DuePC
    BY DEF CleanupFrame, Frame, DuePC
  <2> QED BY <1>1, <1>2, <2>1, <2>2, RestFlushed
<1>5. ASSUME NEW id \in Ids, CleanupOne(id) PROVE Flushed'
  <2> DEFINE f == [Top EXCEPT !.ids = @ \ {id}]
             a == conn[Top.fd].requests[id]
  <2>1. UNCHANGED <<conn, g_conns>> /\ ReleaseRequest(a, f) /\ Top.pc = "cleanup"
    BY <1>5 DEF CleanupOne, ReleaseRequest, At, Top
  <2>2. f.pc \notin DuePC /\ f \in StackFrame
    BY <1>1, <2>1 DEF StackFrame, FrameOf, LoopPC, FdPC, DuePC
  <2> HIDE DEF f, a
  <2> QED BY <1>1, <1>2, <2>1, <2>2, RestFlushed
<1>6. ASSUME NEW fd \in Fds, NEW id \in Ids, Expire(fd, id) PROVE Flushed'
  <2> DEFINE x == req[conn[fd].requests[id]].id
  <2>1. /\ UNCHANGED <<stack, g_conns>> /\ "timeout" \in Env
        /\ conn' = [conn EXCEPT ![fd].out_buf = Append(@, x)]
    BY <1>6 DEF Expire
  <2> HIDE DEF x
  <2>2. \A gd \in g_conns : Settled(conn[gd], conn'[gd])
    BY <1>2, <2>1 DEF Settled, Sends, Connection
  <2>3. Plain
    BY <1>1, <1>2, DuersOnTop
  <2> QED BY <2>1, <2>2, <2>3, CallFrames, PlainFlushed DEF Plain, Duers, Parsers
<1> QED BY <1>3, <1>4, <1>5, <1>6 DEF CloseStep, HousekeepingStep

LEMMA ServingFlushed ==
  ASSUME TypeOK, TypeOK', Loops, Tended, Nested, Flushed, WaitingStep
  PROVE  Flushed'
<1>1. stack # <<>> /\ Top \in StackFrame /\ Top.pc \in {"waiting", "waited"}
  BY TopFrame DEF WaitingStep, WaitingNext, WaitingDone, WaitedServed, WaitedAgain, At, Top
<1>2. /\ conn \in [Fds -> Connection] /\ g_conns \subseteq Fds
      /\ Top.pc = "waiting" => Plain
      /\ Top.pc = "waited" => Duers = {Top} /\ Parsers = {} /\ Top.fd \in Fds
      /\ Frames = {Top} \cup Below
      /\ \A f \in Below : f.pc \notin DuePC
  <2>1. Top.pc = "waited" => Top.fd \in g_conns
    BY <1>1, TopServed
  <2>2. \A f \in Below : f.pc \notin DuePC
    <3>1. Top.pc = "waiting" => Plain
      BY DuersOnTop DEF DuePC
    <3>2. Top.pc = "waited" => Parsers = {} /\ Duers = {Top}
      BY <1>1, DuersOnTop
    <3>3. \A f \in Below : f.pc \notin {"fcgi", "waiting", "waited"}
      BY <1>1, OnTop
    <3>4. \A f \in Below : f.pc # "parsed"
      BY <1>1, <3>1, <3>2, StackFrames DEF Plain, Duers
    <3> QED BY <3>3, <3>4 DEF DuePC
  <2> QED BY <1>1, <2>1, <2>2, DuersOnTop, StackFrames DEF DuePC, TypeOK, ObjTypeOK
<1>3. CASE WaitingNext
  <2> DEFINE fd == Head(g_waiting_conns)
             was == conn[fd].waiting_for_arena
             next == [Top EXCEPT !.m = @ - 1]
             serve == [next EXCEPT !.pc = "waited", !.fd = fd, !.was = was]
             g == Frame("fcgi", fd)
  <2>1. /\ Top.pc = "waiting" /\ UNCHANGED <<g_conns, conn>>
        /\ \/ Become(next)
           \/ fd \in g_conns /\ ~conn[fd].closed /\ CallFrom(serve, <<g>>)
    BY <1>3 DEF WaitingNext, At, Top
  <2>2. next.pc = "waiting" /\ g.pc = "fcgi" /\ g.fd = fd /\ g.n = 0
    BY <1>1, <2>1 DEF StackFrame, FrameOf, Frame
  <2>3. serve.pc = "waited" /\ serve.fd = fd /\ serve.was = was
    <3> HIDE DEF fd, was
    <3> QED BY <1>1 DEF StackFrame, FrameOf
  <2>4. CASE Become(next)
    <3> HIDE DEF next
    <3> QED BY <1>1, <2>1, <2>2, <2>4, RestFlushed DEF DuePC
  <2>5. CASE fd \in g_conns /\ ~conn[fd].closed /\ CallFrom(serve, <<g>>)
    <3> HIDE DEF next, serve, fd, g
    <3>1. Frames' = {serve, g} \cup Below
      BY <1>1, <2>5, IntoStack, StackFrames
    <3>2. Duers' = {serve} /\ Parsers' = {g}
      BY <1>2, <2>2, <2>3, <3>1 DEF Duers, Parsers, DuePC
    <3>3. Plain
      BY <1>2, <2>1
    <3>4. /\ \A gd \in g_conns : Sends(conn[gd])
          /\ \A gd \in g_conns : conn[gd].waiting_for_arena \/ conn[gd].closed \/ Drained(gd)
      BY <3>3 DEF Flushed, Armed, Due, Drains, Plain
    <3>5. Armed'
      BY <2>1, <3>4 DEF Armed, Sends
    <3>6. Drains'
      BY <2>1, <3>4 DEF Drains, Drained
    <3>7. Dry'
      <4> SUFFICES ASSUME NEW f \in Duers', ~f.was
                   PROVE  Drained(f.fd)' /\ \A h \in Parsers' : h.n = 0
        BY DEF Dry
      <4>1. f.fd \in g_conns /\ ~conn[f.fd].closed /\ ~conn[f.fd].waiting_for_arena
        BY <2>3, <2>5, <3>2
      <4>2. Drained(f.fd)
        BY <3>4, <4>1
      <4>3. Drained(f.fd)'
        BY <2>1, <4>2 DEF Drained
      <4> QED BY <2>2, <3>2, <4>3
    <3> QED BY <3>5, <3>6, <3>7 DEF Flushed
  <2> QED BY <2>1, <2>4, <2>5
<1>4. CASE WaitingDone
  <2>1. Top.pc = "waiting" /\ UNCHANGED <<g_conns, conn>> /\ Return
    BY <1>4 DEF WaitingDone, At, Top
  <2> QED BY <1>1, <2>1, RestFlushed DEF DuePC
<1>5. CASE WaitedServed \/ WaitedAgain
  <2> DEFINE n == IF WaitedServed THEN Top.n - 1 ELSE Top.n
             f == [Frame("waiting", NoFd) EXCEPT !.n = n, !.m = Top.m]
  <2>1. Become(f) /\ Top.pc = "waited"
    <3>1. CASE WaitedServed
      BY <3>1 DEF WaitedServed, At, Top
    <3>2. CASE ~WaitedServed
      BY <1>5, <3>2 DEF WaitedAgain, At, Top
    <3> QED BY <3>1, <3>2
  <2>2. f.pc = "waiting"
    <3> HIDE DEF n
    <3> QED BY DEF Frame
  <2> HIDE DEF f
  <2>3. Frames' = {f} \cup Below
    BY <1>1, <2>1, IntoStack, StackFrames
  <2>4. Plain'
    BY <1>2, <2>2, <2>3 DEF Plain, Duers, Parsers, DuePC
  <2>5. CASE WaitedServed
    <3>1. UNCHANGED g_conns /\ Flush(Top.fd, conn[Top.fd])
      BY <2>5 DEF WaitedServed
    <3> QED BY <1>1, <1>2, <2>1, <2>4, <3>1, ServedFlushed
  <2>6. CASE WaitedAgain
    <3>1. /\ UNCHANGED <<g_conns, conn>>
          /\ Top.was => conn[Top.fd].waiting_for_arena
      BY <2>6 DEF WaitedAgain
    <3>2. ~Flushes(Top)
      BY <1>2, <2>1, <3>1 DEF Flushes, Parsing
    <3>3. \A gd \in g_conns : /\ Sends(conn[gd])
                              /\ conn[gd].waiting_for_arena \/ conn[gd].closed \/ Drained(gd)
      BY <1>2, <2>1, <3>2 DEF Flushed, Armed, Due, Drains, Parsing
    <3>4. Armed' /\ Drains'
      BY <3>1, <3>3 DEF Armed, Drains, Sends, Drained
    <3> QED BY <2>4, <3>4 DEF Flushed, Dry, Plain
  <2> QED BY <1>5, <2>5, <2>6
<1> QED BY <1>3, <1>4, <1>5 DEF WaitingStep

\* What a record that is there says of the frame that called process_fcgi.
LEMMA RecordThere ==
  ASSUME TypeOK, Loops, Nested, Flushed, At("fcgi"), Exists
  PROVE  /\ Top \in StackFrame /\ Top.fd \in Fds /\ NextRecord \in Record
         /\ \A f \in Duers : f.fd = Top.fd /\ ~(f.pc = "waited" /\ ~f.was)
<1>1. /\ Top \in StackFrame /\ Top.pc = "fcgi" /\ Top.fd \in Fds /\ Top.n \in Nat
  BY TopFrame DEF At, StackFrame, FrameOf, FdPC, LoopPC
<1>2. InBuf \in Seq(Record)
  BY <1>1 DEF TypeOK, ObjTypeOK, Connection, InBuf
<1>3. Top.n + 1 \in 1 .. Len(InBuf)
  BY <1>1, <1>2 DEF Exists
<1>4. NextRecord \in Record
  BY <1>2, <1>3 DEF NextRecord
<1>5. PICK h \in Below : Duers = {h} /\ h.fd = Top.fd /\ Parsers = {Top}
  BY DuersOnTop
<1>6. ~(h.pc = "waited" /\ ~h.was)
  <2> SUFFICES ASSUME h.pc = "waited", ~h.was PROVE FALSE
    OBVIOUS
  <2>1. Drained(Top.fd) /\ Top.n = 0
    BY <1>5 DEF Flushed, Dry
  <2> QED BY <1>2, <1>3, <2>1 DEF Drained, Exists, InBuf
<1> QED BY <1>1, <1>4, <1>5, <1>6

\* process_fcgi returns to the frame that called it.
LEMMA ReturnFrames ==
  ASSUME TypeOK, TypeOK', Loops, Nested, At("fcgi")
  PROVE  /\ Return => Duers' = Duers /\ Parsers' = {}
         /\ \A f : Become(f) /\ f.pc = "fcgi" => Duers' = Duers /\ Parsers' = {f}
<1>1. /\ stack # <<>> /\ Top.pc = "fcgi" /\ Frames = {Top} \cup Below
      /\ \A f \in Below : f.pc # "fcgi"
  BY StackFrames, FcgiOnTop DEF At, Top
<1>2. Return => Frames' = Below
  BY <1>1, StackFrames
<1>3. ASSUME NEW f, Become(f) PROVE Frames' = {f} \cup Below
  BY <1>1, <1>3, IntoStack, StackFrames
<1> QED BY <1>1, <1>2, <1>3 DEF Duers, Parsers

\* A record writes to the connection it came on.
LEMMA DeliverWrites ==
  ASSUME TypeOK, NEW a \in Arena, ParseNew(a) \/ ParseKnown(a)
  PROVE  \A gd \in Fds : /\ conn'[gd].epollout = conn[gd].epollout
                         /\ gd # Top.fd => conn'[gd].out_buf = conn[gd].out_buf
<1> DEFINE fd == Top.fd
           id == NextRecord.id
           r == IF ParseNew(a) THEN NewRequest(built + 1, fd, conn[fd].serial, id) ELSE req[a]
           dest == r.conn_ptr
<1>1. conn \in [Fds -> Connection] /\ fd \in Fds /\ id \in Ids /\ dest \in Fds
  BY ParseDelivers DEF TypeOK, ObjTypeOK
<1>2. Deliver(a, r, NextRecord)
  BY DEF ParseNew, ParseKnown
<1>3. \E o, w : conn' = [conn EXCEPT ![fd].requests[id] = a, ![fd].out_buf = o,
                                     ![dest].active_workers = w]
  <2> HIDE DEF r
  <2>1. PICK ended, go : conn' = [conn EXCEPT
          ![fd].requests[id] = a,
          ![fd].out_buf = IF ended THEN Append(@, r.id) ELSE @,
          ![r.conn_ptr].active_workers = IF go THEN @ + 1 ELSE @]
    BY <1>2 DEF Deliver
  <2> QED BY <2>1
<1> HIDE DEF fd, id, dest
<1>4. PICK o, w : conn' = [conn EXCEPT ![fd].requests[id] = a, ![fd].out_buf = o,
                                       ![dest].active_workers = w]
  BY <1>3
<1>5. \A gd \in Fds : conn'[gd].epollout = conn[gd].epollout
  BY <1>1, <1>4 DEF Connection
<1>6. \A gd \in Fds \ {fd} : conn'[gd].out_buf = conn[gd].out_buf
  BY <1>1, <1>4 DEF Connection
<1> QED BY <1>5, <1>6 DEF fd

\* process_buffer has returned: everything is parsed, or the record is bad,
\* or it waits, and then no record before has reached a request.
LEMMA ReturnFlushed ==
  ASSUME TypeOK, TypeOK', Loops, Nested, Flushed, At("fcgi"), Return, UNCHANGED g_conns,
         NEW cfd \in Fds, cfd = Top.fd,
         \A fd \in Fds \ {cfd} : conn'[fd] = conn[fd],
         conn'[cfd].out_buf = conn[cfd].out_buf, conn'[cfd].epollout = conn[cfd].epollout,
         conn[cfd].closed => conn'[cfd].closed,
         \/ Drained(cfd)' /\ ~conn'[cfd].waiting_for_arena
         \/ /\ conn'[cfd].closed \/ (conn'[cfd].waiting_for_arena /\ Mapped(conn[cfd]) = {})
            /\ \A f \in Duers : ~(f.pc = "waited" /\ ~f.was)
  PROVE  Flushed'
<1>1. PICK h \in Below : Duers = {h} /\ h.fd = cfd /\ Parsers = {Top}
  BY DuersOnTop
<1>2. Duers' = {h} /\ Parsers' = {} /\ g_conns \subseteq Fds
  BY <1>1, ReturnFrames DEF TypeOK, ObjTypeOK
<1>3. Parsing(cfd)
  BY <1>1 DEF Parsing
<1>4. Armed'
  <2> SUFFICES ASSUME NEW fd \in g_conns PROVE Sends(conn[fd])' \/ Due(fd)'
    BY DEF Armed
  <2>1. CASE fd # cfd
    BY <1>1, <1>2, <2>1 DEF Flushed, Armed, Due, Sends
  <2>2. CASE fd = cfd /\ ~conn'[cfd].closed
    <3>1. CASE Sends(conn[cfd])
      BY <2>2, <3>1 DEF Sends
    <3>2. CASE ~Sends(conn[cfd])
      <4>1. Flushes(h)
        BY <1>1, <2>2, <3>2 DEF Flushed, Armed, Due
      <4>2. h.pc = "waited" => h.was /\ ~conn'[cfd].waiting_for_arena
        BY <1>1, <1>3, <2>2, <4>1 DEF Flushes
      <4>3. Flushes(h)'
        BY <1>1, <1>2, <4>2 DEF Flushes, Parsing
      <4> QED BY <1>1, <1>2, <2>2, <4>3 DEF Due
    <3> QED BY <3>1, <3>2
  <2>3. CASE fd = cfd /\ conn'[cfd].closed
    BY <2>3 DEF Sends
  <2> QED BY <2>1, <2>2, <2>3
<1>5. Drains'
  <2> SUFFICES ASSUME NEW fd \in g_conns
               PROVE  conn'[fd].waiting_for_arena \/ conn'[fd].closed \/ Drained(fd)'
    BY DEF Drains
  <2>1. CASE fd = cfd
    BY <2>1
  <2>2. CASE fd # cfd
    BY <1>1, <1>2, <2>2 DEF Flushed, Drains, Drained
  <2> QED BY <2>1, <2>2
<1>6. Dry'
  <2> SUFFICES ASSUME h.pc = "waited", ~h.was PROVE Drained(cfd)'
    BY <1>1, <1>2 DEF Dry
  <2> QED BY <1>1
<1> QED BY <1>4, <1>5, <1>6 DEF Flushed

\* A record was consumed, and the connection has an entry if it wrote output.
LEMMA AdvanceFlushed ==
  ASSUME TypeOK, TypeOK', Loops, Nested, Flushed, At("fcgi"), UNCHANGED g_conns,
         NEW cfd \in Fds, cfd = Top.fd, NEW f, f.pc = "fcgi", f.fd = cfd, Become(f),
         \A fd \in Fds : /\ conn'[fd].in_buf = conn[fd].in_buf
                         /\ conn'[fd].waiting_for_arena = conn[fd].waiting_for_arena
                         /\ conn'[fd].closed = conn[fd].closed
                         /\ conn'[fd].epollout = conn[fd].epollout
                         /\ fd # cfd => conn'[fd].out_buf = conn[fd].out_buf,
         \A h \in Duers : ~(h.pc = "waited" /\ ~h.was),
         (\E i \in Ids : conn'[cfd].requests[i] # NoArena) \/ UNCHANGED conn
  PROVE  Flushed'
<1>1. PICK h \in Below : Duers = {h} /\ h.fd = cfd /\ Parsers = {Top}
  BY DuersOnTop
<1>2. Duers' = {h} /\ Parsers' = {f} /\ g_conns \subseteq Fds
  BY <1>1, ReturnFrames DEF TypeOK, ObjTypeOK
<1>3. Parsing(cfd) /\ Parsing(cfd)'
  BY <1>1, <1>2 DEF Parsing
<1>4. Armed'
  <2> SUFFICES ASSUME NEW fd \in g_conns PROVE Sends(conn[fd])' \/ Due(fd)'
    BY DEF Armed
  <2>1. CASE fd # cfd
    BY <1>1, <1>2, <2>1 DEF Flushed, Armed, Due, Sends
  <2>2. CASE fd = cfd /\ \E i \in Ids : conn'[cfd].requests[i] # NoArena
    <3>1. Flushes(h)'
      BY <1>1, <1>3, <2>2 DEF Flushes, Mapped
    <3> QED BY <1>1, <1>2, <2>2, <3>1 DEF Due
  <2>3. CASE fd = cfd /\ UNCHANGED conn
    <3>1. Flushes(h)' = Flushes(h)
      BY <1>1, <1>3, <2>3 DEF Flushes, Mapped
    <3> QED BY <1>1, <1>2, <2>3, <3>1 DEF Flushed, Armed, Due, Sends
  <2> QED BY <2>1, <2>2, <2>3
<1>5. Drains'
  BY <1>1, <1>2, <1>3 DEF Flushed, Drains, Drained
<1>6. Dry'
  BY <1>1, <1>2 DEF Dry
<1> QED BY <1>4, <1>5, <1>6 DEF Flushed

LEMMA ParseFlushed ==
  ASSUME TypeOK, TypeOK', OneId, Loops, Nested, Flushed, ParseStep
  PROVE  Flushed'
<1> DEFINE cfd == Top.fd
<1>1. /\ At("fcgi") /\ stack # <<>> /\ Top \in StackFrame /\ Top.pc = "fcgi" /\ cfd \in Fds
      /\ Top.n \in Nat /\ conn \in [Fds -> Connection] /\ g_conns \subseteq Fds
      /\ InBuf = conn[cfd].in_buf /\ InBuf \in Seq(Record)
  <2>1. At("fcgi")
    BY DEF ParseStep, ParseEnd, ParseBad, ParseDefer, ParseSkip, ParseNew, ParseKnown, ParseFault
  <2>2. stack # <<>> /\ Top \in StackFrame /\ Top.pc = "fcgi"
    BY <2>1, TopFrame DEF At, Top
  <2>3. cfd \in Fds /\ Top.n \in Nat
    BY <2>2 DEF StackFrame, FrameOf, FdPC, LoopPC
  <2> QED BY <2>1, <2>2, <2>3 DEF TypeOK, ObjTypeOK, Connection, InBuf
<1>2. CASE ParseEnd
  <2> DEFINE rest == Consumed
  <2>1. /\ Return /\ UNCHANGED g_conns /\ ~Exists
        /\ conn' = [conn EXCEPT ![cfd].in_buf = rest, ![cfd].waiting_for_arena = FALSE]
    BY <1>2 DEF ParseEnd
  <2>2. rest = <<>> \/ rest[1].type = "PARTIAL"
    <3>1. CASE Top.n < Len(InBuf)
      <4>1. InBuf[Top.n + 1].type = "PARTIAL" /\ rest[1] = InBuf[Top.n + 1]
        BY <1>1, <2>1, <3>1 DEF Exists, Consumed
      <4> QED BY <4>1
    <3>2. CASE ~(Top.n < Len(InBuf))
      BY <1>1, <3>2 DEF Consumed
    <3> QED BY <3>1, <3>2
  <2> HIDE DEF rest, cfd
  <2>3. /\ \A fd \in Fds \ {cfd} : conn'[fd] = conn[fd]
        /\ conn'[cfd].out_buf = conn[cfd].out_buf /\ conn'[cfd].epollout = conn[cfd].epollout
        /\ conn'[cfd].closed = conn[cfd].closed
        /\ conn'[cfd].in_buf = rest /\ ~conn'[cfd].waiting_for_arena
    BY <1>1, <2>1 DEF Connection
  <2>4. PICK gd \in Fds : gd = cfd
    BY <1>1
  <2>5. Drained(gd)'
    BY <2>2, <2>3, <2>4 DEF Drained
  <2> QED BY <1>1, <2>1, <2>3, <2>4, <2>5, ReturnFlushed DEF cfd
<1>3. CASE ParseBad
  <2> DEFINE rest == Consumed
  <2>1. /\ Return /\ UNCHANGED g_conns /\ Exists
        /\ conn' = [conn EXCEPT ![cfd].in_buf = rest, ![cfd].waiting_for_arena = FALSE,
                                ![cfd].closed = TRUE]
    BY <1>3 DEF ParseBad
  <2>2. \A f \in Duers : ~(f.pc = "waited" /\ ~f.was)
    BY <1>1, <2>1, RecordThere
  <2> HIDE DEF rest, cfd
  <2>3. /\ \A fd \in Fds \ {cfd} : conn'[fd] = conn[fd]
        /\ conn'[cfd].out_buf = conn[cfd].out_buf /\ conn'[cfd].epollout = conn[cfd].epollout
        /\ conn'[cfd].closed
    BY <1>1, <2>1 DEF Connection
  <2>4. PICK gd \in Fds : gd = cfd
    BY <1>1
  <2> QED BY <1>1, <2>1, <2>2, <2>3, <2>4, ReturnFlushed DEF cfd
<1>4. CASE ParseDefer
  <2>1. /\ Return /\ UNCHANGED g_conns /\ Exists /\ NextRecord.type = "BEGIN"
        /\ conn[cfd].requests[NextRecord.id] = NoArena
        /\ conn' = [conn EXCEPT ![cfd].waiting_for_arena = TRUE]
    BY <1>4 DEF ParseDefer, EntryOf
  <2>2. /\ \A f \in Duers : ~(f.pc = "waited" /\ ~f.was)
        /\ NextRecord.id \in Ids
    BY <1>1, <2>1, RecordThere DEF Record, RecordOf
  <2>3. Mapped(conn[cfd]) = {}
    BY <2>1, <2>2 DEF Mapped, OneId
  <2> HIDE DEF cfd
  <2>4. /\ \A fd \in Fds \ {cfd} : conn'[fd] = conn[fd]
        /\ conn'[cfd].out_buf = conn[cfd].out_buf /\ conn'[cfd].epollout = conn[cfd].epollout
        /\ conn'[cfd].closed = conn[cfd].closed /\ conn'[cfd].waiting_for_arena
    BY <1>1, <2>1 DEF Connection
  <2>5. PICK gd \in Fds : gd = cfd
    BY <1>1
  <2> QED BY <1>1, <2>1, <2>2, <2>3, <2>4, <2>5, ReturnFlushed DEF cfd
<1>5. CASE ParseSkip
  <2> DEFINE f == [Top EXCEPT !.n = @ + 1]
  <2>1. Become(f) /\ UNCHANGED <<g_conns, conn>> /\ Exists
    BY <1>5 DEF ParseSkip
  <2>2. f.pc = "fcgi" /\ f.fd = cfd
    BY <1>1 DEF StackFrame, FrameOf
  <2>3. \A h \in Duers : ~(h.pc = "waited" /\ ~h.was)
    BY <1>1, <2>1, RecordThere
  <2> HIDE DEF f
  <2>4. PICK gd \in Fds : gd = cfd
    BY <1>1
  <2>5. PICK g : g = f
    OBVIOUS
  <2> QED BY <1>1, <2>1, <2>2, <2>3, <2>4, <2>5, AdvanceFlushed
<1>6. ASSUME NEW a \in Arena, ParseNew(a) \/ ParseKnown(a) PROVE Flushed'
  <2> DEFINE f == [Top EXCEPT !.n = @ + 1]
             id == NextRecord.id
             r == IF ParseNew(a) THEN NewRequest(built + 1, cfd, conn[cfd].serial, id) ELSE req[a]
  <2>1. /\ Become(f) /\ UNCHANGED g_conns /\ Exists /\ id \in Ids
        /\ \E go \in BOOLEAN : Delivered(a, r, cfd, id, go)
    BY <1>6, ParseDelivers DEF ParseNew, ParseKnown
  <2>2. f.pc = "fcgi" /\ f.fd = cfd
    BY <1>1 DEF StackFrame, FrameOf
  <2>3. \A h \in Duers : ~(h.pc = "waited" /\ ~h.was)
    BY <1>1, <2>1, RecordThere
  <2>4. \A fd \in Fds : /\ conn'[fd].epollout = conn[fd].epollout
                        /\ fd # cfd => conn'[fd].out_buf = conn[fd].out_buf
    BY <1>6, DeliverWrites
  <2> HIDE DEF f, r
  <2>5. PICK gd \in Fds, i \in Ids : gd = cfd /\ i = id
    BY <1>1, <2>1
  <2> HIDE DEF cfd, id
  <2>6. /\ \A fd \in Fds : /\ conn'[fd].in_buf = conn[fd].in_buf
                           /\ conn'[fd].waiting_for_arena = conn[fd].waiting_for_arena
                           /\ conn'[fd].closed = conn[fd].closed
        /\ conn'[gd].requests[i] = a
    BY <2>1, <2>5 DEF Delivered
  <2>7. \E j \in Ids : conn'[gd].requests[j] # NoArena
    BY <2>6, NArenasAssumption DEF Arena, NoArena
  <2>8. PICK g : g = f
    OBVIOUS
  <2>9. /\ At("fcgi") /\ UNCHANGED g_conns /\ gd = Top.fd /\ Become(g) /\ g.pc = "fcgi" /\ g.fd = gd
        /\ \A fd \in Fds : /\ conn'[fd].in_buf = conn[fd].in_buf
                           /\ conn'[fd].waiting_for_arena = conn[fd].waiting_for_arena
                           /\ conn'[fd].closed = conn[fd].closed
                           /\ conn'[fd].epollout = conn[fd].epollout
                           /\ fd # gd => conn'[fd].out_buf = conn[fd].out_buf
    BY <1>1, <2>1, <2>2, <2>4, <2>5, <2>6, <2>8 DEF cfd
  <2> QED BY <2>3, <2>7, <2>9, AdvanceFlushed
<1>7. CASE \E a \in Arena : ParseFault(a)
  BY <1>7, SameFlushed DEF ParseFault, SameTraffic
<1> QED BY <1>2, <1>3, <1>4, <1>5, <1>6, <1>7 DEF ParseStep

\* Flushed is inductive, given Loops, Tended and Waiting.
LEMMA FlushedNext ==
  ASSUME TypeOK, TypeOK', OneId, Loops, Tended, Nested, Flushed,
         [Next]_vars
  PROVE  Flushed'
<1>1. CASE LoopStep \/ AcceptStep \/ PendingStep \/ ParseStep
  BY <1>1, LoopFlushed, AnswersFlushed, ParseFlushed
<1>2. CASE HandleStep \/ CloseStep \/ HousekeepingStep \/ WaitingStep
  BY <1>2, HandleFlushed, ClosingFlushed, ServingFlushed
<1>3. CASE \/ Workers \/ WsThreads \/ TimerTick \/ Undefined \/ UNCHANGED vars
           \/ \E fd \in Fds : Peer(fd)
  BY <1>3, OthersFlushed
<1> QED BY <1>1, <1>2, <1>3 DEF Next, IoThread

(***************************************************************************)
(* With peers that use one request id on a connection, and as long as no   *)
(* request times out, no response is left in out_buf without EPOLLOUT:     *)
(* what process_buffer writes is flushed by the function that called       *)
(* process_fcgi, and the callback raises write interest when it writes     *)
(* into an empty buffer.  A request that times out is answered without     *)
(* either; and with more ids a connection that waits again writes an       *)
(* END_REQUEST that process_waiting_connections does not flush.            *)
(***************************************************************************)
THEOREM OutputWatched ==
  ASSUME OneId, "timeout" \notin Env
  PROVE  Spec => []UnsentIsArmed
<1> DEFINE IInv == Loops /\ Tended /\ Waiting /\ Flushed
<1>1. Init => IInv
  <2> SUFFICES ASSUME Init PROVE Waiting /\ Flushed
    BY InitLoops, InitTended
  <2>1. Frames = {}
    BY FramesAre DEF Init, Frames
  <2> QED BY <2>1 DEF Init, Waiting, Nested, Was, WaitingIsListed, At, Flushed, Armed, Drains,
                      Dry, Duers
<1>2. TypeOK /\ TypeOK' /\ IInv /\ [Next]_vars => IInv'
  BY LoopsNext, TendedNext, WaitingStays, FlushedNext DEF Waiting
<1>3. TypeOK /\ IInv => UnsentIsArmed
  <2> SUFFICES ASSUME TypeOK, IInv, Idle PROVE UnsentIsArmed
    BY DEF UnsentIsArmed
  <2>1. Plain
    BY DuersOnTop DEF Idle, Waiting
  <2> QED BY <2>1 DEF UnsentIsArmed, Flushed, Armed, Due, Plain, Sends
<1> QED BY <1>1, <1>2, <1>3, TypeCorrect, PTL DEF Spec
=============================================================================
