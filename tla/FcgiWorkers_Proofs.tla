------------------------- MODULE FcgiWorkers_Proofs -------------------------
(***************************************************************************)
(* The objects that the workers use, for every value of the constants and  *)
(* peers that send one request on each connection: a request is handed to  *)
(* a worker once, the pointers its closure captured stay valid until the   *)
(* closure is done with them, and nothing is destroyed that a worker will  *)
(* touch or that nobody has answered.                                      *)
(***************************************************************************)
EXTENDS FcgiObjects_Proofs

USE DEF poolVars, connVars, objVars, outVars, closeVars, waitVars, listVars, ioVars,
        taskVars, wakeVars, peerVars, envVars

-----------------------------------------------------------------------------
(* What is on its way from the peer *)

\* Peers that open a connection for each request, as nginx does by default.
OneShot == KeepFlags \subseteq {FALSE} /\ "multiplex" \notin Env

\* The place of a record in the sequence a peer sends for a request; 0 for a
\* record that names no request.
Rank(rec) ==
  CASE rec.type = "BEGIN" -> 1
    [] rec.type = "PARAMS" -> IF rec.len > 0 THEN 2 ELSE 3
    [] rec.type = "STDIN" -> IF rec.len > 0 THEN 4 ELSE 5
    [] rec.type = "ABORT" -> 6
    [] OTHER -> 0

Level(p) ==
  CASE p = "begun" -> 1
    [] p = "params" -> 2
    [] p = "params_end" -> 3
    [] p = "stdin" -> 4
    [] p = "complete" -> 5
    [] p = "aborted" -> 6
    [] OTHER -> 0

\* How far the peer has come: a connection that was used is never used again.
Reach(fd, id) ==
  IF sock[fd].used /\ phase[fd][id] = "idle" THEN 7 ELSE Level(phase[fd][id])

Before(x, y) == Rank(x) > 0 /\ Rank(y) > 0 => Rank(x) < Rank(y)

InOrder(s) == \A i, j \in 1 .. Len(s) : i < j => Before(s[i], s[j])

\* What was received and what is still in the socket is in the peer's order,
\* and no further than the peer has come.
Wired(fd) ==
  /\ InOrder(conn[fd].in_buf) /\ InOrder(sock[fd].rx)
  /\ \A x \in Items(conn[fd].in_buf), y \in Items(sock[fd].rx) : Before(x, y)
  /\ \A x \in Items(conn[fd].in_buf) \cup Items(sock[fd].rx), id \in Ids :
       Rank(x) <= Reach(fd, id)

Unused(fd) ==
  /\ sock[fd].st = "free" => ~sock[fd].used /\ sock[fd].rx = <<>>
  /\ ~sock[fd].used => \A id \in Ids : phase[fd][id] = "idle"
  /\ fd \notin g_conns => conn[fd].in_buf = <<>>
  /\ ~sock[fd].keep

Wire == \A fd \in Fds : Wired(fd) /\ Unused(fd)

\* What a step of the peer of fd leaves to come: a record that is new comes
\* after all that the peer had sent.
Came(fd) ==
  /\ \A x \in Items(sock'[fd].rx) :
       x \in Items(sock[fd].rx) \/ Rank(x) = 0 \/ \A id \in Ids : Rank(x) > Reach(fd, id)
  /\ \A id \in Ids : Reach(fd, id) <= Reach(fd, id)'
  /\ sock[fd].used => sock'[fd].used
  /\ \A gd \in Fds \ {fd} : /\ sock'[gd].rx = sock[gd].rx /\ sock'[gd].used = sock[gd].used
                            /\ phase'[gd] = phase[gd]

LEMMA Ranks ==
  /\ \A x : Rank(x) \in 0 .. 6
  /\ \A p : Level(p) \in 0 .. 6
  /\ \A fd, id : Reach(fd, id) \in 0 .. 7 /\ Reach(fd, id)' \in 0 .. 7
<1>1. \A x : Rank(x) \in 0 .. 6
  BY DEF Rank
<1>2. \A p : Level(p) \in 0 .. 6
  BY DEF Level
<1>3. \A fd, id : Reach(fd, id) \in 0 .. 7 /\ Reach(fd, id)' \in 0 .. 7
  BY <1>2 DEF Reach
<1> QED BY <1>1, <1>2, <1>3

\* The bytes of one recv loop keep the order.
LEMMA JoinedOrder ==
  ASSUME NEW in \in Seq(Record), NEW rx \in Seq(Record)
  PROVE  /\ Joined(in, rx) \in Seq(Record)
         /\ Items(Joined(in, rx)) \subseteq Items(in) \cup Items(rx)
         /\ InOrder(in) /\ InOrder(rx) /\ (\A x \in Items(in), y \in Items(rx) : Before(x, y))
              => InOrder(Joined(in, rx))
<1> DEFINE n == IF EndsPartial(in) /\ rx # <<>> THEN Len(in) - 1 ELSE Len(in)
           s == Joined(in, rx)
<1>1. n \in Nat /\ n <= Len(in)
  BY DEF EndsPartial
<1>2. s \in Seq(Record)
  BY JoinedType
<1>3. /\ Len(s) = n + Len(rx)
      /\ \A i \in 1 .. Len(s) : IF i <= n THEN s[i] = in[i] ELSE s[i] = rx[i - n]
  BY <1>1 DEF Joined, EndsPartial
<1> HIDE DEF n, s
<1>4. \A i \in 1 .. Len(s) : \/ i <= n /\ i \in 1 .. Len(in) /\ s[i] = in[i]
                             \/ i > n /\ i - n \in 1 .. Len(rx) /\ s[i] = rx[i - n]
  BY <1>1, <1>3
<1>5. Items(s) \subseteq Items(in) \cup Items(rx)
  BY <1>4 DEF Items
<1>6. ASSUME InOrder(in), InOrder(rx), \A x \in Items(in), y \in Items(rx) : Before(x, y)
      PROVE  InOrder(s)
  <2> SUFFICES ASSUME NEW i \in 1 .. Len(s), NEW j \in 1 .. Len(s), i < j
               PROVE  Before(s[i], s[j])
    BY DEF InOrder
  <2>0. Len(s) \in Nat /\ Len(in) \in Nat /\ Len(rx) \in Nat
    BY <1>2
  <2>1. CASE i <= n /\ j <= n
    <3>1. i \in 1 .. Len(in) /\ j \in 1 .. Len(in) /\ s[i] = in[i] /\ s[j] = in[j]
      BY <1>1, <1>4, <2>1, <2>0
    <3> QED BY <1>6, <3>1 DEF InOrder
  <2>2. CASE i > n /\ j > n
    <3>1. i - n \in 1 .. Len(rx) /\ j - n \in 1 .. Len(rx) /\ i - n < j - n
          /\ s[i] = rx[i - n] /\ s[j] = rx[j - n]
      BY <1>1, <1>4, <2>2, <2>0
    <3> QED BY <1>6, <3>1 DEF InOrder
  <2>3. CASE i <= n /\ j > n
    <3>1. i \in 1 .. Len(in) /\ j - n \in 1 .. Len(rx) /\ s[i] = in[i] /\ s[j] = rx[j - n]
      BY <1>1, <1>4, <2>3, <2>0
    <3>2. s[i] \in Items(in) /\ s[j] \in Items(rx)
      BY <3>1 DEF Items
    <3> QED BY <1>6, <3>2
  <2> QED BY <1>1, <2>0, <2>1, <2>2, <2>3
<1> QED BY <1>2, <1>5, <1>6 DEF s

-----------------------------------------------------------------------------
(* The steps, by what they do to connections *)

\* Steps that touch no connection and no socket.
Aside ==
  \/ EpollWait \/ AcceptDone
  \/ \E e \in batch : ListenEvent(e) \/ EventFdEvent(e) \/ TimerEvent(e) \/ IoStale(e)
  \/ SwapPending \/ PendingSkip \/ PendingFault \/ PendingDone
  \/ ParseSkip \/ SweepDone \/ CloseQueued \/ CloseQueueDone
  \/ \E a \in Arena : ParseFault(a)
  \/ \E id \in Ids : SweepKeep(id) \/ SweepFree(id) \/ CleanupOne(id)
  \/ ExpireDone \/ HousekeepingDone
  \/ \E fd \in Fds : HousekeepingClose(fd)
  \/ WaitingNext \/ WaitingDone \/ WaitedAgain
  \/ TaskStart \/ TaskFault \/ \E t \in running : TaskPush(t) \/ TaskInactive(t)
  \/ WsThreads \/ TimerTick \/ Undefined \/ UNCHANGED vars

LEMMA AsideSteps ==
  ASSUME Aside
  PROVE  UNCHANGED <<conn, g_conns, sock, phase>>
<1>1. CASE \/ EpollWait \/ AcceptDone
           \/ \E e \in batch : ListenEvent(e) \/ EventFdEvent(e) \/ TimerEvent(e) \/ IoStale(e)
  BY <1>1 DEF EpollWait, AcceptDone, ListenEvent, EventFdEvent, TimerEvent, IoStale
<1>2. CASE SwapPending \/ PendingSkip \/ PendingFault \/ PendingDone
  BY <1>2 DEF SwapPending, PendingSkip, PendingFault, PendingDone
<1>3. CASE \/ ParseSkip \/ SweepDone \/ CloseQueued \/ CloseQueueDone
           \/ \E a \in Arena : ParseFault(a)
  BY <1>3 DEF ParseSkip, SweepDone, CloseQueued, CloseQueueDone, ParseFault
<1>4. CASE \E id \in Ids : SweepKeep(id) \/ SweepFree(id) \/ CleanupOne(id)
  BY <1>4 DEF SweepKeep, SweepFree, CleanupOne, ReleaseRequest
<1>5. CASE ExpireDone \/ HousekeepingDone \/ \E fd \in Fds : HousekeepingClose(fd)
  BY <1>5 DEF ExpireDone, HousekeepingDone, HousekeepingClose
<1>6. CASE WaitingNext \/ WaitingDone \/ WaitedAgain
  BY <1>6 DEF WaitingNext, WaitingDone, WaitedAgain
<1>7. CASE TaskStart \/ TaskFault \/ \E t \in running : TaskPush(t) \/ TaskInactive(t)
  BY <1>7 DEF TaskStart, TaskFault, TaskPush, TaskInactive
<1>8. CASE WsThreads \/ TimerTick \/ Undefined \/ UNCHANGED vars
  BY <1>8 DEF WsThreads, WsGet, WsRelease, TimerTick, Undefined, vars
<1> QED BY <1>1, <1>2, <1>3, <1>4, <1>5, <1>6, <1>7, <1>8 DEF Aside

\* Steps that flush the connection of the frame on top.
Flushing == AfterParse \/ OutFlush \/ WaitedServed

\* Steps that write a response into out_buf.
Writing == PendingAnswer \/ \E fd \in Fds, id \in Ids : Expire(fd, id)

\* Steps that take a record to a request.
Taking == \E a \in Arena : ParseNew(a) \/ ParseKnown(a)

LEMMA StepCases ==
  ASSUME [Next]_vars
  PROVE  \/ Aside \/ Flushing \/ Writing \/ Taking
         \/ ParseEnd \/ ParseBad \/ ParseDefer
         \/ \E e \in batch : IoEvent(e)
         \/ \E fd \in Fds : AcceptOne(fd) \/ Peer(fd)
         \/ SweepErase \/ CloseFd
         \/ \E t \in running : TaskLeave(t)
<1>1. CASE LoopStep \/ AcceptStep \/ PendingStep
  BY <1>1 DEF LoopStep, AcceptStep, PendingStep, Aside, Writing
<1>2. CASE ParseStep \/ HandleStep
  BY <1>2 DEF ParseStep, HandleStep, Aside, Flushing, Taking
<1>3. CASE CloseStep \/ HousekeepingStep \/ WaitingStep
  BY <1>3 DEF CloseStep, HousekeepingStep, WaitingStep, Aside, Flushing, Writing
<1>4. CASE Workers \/ WsThreads \/ TimerTick \/ Undefined \/ UNCHANGED vars
  BY <1>4 DEF Workers, Aside
<1> QED BY <1>1, <1>2, <1>3, <1>4 DEF Next, IoThread

\* A flush is of a connection, and moves output into its socket.
LEMMA FlushingIs ==
  ASSUME TypeOK, Flushing
  PROVE  /\ stack # <<>> /\ Top.pc \in {"parsed", "outflush", "waited"} /\ Top.fd \in Fds
         /\ Flush(Top.fd, conn[Top.fd])
         /\ UNCHANGED <<g_conns, req, phase, queue, running, closing, to_close>>
         /\ \A fd \in Fds : /\ sock'[fd].rx = sock[fd].rx /\ sock'[fd].used = sock[fd].used
                            /\ sock'[fd].st = sock[fd].st /\ sock'[fd].keep = sock[fd].keep
<1>1. /\ stack # <<>> /\ Top.pc \in {"parsed", "outflush", "waited"}
      /\ Flush(Top.fd, conn[Top.fd])
      /\ UNCHANGED <<g_conns, req, phase, queue, running, closing, to_close>>
  BY DEF Flushing, AfterParse, OutFlush, WaitedServed, At, Top
<1>2. Top.fd \in Fds
  BY <1>1, TopFrame DEF StackFrame, FrameOf, LoopPC
<1>3. \A fd \in Fds : /\ sock'[fd].rx = sock[fd].rx /\ sock'[fd].used = sock[fd].used
                      /\ sock'[fd].st = sock[fd].st /\ sock'[fd].keep = sock[fd].keep
  <2> DEFINE gd == Top.fd
  <2>1. sock \in [Fds -> Socket]
    BY DEF TypeOK, EnvTypeOK
  <2>2. UNCHANGED sock \/ \E tx : sock' = [sock EXCEPT ![gd].tx = tx]
    BY <1>1 DEF Flush, FlushAll, FlushSome, FlushError
  <2> HIDE DEF gd
  <2>3. ASSUME NEW tx, sock' = [sock EXCEPT ![gd].tx = tx]
        PROVE  \A fd \in Fds : /\ sock'[fd].rx = sock[fd].rx /\ sock'[fd].used = sock[fd].used
                               /\ sock'[fd].st = sock[fd].st /\ sock'[fd].keep = sock[fd].keep
    BY <2>1, <2>3 DEF Socket
  <2> QED BY <2>2, <2>3
<1> QED BY <1>1, <1>2, <1>3

-----------------------------------------------------------------------------
(* The order of what is on its way *)

\* A connection that loses records at most.
LEMMA WireFd ==
  ASSUME NEW fd \in Fds, Wired(fd), Unused(fd),
         InOrder(conn'[fd].in_buf), InOrder(sock'[fd].rx),
         \A x \in Items(conn'[fd].in_buf), y \in Items(sock'[fd].rx) : Before(x, y),
         Items(conn'[fd].in_buf) \cup Items(sock'[fd].rx)
           \subseteq Items(conn[fd].in_buf) \cup Items(sock[fd].rx),
         sock'[fd].used = sock[fd].used, sock'[fd].keep = sock[fd].keep,
         sock'[fd].st = "free" => sock[fd].st = "free" /\ sock'[fd].rx = sock[fd].rx,
         phase'[fd] = phase[fd],
         fd \in g_conns' \/ conn'[fd].in_buf = <<>>
  PROVE  Wired(fd)' /\ Unused(fd)'
<1>1. \A id : Reach(fd, id)' = Reach(fd, id)
  BY DEF Reach
<1>2. Wired(fd)'
  BY <1>1 DEF Wired
<1>3. Unused(fd)'
  BY DEF Unused
<1> QED BY <1>2, <1>3

\* What a step leaves alone of a connection.
SameWire(fd) ==
  /\ conn'[fd].in_buf = conn[fd].in_buf /\ sock'[fd].rx = sock[fd].rx
  /\ sock'[fd].used = sock[fd].used /\ sock'[fd].keep = sock[fd].keep
  /\ sock'[fd].st = sock[fd].st /\ phase'[fd] = phase[fd]
  /\ fd \in g_conns' <=> fd \in g_conns

LEMMA WireKept ==
  ASSUME NEW fd \in Fds, Wired(fd), Unused(fd), SameWire(fd)
  PROVE  Wired(fd)' /\ Unused(fd)'
<1>1. /\ InOrder(conn'[fd].in_buf) /\ InOrder(sock'[fd].rx)
      /\ \A x \in Items(conn'[fd].in_buf), y \in Items(sock'[fd].rx) : Before(x, y)
  BY DEF SameWire, Wired
<1>2. /\ Items(conn'[fd].in_buf) \cup Items(sock'[fd].rx)
           \subseteq Items(conn[fd].in_buf) \cup Items(sock[fd].rx)
      /\ sock'[fd].used = sock[fd].used /\ sock'[fd].keep = sock[fd].keep
      /\ sock'[fd].st = "free" => sock[fd].st = "free" /\ sock'[fd].rx = sock[fd].rx
      /\ phase'[fd] = phase[fd]
      /\ fd \in g_conns' \/ conn'[fd].in_buf = <<>>
  BY DEF SameWire, Unused
<1> QED BY <1>1, <1>2, WireFd

\* The steps that neither receive nor parse.
LEMMA StillWire ==
  ASSUME TypeOK,
         \/ Aside \/ Flushing \/ Writing \/ Taking \/ ParseDefer \/ SweepErase
         \/ \E t \in running : TaskLeave(t)
  PROVE  \A fd \in Fds : SameWire(fd)
<1>1. conn \in [Fds -> Connection]
  BY DEF TypeOK, ObjTypeOK
<1>2. CASE Aside
  BY <1>2, AsideSteps DEF SameWire
<1>3. CASE Flushing
  BY <1>3, FlushingIs, FlushKeeps DEF SameWire, Keeps, KeepsConn
<1>4. CASE Writing
  <2>1. UNCHANGED <<g_conns, sock, phase>>
    BY <1>4 DEF Writing, PendingAnswer, Expire
  <2> QED BY <1>4, <2>1, AnswerKeeps DEF Writing, SameWire, Keeps, KeepsConn
<1>5. CASE Taking
  <2>1. UNCHANGED <<g_conns, sock, phase>>
    BY <1>5 DEF Taking, ParseNew, ParseKnown
  <2> QED BY <1>5, <2>1, ParseDelivers DEF Taking, SameWire, Delivered
<1>6. CASE ParseDefer \/ SweepErase \/ \E t \in running : TaskLeave(t)
  <2>1. /\ UNCHANGED <<g_conns, sock, phase>>
        /\ \E gd, id, n : \/ conn' = [conn EXCEPT ![gd].waiting_for_arena = TRUE]
                          \/ conn' = [conn EXCEPT ![gd].requests[id] = NoArena]
                          \/ conn' = [conn EXCEPT ![gd].active_workers = n]
    BY <1>6 DEF ParseDefer, SweepErase, TaskLeave
  <2>2. PICK gd, id, n : \/ conn' = [conn EXCEPT ![gd].waiting_for_arena = TRUE]
                         \/ conn' = [conn EXCEPT ![gd].requests[id] = NoArena]
                         \/ conn' = [conn EXCEPT ![gd].active_workers = n]
    BY <2>1
  <2>3. \A fd \in Fds : conn'[fd].in_buf = conn[fd].in_buf
    <3>1. CASE conn' = [conn EXCEPT ![gd].waiting_for_arena = TRUE]
      BY <1>1, <3>1 DEF Connection
    <3>2. CASE conn' = [conn EXCEPT ![gd].requests[id] = NoArena]
      BY <1>1, <3>2 DEF Connection
    <3>3. CASE conn' = [conn EXCEPT ![gd].active_workers = n]
      BY <1>1, <3>3 DEF Connection
    <3> QED BY <2>2, <3>1, <3>2, <3>3
  <2> QED BY <2>1, <2>3 DEF SameWire
<1> QED BY <1>2, <1>3, <1>4, <1>5, <1>6

\* What handle_io reads, and what it makes of the connection.
LEMMA IoEventIs ==
  ASSUME TypeOK, NEW e \in batch, IoEvent(e)
  PROVE  /\ e.fd \in g_conns /\ e.fd \in Fds
         /\ UNCHANGED <<g_conns, req, phase, queue, running, closing, to_close>>
         /\ \A fd \in Fds \ {e.fd} : conn'[fd] = conn[fd] /\ sock'[fd] = sock[fd]
         /\ \A fd \in Fds :
              /\ sock'[fd].used = sock[fd].used /\ sock'[fd].st = sock[fd].st
              /\ sock'[fd].keep = sock[fd].keep
              /\ conn'[fd].requests = conn[fd].requests
              /\ conn'[fd].out_buf = conn[fd].out_buf
              /\ conn'[fd].active_workers = conn[fd].active_workers
              /\ conn'[fd].waiting_for_arena = conn[fd].waiting_for_arena
              /\ conn'[fd].serial = conn[fd].serial
              /\ conn[fd].closed => conn'[fd].closed
         /\ \/ /\ conn'[e.fd].in_buf = conn[e.fd].in_buf /\ sock'[e.fd].rx = sock[e.fd].rx
            \/ /\ conn'[e.fd].in_buf = Joined(conn[e.fd].in_buf, sock[e.fd].rx)
               /\ sock'[e.fd].rx = <<>>
<1> DEFINE fd == e.fd
           shut == conn[fd].closed \/ e.hup \/ (e.in /\ sock[fd].eof)
           in == IF e.in THEN Joined(conn[fd].in_buf, sock[fd].rx) ELSE conn[fd].in_buf
<1>1. conn \in [Fds -> Connection] /\ sock \in [Fds -> Socket] /\ fd \in g_conns /\ fd \in Fds
  BY DEF IoEvent, TypeOK, ObjTypeOK, EnvTypeOK
<1>2. /\ conn' = [conn EXCEPT ![fd] = [conn[fd] EXCEPT !.closed = shut, !.in_buf = in]]
      /\ sock' = IF e.in THEN [sock EXCEPT ![fd].rx = <<>>] ELSE sock
      /\ UNCHANGED <<g_conns, req, phase, queue, running, closing, to_close>>
  BY DEF IoEvent
<1>3. IF e.in THEN in = Joined(conn[fd].in_buf, sock[fd].rx) ELSE in = conn[fd].in_buf
  OBVIOUS
<1>4. conn[fd].closed => shut
  OBVIOUS
<1> HIDE DEF in, shut, fd
<1>5. /\ \A gd \in Fds \ {fd} : conn'[gd] = conn[gd]
      /\ conn'[fd].in_buf = in
      /\ \A gd \in Fds : /\ conn'[gd].requests = conn[gd].requests
                         /\ conn'[gd].out_buf = conn[gd].out_buf
                         /\ conn'[gd].active_workers = conn[gd].active_workers
                         /\ conn'[gd].waiting_for_arena = conn[gd].waiting_for_arena
                         /\ conn'[gd].serial = conn[gd].serial
                         /\ conn[gd].closed => conn'[gd].closed
  BY <1>1, <1>2, <1>4 DEF Connection
<1>6. /\ \A gd \in Fds \ {fd} : sock'[gd] = sock[gd]
      /\ \A gd \in Fds : /\ sock'[gd].used = sock[gd].used /\ sock'[gd].st = sock[gd].st
                         /\ sock'[gd].keep = sock[gd].keep
      /\ sock'[fd].rx = IF e.in THEN <<>> ELSE sock[fd].rx
  BY <1>1, <1>2 DEF Socket
<1> QED BY <1>1, <1>2, <1>3, <1>5, <1>6 DEF fd

LEMMA NoItems == Items(<<>>) = {} /\ InOrder(<<>>)
BY DEF Items, InOrder

LEMMA IoEventWire ==
  ASSUME TypeOK, Wire, Linked, NEW e \in batch, IoEvent(e)
  PROVE  Wire'
<1>1. ASSUME NEW fd \in Fds, fd # e.fd PROVE Wired(fd)' /\ Unused(fd)'
  BY <1>1, IoEventIs, WireKept DEF Wire, SameWire
<1>2. ASSUME NEW fd \in Fds, fd = e.fd PROVE Wired(fd)' /\ Unused(fd)'
  <2> DEFINE in == conn[fd].in_buf
             rx == sock[fd].rx
             new == conn'[fd].in_buf
             left == sock'[fd].rx
  <2>1. /\ fd \in g_conns /\ UNCHANGED <<g_conns, phase>>
        /\ sock'[fd].used = sock[fd].used /\ sock'[fd].keep = sock[fd].keep
        /\ sock'[fd].st = sock[fd].st
        /\ (new = in /\ left = rx) \/ (new = Joined(in, rx) /\ left = <<>>)
    BY <1>2, IoEventIs
  <2>2. in \in Seq(Record) /\ rx \in Seq(Record)
    BY DEF TypeOK, ObjTypeOK, EnvTypeOK, Connection, Socket
  <2>3. InOrder(in) /\ InOrder(rx) /\ \A x \in Items(in), y \in Items(rx) : Before(x, y)
    BY DEF Wire, Wired
  <2>4. CASE new = in /\ left = rx
    BY <2>1, <2>4, WireKept DEF Wire, SameWire
  <2>5. CASE new = Joined(in, rx) /\ left = <<>>
    <3>1. InOrder(new) /\ Items(new) \subseteq Items(in) \cup Items(rx)
      BY <2>2, <2>3, <2>5, JoinedOrder
    <3>2. sock'[fd].st # "free"
      BY <2>1 DEF Linked
    <3> HIDE DEF new, in, rx, left
    <3>3. Items(left) = {} /\ InOrder(left)
      BY <2>5, NoItems
    <3>4. /\ \A x \in Items(new), y \in Items(left) : Before(x, y)
          /\ Items(new) \cup Items(left) \subseteq Items(in) \cup Items(rx)
      BY <3>1, <3>3
    <3> QED BY <2>1, <3>1, <3>2, <3>3, <3>4, WireFd DEF Wire, new, in, rx, left
  <2> QED BY <2>1, <2>4, <2>5
<1> QED BY <1>1, <1>2 DEF Wire

\* process_buffer erases what it has read.
LEMMA ReturnIs ==
  ASSUME TypeOK, Tended, ParseEnd \/ ParseBad
  PROVE  /\ stack # <<>> /\ Top.pc = "fcgi" /\ Top.fd \in g_conns /\ Top.fd \in Fds
         /\ Top.n \in Nat /\ Return
         /\ UNCHANGED <<g_conns, sock, phase, req, queue, running, closing, to_close>>
         /\ \A fd \in Fds \ {Top.fd} : conn'[fd] = conn[fd]
         /\ conn'[Top.fd].in_buf \in Seq(Record)
         /\ \A i \in 1 .. Len(conn'[Top.fd].in_buf) :
              /\ i + Top.n \in 1 .. Len(conn[Top.fd].in_buf)
              /\ conn'[Top.fd].in_buf[i] = conn[Top.fd].in_buf[i + Top.n]
         /\ ~conn'[Top.fd].waiting_for_arena
         /\ \A fd \in Fds : /\ conn'[fd].requests = conn[fd].requests
                            /\ conn'[fd].out_buf = conn[fd].out_buf
                            /\ conn'[fd].active_workers = conn[fd].active_workers
                            /\ conn'[fd].serial = conn[fd].serial
                            /\ conn[fd].closed => conn'[fd].closed
<1> DEFINE cfd == Top.fd
           rest == Consumed
<1>1. /\ stack # <<>> /\ Top.pc = "fcgi" /\ Return
      /\ UNCHANGED <<g_conns, sock, phase, req, queue, running, closing, to_close>>
      /\ \/ conn' = [conn EXCEPT ![cfd].in_buf = rest, ![cfd].waiting_for_arena = FALSE]
         \/ conn' = [conn EXCEPT ![cfd].in_buf = rest, ![cfd].waiting_for_arena = FALSE,
                                 ![cfd].closed = TRUE]
  BY DEF ParseEnd, ParseBad, At, Top
<1>2. /\ Top \in StackFrame /\ cfd \in g_conns /\ cfd \in Fds /\ Top.n \in Nat
      /\ conn \in [Fds -> Connection]
  BY <1>1, TopServed DEF FdPC, StackFrame, FrameOf, TypeOK, ObjTypeOK
<1>3. InBuf = conn[cfd].in_buf /\ InBuf \in Seq(Record)
  BY <1>2 DEF InBuf, Connection
<1>4. /\ rest \in Seq(Record) /\ \A i \in 1 .. Len(rest) :
           i + Top.n \in 1 .. Len(InBuf) /\ rest[i] = InBuf[i + Top.n]
  <2> DEFINE n == Top.n
             s == InBuf
  <2>1. rest = SubSeq(s, n + 1, Len(s)) /\ n \in Nat /\ s \in Seq(Record)
    BY <1>2, <1>3 DEF Consumed
  <2> HIDE DEF n, s, rest
  <2>2. CASE n < Len(s)
    <3>1. Len(rest) = Len(s) - n /\ rest \in Seq(Record)
      BY <2>1, <2>2
    <3>2. ASSUME NEW i \in 1 .. Len(rest) PROVE rest[i] = s[i + n]
      <4>1. i \in 1 .. Len(s) - n
        BY <3>1
      <4>2. SubSeq(s, n + 1, Len(s))[i] = s[(n + 1) + i - 1]
        BY <2>1, <2>2, <4>1
      <4>3. (n + 1) + i - 1 = i + n
        BY <2>1, <4>1
      <4> QED BY <2>1, <4>2, <4>3
    <3>3. \A i \in 1 .. Len(rest) : i + n \in 1 .. Len(s)
      <4>1. Len(s) \in Nat
        BY <2>1
      <4> QED BY <2>1, <2>2, <3>1, <4>1
    <3> QED BY <3>1, <3>2, <3>3 DEF n, s
  <2>3. CASE ~(n < Len(s))
    <3>1. rest = <<>>
      BY <2>1, <2>3
    <3> QED BY <3>1
  <2> QED BY <2>2, <2>3
<1> HIDE DEF rest, cfd
<1>5. /\ conn'[cfd].in_buf = rest /\ \A fd \in Fds \ {cfd} : conn'[fd] = conn[fd]
      /\ ~conn'[cfd].waiting_for_arena
      /\ \A fd \in Fds : /\ conn'[fd].requests = conn[fd].requests
                         /\ conn'[fd].out_buf = conn[fd].out_buf
                         /\ conn'[fd].active_workers = conn[fd].active_workers
                         /\ conn'[fd].serial = conn[fd].serial
                         /\ conn[fd].closed => conn'[fd].closed
  <2>1. CASE conn' = [conn EXCEPT ![cfd].in_buf = rest, ![cfd].waiting_for_arena = FALSE]
    BY <1>2, <2>1 DEF Connection
  <2>2. CASE conn' = [conn EXCEPT ![cfd].in_buf = rest, ![cfd].waiting_for_arena = FALSE,
                                 ![cfd].closed = TRUE]
    BY <1>2, <2>2 DEF Connection
  <2> QED BY <1>1, <2>1, <2>2
<1> QED BY <1>1, <1>2, <1>3, <1>4, <1>5 DEF cfd

LEMMA ReturnWire ==
  ASSUME TypeOK, Wire, Tended, ParseEnd \/ ParseBad
  PROVE  Wire'
<1> DEFINE cfd == Top.fd
           old == conn[cfd].in_buf
           rest == conn'[cfd].in_buf
           n == Top.n
<1>1. /\ cfd \in g_conns /\ n \in Nat /\ UNCHANGED <<g_conns, sock, phase>>
      /\ rest \in Seq(Record)
      /\ \A i \in 1 .. Len(rest) : i + n \in 1 .. Len(old) /\ rest[i] = old[i + n]
      /\ \A fd \in Fds \ {cfd} : conn'[fd] = conn[fd]
  BY ReturnIs
<1> HIDE DEF rest, old, n
<1>5. Items(rest) \subseteq Items(old)
  BY <1>1 DEF Items
<1>6. InOrder(old) => InOrder(rest)
  <2> SUFFICES ASSUME InOrder(old), NEW i \in 1 .. Len(rest), NEW j \in 1 .. Len(rest), i < j
               PROVE  Before(rest[i], rest[j])
    BY DEF InOrder
  <2>1. i + n < j + n
    BY <1>1
  <2> QED BY <1>1, <2>1 DEF InOrder
<1>8. ASSUME NEW fd \in Fds, fd # cfd PROVE Wired(fd)' /\ Unused(fd)'
  BY <1>1, <1>8, WireKept DEF Wire, SameWire
<1>9. ASSUME NEW fd \in Fds, fd = cfd PROVE Wired(fd)' /\ Unused(fd)'
  <2>1. Wired(fd) /\ Unused(fd)
    BY DEF Wire
  <2>2. /\ InOrder(conn[fd].in_buf) /\ InOrder(sock[fd].rx)
        /\ \A x \in Items(conn[fd].in_buf), y \in Items(sock[fd].rx) : Before(x, y)
    BY <2>1 DEF Wired
  <2> QED BY <1>1, <1>5, <1>6, <1>9, <2>1, <2>2, WireFd DEF old, rest
<1> QED BY <1>8, <1>9 DEF Wire

\* A connection without records.
LEMMA WireEmpty ==
  ASSUME NEW fd \in Fds, conn'[fd].in_buf = <<>>, sock'[fd].rx = <<>>, ~sock'[fd].keep,
         ~sock'[fd].used, \A id \in Ids : phase'[fd][id] = "idle"
  PROVE  Wired(fd)' /\ Unused(fd)'
<1>1. Items(conn'[fd].in_buf) = {} /\ Items(sock'[fd].rx) = {}
      /\ InOrder(conn'[fd].in_buf) /\ InOrder(sock'[fd].rx)
  BY NoItems
<1> QED BY <1>1 DEF Wired, Unused

LEMMA AcceptWire ==
  ASSUME TypeOK, Wire, Linked, NEW cfd \in Fds, AcceptOne(cfd)
  PROVE  Wire'
<1>1. conn \in [Fds -> Connection] /\ sock \in [Fds -> Socket] /\ cfd \notin g_conns
  BY DEF AcceptOne, Backlog, Linked, TypeOK, ObjTypeOK, EnvTypeOK
<1>2. /\ g_conns' = g_conns \cup {cfd} /\ UNCHANGED phase
      /\ sock' = [sock EXCEPT ![cfd].st = "conn"]
      /\ \A fd \in Fds \ {cfd} : conn'[fd] = conn[fd]
      /\ conn'[cfd].in_buf = <<>>
  BY <1>1 DEF AcceptOne, NewConnection
<1>3. /\ \A fd \in Fds \ {cfd} : sock'[fd] = sock[fd]
      /\ sock'[cfd].rx = sock[cfd].rx /\ sock'[cfd].used = sock[cfd].used
      /\ sock'[cfd].keep = sock[cfd].keep /\ sock'[cfd].st # "free"
  BY <1>1, <1>2 DEF Socket
<1>4. ASSUME NEW fd \in Fds, fd # cfd PROVE Wired(fd)' /\ Unused(fd)'
  BY <1>2, <1>3, <1>4, WireKept DEF Wire, SameWire
<1>5. Wired(cfd)' /\ Unused(cfd)'
  <2>1. Wired(cfd) /\ Unused(cfd)
    BY DEF Wire
  <2>2. /\ Items(conn'[cfd].in_buf) = {} /\ InOrder(conn'[cfd].in_buf)
        /\ InOrder(sock'[cfd].rx)
    BY <1>2, <1>3, <2>1, NoItems DEF Wired
  <2>3. phase'[cfd] = phase[cfd]
    BY <1>2
  <2> QED BY <1>2, <1>3, <2>1, <2>2, <2>3, WireFd
<1> QED BY <1>4, <1>5 DEF Wire

LEMMA CloseWire ==
  ASSUME TypeOK, Wire, Tended, CloseFd
  PROVE  Wire'
<1>1. /\ stack # <<>> /\ Top.pc = "cleanup" /\ g_conns' = g_conns \ {Top.fd}
      /\ conn' = [conn EXCEPT ![Top.fd] = NewConnection(0)]
      /\ sock' = [sock EXCEPT ![Top.fd] = FreeSock]
      /\ phase' = [phase EXCEPT ![Top.fd] = [id \in Ids |-> "idle"]]
  BY DEF CloseFd, At, Top
<1>2. /\ conn \in [Fds -> Connection] /\ sock \in [Fds -> Socket]
      /\ phase \in [Fds -> [Ids -> Phase]] /\ Top.fd \in Fds
  BY <1>1, TopServed DEF FdPC, TypeOK, ObjTypeOK, EnvTypeOK
<1>3. ASSUME NEW fd \in Fds, fd # Top.fd PROVE Wired(fd)' /\ Unused(fd)'
  BY <1>1, <1>2, <1>3, WireKept DEF Wire, SameWire
<1>4. ASSUME NEW fd \in Fds, fd = Top.fd PROVE Wired(fd)' /\ Unused(fd)'
  <2>1. /\ conn'[fd].in_buf = <<>> /\ sock'[fd].rx = <<>> /\ ~sock'[fd].keep /\ ~sock'[fd].used
        /\ \A id \in Ids : phase'[fd][id] = "idle"
    BY <1>1, <1>2, <1>4 DEF NewConnection, FreeSock
  <2> QED BY <2>1, WireEmpty
<1> QED BY <1>3, <1>4 DEF Wire

LEMMA ConnectWire ==
  ASSUME TypeOK, OneShot, Wire, Linked, NEW cfd \in Fds, NEW keep \in KeepFlags,
         PeerConnect(cfd, keep)
  PROVE  Wire' /\ Came(cfd)
<1>1. sock \in [Fds -> Socket] /\ sock[cfd].st = "free" /\ cfd \notin g_conns /\ ~keep
  BY DEF PeerConnect, Linked, OneShot, TypeOK, EnvTypeOK
<1>2. /\ UNCHANGED <<conn, g_conns, phase>>
      /\ sock' = [sock EXCEPT ![cfd] = [FreeSock EXCEPT !.st = "backlog", !.keep = keep,
                                                        !.serial = connects + 1]]
  BY DEF PeerConnect
<1>3. ASSUME NEW fd \in Fds, fd # cfd PROVE Wired(fd)' /\ Unused(fd)'
  BY <1>1, <1>2, <1>3, WireKept DEF Wire, SameWire
<1>4. Wired(cfd)' /\ Unused(cfd)'
  <2>1. /\ sock'[cfd].rx = <<>> /\ ~sock'[cfd].keep /\ ~sock'[cfd].used
    BY <1>1, <1>2 DEF FreeSock
  <2>2. conn'[cfd].in_buf = <<>> /\ \A id \in Ids : phase'[cfd][id] = "idle"
    BY <1>1, <1>2 DEF Wire, Unused
  <2> QED BY <2>1, <2>2, WireEmpty
<1>5. Came(cfd)
  <2>1. /\ Items(sock'[cfd].rx) = {} /\ ~sock[cfd].used
        /\ \A id \in Ids : phase[cfd][id] = "idle"
    BY <1>1, <1>2, NoItems DEF FreeSock, Wire, Unused
  <2>2. \A id \in Ids : Reach(cfd, id) = 0 /\ Reach(cfd, id)' \in 0 .. 7
    BY <2>1, Ranks DEF Reach, Level
  <2> QED BY <1>1, <1>2, <2>1, <2>2 DEF Came
<1> QED BY <1>3, <1>4, <1>5 DEF Wire

\* A peer sends what comes after all it has sent.
LEMMA SendWire ==
  ASSUME TypeOK, Wire, NEW cfd \in Fds, NEW recs \in Seq(Record), recs # <<>>, Send(cfd, recs),
         InOrder(recs),
         \A x \in Items(recs), id \in Ids :
           Rank(x) = 0 \/ (Rank(x) > Reach(cfd, id) /\ Rank(x) <= Reach(cfd, id)'),
         \A id \in Ids : Reach(cfd, id) <= Reach(cfd, id)',
         ~sock'[cfd].used => \A id \in Ids : phase'[cfd][id] = "idle",
         \A fd \in Fds \ {cfd} : phase'[fd] = phase[fd],
         Ids # {} \/ \A x \in Items(recs) : Rank(x) = 0
  PROVE  Wire' /\ Came(cfd)
<1>1. sock \in [Fds -> Socket] /\ sock[cfd].st # "free" /\ UNCHANGED <<conn, g_conns>>
  BY DEF Send, CanSend, TypeOK, EnvTypeOK
<1> DEFINE rx == Joined(sock[cfd].rx, recs)
           used == sock[cfd].used \/ recs[Len(recs)].type = "BEGIN"
           bad == recs[Len(recs)].type = "BAD"
<1>2. sock' = [sock EXCEPT ![cfd].rx = rx, ![cfd].used = used, ![cfd].bad = bad]
  BY DEF Send
<1>3. sock[cfd].rx \in Seq(Record) /\ conn[cfd].in_buf \in Seq(Record)
  BY <1>1 DEF Socket, TypeOK, ObjTypeOK, Connection
<1> DEFINE old == sock[cfd].rx
           in == conn[cfd].in_buf
<1>4. /\ Items(rx) \subseteq Items(old) \cup Items(recs)
      /\ InOrder(old) /\ (\A x \in Items(old), y \in Items(recs) : Before(x, y)) => InOrder(rx)
  BY <1>3, JoinedOrder
<1>5. /\ InOrder(in) /\ InOrder(old) /\ \A x \in Items(in), y \in Items(old) : Before(x, y)
      /\ \A x \in Items(in) \cup Items(old), id \in Ids : Rank(x) <= Reach(cfd, id)
  BY DEF Wire, Wired
<1> HIDE DEF rx, used, bad, old, in
<1>6. \A x \in Items(in) \cup Items(old), y \in Items(recs) : Before(x, y)
  <2> SUFFICES ASSUME NEW x \in Items(in) \cup Items(old), NEW y \in Items(recs)
               PROVE  Before(x, y)
    OBVIOUS
  <2> SUFFICES ASSUME Rank(y) > 0 PROVE Before(x, y)
    BY DEF Before
  <2>1. PICK id \in Ids : TRUE
    BY Ranks
  <2>2. Rank(x) <= Reach(cfd, id) /\ (Rank(y) = 0 \/ Rank(y) > Reach(cfd, id))
    BY <1>5
  <2>3. Rank(x) \in Int /\ Rank(y) \in Int /\ Reach(cfd, id) \in Int
    BY Ranks
  <2> QED BY <2>2, <2>3 DEF Before
<1>7. /\ sock'[cfd].rx = rx /\ sock'[cfd].keep = sock[cfd].keep /\ sock'[cfd].st = sock[cfd].st
      /\ \A fd \in Fds \ {cfd} : sock'[fd] = sock[fd]
  BY <1>1, <1>2 DEF Socket
<1>8. InOrder(rx) /\ \A x \in Items(in), y \in Items(rx) : Before(x, y)
  BY <1>4, <1>5, <1>6
<1>9. \A x \in Items(in) \cup Items(rx), id \in Ids : Rank(x) <= Reach(cfd, id)'
  <2> SUFFICES ASSUME NEW x \in Items(in) \cup Items(old) \cup Items(recs), NEW id \in Ids
               PROVE  Rank(x) <= Reach(cfd, id)'
    BY <1>4
  <2>1. Rank(x) \in Nat /\ Reach(cfd, id) \in Nat /\ Reach(cfd, id)' \in Nat
    BY Ranks
  <2>2. CASE x \in Items(recs)
    BY <2>1, <2>2
  <2>3. CASE x \in Items(in) \cup Items(old)
    <3>1. Rank(x) <= Reach(cfd, id) /\ Reach(cfd, id) <= Reach(cfd, id)'
      BY <1>5, <2>3
    <3> QED BY <2>1, <3>1
  <2> QED BY <2>2, <2>3
<1>10. Wired(cfd)'
  BY <1>1, <1>5, <1>7, <1>8, <1>9 DEF Wired, in
<1>11. Unused(cfd)'
  BY <1>1, <1>7 DEF Wire, Unused
<1>12. ASSUME NEW fd \in Fds, fd # cfd PROVE Wired(fd)' /\ Unused(fd)'
  BY <1>1, <1>7, <1>12, WireKept DEF Wire, SameWire
<1>13. Came(cfd)
  <2>1. sock[cfd].used => sock'[cfd].used
    BY <1>1, <1>2 DEF Socket, used
  <2> QED BY <1>4, <1>7, <2>1 DEF Came, old
<1> QED BY <1>10, <1>11, <1>12, <1>13 DEF Wire

\* What one peer step makes of the phases.
LEMMA Entered ==
  ASSUME TypeOK, NEW cfd \in Fds, NEW id \in Ids, NEW p, Enter(cfd, id, p)
  PROVE  /\ phase'[cfd][id] = p
         /\ \A fd \in Fds \ {cfd} : phase'[fd] = phase[fd]
BY DEF Enter, TypeOK, EnvTypeOK

LEMMA OneRecord ==
  ASSUME NEW rec \in Record
  PROVE  /\ <<rec>> \in Seq(Record) /\ <<rec>> # <<>> /\ InOrder(<<rec>>)
         /\ Items(<<rec>>) = {rec} /\ Len(<<rec>>) = 1 /\ <<rec>>[1] = rec
BY DEF InOrder, Items

LEMMA BeginWire ==
  ASSUME TypeOK, OneId, OneShot, Wire, NEW cfd \in Fds, NEW id \in Ids, PeerBegin(cfd, id)
  PROVE  Wire' /\ Came(cfd)
<1>1. /\ \A i \in Ids : phase[cfd][i] = "idle"
      /\ ~sock[cfd].used
  BY DEF PeerBegin, OneShot, Wire, Unused
<1>2. sock \in [Fds -> Socket] /\ sock[cfd].keep \in BOOLEAN
  BY DEF TypeOK, EnvTypeOK, Socket
<1> DEFINE rec == Rec("BEGIN", id, 8, sock[cfd].keep)
           other == Bare("OTHER")
<1>3. rec \in Record /\ other \in Record /\ Rank(rec) = 1 /\ Rank(other) = 0
      /\ rec.type = "BEGIN"
  BY <1>2, RecType DEF Rank, Rec, Bare
<1>4. PICK before \in {<<>>, <<other>>} : Send(cfd, before \o <<rec>>)
  BY DEF PeerBegin
<1>5. Enter(cfd, id, "begun")
  BY DEF PeerBegin
<1> DEFINE recs == before \o <<rec>>
<1> HIDE DEF rec, other
<1>6. /\ recs \in Seq(Record) /\ recs # <<>> /\ InOrder(recs) /\ Items(recs) \subseteq {rec, other}
      /\ recs[Len(recs)] = rec
  <2>1. CASE before = <<>>
    <3>1. recs = <<rec>>
      BY <2>1
    <3> QED BY <1>3, <3>1, OneRecord
  <2>2. CASE before = <<other>>
    <3>1. recs \in Seq(Record) /\ Len(recs) = 2 /\ recs[1] = other /\ recs[2] = rec
      BY <1>3, <2>2
    <3>2. Items(recs) \subseteq {rec, other}
      BY <3>1 DEF Items
    <3>3. \A i, j \in 1 .. Len(recs) : i < j => Before(recs[i], recs[j])
      <4> SUFFICES ASSUME NEW i \in 1 .. Len(recs), NEW j \in 1 .. Len(recs), i < j
                   PROVE  Before(recs[i], recs[j])
        OBVIOUS
      <4>1. i = 1
        BY <3>1
      <4> QED BY <1>3, <3>1, <4>1 DEF Before
    <3> QED BY <3>1, <3>2, <3>3 DEF InOrder
  <2> QED BY <1>4, <2>1, <2>2
<1> HIDE DEF recs
<1>7. sock'[cfd].used
  BY <1>2, <1>3, <1>4, <1>6 DEF Send, Socket, recs
<1>8. phase'[cfd][id] = "begun" /\ \A fd \in Fds \ {cfd} : phase'[fd] = phase[fd]
  BY <1>5, Entered
<1>9. \A i \in Ids : Reach(cfd, i) = 0 /\ Reach(cfd, i)' = 1
  <2> SUFFICES ASSUME NEW i \in Ids PROVE Reach(cfd, i) = 0 /\ Reach(cfd, i)' = 1
    OBVIOUS
  <2>1. i = id
    BY DEF OneId
  <2> QED BY <1>1, <1>8, <2>1 DEF Reach, Level
<1>10. \A x \in Items(recs), i \in Ids :
         Rank(x) = 0 \/ (Rank(x) > Reach(cfd, i) /\ Rank(x) <= Reach(cfd, i)')
  BY <1>3, <1>6, <1>9
<1>11. Send(cfd, recs)
  BY <1>4 DEF recs
<1> QED BY <1>6, <1>7, <1>8, <1>9, <1>10, <1>11, SendWire

\* The next record of a request that is under way.
LEMMA NextWire ==
  ASSUME TypeOK, OneId, Wire, NEW cfd \in Fds, NEW id \in Ids, NEW rec \in Record, NEW p,
         Send(cfd, <<rec>>), Enter(cfd, id, p), phase[cfd][id] # "idle", p # "idle",
         Level(phase[cfd][id]) < Rank(rec), Rank(rec) = Level(p)
  PROVE  Wire' /\ Came(cfd)
<1>1. sock[cfd].used /\ sock \in [Fds -> Socket]
  BY DEF Wire, Unused, TypeOK, EnvTypeOK
<1>2. sock'[cfd].used
  BY <1>1 DEF Send, Socket
<1>3. phase'[cfd][id] = p /\ \A fd \in Fds \ {cfd} : phase'[fd] = phase[fd]
  BY Entered
<1>4. /\ Level(phase[cfd][id]) \in Nat /\ Level(p) \in Nat /\ Rank(rec) \in Nat
  BY Ranks
<1>5. \A i \in Ids : Reach(cfd, i) = Level(phase[cfd][id]) /\ Reach(cfd, i)' = Level(p)
  <2> SUFFICES ASSUME NEW i \in Ids
               PROVE  Reach(cfd, i) = Level(phase[cfd][id]) /\ Reach(cfd, i)' = Level(p)
    OBVIOUS
  <2>1. i = id
    BY DEF OneId
  <2> QED BY <1>1, <1>2, <1>3, <2>1 DEF Reach
<1>6. \A x \in Items(<<rec>>), i \in Ids :
         Rank(x) = 0 \/ (Rank(x) > Reach(cfd, i) /\ Rank(x) <= Reach(cfd, i)')
  BY <1>4, <1>5, OneRecord
<1>7. \A i \in Ids : Reach(cfd, i) <= Reach(cfd, i)'
  BY <1>4, <1>5
<1> QED BY <1>2, <1>3, <1>6, <1>7, OneRecord, SendWire

\* A record that names no request.
LEMMA BareWire ==
  ASSUME TypeOK, Wire, NEW cfd \in Fds, NEW type \in {"BAD", "PARTIAL"},
         Send(cfd, <<Bare(type)>>), UNCHANGED phase
  PROVE  Wire' /\ Came(cfd)
<1> DEFINE rec == Bare(type)
<1>1. rec \in Record /\ Rank(rec) = 0 /\ rec.type # "BEGIN"
  BY RecType DEF Rank, Bare, Rec
<1> HIDE DEF rec
<1>2. /\ <<rec>> \in Seq(Record) /\ <<rec>> # <<>> /\ InOrder(<<rec>>) /\ Items(<<rec>>) = {rec}
      /\ <<rec>>[Len(<<rec>>)] = rec
  BY <1>1, OneRecord
<1>3. sock \in [Fds -> Socket]
  BY DEF TypeOK, EnvTypeOK
<1>4. Send(cfd, <<rec>>)
  BY DEF rec
<1>5. sock'[cfd].used = sock[cfd].used
  BY <1>1, <1>2, <1>3, <1>4 DEF Send, Socket
<1>6. \A i : Reach(cfd, i)' = Reach(cfd, i) /\ Reach(cfd, i) \in Nat
  BY <1>5, Ranks DEF Reach
<1>7. ~sock'[cfd].used => \A i \in Ids : phase'[cfd][i] = "idle"
  BY <1>5 DEF Wire, Unused
<1>8. /\ \A x \in Items(<<rec>>) : Rank(x) = 0
      /\ \A i \in Ids : Reach(cfd, i) <= Reach(cfd, i)'
      /\ \A fd \in Fds \ {cfd} : phase'[fd] = phase[fd]
  BY <1>1, <1>2, <1>6
<1> QED BY <1>2, <1>4, <1>7, <1>8, SendWire

LEMMA StreamWire ==
  ASSUME TypeOK, OneId, Wire, NEW cfd \in Fds, NEW id \in Ids,
         PeerStream(cfd, id) \/ PeerAbort(cfd, id)
  PROVE  Wire' /\ Came(cfd)
<1> DEFINE was == phase[cfd][id]
<1>1. was \in Phase
  BY DEF TypeOK, EnvTypeOK
<1>2. CASE was = "begun" /\ \E len \in ParamLens : Send(cfd, <<Rec("PARAMS", id, len, FALSE)>>)
             /\ Enter(cfd, id, "params")
  <2>1. PICK len \in ParamLens : Send(cfd, <<Rec("PARAMS", id, len, FALSE)>>)
    BY <1>2
  <2> DEFINE rec == Rec("PARAMS", id, len, FALSE)
  <2>2. len \in Nat /\ len > 0
    BY ConstantsAssumption
  <2>3. rec \in Record /\ Rank(rec) = 2
    BY <2>2, RecType DEF Rec, Rank
  <2>4. Level(was) = 1 /\ Level("params") = 2
    BY <1>2 DEF Level
  <2> HIDE DEF rec
  <2>5. Send(cfd, <<rec>>)
    BY <2>1 DEF rec
  <2> QED BY <1>2, <2>3, <2>4, <2>5, NextWire
<1>3. CASE was \in {"begun", "params"} /\ Send(cfd, <<Rec("PARAMS", id, 0, FALSE)>>)
             /\ Enter(cfd, id, "params_end")
  <2> DEFINE rec == Rec("PARAMS", id, 0, FALSE)
  <2>1. rec \in Record
    BY RecType
  <2>2. rec.type = "PARAMS" /\ rec.len = 0
    BY DEF Rec
  <2>3. rec \in Record /\ Rank(rec) = 3
    <3> HIDE DEF rec
    <3>1. ~(rec.len > 0)
      BY <2>2
    <3> QED BY <2>1, <2>2, <3>1 DEF Rank
  <2>4. Level(was) < 3 /\ Level("params_end") = 3
    BY <1>3 DEF Level
  <2> HIDE DEF rec
  <2>5. Send(cfd, <<rec>>)
    BY <1>3 DEF rec
  <2> QED BY <1>3, <2>3, <2>4, <2>5, NextWire
<1>4. CASE was = "params_end" /\ \E len \in StdinLens : Send(cfd, <<Rec("STDIN", id, len, FALSE)>>)
             /\ Enter(cfd, id, "stdin")
  <2>1. PICK len \in StdinLens : Send(cfd, <<Rec("STDIN", id, len, FALSE)>>)
    BY <1>4
  <2> DEFINE rec == Rec("STDIN", id, len, FALSE)
  <2>2. len \in Nat /\ len > 0
    BY ConstantsAssumption
  <2>3. rec \in Record /\ Rank(rec) = 4
    BY <2>2, RecType DEF Rec, Rank
  <2>4. Level(was) = 3 /\ Level("stdin") = 4
    BY <1>4 DEF Level
  <2> HIDE DEF rec
  <2>5. Send(cfd, <<rec>>)
    BY <2>1 DEF rec
  <2> QED BY <1>4, <2>3, <2>4, <2>5, NextWire
<1>5. CASE was \in {"params_end", "stdin"} /\ Send(cfd, <<Rec("STDIN", id, 0, FALSE)>>)
             /\ Enter(cfd, id, "complete")
  <2> DEFINE rec == Rec("STDIN", id, 0, FALSE)
  <2>1. rec \in Record
    BY RecType
  <2>2. rec.type = "STDIN" /\ rec.len = 0
    BY DEF Rec
  <2>3. rec \in Record /\ Rank(rec) = 5
    <3> HIDE DEF rec
    <3>1. ~(rec.len > 0)
      BY <2>2
    <3> QED BY <2>1, <2>2, <3>1 DEF Rank
  <2>4. Level(was) < 5 /\ Level("complete") = 5
    BY <1>5 DEF Level
  <2> HIDE DEF rec
  <2>5. Send(cfd, <<rec>>)
    BY <1>5 DEF rec
  <2> QED BY <1>5, <2>3, <2>4, <2>5, NextWire
<1>6. CASE PeerAbort(cfd, id)
  <2> DEFINE rec == Rec("ABORT", id, 0, FALSE)
  <2>3. rec \in Record /\ Rank(rec) = 6
    BY RecType DEF Rec, Rank
  <2>4. Level(was) < 6 /\ Level("aborted") = 6 /\ was # "idle"
    BY <1>1, <1>6 DEF PeerAbort, Level, Phase
  <2> HIDE DEF rec
  <2>5. Send(cfd, <<rec>>) /\ Enter(cfd, id, "aborted")
    BY <1>6 DEF PeerAbort, rec
  <2> QED BY <2>3, <2>4, <2>5, NextWire
<1> QED BY <1>2, <1>3, <1>4, <1>5, <1>6 DEF PeerStream

\* A peer reads what it was sent, or closes.
LEMMA ReadWire ==
  ASSUME TypeOK, Wire, NEW cfd \in Fds, PeerRead(cfd) \/ \E hup \in BOOLEAN : PeerClose(cfd, hup)
  PROVE  Wire' /\ Came(cfd)
<1>1. sock \in [Fds -> Socket] /\ phase \in [Fds -> [Ids -> Phase]]
  BY DEF TypeOK, EnvTypeOK
<1>2. /\ UNCHANGED <<conn, g_conns>>
      /\ \E hup : \/ sock' = [sock EXCEPT ![cfd].tx = <<>>]
                  \/ sock' = [sock EXCEPT ![cfd].eof = TRUE, ![cfd].hup = hup, ![cfd].tx = <<>>]
  BY DEF PeerRead, PeerClose
<1>3. \A fd \in Fds : /\ sock'[fd].rx = sock[fd].rx /\ sock'[fd].used = sock[fd].used
                      /\ sock'[fd].st = sock[fd].st /\ sock'[fd].keep = sock[fd].keep
  <2>1. PICK hup : \/ sock' = [sock EXCEPT ![cfd].tx = <<>>]
                   \/ sock' = [sock EXCEPT ![cfd].eof = TRUE, ![cfd].hup = hup, ![cfd].tx = <<>>]
    BY <1>2
  <2>2. CASE sock' = [sock EXCEPT ![cfd].tx = <<>>]
    BY <1>1, <2>2 DEF Socket
  <2>3. CASE sock' = [sock EXCEPT ![cfd].eof = TRUE, ![cfd].hup = hup, ![cfd].tx = <<>>]
    BY <1>1, <2>3 DEF Socket
  <2> QED BY <2>1, <2>2, <2>3
<1>4. \A fd \in Fds, id \in Ids : phase'[fd][id] \in {phase[fd][id], "idle"}
  <2>1. CASE \E hup \in BOOLEAN : PeerClose(cfd, hup)
    BY <2>1 DEF PeerClose
  <2>2. CASE PeerRead(cfd)
    <3> DEFINE done(id) == \E i \in 1 .. Len(sock[cfd].tx) : sock[cfd].tx[i] = id
    <3>1. phase' = [phase EXCEPT ![cfd] = [id \in Ids |-> IF done(id) THEN "idle" ELSE @[id]]]
      BY <2>2 DEF PeerRead
    <3> HIDE DEF done
    <3> QED BY <1>1, <3>1
  <2> QED BY <2>1, <2>2
<1>7. \A fd \in Fds, id \in Ids : Reach(fd, id) <= Reach(fd, id)'
  <2> SUFFICES ASSUME NEW fd \in Fds, NEW id \in Ids PROVE Reach(fd, id) <= Reach(fd, id)'
    OBVIOUS
  <2>1. Reach(fd, id) \in 0 .. 7 /\ Reach(fd, id)' \in 0 .. 7
    BY Ranks
  <2>2. phase'[fd][id] = phase[fd][id] \/ (phase'[fd][id] = "idle" /\ sock'[fd].used)
    BY <1>3, <1>4 DEF Wire, Unused
  <2> QED BY <1>3, <2>1, <2>2 DEF Reach
<1>5. ASSUME NEW fd \in Fds PROVE Wired(fd)' /\ Unused(fd)'
  <2>1. Wired(fd) /\ Unused(fd)
    BY DEF Wire
  <2>2. Unused(fd)'
    BY <1>2, <1>3, <1>4, <2>1 DEF Unused
  <2>3. \A id \in Ids : Reach(fd, id) <= Reach(fd, id)'
    BY <1>7
  <2>4. \A x \in Items(conn[fd].in_buf) \cup Items(sock[fd].rx), id \in Ids :
           Rank(x) <= Reach(fd, id)'
    <3> SUFFICES ASSUME NEW x \in Items(conn[fd].in_buf) \cup Items(sock[fd].rx), NEW id \in Ids
                 PROVE  Rank(x) <= Reach(fd, id)'
      OBVIOUS
    <3>1. Rank(x) \in Int /\ Reach(fd, id) \in Int /\ Reach(fd, id)' \in Int
      BY Ranks
    <3>2. Rank(x) <= Reach(fd, id)
      BY <2>1 DEF Wired
    <3> QED BY <2>3, <3>1, <3>2
  <2> QED BY <1>2, <1>3, <2>1, <2>2, <2>4 DEF Wired
<1>6. \A fd \in Fds \ {cfd} : phase'[fd] = phase[fd]
  <2>1. CASE PeerRead(cfd)
    <3>1. \E f : phase' = [phase EXCEPT ![cfd] = f]
      <4> DEFINE f == [id \in Ids |->
           IF \E i \in 1 .. Len(sock[cfd].tx) : sock[cfd].tx[i] = id THEN "idle"
           ELSE phase[cfd][id]]
      <4>1. phase' = [phase EXCEPT ![cfd] = f]
        BY <1>1, <2>1 DEF PeerRead
      <4> QED BY <4>1
    <3> QED BY <1>1, <3>1
  <2> QED BY <2>1 DEF PeerClose
<1>8. Came(cfd)
  BY <1>3, <1>6, <1>7 DEF Came
<1> QED BY <1>5, <1>8 DEF Wire

LEMMA PeerWire ==
  ASSUME TypeOK, OneId, OneShot, Wire, Linked, NEW cfd \in Fds, Peer(cfd)
  PROVE  Wire' /\ Came(cfd)
<1>1. CASE PeerBad(cfd) \/ PeerPartial(cfd)
  BY <1>1, BareWire DEF PeerBad, PeerPartial
<1> QED BY <1>1, ConnectWire, BeginWire, StreamWire, ReadWire DEF Peer

LEMMA WireNext ==
  ASSUME TypeOK, OneId, OneShot, Tended, Linked, Wire, [Next]_vars
  PROVE  Wire'
<1>1. CASE \/ Aside \/ Flushing \/ Writing \/ Taking \/ ParseDefer \/ SweepErase
           \/ \E t \in running : TaskLeave(t)
  BY <1>1, StillWire, WireKept DEF Wire
<1>2. CASE \/ ParseEnd \/ ParseBad \/ CloseFd \/ \E e \in batch : IoEvent(e)
           \/ \E fd \in Fds : AcceptOne(fd) \/ Peer(fd)
  BY <1>2, ReturnWire, CloseWire, IoEventWire, AcceptWire, PeerWire
<1> QED BY <1>1, <1>2, StepCases

LEMMA InitWire == Init => Wire
<1> SUFFICES ASSUME Init, NEW fd \in Fds PROVE Wired(fd) /\ Unused(fd)
  BY DEF Wire
<1>1. conn[fd].in_buf = <<>> /\ sock[fd].rx = <<>> /\ ~sock[fd].used /\ ~sock[fd].keep
      /\ \A id \in Ids : phase[fd][id] = "idle"
  BY DEF Init, NewConnection, FreeSock
<1>2. Items(conn[fd].in_buf) = {} /\ Items(sock[fd].rx) = {}
      /\ InOrder(conn[fd].in_buf) /\ InOrder(sock[fd].rx)
  BY <1>1, NoItems
<1> QED BY <1>1, <1>2 DEF Wired, Unused

-----------------------------------------------------------------------------
(* The calls *)

\* Functions that call nothing while they are under way.
CallsOn == {"fcgi", "cleanup", "waiting", "waited"}

\* The function called first, and the cleanup, are on the stack once.
LEMMA FramesOnce ==
  ASSUME TypeOK, Loops, NEW f \in Frames, NEW g \in Frames
  PROVE  /\ f.pc \notin CallsOn /\ g.pc \notin CallsOn => f = g
         /\ f.pc = "cleanup" /\ g.pc = "cleanup" => f = g
         /\ f.pc = "cleanup" /\ g.pc \notin CallsOn => g.pc \in {"closing", "housekeeping"}
<1> DEFINE n == Len(stack)
<1>1. PICK i \in 1 .. n : f = stack[i]
  BY DEF Frames, Items
<1>2. PICK j \in 1 .. n : g = stack[j]
  BY DEF Frames, Items
<1>3. n \in Nat
  BY DEF TypeOK, IoTypeOK
<1>4. \A k \in 1 .. n - 1 : <<stack[k].pc, stack[k + 1].pc>> \in Calls
  BY DEF Loops, StackShape
<1> HIDE DEF n
<1>5. \A k \in 1 .. n : stack[k].pc \notin CallsOn => k = n
  <2> SUFFICES ASSUME NEW k \in 1 .. n, stack[k].pc \notin CallsOn, k # n PROVE FALSE
    OBVIOUS
  <2>1. k \in 1 .. n - 1
    BY <1>3
  <2> QED BY <1>4, <2>1 DEF Calls, CallsOn
<1>6. \A k \in 1 .. n : stack[k].pc = "cleanup" =>
        k = n \/ (k + 1 = n /\ stack[n].pc \in {"closing", "housekeeping"})
  <2> SUFFICES ASSUME NEW k \in 1 .. n, stack[k].pc = "cleanup", k # n
               PROVE  k + 1 = n /\ stack[n].pc \in {"closing", "housekeeping"}
    OBVIOUS
  <2>1. k \in 1 .. n - 1 /\ k + 1 \in 1 .. n
    BY <1>3
  <2>2. stack[k + 1].pc \in {"closing", "housekeeping"}
    BY <1>4, <2>1 DEF Calls
  <2> QED BY <1>5, <2>1, <2>2 DEF CallsOn
<1>7. f.pc \notin CallsOn /\ g.pc \notin CallsOn => f = g
  BY <1>1, <1>2, <1>5
<1>8. ASSUME f.pc = "cleanup", g.pc = "cleanup" PROVE f = g
  <2>1. i = n \/ (i + 1 = n /\ stack[n].pc # "cleanup")
    BY <1>1, <1>6, <1>8
  <2>2. j = n \/ (j + 1 = n /\ stack[n].pc # "cleanup")
    BY <1>2, <1>6, <1>8
  <2>3. i = j
    BY <1>1, <1>2, <1>3, <1>8, <2>1, <2>2
  <2> QED BY <1>1, <1>2, <2>3
<1>9. ASSUME f.pc = "cleanup", g.pc \notin CallsOn PROVE g.pc \in {"closing", "housekeeping"}
  <2>1. j = n
    BY <1>2, <1>5, <1>9
  <2>2. i # n
    BY <1>1, <1>2, <1>9, <2>1 DEF CallsOn
  <2> QED BY <1>1, <1>2, <1>6, <1>9, <2>1, <2>2
<1> QED BY <1>7, <1>8, <1>9

\* While process_fcgi runs, the IO thread does nothing else.
LEMMA FcgiSteps ==
  ASSUME At("fcgi"), [Next]_vars
  PROVE  \/ ParseStep
         \/ UNCHANGED stack /\ (Workers \/ WsThreads \/ Undefined \/ UNCHANGED vars)
<1>1. stack # <<>> /\ Head(stack).pc = "fcgi" /\ Top.pc = "fcgi"
  BY DEF At, Top
<1>2. ~LoopStep /\ ~TimerTick
  BY <1>1 DEF LoopStep, EpollWait, Dispatching, ListenEvent, EventFdEvent, TimerEvent, IoEvent,
     IoStale, TimerTick
<1>3. ~AcceptStep /\ ~PendingStep
  BY <1>1 DEF AcceptStep, AcceptDone, AcceptOne, PendingStep, SwapPending, PendingAnswer,
     PendingSkip, PendingFault, PendingDone, At
<1>4. ~HandleStep /\ ~CloseStep
  BY <1>1 DEF HandleStep, AfterParse, OutFlush, SweepErase, SweepDone, SweepFree, SweepKeep,
     CloseStep, CloseQueued, CloseQueueDone, CloseFd, CleanupOne, At
<1>5. ~HousekeepingStep /\ ~WaitingStep
  BY <1>1 DEF HousekeepingStep, ExpireDone, HousekeepingDone, HousekeepingClose, Expire,
     WaitingStep, WaitingNext, WaitingDone, WaitedServed, WaitedAgain, At
<1>6. ~AtSystemCall
  BY <1>1 DEF AtSystemCall
<1>7. Workers \/ WsThreads \/ Undefined \/ UNCHANGED vars => UNCHANGED stack
  BY DEF Workers, TaskStart, TaskFault, TaskPush, TaskInactive, TaskLeave, WsThreads, WsGet,
     WsRelease, Undefined, vars
<1> QED BY <1>2, <1>3, <1>4, <1>5, <1>6, <1>7 DEF Next, IoThread

\* Steps of the stack that do not lead to process_fcgi.
LEMMA NoEntry ==
  ASSUME TypeOK, TypeOK', Loops, ~At("fcgi")
  PROVE  /\ UNCHANGED stack => ~At("fcgi")'
         /\ \A g : Call(<<g>>) /\ g.pc # "fcgi" => ~At("fcgi")'
         /\ stack # <<>> =>
              /\ Return => ~At("fcgi")'
              /\ \A f : Become(f) /\ f.pc # "fcgi" => ~At("fcgi")'
              /\ \A f : \A a : ReleaseRequest(a, f) /\ f \in StackFrame /\ f.pc # "fcgi"
                                 => ~At("fcgi")'
<1>1. UNCHANGED stack => ~At("fcgi")'
  BY DEF At
<1>2. ASSUME NEW g, Call(<<g>>), g.pc # "fcgi" PROVE ~At("fcgi")'
  <2>1. g \in StackFrame
    BY <1>2, IntoStack
  <2> QED BY <1>2, <2>1, NewTop DEF At, Top
<1>3. ASSUME stack # <<>>, Return PROVE ~At("fcgi")'
  <2>1. Frames' = Below
    BY <1>3, StackFrames
  <2>2. stack' # <<>> => Top' \in Frames'
    <3>1. stack' \in Seq(StackFrame)
      BY DEF TypeOK, IoTypeOK
    <3> QED BY <3>1 DEF Frames, Items, Top
  <2> QED BY <1>3, <2>1, <2>2, FcgiOnTop DEF At, Top
<1>4. ASSUME NEW f, stack # <<>>, Become(f), f.pc # "fcgi" PROVE ~At("fcgi")'
  <2>1. f \in StackFrame
    BY <1>4, IntoStack
  <2> QED BY <1>4, <2>1, NewTop DEF At, Top
<1>5. ASSUME NEW f \in StackFrame, NEW a, stack # <<>>, ReleaseRequest(a, f), f.pc # "fcgi"
      PROVE  ~At("fcgi")'
  <2>1. CallFrom(f, WaitingFrames)
    BY <1>5 DEF ReleaseRequest
  <2>2. CASE WaitingFrames = <<>>
    BY <1>5, <2>1, <2>2, NewTop DEF At, Top
  <2>3. CASE WaitingFrames # <<>>
    <3> DEFINE k == available_count'
               m == Len(g_waiting_conns)
               g == [Frame("waiting", NoFd) EXCEPT !.n = k, !.m = m]
    <3>1. WaitingFrames = <<g>>
      BY <2>3 DEF WaitingFrames
    <3> HIDE DEF k, m
    <3>3. g.pc = "waiting"
      BY DEF Frame
    <3> HIDE DEF g
    <3>2. g \in StackFrame
      BY <1>5, <2>1, <3>1, IntoStack
    <3> QED BY <1>5, <2>1, <3>1, <3>2, <3>3, NewTop DEF At, Top
  <2> QED BY <2>2, <2>3
<1> QED BY <1>1, <1>2, <1>3, <1>4, <1>5

\* Functions that neither handle a connection nor close any.
MinorPC == {"accept", "swap", "pending", "expire", "housekeeping"}

Minor ==
  \/ stack = <<>> /\ \E g : Call(<<g>>) /\ g.pc \in MinorPC \ {"housekeeping"}
  \/ /\ stack # <<>> /\ Top.pc \in MinorPC
     /\ Return \/ \E f : Become(f) /\ f.pc \in MinorPC /\ (f.pc = "housekeeping" => ExpireDone)

\* process_waiting_connections goes on, or ends.
Serving ==
  /\ stack # <<>> /\ Top.pc \in {"waiting", "waited"}
  /\ Return \/ \E f : Become(f) /\ f.pc = "waiting"

LEMMA StackCases ==
  ASSUME TypeOK, [Next]_vars
  PROVE  \/ UNCHANGED <<stack, closing>>
         \/ UNCHANGED closing /\ (Minor \/ Serving)
         \/ ParseStep \/ WaitingNext
         \/ \E e \in batch : IoEvent(e)
         \/ AfterParse \/ OutFlush \/ SweepErase \/ SweepDone
         \/ \E id \in Ids : SweepFree(id) \/ SweepKeep(id) \/ CleanupOne(id)
         \/ CloseQueued \/ CloseQueueDone \/ CloseFd
         \/ \E fd \in Fds : HousekeepingClose(fd)
<1>1. \A pc, fd : Frame(pc, fd).pc = pc
  BY DEF Frame
<1>2. CASE EpollWait \/ \E e \in batch : IoStale(e)
  BY <1>2 DEF EpollWait, IoStale
<1>3. CASE \E e \in batch : ListenEvent(e) \/ EventFdEvent(e) \/ TimerEvent(e)
  <2>1. stack = <<>> /\ UNCHANGED closing
    BY <1>3 DEF ListenEvent, EventFdEvent, TimerEvent, Dispatching
  <2>2. \/ UNCHANGED stack
        \/ \E pc \in {"accept", "swap", "expire"} : Call(<<Frame(pc, NoFd)>>)
    BY <1>3 DEF ListenEvent, EventFdEvent, TimerEvent
  <2> QED BY <1>1, <2>1, <2>2 DEF Minor, MinorPC
<1>4. CASE AcceptStep \/ PendingStep
  <2>1. stack # <<>> /\ Top.pc \in MinorPC /\ UNCHANGED closing
    BY <1>4 DEF PendingStep, SwapPending, PendingAnswer, PendingSkip, PendingFault,
                PendingDone, AcceptStep, AcceptOne, AcceptDone, At, Top, MinorPC
  <2>2. UNCHANGED stack \/ Return \/ Become(Frame("pending", NoFd))
    BY <1>4 DEF PendingStep, SwapPending, PendingAnswer, PendingSkip, PendingFault,
                PendingDone, AcceptStep, AcceptOne, AcceptDone
  <2> QED BY <1>1, <2>1, <2>2 DEF Minor, MinorPC
<1>5. CASE ExpireDone \/ HousekeepingDone
  <2>1. stack # <<>> /\ Top.pc \in MinorPC /\ UNCHANGED closing
    BY <1>5 DEF ExpireDone, HousekeepingDone, At, Top, MinorPC
  <2>2. Return \/ (ExpireDone /\ Become(Frame("housekeeping", NoFd)))
    BY <1>5 DEF ExpireDone, HousekeepingDone
  <2> QED BY <1>1, <2>1, <2>2 DEF Minor, MinorPC
<1>6. CASE WaitingDone \/ WaitedServed \/ WaitedAgain
  <2>1. stack # <<>> /\ Top.pc \in {"waiting", "waited"} /\ UNCHANGED closing
    BY <1>6 DEF WaitingDone, WaitedServed, WaitedAgain, At, Top
  <2> DEFINE n == IF WaitedServed THEN Top.n - 1 ELSE Top.n
             f == [Frame("waiting", NoFd) EXCEPT !.n = n, !.m = Top.m]
  <2>2. Return \/ Become(f)
    <3>1. CASE WaitedServed
      BY <3>1 DEF WaitedServed
    <3>2. CASE ~WaitedServed
      BY <1>6, <3>2 DEF WaitingDone, WaitedAgain
    <3> QED BY <3>1, <3>2
  <2>3. f.pc = "waiting"
    <3> HIDE DEF n
    <3> QED BY DEF Frame
  <2> HIDE DEF f
  <2> QED BY <2>1, <2>2, <2>3 DEF Serving
<1>7. CASE \/ Workers \/ WsThreads \/ TimerTick \/ Undefined \/ UNCHANGED vars
           \/ \E fd \in Fds, id \in Ids : Expire(fd, id)
  BY <1>7 DEF Workers, TaskStart, TaskFault, TaskPush, TaskInactive, TaskLeave, WsThreads,
     WsGet, WsRelease, TimerTick, Undefined, vars, Expire
<1>8. CASE \E fd \in Fds : Peer(fd)
  BY <1>8, PeerUnchanged
<1> QED BY <1>2, <1>3, <1>4, <1>5, <1>6, <1>7, <1>8
     DEF Next, IoThread, LoopStep, HandleStep, CloseStep, HousekeepingStep, WaitingStep

\* A loop frees the request of an entry, and goes on as frame under.
Releases(a, id, under) ==
  /\ stack # <<>> /\ Top.fd \in g_conns /\ Top.fd \in Fds
  /\ id \in Top.ids /\ a = conn[Top.fd].requests[id] /\ a # NoArena /\ EntryLives(Top.fd, id)
  /\ under \in StackFrame /\ under.fd = Top.fd /\ under.ids = Top.ids \ {id}
  /\ ReleaseRequest(a, under)
  /\ under \in Frames' /\ Below \subseteq Frames'
  /\ \A f \in Frames' : f = under \/ f \in Below \/ f.pc = "waiting"

LEMMA ReleaseStack ==
  ASSUME TypeOK, TypeOK', stack # <<>>, NEW a, NEW under \in StackFrame,
         ReleaseRequest(a, under)
  PROVE  under \in Frames' /\ Below \subseteq Frames'
<1>1. CallFrom(under, WaitingFrames)
  BY DEF ReleaseRequest
<1>2. CASE WaitingFrames = <<>>
  <2>1. CallFrom(under, <<>>)
    BY <1>1, <1>2
  <2> QED BY <2>1, StackFrames
<1>3. CASE WaitingFrames # <<>>
  <2> DEFINE k == available_count'
             m == Len(g_waiting_conns)
             g == [Frame("waiting", NoFd) EXCEPT !.n = k, !.m = m]
  <2>1. WaitingFrames = <<g>>
    BY <1>3 DEF WaitingFrames
  <2>2. CallFrom(under, <<g>>)
    BY <1>1, <2>1
  <2> HIDE DEF g
  <2>4. g \in StackFrame
    BY <2>2, IntoStack
  <2>5. Frames' = {under, g} \cup Below
    BY <2>2, <2>4, StackFrames
  <2> QED BY <2>5
<1> QED BY <1>2, <1>3

LEMMA SweepFreeIs ==
  ASSUME TypeOK, TypeOK', Loops, Tended, NEW id \in Ids, SweepFree(id)
  PROVE  \E a \in Arena, under \in StackFrame :
           /\ Releases(a, id, under) /\ Sweepable(req[a])
           /\ Top.pc = "sweep" /\ Below = {} /\ under.pc = "erase" /\ under.id = id
<1> DEFINE fd == Top.fd
           a == conn[fd].requests[id]
           under == [Top EXCEPT !.pc = "erase", !.id = id, !.ids = @ \ {id}]
<1>1. /\ stack # <<>> /\ Top.pc = "sweep" /\ a # NoArena /\ ReleaseRequest(a, under)
      /\ id \in Top.ids /\ Sweepable(req[a])
  BY DEF SweepFree, At, Top
<1>2. Top \in StackFrame /\ fd \in g_conns /\ fd \in Fds /\ Below = {} /\ Frames = {Top} \cup Below
  BY <1>1, TopServed, AloneFrames, StackFrames DEF FdPC, TypeOK, ObjTypeOK
<1>3. a \in Arena
  BY <1>1, <1>2 DEF TypeOK, ObjTypeOK, Connection
<1>4. EntryLives(fd, id)
  BY <1>1, <1>2 DEF Tended, Entries, Dooms
<1>5. under.pc = "erase" /\ under.id = id /\ under.fd = fd /\ under.ids = Top.ids \ {id}
  BY <1>2 DEF StackFrame, FrameOf
<1>6. under \in StackFrame
  BY <1>1, <1>2 DEF StackFrame, FrameOf, FdPC, LoopPC
<1> HIDE DEF under
<1>7. \A f \in Frames' : f = under \/ f \in Below \/ f.pc = "waiting"
  BY <1>1, <1>6, ReleaseFrames
<1>8. under \in Frames' /\ Below \subseteq Frames'
  BY <1>1, <1>6, ReleaseStack
<1>9. Releases(a, id, under)
  BY <1>1, <1>2, <1>4, <1>5, <1>6, <1>7, <1>8 DEF Releases
<1> QED BY <1>1, <1>2, <1>3, <1>5, <1>6, <1>9

LEMMA CleanupOneIs ==
  ASSUME TypeOK, TypeOK', Loops, Tended, NEW id \in Ids, CleanupOne(id)
  PROVE  \E a \in Arena, under \in StackFrame :
           /\ Releases(a, id, under) /\ Top.pc = "cleanup" /\ under.pc = "cleanup"
           /\ \A f \in Below : f.pc \in {"closing", "housekeeping"}
<1> DEFINE fd == Top.fd
           a == conn[fd].requests[id]
           under == [Top EXCEPT !.ids = @ \ {id}]
<1>1. stack # <<>> /\ Top.pc = "cleanup" /\ id \in Top.ids /\ ReleaseRequest(a, under)
  BY DEF CleanupOne, At, Top
<1>2. /\ Top \in StackFrame /\ fd \in g_conns /\ fd \in Fds /\ Frames = {Top} \cup Below
      /\ \A f \in Below : f.pc \in {"closing", "housekeeping"}
  BY <1>1, TopServed, CleanupFrames, StackFrames DEF FdPC, TypeOK, ObjTypeOK
<1>3. a \in Arena /\ a # NoArena
  <2>1. VisitsMapped(Top, conn)
    BY <1>1, TopFrame
  <2>2. a # NoArena
    BY <1>1, <2>1 DEF VisitsMapped, Mapped
  <2> QED BY <1>2, <2>2 DEF TypeOK, ObjTypeOK, Connection
<1>4. EntryLives(fd, id)
  <2>1. \A f \in Frames : ~Dooms(f, fd, id)
    BY <1>1, <1>2 DEF Dooms
  <2> QED BY <1>2, <1>3, <2>1 DEF Tended, Entries
<1>5. under.pc = "cleanup" /\ under.ids = Top.ids \ {id} /\ under.fd = fd
  BY <1>1, <1>2 DEF StackFrame, FrameOf
<1>6. under \in StackFrame
  BY <1>2 DEF StackFrame, FrameOf
<1> HIDE DEF under
<1>7. \A f \in Frames' : f = under \/ f \in Below \/ f.pc = "waiting"
  BY <1>1, <1>6, ReleaseFrames
<1>8. under \in Frames' /\ Below \subseteq Frames'
  BY <1>1, <1>6, ReleaseStack
<1>9. Releases(a, id, under)
  BY <1>1, <1>2, <1>3, <1>4, <1>5, <1>6, <1>7, <1>8 DEF Releases
<1> QED BY <1>1, <1>2, <1>3, <1>5, <1>6, <1>9

\* process_fcgi is called from two places.
LEMMA EntryCases ==
  ASSUME TypeOK, TypeOK', Loops, Tended, [Next]_vars, ~At("fcgi"), At("fcgi")'
  PROVE  \/ WaitingNext
         \/ \E e \in batch : IoEvent(e)
<1> SUFFICES ASSUME ~WaitingNext, ~\E e \in batch : IoEvent(e) PROVE FALSE
  OBVIOUS
<1>1. \A pc, fd : Frame(pc, fd).pc = pc
  BY DEF Frame
<1>2. \A fd : SweepFrame(fd).pc = "sweep" /\ CleanupFrame(fd).pc = "cleanup"
  BY DEF SweepFrame, CleanupFrame, Frame
<1>3. stack # <<>> => Top \in StackFrame
  BY TopFrame
<1>4. ~ParseStep
  BY DEF ParseStep, ParseEnd, ParseBad, ParseDefer, ParseSkip, ParseNew, ParseKnown, ParseFault
<1>5. CASE UNCHANGED stack \/ Minor \/ Serving
  BY <1>5, NoEntry DEF Minor, Serving, MinorPC
<1>6. CASE AfterParse \/ OutFlush \/ SweepDone
  <2>1. stack # <<>>
    BY <1>6 DEF AfterParse, OutFlush, SweepDone, At
  <2>2. \/ Become(Frame("outflush", Top.fd)) \/ Become(SweepFrame(Top.fd))
        \/ Become(Frame("closing", NoFd))
    BY <1>6 DEF AfterParse, OutFlush, SweepDone
  <2> QED BY <1>1, <1>2, <2>1, <2>2, NoEntry
<1>7. CASE SweepErase \/ \E id \in Ids : SweepKeep(id)
  <2>1. stack # <<>>
    BY <1>7 DEF SweepErase, SweepKeep, At
  <2>2. \E f : Become(f) /\ f.pc = "sweep"
    <3>1. CASE SweepErase
      <4> DEFINE f == [Top EXCEPT !.pc = "sweep", !.id = NoId]
      <4>1. Become(f)
        BY <3>1 DEF SweepErase
      <4>2. f.pc = "sweep"
        BY <1>3, <2>1 DEF StackFrame, FrameOf
      <4> QED BY <4>1, <4>2
    <3>2. ASSUME NEW id \in Ids, SweepKeep(id) PROVE \E f : Become(f) /\ f.pc = "sweep"
      <4> DEFINE f == [Top EXCEPT !.ids = @ \ {id}]
      <4>1. Become(f) /\ Top.pc = "sweep"
        BY <3>2 DEF SweepKeep, At, Top
      <4>2. f.pc = "sweep"
        BY <1>3, <2>1, <4>1 DEF StackFrame, FrameOf
      <4> QED BY <4>1, <4>2
    <3> QED BY <1>7, <3>1, <3>2
  <2> QED BY <2>1, <2>2, NoEntry
<1>8. ASSUME NEW id \in Ids, SweepFree(id) \/ CleanupOne(id) PROVE FALSE
  <2>1. PICK a \in Arena, under \in StackFrame : Releases(a, id, under) /\ under.pc \in {"erase", "cleanup"}
    BY <1>8, SweepFreeIs, CleanupOneIs
  <2> QED BY <2>1, NoEntry DEF Releases
<1>9. CASE CloseQueued \/ \E fd \in Fds : HousekeepingClose(fd)
  <2>1. UNCHANGED stack \/ \E fd : Call(<<CleanupFrame(fd)>>)
    BY <1>9 DEF CloseQueued, HousekeepingClose
  <2> QED BY <1>2, <2>1, NoEntry
<1>10. CASE CloseQueueDone \/ CloseFd
  BY <1>10, NoEntry DEF CloseQueueDone, CloseFd, At
<1> QED BY <1>4, <1>5, <1>6, <1>7, <1>8, <1>9, <1>10, StackCases

LEMMA BelowCall ==
  ASSUME TypeOK, stack # <<>>, NEW f \in StackFrame, NEW g \in StackFrame, CallFrom(f, <<g>>)
  PROVE  Below' = {f} \cup Below
<1> DEFINE rest == Tail(stack)
           s == <<f>> \o rest
<1>1. stack \in Seq(StackFrame) /\ rest \in Seq(StackFrame)
  BY DEF TypeOK, IoTypeOK
<1>2. Items(s) = {f} \cup Items(rest) /\ s \in Seq(StackFrame)
  <2> HIDE DEF rest
  <2> QED BY <1>1, FramesAre
<1>3. stack' = <<g>> \o s
  BY <1>1 DEF CallFrom
<1> HIDE DEF s
<1>4. Tail(stack') = s
  BY <1>2, <1>3, Pushed
<1> QED BY <1>2, <1>4 DEF Below

LEMMA IoEntry ==
  ASSUME TypeOK, TypeOK', NEW e \in batch, IoEvent(e)
  PROVE  /\ stack = <<>> /\ stack' # <<>>
         /\ \E x \in Frames' : x.fd = e.fd /\ x.pc \in {"parsed", "outflush", "sweep"}
         /\ At("fcgi")' => /\ Top' = Frame("fcgi", e.fd)
                           /\ \E x : Below' = {x} /\ x.pc = "parsed" /\ x.fd = e.fd
<1> DEFINE fr == Frame("fcgi", e.fd)
<1>0. stack' \in Seq(StackFrame) /\ stack = <<>>
  BY IoEventStack DEF TypeOK, IoTypeOK
<1>1. fr.pc = "fcgi" /\ e.fd \in Fds
  BY IoEventStack DEF Frame
<1>2. fr \in StackFrame
  BY <1>1, FrameType DEF FdPC
<1> HIDE DEF fr
<1>3. CASE \E x : x.pc \in {"outflush", "sweep"} /\ x.fd = e.fd /\ Call(<<x>>)
  <2>1. PICK x : x.pc \in {"outflush", "sweep"} /\ x.fd = e.fd /\ Call(<<x>>)
    BY <1>3
  <2>2. x \in StackFrame
    BY <2>1, IntoStack
  <2>3. Frames' = {x} \cup Frames /\ stack' # <<>> /\ Top' = x
    BY <2>1, <2>2, CallFrames, NewTop
  <2> QED BY <1>0, <2>1, <2>3 DEF At, Top
<1>4. CASE \E x : x.pc = "parsed" /\ x.fd = e.fd /\ stack' = <<x>>
  <2>1. PICK x : x.pc = "parsed" /\ x.fd = e.fd /\ stack' = <<x>>
    BY <1>4
  <2>2. x \in StackFrame
    <3>1. 1 \in 1 .. Len(stack') /\ stack'[1] = x
      BY <2>1
    <3> QED BY <1>0, <3>1
  <2>3. Frames' = {x} /\ stack' # <<>> /\ Head(stack') = x
    <3>1. Frames' = Items(<<x>>)
      BY <2>1 DEF Frames
    <3>2. Items(<<x>>) = {x}
      BY <2>2, FewFrames
    <3>3. <<x>> # <<>> /\ Head(<<x>>) = x
      OBVIOUS
    <3> QED BY <2>1, <3>1, <3>2, <3>3
  <2> QED BY <1>0, <2>1, <2>3 DEF At, Top
<1>5. CASE \E x : x.pc = "parsed" /\ x.fd = e.fd /\ stack' = <<fr>> \o <<x>>
  <2>1. PICK x : x.pc = "parsed" /\ x.fd = e.fd /\ stack' = <<fr>> \o <<x>>
    BY <1>5
  <2>3. x \in StackFrame
    <3>1. Call(<<fr>> \o <<x>>)
      <4>1. (<<fr>> \o <<x>>) \o <<>> = <<fr>> \o <<x>>
        <5> DEFINE S == {fr, x}
        <5>1. fr \in S /\ x \in S
          OBVIOUS
        <5> HIDE DEF S
        <5> QED BY <5>1, SmallStacks
      <4> QED BY <1>0, <2>1, <4>1, Zenon DEF Call
    <3>2. 2 \in 1 .. Len(stack') /\ stack'[2] = x
      <4> DEFINE S == {fr, x}
      <4>1. fr \in S /\ x \in S
        OBVIOUS
      <4> HIDE DEF S
      <4>2. <<fr>> \in Seq(S) /\ <<x>> \in Seq(S)
        BY <4>1
      <4>3. Len(<<fr>> \o <<x>>) = 2 /\ (<<fr>> \o <<x>>)[2] = x
        BY <4>1, <4>2
      <4> QED BY <2>1, <4>3
    <3> QED BY <1>0, <3>2
  <2>4. stack' # <<>> /\ Top' = fr /\ Below' = {x} /\ Frames' = {fr, x}
    <3>1. <<x>> \in Seq(StackFrame)
      BY <2>3
    <3>2. Head(stack') = fr /\ Tail(stack') = <<x>> /\ stack' # <<>>
      BY <1>2, <2>1, <3>1, Pushed
    <3> QED BY <1>2, <2>1, <2>3, <3>2, FewFrames DEF Top, Below, Frames
  <2> QED BY <1>0, <2>1, <2>4 DEF fr
<1>6. \/ \E x : x.pc \in {"outflush", "sweep"} /\ x.fd = e.fd /\ Call(<<x>>)
      \/ \E x : x.pc = "parsed" /\ x.fd = e.fd /\ (stack' = <<x>> \/ stack' = <<fr>> \o <<x>>)
  <2>1. CASE e.in
    BY <2>1, IoEventStack DEF fr
  <2>2. CASE ~e.in
    <3> DEFINE x == IF e.out THEN Frame("outflush", e.fd) ELSE SweepFrame(e.fd)
    <3>1. Call(<<x>>)
      BY <2>2 DEF IoEvent
    <3>2. x.pc \in {"outflush", "sweep"} /\ x.fd = e.fd
      BY DEF Frame, SweepFrame
    <3> QED BY <3>1, <3>2
  <2> QED BY <2>1, <2>2
<1> QED BY <1>3, <1>4, <1>5, <1>6

LEMMA WaitingEntry ==
  ASSUME TypeOK, TypeOK', WaitingNext
  PROVE  /\ stack # <<>> /\ Top.pc = "waiting" /\ Below \subseteq Frames'
         /\ UNCHANGED <<conn, g_conns, req, sock, phase, queue, running, closing, to_close>>
         /\ At("fcgi")' =>
              \E fd \in g_conns, f \in StackFrame :
                /\ ~conn[fd].closed /\ Top' = Frame("fcgi", fd)
                /\ f.pc = "waited" /\ f.fd = fd
                /\ \A g \in Below' : g = f \/ g \in Below
<1> DEFINE fd == Head(g_waiting_conns)
           was == conn[fd].waiting_for_arena
           next == [Top EXCEPT !.m = @ - 1]
           serve == [next EXCEPT !.pc = "waited", !.fd = fd, !.was = was]
           fr == Frame("fcgi", fd)
<1>1. /\ stack # <<>> /\ Top.pc = "waiting"
      /\ UNCHANGED <<conn, g_conns, req, sock, phase, queue, running, closing, to_close>>
  BY DEF WaitingNext, At, Top
<1>2. Top \in StackFrame
  BY <1>1, TopFrame
<1>3. next.pc = "waiting" /\ fr.pc = "fcgi" /\ fr.fd = fd
  BY <1>1, <1>2 DEF StackFrame, FrameOf, Frame
<1>4. serve.pc = "waited" /\ serve.fd = fd
  <2> HIDE DEF fd, was
  <2> QED BY <1>2 DEF StackFrame, FrameOf
<1>5. \/ Become(next)
      \/ fd \in g_conns /\ ~conn[fd].closed /\ CallFrom(serve, <<fr>>)
  BY DEF WaitingNext
<1> HIDE DEF next, serve, fr, fd, was
<1>6. CASE Become(next)
  <2>1. next \in StackFrame
    BY <1>1, <1>6, IntoStack
  <2>2. Frames' = {next} \cup Below /\ Top' = next /\ stack' # <<>>
    BY <1>1, <1>6, <2>1, StackFrames, NewTop
  <2> QED BY <1>1, <1>3, <2>2 DEF At, Top
<1>7. CASE fd \in g_conns /\ ~conn[fd].closed /\ CallFrom(serve, <<fr>>)
  <2>1. serve \in StackFrame /\ fr \in StackFrame
    BY <1>1, <1>7, IntoStack
  <2>2. Frames' = {serve, fr} \cup Below /\ Top' = fr /\ stack' # <<>>
    BY <1>1, <1>7, <2>1, StackFrames, NewTop
  <2>3. Below' = {serve} \cup Below
    BY <1>1, <1>7, <2>1, BelowCall
  <2> QED BY <1>1, <1>3, <1>4, <1>7, <2>1, <2>2, <2>3 DEF fr
<1> QED BY <1>5, <1>6, <1>7

-----------------------------------------------------------------------------
(* What is still to come *)

\* The records of fd that process_fcgi has gone past.
Past(fd) == IF At("fcgi") /\ Top.fd = fd THEN Top.n ELSE 0

Unread(fd) == {conn[fd].in_buf[k] : k \in Past(fd) + 1 .. Len(conn[fd].in_buf)}

ToCome(fd) == Unread(fd) \cup Items(sock[fd].rx)

\* The only request of the connection has not been begun.
Virgin(fd) == ~sock[fd].used \/ \E x \in ToCome(fd) : x.type = "BEGIN"

\* A step that brings nothing new for fd.
NoneNew(fd) ==
  /\ ToCome(fd)' \subseteq ToCome(fd)
  /\ sock'[fd].used = sock[fd].used /\ phase'[fd] = phase[fd]

LEMMA PastIs ==
  ASSUME TypeOK
  PROVE  \A fd : Past(fd) \in Nat
<1>1. At("fcgi") => Top \in StackFrame
  BY TopFrame DEF At
<1>2. \A f \in StackFrame : f.n \in Nat
  BY DEF StackFrame, FrameOf
<1> QED BY <1>1, <1>2 DEF Past

LEMMA PastSteps ==
  ASSUME TypeOK, TypeOK', Loops, Tended, [Next]_vars, ~ParseStep
  PROVE  \A fd : Past(fd)' = Past(fd)
<1>1. CASE At("fcgi")
  <2>1. UNCHANGED stack
    BY <1>1, FcgiSteps
  <2> QED BY <2>1 DEF Past, At, Top
<1>2. CASE ~At("fcgi") /\ ~At("fcgi")'
  BY <1>2 DEF Past
<1>3. CASE ~At("fcgi") /\ At("fcgi")'
  <2>1. \E gd : Top' = Frame("fcgi", gd)
    BY <1>3, EntryCases, IoEntry, WaitingEntry
  <2>2. Top'.n = 0
    BY <2>1 DEF Frame
  <2> QED BY <1>3, <2>2 DEF Past
<1> QED BY <1>1, <1>2, <1>3

LEMMA ReturnsHigher ==
  ASSUME TypeOK, TypeOK', Loops, At("fcgi"), Return
  PROVE  ~At("fcgi")'
<1>1. Frames' = Below
  BY StackFrames DEF At
<1>2. stack' # <<>> => Top' \in Frames'
  <2>1. stack' \in Seq(StackFrame)
    BY DEF TypeOK, IoTypeOK
  <2> QED BY <2>1 DEF Frames, Items, Top
<1> QED BY <1>1, <1>2, FcgiOnTop DEF At, Top

LEMMA PastParse ==
  ASSUME TypeOK, TypeOK', Loops, ParseStep
  PROVE  /\ At("fcgi") /\ stack # <<>> /\ Top \in StackFrame /\ Top.fd \in Fds
         /\ ParseEnd \/ ParseBad \/ ParseDefer => \A fd : Past(fd)' = 0
         /\ ParseSkip \/ Taking =>
              /\ At("fcgi")' /\ Top' = [Top EXCEPT !.n = @ + 1] /\ Below' = Below
              /\ \A fd : Past(fd)' = IF fd = Top.fd THEN Past(fd) + 1 ELSE 0
         /\ (\E a \in Arena : ParseFault(a)) => UNCHANGED vars \/ UNCHANGED <<stack, conn, sock, phase>>
<1>1. At("fcgi") /\ stack # <<>> /\ Top.pc = "fcgi"
  BY DEF ParseStep, ParseEnd, ParseBad, ParseDefer, ParseSkip, ParseNew, ParseKnown, ParseFault,
     At, Top
<1>2. Top \in StackFrame
  BY <1>1, TopFrame
<1>3. Top.fd \in Fds
  BY <1>1, <1>2 DEF StackFrame, FrameOf, LoopPC
<1>4. ParseEnd \/ ParseBad \/ ParseDefer => \A fd : Past(fd)' = 0
  <2>1. ParseEnd \/ ParseBad \/ ParseDefer => Return
    BY DEF ParseEnd, ParseBad, ParseDefer
  <2> QED BY <1>1, <2>1, ReturnsHigher DEF Past
<1>5. ASSUME ParseSkip \/ Taking
      PROVE  /\ At("fcgi")' /\ Top' = [Top EXCEPT !.n = @ + 1] /\ Below' = Below
             /\ \A fd : Past(fd)' = IF fd = Top.fd THEN Past(fd) + 1 ELSE 0
  <2> DEFINE f == [Top EXCEPT !.n = @ + 1]
  <2>1. Become(f)
    <3>1. CASE ParseSkip
      BY <3>1 DEF ParseSkip
    <3>2. CASE Taking
      BY <3>2, ParseDelivers DEF Taking
    <3> QED BY <1>5, <3>1, <3>2
  <2>2. f \in StackFrame
    BY <1>1, <2>1, IntoStack
  <2>3. f.pc = "fcgi" /\ f.fd = Top.fd /\ f.n = Top.n + 1
    BY <1>1, <1>2 DEF StackFrame, FrameOf
  <2> HIDE DEF f
  <2>4. stack' # <<>> /\ Top' = f /\ Below' = Below
    BY <1>1, <2>1, <2>2, NewTop
  <2> QED BY <1>1, <2>3, <2>4 DEF Past, At, Top, f
<1>6. ASSUME NEW a \in Arena, ParseFault(a) PROVE UNCHANGED <<stack, conn, sock, phase>>
  BY <1>6 DEF ParseFault
<1> QED BY <1>1, <1>2, <1>3, <1>4, <1>5, <1>6

LEMMA SameToCome ==
  ASSUME TypeOK, NEW fd \in Fds, Past(fd)' \in Nat, Past(fd)' >= Past(fd),
         conn'[fd].in_buf = conn[fd].in_buf, sock'[fd].rx = sock[fd].rx
  PROVE  ToCome(fd)' \subseteq ToCome(fd)
<1>1. Past(fd) \in Nat /\ Len(conn[fd].in_buf) \in Nat
  BY PastIs DEF TypeOK, ObjTypeOK, Connection
<1>2. \A k \in Past(fd)' + 1 .. Len(conn[fd].in_buf) : k \in Past(fd) + 1 .. Len(conn[fd].in_buf)
  BY <1>1
<1> QED BY <1>2 DEF ToCome, Unread

\* Nothing new comes, unless from the peer or by a parse that is deferred.
LEMMA ComingNext ==
  ASSUME TypeOK, TypeOK', OneId, OneShot, Loops, Tended, Linked, Wire, [Next]_vars
  PROVE  \A fd \in Fds :
           \/ NoneNew(fd)
           \/ Peer(fd) /\ Came(fd) /\ Unread(fd)' = Unread(fd) /\ UNCHANGED <<conn, g_conns>>
           \/ ParseDefer /\ Top.fd = fd
           \/ CloseFd /\ fd \notin g_conns'
<1>1. \A fd \in Fds : Past(fd) \in Nat
  BY PastIs
<1>2. CASE Taking \/ ParseSkip
  <2>1. \A fd \in Fds : SameWire(fd)
    BY <1>2, StillWire DEF Aside
  <2>2. ParseStep
    BY <1>2 DEF ParseStep, Taking
  <2>3. \A fd \in Fds : Past(fd)' \in Nat /\ Past(fd)' >= Past(fd)
    <3> SUFFICES ASSUME NEW fd \in Fds PROVE Past(fd)' \in Nat /\ Past(fd)' >= Past(fd)
      OBVIOUS
    <3>1. Past(fd)' = IF fd = Top.fd THEN Past(fd) + 1 ELSE 0
      BY <1>2, <2>2, PastParse
    <3>2. fd # Top.fd => Past(fd) = 0
      BY DEF Past
    <3> QED BY <1>1, <3>1, <3>2
  <2> QED BY <2>1, <2>3, SameToCome DEF NoneNew, SameWire
<1>3. CASE ~ParseStep /\ \/ Aside \/ Flushing \/ Writing \/ SweepErase
                         \/ \E t \in running : TaskLeave(t)
  <2>1. \A fd \in Fds : SameWire(fd)
    BY <1>3, StillWire
  <2>2. \A fd \in Fds : Past(fd)' = Past(fd)
    BY <1>3, PastSteps
  <2>3. \A fd \in Fds : Past(fd)' >= Past(fd)
    BY <1>1, <2>2
  <2> QED BY <1>1, <2>1, <2>2, <2>3, SameToCome DEF NoneNew, SameWire
<1>4. CASE \E a \in Arena : ParseFault(a)
  <2>1. UNCHANGED <<stack, conn, sock, phase>>
    BY <1>4 DEF ParseFault
  <2>2. \A fd \in Fds : ToCome(fd)' = ToCome(fd)
    BY <2>1 DEF ToCome, Unread, Past, At, Top
  <2> QED BY <2>1, <2>2 DEF NoneNew
<1>5. CASE ParseEnd \/ ParseBad
  <2>1. ParseStep
    BY <1>5 DEF ParseStep
  <2>2. /\ \A fd \in Fds : Past(fd)' = 0
        /\ At("fcgi")
    BY <1>5, <2>1, PastParse
  <2>3. /\ Top.fd \in Fds /\ UNCHANGED <<sock, phase>>
        /\ \A fd \in Fds \ {Top.fd} : conn'[fd] = conn[fd]
        /\ conn'[Top.fd].in_buf \in Seq(Record) /\ Top.n \in Nat
        /\ \A i \in 1 .. Len(conn'[Top.fd].in_buf) :
             /\ i + Top.n \in 1 .. Len(conn[Top.fd].in_buf)
             /\ conn'[Top.fd].in_buf[i] = conn[Top.fd].in_buf[i + Top.n]
    BY <1>5, ReturnIs
  <2>4. ASSUME NEW fd \in Fds, fd # Top.fd PROVE NoneNew(fd)
    <3>1. Past(fd) = 0 /\ Past(fd)' = 0
      BY <2>2, <2>4 DEF Past
    <3>2. ToCome(fd)' \subseteq ToCome(fd)
      BY <2>3, <2>4, <3>1 DEF ToCome, Unread
    <3> QED BY <2>3, <3>2 DEF NoneNew
  <2>5. ASSUME NEW fd \in Fds, fd = Top.fd PROVE NoneNew(fd)
    <3> DEFINE n == Top.n
               in == conn[fd].in_buf
               new == conn'[fd].in_buf
    <3>1. Past(fd) = n /\ Past(fd)' = 0
      BY <2>2, <2>3, <2>5 DEF Past
    <3>2. Unread(fd) = {in[k] : k \in n + 1 .. Len(in)}
      BY <3>1 DEF Unread
    <3>3. Unread(fd)' = {new[k] : k \in 0 + 1 .. Len(new)}
      BY <3>1 DEF Unread
    <3>4. /\ n \in Nat /\ Len(new) \in Nat /\ Len(in) \in Nat
          /\ \A i \in 1 .. Len(new) : i + n \in 1 .. Len(in) /\ new[i] = in[i + n]
      BY <2>3, <2>5 DEF TypeOK, ObjTypeOK, Connection
    <3> HIDE DEF n, in, new
    <3>5. \A i \in 1 .. Len(new) : i + n \in n + 1 .. Len(in)
      BY <3>4
    <3>6. Unread(fd)' \subseteq Unread(fd)
      <4>1. ASSUME NEW i \in 1 .. Len(new) PROVE new[i] \in {in[k] : k \in n + 1 .. Len(in)}
        BY <3>4, <3>5
      <4>2. 0 + 1 = 1
        OBVIOUS
      <4> QED BY <3>2, <3>3, <4>1, <4>2
    <3> QED BY <2>3, <3>6 DEF NoneNew, ToCome
  <2> QED BY <2>4, <2>5
<1>6. CASE ~ParseStep /\ \E e \in batch : IoEvent(e)
  <2>1. PICK e \in batch : IoEvent(e)
    BY <1>6
  <2>2. stack = <<>>
    BY <2>1, IoEntry
  <2>3. \A fd \in Fds : Past(fd) = 0 /\ Past(fd)' = 0
    BY <1>6, <2>2, PastSteps DEF Past, At
  <2>4. /\ \A fd \in Fds \ {e.fd} : conn'[fd] = conn[fd] /\ sock'[fd] = sock[fd]
        /\ \A fd \in Fds : sock'[fd].used = sock[fd].used
        /\ UNCHANGED phase /\ e.fd \in Fds
        /\ \/ /\ conn'[e.fd].in_buf = conn[e.fd].in_buf /\ sock'[e.fd].rx = sock[e.fd].rx
           \/ /\ conn'[e.fd].in_buf = Joined(conn[e.fd].in_buf, sock[e.fd].rx)
              /\ sock'[e.fd].rx = <<>>
    BY <2>1, IoEventIs
  <2>5. \A fd \in Fds : /\ ToCome(fd) = Items(conn[fd].in_buf) \cup Items(sock[fd].rx)
                        /\ ToCome(fd)' = Items(conn'[fd].in_buf) \cup Items(sock'[fd].rx)
    <3>1. \A s : {s[k] : k \in 0 + 1 .. Len(s)} = Items(s)
      BY DEF Items
    <3>2. \A fd \in Fds : Unread(fd) = {conn[fd].in_buf[k] : k \in 0 + 1 .. Len(conn[fd].in_buf)}
      BY <2>3 DEF Unread
    <3>3. \A fd \in Fds : Unread(fd)' = {conn'[fd].in_buf[k] : k \in 0 + 1 .. Len(conn'[fd].in_buf)}
      BY <2>3 DEF Unread
    <3>4. \A fd \in Fds : Unread(fd) = Items(conn[fd].in_buf) /\ Unread(fd)' = Items(conn'[fd].in_buf)
      BY <3>1, <3>2, <3>3, Zenon
    <3> QED BY <3>4 DEF ToCome
  <2>6. ToCome(e.fd)' \subseteq ToCome(e.fd)
    <3>1. CASE conn'[e.fd].in_buf = conn[e.fd].in_buf /\ sock'[e.fd].rx = sock[e.fd].rx
      BY <2>4, <2>5, <3>1
    <3>2. CASE conn'[e.fd].in_buf = Joined(conn[e.fd].in_buf, sock[e.fd].rx)
               /\ sock'[e.fd].rx = <<>>
      <4>1. conn[e.fd].in_buf \in Seq(Record) /\ sock[e.fd].rx \in Seq(Record)
        BY <2>4 DEF TypeOK, ObjTypeOK, EnvTypeOK, Connection, Socket
      <4>2. Items(conn'[e.fd].in_buf) \subseteq Items(conn[e.fd].in_buf) \cup Items(sock[e.fd].rx)
        BY <3>2, <4>1, JoinedOrder
      <4>3. Items(sock'[e.fd].rx) = {}
        BY <3>2, NoItems
      <4> QED BY <2>4, <2>5, <4>2, <4>3
    <3> QED BY <2>4, <3>1, <3>2
  <2>7. \A fd \in Fds \ {e.fd} : ToCome(fd)' \subseteq ToCome(fd)
    BY <2>4, <2>5
  <2> QED BY <2>4, <2>6, <2>7 DEF NoneNew
<1>7. CASE ~ParseStep /\ \E gd \in Fds : AcceptOne(gd)
  <2>1. PICK gd \in Fds : AcceptOne(gd)
    BY <1>7
  <2>2. /\ sock[gd].st = "backlog"
        /\ sock' = [sock EXCEPT ![gd].st = "conn"]
        /\ conn' = [conn EXCEPT ![gd] = NewConnection(sock[gd].serial)]
        /\ UNCHANGED phase
    BY <2>1 DEF AcceptOne, Backlog
  <2>3. /\ \A fd \in Fds : sock'[fd].used = sock[fd].used /\ sock'[fd].rx = sock[fd].rx
        /\ \A fd \in Fds \ {gd} : conn'[fd] = conn[fd]
        /\ conn'[gd].in_buf = <<>>
    BY <2>2 DEF TypeOK, EnvTypeOK, ObjTypeOK, Socket, NewConnection
  <2>4. \A fd \in Fds : Past(fd)' = Past(fd) /\ Past(fd)' >= Past(fd)
    BY <1>1, <1>7, PastSteps
  <2>5. \A fd \in Fds \ {gd} : ToCome(fd)' \subseteq ToCome(fd)
    BY <1>1, <2>3, <2>4, SameToCome
  <2>6. conn[gd].in_buf = <<>>
    BY <2>2 DEF Linked, Wire, Unused
  <2>7. ToCome(gd)' \subseteq ToCome(gd)
    BY <1>1, <2>3, <2>4, <2>6, SameToCome
  <2> QED BY <2>2, <2>3, <2>5, <2>7 DEF NoneNew
<1>8. CASE ~ParseStep /\ \E gd \in Fds : Peer(gd)
  <2>1. PICK gd \in Fds : Peer(gd)
    BY <1>8
  <2>2. Came(gd)
    BY <2>1, PeerWire
  <2>3. UNCHANGED <<conn, g_conns, stack>>
    BY <2>1, PeerUnchanged
  <2>4. \A fd \in Fds : Unread(fd)' = Unread(fd)
    BY <2>3 DEF Unread, Past, At, Top
  <2>5. \A fd \in Fds \ {gd} : NoneNew(fd)
    BY <2>2, <2>4 DEF Came, NoneNew, ToCome
  <2> QED BY <2>1, <2>2, <2>3, <2>4, <2>5
<1>9. CASE ~ParseStep /\ CloseFd
  <2>1. Top.fd \in g_conns /\ Top.fd \in Fds /\ stack # <<>> /\ Top.pc = "cleanup"
    BY <1>9, TopServed DEF CloseFd, At, Top, FdPC, TypeOK, ObjTypeOK
  <2>2. /\ Top.fd \notin g_conns'
        /\ \A fd \in Fds \ {Top.fd} : conn'[fd] = conn[fd] /\ sock'[fd] = sock[fd]
                                      /\ phase'[fd] = phase[fd]
    BY <1>9, <2>1 DEF CloseFd, TypeOK, EnvTypeOK, ObjTypeOK
  <2>3. \A fd \in Fds : Past(fd)' = Past(fd) /\ Past(fd)' >= Past(fd)
    BY <1>1, <1>9, PastSteps
  <2>4. \A fd \in Fds \ {Top.fd} : NoneNew(fd)
    BY <1>1, <2>2, <2>3, SameToCome DEF NoneNew
  <2> QED BY <1>9, <2>2, <2>4
<1>10. CASE ParseDefer
  <2>1. ParseStep
    BY <1>10 DEF ParseStep
  <2>2. At("fcgi") /\ Top.fd \in Fds
    BY <2>1, PastParse
  <2>3. \A fd \in Fds : Past(fd)' = 0 /\ (fd # Top.fd => Past(fd) = 0)
    BY <1>10, <2>1, PastParse DEF Past
  <2>4. \A fd \in Fds : SameWire(fd)
    BY <1>10, StillWire
  <2>5. \A fd \in Fds \ {Top.fd} : NoneNew(fd)
    BY <2>3, <2>4, SameToCome DEF NoneNew, SameWire
  <2> QED BY <1>10, <2>5
<1>11. ParseStep => \/ Taking \/ ParseSkip \/ ParseEnd \/ ParseBad \/ ParseDefer
                    \/ \E a \in Arena : ParseFault(a)
  BY DEF ParseStep, Taking
<1> QED BY <1>2, <1>3, <1>4, <1>5, <1>6, <1>7, <1>8, <1>9, <1>10, <1>11, StepCases

\* The peer has ended both streams of the connection's only request.
Through(fd) ==
  /\ \A x \in ToCome(fd) : Rank(x) \in {0, 6}
  /\ \A id \in Ids : Reach(fd, id) >= 5

LEMMA Unread0 ==
  ASSUME TypeOK, NEW fd \in Fds
  PROVE  /\ Unread(fd) \subseteq Items(conn[fd].in_buf)
         /\ ToCome(fd) \subseteq Record
<1>1. Past(fd) \in Nat /\ conn[fd].in_buf \in Seq(Record) /\ sock[fd].rx \in Seq(Record)
  BY PastIs DEF TypeOK, ObjTypeOK, EnvTypeOK, Connection, Socket
<1> DEFINE n == Past(fd)
           in == conn[fd].in_buf
<1>2. Unread(fd) = {in[k] : k \in n + 1 .. Len(in)}
  BY DEF Unread
<1> HIDE DEF n, in
<1>3. n \in Nat /\ in \in Seq(Record)
  BY <1>1 DEF n, in
<1>4. \A k \in n + 1 .. Len(in) : k \in 1 .. Len(in)
  BY <1>3
<1>5. Unread(fd) \subseteq Items(in)
  BY <1>2, <1>4 DEF Items
<1>6. Items(in) \subseteq Record /\ Items(sock[fd].rx) \subseteq Record
  BY <1>1, <1>3 DEF Items
<1> QED BY <1>5, <1>6 DEF ToCome, in

LEMMA Named ==
  ASSUME NEW x \in Record
  PROVE  /\ Rank(x) > 0 => x.id \in Ids
         /\ x.type = "BEGIN" => Rank(x) = 1
  BY DEF Record, RecordOf, Rank

LEMMA NotBegun ==
  ASSUME TypeOK, NEW fd \in Fds, NEW id \in Ids, Reach(fd, id) = 0
  PROVE  ~sock[fd].used
<1>1. phase[fd][id] \in Phase /\ sock[fd].used \in BOOLEAN
  BY DEF TypeOK, EnvTypeOK, Socket
<1> QED BY <1>1 DEF Reach, Level, Phase

\* A connection does not become untouched again, and what is through stays so.
LEMMA ComingBack ==
  ASSUME TypeOK, TypeOK', OneId, OneShot, Loops, Tended, Linked, Wire, [Next]_vars
  PROVE  \A fd \in Fds : fd \in g_conns' =>
           /\ Virgin(fd)' => Virgin(fd) \/ (ParseDefer /\ Top.fd = fd)
           /\ Through(fd) => Through(fd)' \/ (ParseDefer /\ Top.fd = fd)
<1> SUFFICES ASSUME NEW fd \in Fds, fd \in g_conns', ~(ParseDefer /\ Top.fd = fd)
             PROVE  /\ Virgin(fd)' => Virgin(fd)
                    /\ Through(fd) => Through(fd)'
  OBVIOUS
<1>1. CASE NoneNew(fd)
  <2>1. \A id \in Ids : Reach(fd, id)' = Reach(fd, id)
    BY <1>1 DEF NoneNew, Reach
  <2> QED BY <1>1, <2>1 DEF NoneNew, Virgin, Through
<1>2. CASE Peer(fd) /\ Came(fd) /\ Unread(fd)' = Unread(fd)
  <2>1. \A x \in ToCome(fd)' :
          \/ x \in ToCome(fd) \/ Rank(x) = 0
          \/ x \in Record /\ x.id \in Ids /\ Rank(x) > Reach(fd, x.id)
    <3> SUFFICES ASSUME NEW x \in Items(sock'[fd].rx), x \notin Items(sock[fd].rx), Rank(x) # 0
                 PROVE  x \in Record /\ x.id \in Ids /\ Rank(x) > Reach(fd, x.id)
      BY <1>2 DEF ToCome
    <3>1. sock'[fd].rx \in Seq(Record)
      BY DEF TypeOK, EnvTypeOK, Socket
    <3>2. x \in Record
      BY <3>1 DEF Items
    <3>3. x.id \in Ids
      BY <3>2, Ranks, Named
    <3> QED BY <1>2, <3>2, <3>3 DEF Came
  <2>2. \A x, id : Rank(x) \in 0 .. 6 /\ Reach(fd, id) \in 0 .. 7 /\ Reach(fd, id)' \in 0 .. 7
    BY Ranks
  <2>3. ASSUME Virgin(fd)' PROVE Virgin(fd)
    <3>1. CASE ~sock'[fd].used
      BY <1>2, <3>1 DEF Virgin, Came
    <3>2. CASE \E x \in ToCome(fd)' : x.type = "BEGIN"
      <4>1. PICK x \in ToCome(fd)' : x.type = "BEGIN"
        BY <3>2
      <4>2. Rank(x) = 1
        BY <4>1 DEF Rank
      <4>3. CASE x \in ToCome(fd)
        BY <4>1, <4>3 DEF Virgin
      <4>4. CASE x.id \in Ids /\ Rank(x) > Reach(fd, x.id)
        <5>1. Reach(fd, x.id) = 0
          BY <2>2, <4>2, <4>4
        <5> QED BY <4>4, <5>1, NotBegun DEF Virgin
      <4> QED BY <2>1, <4>2, <4>3, <4>4
    <3> QED BY <2>3, <3>1, <3>2 DEF Virgin
  <2>4. ASSUME Through(fd) PROVE Through(fd)'
    <3>1. \A id \in Ids : Reach(fd, id)' >= 5
      <4> SUFFICES ASSUME NEW id \in Ids PROVE Reach(fd, id)' >= 5
        OBVIOUS
      <4>1. Reach(fd, id) >= 5 /\ Reach(fd, id) <= Reach(fd, id)'
        BY <1>2, <2>4 DEF Through, Came
      <4> QED BY <2>2, <4>1
    <3>2. ASSUME NEW x \in ToCome(fd)' PROVE Rank(x) \in {0, 6}
      <4>1. CASE x \in ToCome(fd)
        BY <2>4, <4>1 DEF Through
      <4>2. CASE x.id \in Ids /\ Rank(x) > Reach(fd, x.id)
        <5>1. Reach(fd, x.id) >= 5
          BY <2>4, <4>2 DEF Through
        <5> QED BY <2>2, <4>2, <5>1
      <4> QED BY <2>1, <3>2, <4>1, <4>2
    <3> QED BY <3>1, <3>2 DEF Through
  <2> QED BY <2>3, <2>4
<1> QED BY <1>1, <1>2, ComingNext

-----------------------------------------------------------------------------
(* Connections on which nothing has been begun *)

\* No request of the connection is there, none was answered, none is worked on.
Untouched(c) == Mapped(c) = {} /\ c.out_buf = <<>> /\ c.active_workers = 0

Later(c, d) ==
  /\ d.waiting_for_arena => c.waiting_for_arena
  /\ c.closed => d.closed
  /\ Untouched(c) => Untouched(d)

LEMMA NoTasks ==
  ASSUME TypeOK, Counted, NEW fd \in g_conns, conn[fd].active_workers = 0
  PROVE  \A t \in Tasks : ~(t.fd = fd /\ t.cserial = conn[fd].serial)
<1> DEFINE S == {t \in Tasks : t.fd = fd /\ t.cserial = conn[fd].serial}
<1>1. IsFiniteSet(S)
  BY FS_Subset DEF Counted, Once
<1>2. Cardinality(S) = 0
  BY DEF Counted, WorkersAreCounted
<1>3. S = {}
  BY <1>1, <1>2, FS_EmptySet
<1> QED BY <1>3

LEMMA FlushEmpties ==
  ASSUME TypeOK, NEW cfd \in Fds, Flush(cfd, conn[cfd])
  PROVE  \A fd \in Fds : conn[fd].out_buf = <<>> => conn'[fd].out_buf = <<>>
<1>1. conn \in [Fds -> Connection] /\ conn[cfd] \in Connection /\ sock[cfd] \in Socket
  BY DEF TypeOK, ObjTypeOK, EnvTypeOK
<1>2. CASE FlushAll(cfd, conn[cfd])
  BY <1>1, <1>2 DEF FlushAll, Connection
<1>3. CASE FlushSome(cfd, conn[cfd])
  <2> DEFINE room == SndBuf - Len(sock[cfd].tx)
             new == [conn[cfd] EXCEPT !.out_buf = SubSeq(@, room + 1, Len(@)), !.epollout = TRUE]
  <2>1. Len(conn[cfd].out_buf) > room /\ conn' = [conn EXCEPT ![cfd] = new]
    BY <1>3 DEF FlushSome
  <2>2. SndBuf \in Nat /\ Len(sock[cfd].tx) \in Nat /\ Len(sock[cfd].tx) <= SndBuf
    BY <1>1, ConstantsAssumption DEF Socket, Sent
  <2>3. Len(conn[cfd].out_buf) > 0
    <3>1. Len(conn[cfd].out_buf) \in Nat
      BY <1>1 DEF Connection
    <3> QED BY <2>1, <2>2, <3>1
  <2>4. conn[cfd].out_buf # <<>>
    BY <2>3
  <2> HIDE DEF new
  <2> QED BY <1>1, <2>1, <2>4
<1>4. CASE FlushError(cfd, conn[cfd])
  BY <1>1, <1>4 DEF FlushError, Connection
<1> QED BY <1>2, <1>3, <1>4 DEF Flush

\* What a step other than the parsing of a record makes of a connection.
LEMMA LaterSteps ==
  ASSUME TypeOK, TypeOK', Tended, Counted, Owned, [Next]_vars, ~Taking
  PROVE  \A fd \in g_conns \cap g_conns' :
           /\ Later(conn[fd], conn'[fd]) \/ (ParseDefer /\ Top.fd = fd)
           /\ Untouched(conn[fd]) => Untouched(conn'[fd])
<1>0. g_conns \subseteq Fds /\ conn \in [Fds -> Connection]
  BY DEF TypeOK, ObjTypeOK
<1>1. \A c, d : Later(c, d) => (Untouched(c) => Untouched(d))
  BY DEF Later
<1>2. CASE UNCHANGED conn
  BY <1>2 DEF Later
<1>3. CASE Flushing
  <2>1. Top.fd \in Fds /\ Flush(Top.fd, conn[Top.fd])
    BY <1>3, FlushingIs
  <2>2. Conns
    BY <2>1, FlushSteady
  <2>3. \A fd \in Fds : conn[fd].out_buf = <<>> => conn'[fd].out_buf = <<>>
    BY <2>1, FlushEmpties
  <2> QED BY <1>0, <2>2, <2>3 DEF Conns, SteadyConn, Later, Untouched, Mapped
<1>4. CASE Writing
  <2>1. \E wfd \in Fds : Mapped(conn[wfd]) # {} /\ \A fd \in Fds \ {wfd} : conn'[fd] = conn[fd]
    <3>1. CASE PendingAnswer
      <4> DEFINE a == Head(taken).arena
                 r == req[a]
      <4>1. taken # <<>> /\ r.live /\ ~ConnGone(r) /\ Answer(a)
        BY <3>1 DEF PendingAnswer
      <4>2. a \in Arena
        <5>1. taken \in Seq(Handback)
          BY DEF TypeOK, ListTypeOK
        <5>2. Head(taken) \in Handback
          BY <4>1, <5>1
        <5> QED BY <5>2 DEF Handback
      <4>3. Reached(a)
        BY <4>1, <4>2 DEF Owned, Reaches
      <4>4. r.conn_ptr \in Fds /\ r.id \in Mapped(conn[r.conn_ptr])
        <5>1. a # NoArena
          BY <4>2, NArenasAssumption DEF Arena, NoArena
        <5> HIDE DEF a
        <5> QED BY <1>0, <4>3, <5>1 DEF Reached, Mapped
      <4>5. \A fd \in Fds \ {r.conn_ptr} : conn'[fd] = conn[fd]
        BY <1>0, <4>1, <4>4 DEF Answer
      <4> QED BY <4>4, <4>5
    <3>2. ASSUME NEW gd \in Fds, NEW id \in Ids, Expire(gd, id)
          PROVE  Mapped(conn[gd]) # {} /\ \A fd \in Fds \ {gd} : conn'[fd] = conn[fd]
      BY <1>0, <3>2 DEF Expire, Mapped
    <3> QED BY <1>4, <3>1, <3>2 DEF Writing
  <2>2. Conns
    BY <1>4, AnswerSteady DEF Writing
  <2> QED BY <1>0, <2>1, <2>2 DEF Conns, SteadyConn, Later, Untouched
<1>5. CASE ParseEnd \/ ParseBad
  BY <1>0, <1>5, ReturnIs DEF Later, Untouched, Mapped
<1>6. CASE ParseDefer
  <2>1. conn' = [conn EXCEPT ![Top.fd].waiting_for_arena = TRUE]
    BY <1>6 DEF ParseDefer
  <2>2. ASSUME NEW fd \in Fds, fd # Top.fd PROVE conn'[fd] = conn[fd]
    BY <1>0, <2>1, <2>2
  <2>3. \A fd \in Fds : /\ conn'[fd].requests = conn[fd].requests
                        /\ conn'[fd].out_buf = conn[fd].out_buf
                        /\ conn'[fd].active_workers = conn[fd].active_workers
    BY <1>0, <2>1 DEF Connection
  <2> QED BY <1>0, <1>6, <2>2, <2>3 DEF Later, Untouched, Mapped
<1>7. CASE \E e \in batch : IoEvent(e)
  BY <1>0, <1>7, IoEventIs DEF Later, Untouched, Mapped
<1>8. ASSUME NEW gd \in Fds, AcceptOne(gd)
      PROVE  \A fd \in g_conns \cap g_conns' : Later(conn[fd], conn'[fd])
  <2>1. gd \notin g_conns
    BY <1>8 DEF AcceptOne, Backlog, Counted, Linked
  <2>2. \A fd \in Fds \ {gd} : conn'[fd] = conn[fd]
    BY <1>0, <1>8 DEF AcceptOne
  <2> QED BY <1>0, <2>1, <2>2 DEF Later
<1>9. ASSUME NEW gd \in Fds, Peer(gd) PROVE UNCHANGED conn
  BY <1>9, PeerUnchanged
<1>10. CASE SweepErase
  <2>1. conn' = [conn EXCEPT ![Top.fd].requests[Top.id] = NoArena]
    BY <1>10 DEF SweepErase
  <2>2. \A fd \in Fds : /\ conn'[fd].waiting_for_arena = conn[fd].waiting_for_arena
                        /\ conn'[fd].closed = conn[fd].closed
                        /\ conn'[fd].out_buf = conn[fd].out_buf
                        /\ conn'[fd].active_workers = conn[fd].active_workers
                        /\ \A id \in Ids : conn'[fd].requests[id] \in {conn[fd].requests[id], NoArena}
    BY <1>0, <2>1 DEF Connection
  <2> QED BY <1>0, <2>2 DEF Later, Untouched, Mapped
<1>11. CASE CloseFd
  <2>1. \A fd \in Fds \ {Top.fd} : conn'[fd] = conn[fd]
    BY <1>0, <1>11 DEF CloseFd
  <2>2. Top.fd \notin g_conns'
    BY <1>11 DEF CloseFd
  <2> QED BY <1>0, <2>1, <2>2 DEF Later
<1>12. ASSUME NEW t \in running, TaskLeave(t)
       PROVE  \A fd \in g_conns \cap g_conns' : Later(conn[fd], conn'[fd])
  <2>1. ConnOf(t) /\ conn' = [conn EXCEPT ![t.fd].active_workers = @ - 1]
    BY <1>12 DEF TaskLeave
  <2>2. t \in Tasks
    BY DEF Tasks
  <2>3. conn[t.fd].active_workers # 0 /\ t.fd \in g_conns
    BY <2>1, <2>2, NoTasks DEF ConnOf
  <2>4. \A fd \in Fds : /\ conn'[fd].waiting_for_arena = conn[fd].waiting_for_arena
                        /\ conn'[fd].closed = conn[fd].closed
                        /\ fd # t.fd => conn'[fd] = conn[fd]
    BY <1>0, <2>1 DEF Connection
  <2> QED BY <1>0, <2>3, <2>4 DEF Later, Untouched
<1>13. CASE Aside
  BY <1>2, <1>13, AsideSteps
<1> QED BY <1>1, <1>2, <1>3, <1>4, <1>5, <1>6, <1>7, <1>8, <1>9, <1>10, <1>11, <1>12, <1>13,
           StepCases

-----------------------------------------------------------------------------
(* A connection that waits for an arena, and the records that are parsed *)

HandlePC == {"parsed", "outflush", "sweep", "cleanup"}

\* handle_io has still to decide whether fd is closed, or is closing it.
Handled(fd) ==
  \/ \E f \in Frames : f.pc \in HandlePC /\ f.fd = fd
  \/ fd \in Items(closing) /\ \E f \in Frames : f.pc = "closing"

Reading(fd) == At("fcgi") /\ Top.fd = fd

Virgins == \A fd \in g_conns : Virgin(fd) => Untouched(conn[fd])

\* A deferred BEGIN_REQUEST is that of the connection's only request.
Idles == \A fd \in g_conns : OpenWaiting(fd) => Reading(fd) \/ Untouched(conn[fd])

\* Only such a connection is taken from the list of the waiting ones with
\* records to parse, and that before handle_io is done with it.
Leaves ==
  \A fd \in g_conns : OpenWaiting(fd) \/ (Reading(fd) /\ Exists) => Handled(fd)

\* No record is parsed below the loop over the requests of its connection,
\* nor below housekeeping.
Apart ==
  At("fcgi") /\ Exists =>
    \A g \in Below : ~(g.pc = "housekeeping" \/ (g.pc \in EndPC /\ g.fd = Top.fd))

Flow == Virgins /\ Idles /\ Leaves /\ Apart

LEMMA OwnEntry ==
  ASSUME TypeOK, Tended, Apart, At("fcgi"), Exists, NEW id \in Ids,
         conn[Top.fd].requests[id] # NoArena
  PROVE  EntryLives(Top.fd, id)
<1>1. stack # <<>> /\ Top.pc = "fcgi"
  BY DEF At, Top
<1>2. Top.fd \in g_conns /\ Frames = {Top} \cup Below
  BY <1>1, TopServed, StackFrames DEF FdPC
<1>3. \A f \in Frames : ~Dooms(f, Top.fd, id)
  BY <1>1, <1>2 DEF Apart, Dooms, EndPC
<1> QED BY <1>2, <1>3 DEF Tended, Entries

LEMMA RecordIs ==
  ASSUME TypeOK, At("fcgi"), Exists
  PROVE  /\ stack # <<>> /\ Top.fd \in Fds /\ Top.n \in Nat
         /\ Top.n + 1 \in 1 .. Len(conn[Top.fd].in_buf)
         /\ NextRecord = conn[Top.fd].in_buf[Top.n + 1] /\ NextRecord \in Record
<1>1. stack # <<>> /\ Top.pc = "fcgi"
  BY DEF At, Top
<1>2. Top.fd \in Fds /\ Top.n \in Nat
  BY <1>1, TopFrame DEF StackFrame, FrameOf, LoopPC
<1>3. conn[Top.fd].in_buf \in Seq(Record)
  BY <1>2 DEF TypeOK, ObjTypeOK, Connection
<1>4. Top.n + 1 \in 1 .. Len(conn[Top.fd].in_buf)
  BY <1>2, <1>3 DEF Exists, InBuf
<1> QED BY <1>1, <1>2, <1>3, <1>4 DEF NextRecord, InBuf

\* The record acts on a request of the connection it came on.
LEMMA TakingConn ==
  ASSUME TypeOK, Tended, Apart, NEW a \in Arena, ParseNew(a) \/ ParseKnown(a)
  PROVE  LET r == IF ParseNew(a)
                    THEN NewRequest(built + 1, Top.fd, conn[Top.fd].serial, NextRecord.id)
                    ELSE req[a]
         IN r.conn_ptr = Top.fd /\ r.cserial = conn[Top.fd].serial /\ r.id = NextRecord.id
<1>1. CASE ParseNew(a)
  BY <1>1 DEF NewRequest
<1>2. CASE ~ParseNew(a) /\ ParseKnown(a)
  <2>1. At("fcgi") /\ Exists /\ NextRecord.id \in Ids /\ a = conn[Top.fd].requests[NextRecord.id]
    BY <1>2, ParseDelivers DEF ParseKnown, EntryOf
  <2>2. a # NoArena
    BY NArenasAssumption DEF Arena, NoArena
  <2>3. EntryLives(Top.fd, NextRecord.id)
    BY <2>1, <2>2, OwnEntry
  <2> QED BY <1>2, <2>1, <2>3 DEF EntryLives
<1> QED BY <1>1, <1>2

LEMMA AfterRecord ==
  ASSUME TypeOK, TypeOK', Loops, Wire, Taking
  PROVE  \A fd \in Fds : fd = Top.fd =>
           /\ Rank(NextRecord) \in 1 .. 6 /\ sock'[fd].used
           /\ \A x \in ToCome(fd)' : Rank(x) = 0 \/ Rank(x) > Rank(NextRecord)
           /\ \A id \in Ids : Rank(NextRecord) <= Reach(fd, id) /\ Reach(fd, id)' = Reach(fd, id)
<1>1. At("fcgi") /\ Exists /\ NamesRequest(NextRecord) /\ UNCHANGED <<sock, phase>>
  BY DEF Taking, ParseNew, ParseKnown
<1> SUFFICES ASSUME NEW fd \in Fds, fd = Top.fd
             PROVE  /\ Rank(NextRecord) \in 1 .. 6 /\ sock'[fd].used
                    /\ \A x \in ToCome(fd)' : Rank(x) = 0 \/ Rank(x) > Rank(NextRecord)
                    /\ \A id \in Ids : Rank(NextRecord) <= Reach(fd, id)
                                       /\ Reach(fd, id)' = Reach(fd, id)
  OBVIOUS
<1> DEFINE rec == NextRecord
           in == conn[fd].in_buf
           n == Top.n
<1>2. n \in Nat /\ n + 1 \in 1 .. Len(in) /\ rec = in[n + 1] /\ rec \in Record /\ in \in Seq(Record)
  BY <1>1, RecordIs DEF TypeOK, ObjTypeOK, Connection
<1>3. Rank(rec) \in 1 .. 6
  <2>1. Rank(rec) # 0
    BY <1>1 DEF NamesRequest, Rank
  <2> QED BY <2>1, Ranks
<1>4. rec.id \in Ids
  BY <1>2, <1>3, Named
<1>5. /\ Wired(fd) /\ Unused(fd)
      /\ rec \in Items(in)
  BY <1>2 DEF Wire, Items
<1>6. \A id \in Ids : Rank(rec) <= Reach(fd, id) /\ Reach(fd, id)' = Reach(fd, id)
  BY <1>1, <1>5 DEF Wired, Reach
<1>7. sock'[fd].used
  <2>1. Rank(rec) <= Reach(fd, rec.id) /\ Reach(fd, rec.id) \in 0 .. 7
    BY <1>4, <1>6, Ranks
  <2>2. Reach(fd, rec.id) # 0
    BY <1>3, <2>1
  <2>3. ~sock[fd].used => Reach(fd, rec.id) = 0
    BY <1>4, <1>5 DEF Unused, Reach, Level
  <2> QED BY <1>1, <2>2, <2>3
<1>8. Past(fd)' = n + 1 /\ conn'[fd].in_buf = in /\ sock'[fd].rx = sock[fd].rx
  <2>1. ParseStep
    BY DEF ParseStep, Taking
  <2>2. Past(fd)' = Past(fd) + 1 /\ Past(fd) = n
    BY <1>1, <2>1, PastParse DEF Past
  <2>3. SameWire(fd)
    BY StillWire
  <2> QED BY <2>2, <2>3 DEF SameWire
<1>9. ASSUME NEW x \in ToCome(fd)' PROVE Before(rec, x)
  <2>1. CASE x \in Items(sock[fd].rx)
    BY <1>5, <2>1 DEF Wired
  <2>2. CASE \E k \in (n + 1) + 1 .. Len(in) : x = in[k]
    <3>1. PICK k \in (n + 1) + 1 .. Len(in) : x = in[k]
      BY <2>2
    <3> HIDE DEF rec, in, n
    <3>2. k \in 1 .. Len(in) /\ n + 1 < k
      BY <1>2, <3>1
    <3>3. InOrder(in)
      BY <1>5 DEF Wired, in
    <3> QED BY <1>2, <3>1, <3>2, <3>3 DEF InOrder
  <2>3. ToCome(fd)' = {in[k] : k \in (n + 1) + 1 .. Len(in)} \cup Items(sock[fd].rx)
    BY <1>8 DEF ToCome, Unread
  <2> QED BY <1>9, <2>1, <2>2, <2>3
<1>10. \A x \in ToCome(fd)' : Rank(x) = 0 \/ Rank(x) > Rank(rec)
  <2>1. \A x : Rank(x) \in 0 .. 6
    BY Ranks
  <2> QED BY <1>3, <1>9, <2>1 DEF Before
<1> QED BY <1>3, <1>6, <1>7, <1>10

\* What the parsing of a record makes of the connections.
LEMMA TakingConns ==
  ASSUME TypeOK, TypeOK', Loops, Tended, Wire, Apart, Taking
  PROVE  /\ UNCHANGED <<g_conns, closing>> /\ At("fcgi") /\ Exists
         /\ \A fd \in Fds : /\ conn'[fd].waiting_for_arena = conn[fd].waiting_for_arena
                            /\ conn'[fd].closed = conn[fd].closed
                            /\ conn'[fd].in_buf = conn[fd].in_buf
                            /\ fd # Top.fd => Later(conn[fd], conn'[fd])
                            /\ fd = Top.fd => ~Virgin(fd)'
<1>1. PICK a \in Arena : ParseNew(a) \/ ParseKnown(a)
  BY DEF Taking
<1> DEFINE r == IF ParseNew(a)
                  THEN NewRequest(built + 1, Top.fd, conn[Top.fd].serial, NextRecord.id)
                  ELSE req[a]
<1>2. PICK go \in BOOLEAN : Delivered(a, r, Top.fd, NextRecord.id, go)
  BY <1>1, ParseDelivers
<1>3. r.conn_ptr = Top.fd
  BY <1>1, TakingConn
<1> HIDE DEF r
<1>4. \A gd \in Fds : gd # Top.fd => conn'[gd].out_buf = conn[gd].out_buf
  BY <1>1, DeliverWrites
<1>5. \A gd \in Fds : /\ conn'[gd].in_buf = conn[gd].in_buf
                      /\ conn'[gd].waiting_for_arena = conn[gd].waiting_for_arena
                      /\ conn'[gd].closed = conn[gd].closed
                      /\ gd # Top.fd =>
                           /\ conn'[gd].active_workers = conn[gd].active_workers
                           /\ \A i \in Ids : conn'[gd].requests[i] = conn[gd].requests[i]
  BY <1>2, <1>3 DEF Delivered
<1>6. \A gd \in Fds : gd # Top.fd => Later(conn[gd], conn'[gd])
  BY <1>4, <1>5 DEF Later, Untouched, Mapped
<1>7. ASSUME NEW fd \in Fds, fd = Top.fd PROVE ~Virgin(fd)'
  <2>1. /\ Rank(NextRecord) \in 1 .. 6 /\ sock'[fd].used
        /\ \A x \in ToCome(fd)' : Rank(x) = 0 \/ Rank(x) > Rank(NextRecord)
    BY <1>7, AfterRecord
  <2>2. \A x : x.type = "BEGIN" => Rank(x) = 1
    BY DEF Rank
  <2> QED BY <2>1, <2>2 DEF Virgin
<1>8. UNCHANGED <<g_conns, closing>> /\ At("fcgi") /\ Exists
  BY <1>1 DEF ParseNew, ParseKnown
<1> QED BY <1>5, <1>6, <1>7, <1>8

LEMMA DeferVirgin ==
  ASSUME TypeOK, Tended, ParseDefer
  PROVE  /\ At("fcgi") /\ Exists /\ Return /\ Top.fd \in g_conns
         /\ UNCHANGED <<g_conns, sock, phase, closing, req, queue, running>>
         /\ \A fd \in Fds : fd = Top.fd => Virgin(fd)
<1>1. At("fcgi") /\ Exists /\ NextRecord.type = "BEGIN" /\ Return
      /\ UNCHANGED <<g_conns, sock, phase, closing, req, queue, running>>
  BY DEF ParseDefer
<1>2. Top.fd \in g_conns
  BY <1>1, TopServed DEF At, Top, FdPC
<1>3. ASSUME NEW fd \in Fds, fd = Top.fd PROVE Virgin(fd)
  <2> DEFINE n == Top.n
             in == conn[fd].in_buf
  <2>1. n \in Nat /\ n + 1 \in 1 .. Len(in) /\ NextRecord = in[n + 1] /\ Past(fd) = n
    BY <1>1, <1>3, RecordIs DEF Past
  <2>2. ToCome(fd) = {in[k] : k \in n + 1 .. Len(in)} \cup Items(sock[fd].rx)
    BY <2>1 DEF ToCome, Unread
  <2> HIDE DEF n, in
  <2>3. n + 1 \in n + 1 .. Len(in)
    BY <2>1
  <2>4. NextRecord \in ToCome(fd)
    BY <2>1, <2>2, <2>3
  <2> QED BY <1>1, <2>4 DEF Virgin
<1> QED BY <1>1, <1>2, <1>3

LEMMA NewConns ==
  ASSUME TypeOK, [Next]_vars
  PROVE  \A fd \in g_conns' \ g_conns : \E s : conn'[fd] = NewConnection(s) /\ AcceptOne(fd)
<1>1. ASSUME NEW fd \in Fds, AcceptOne(fd)
      PROVE  g_conns' = g_conns \cup {fd} /\ conn'[fd] = NewConnection(sock[fd].serial)
  BY <1>1 DEF AcceptOne, TypeOK, ObjTypeOK
<1>2. CASE \E fd \in Fds : AcceptOne(fd)
  BY <1>1, <1>2
<1>3. ASSUME NEW fd \in Fds, Peer(fd) PROVE UNCHANGED g_conns
  BY <1>3, PeerUnchanged
<1>4. Flushing => UNCHANGED g_conns
  BY FlushingIs
<1>5. Aside => UNCHANGED g_conns
  BY AsideSteps
<1>6. CASE \/ Writing \/ Taking \/ ParseEnd \/ ParseBad \/ ParseDefer \/ SweepErase
           \/ \E e \in batch : IoEvent(e)
           \/ \E t \in running : TaskLeave(t)
  <2>1. UNCHANGED g_conns
    BY <1>6 DEF Writing, PendingAnswer, Expire, Taking, ParseNew, ParseKnown, ParseEnd, ParseBad,
       ParseDefer, SweepErase, IoEvent, TaskLeave
  <2> QED BY <2>1
<1>7. CASE CloseFd
  BY <1>7 DEF CloseFd
<1> QED BY <1>2, <1>3, <1>4, <1>5, <1>6, <1>7, StepCases

LEMMA FreshConn ==
  \A s : /\ Untouched(NewConnection(s)) /\ ~NewConnection(s).waiting_for_arena
         /\ NewConnection(s).in_buf = <<>> /\ NewConnection(s).serial = s
BY DEF NewConnection, Untouched, Mapped

LEMMA VirginsNext ==
  ASSUME TypeOK, TypeOK', OneId, OneShot, Loops, Tended, Counted, Owned, Wire, Flow, [Next]_vars
  PROVE  Virgins'
<1> SUFFICES ASSUME NEW fd \in g_conns', Virgin(fd)' PROVE Untouched(conn'[fd])
  BY DEF Virgins, Untouched, Mapped
<1>1. fd \in Fds
  BY DEF TypeOK, ObjTypeOK
<1>2. CASE fd \notin g_conns
  BY <1>2, NewConns, FreshConn
<1>3. CASE fd \in g_conns
  <2>1. Virgin(fd)
    BY <1>1, ComingBack, DeferVirgin DEF Counted
  <2>2. Untouched(conn[fd])
    BY <1>3, <2>1 DEF Flow, Virgins
  <2>3. CASE Taking
    BY <1>1, <2>2, <2>3, TakingConns DEF Flow, Later
  <2>4. CASE ~Taking
    BY <1>3, <2>2, <2>4, LaterSteps
  <2> QED BY <2>3, <2>4
<1> QED BY <1>2, <1>3

\* A connection that waits has waited before, unless it has just been deferred.
LEMMA WaitingBack ==
  ASSUME TypeOK, TypeOK', Loops, Tended, Counted, Owned, Wire, Flow, [Next]_vars
  PROVE  \A fd \in g_conns' : OpenWaiting(fd)' =>
           fd \in g_conns /\ (OpenWaiting(fd) \/ (ParseDefer /\ Top.fd = fd))
<1> SUFFICES ASSUME NEW fd \in g_conns', OpenWaiting(fd)'
             PROVE  fd \in g_conns /\ (OpenWaiting(fd) \/ (ParseDefer /\ Top.fd = fd))
  OBVIOUS
<1>1. conn'[fd].waiting_for_arena /\ ~conn'[fd].closed /\ fd \in Fds
  BY DEF OpenWaiting, TypeOK, ObjTypeOK
<1>2. fd \in g_conns
  BY <1>1, NewConns, FreshConn
<1>3. CASE Taking
  BY <1>1, <1>2, <1>3, TakingConns DEF Flow, OpenWaiting
<1>4. CASE ~Taking
  BY <1>1, <1>2, <1>4, LaterSteps DEF Later, OpenWaiting
<1> QED BY <1>2, <1>3, <1>4

LEMMA IdlesNext ==
  ASSUME TypeOK, TypeOK', Loops, Tended, Counted, Owned, Wire, Flow, [Next]_vars
  PROVE  Idles'
<1> SUFFICES ASSUME NEW fd \in g_conns', OpenWaiting(fd)', ~Reading(fd)'
             PROVE  Untouched(conn'[fd])
  BY DEF Idles, Untouched, Mapped
<1>1. /\ fd \in Fds /\ fd \in g_conns
      /\ OpenWaiting(fd) \/ (ParseDefer /\ Top.fd = fd)
  BY WaitingBack DEF TypeOK, ObjTypeOK
<1>2. CASE ParseDefer /\ Top.fd = fd
  <2>1. Untouched(conn[fd])
    BY <1>1, <1>2, DeferVirgin DEF Flow, Virgins
  <2>2. ~Taking
    BY <1>2 DEF ParseDefer, Taking, ParseNew, ParseKnown, Exhausted, Get, FirstFree, EntryOf,
       Arena, NoArena
  <2> QED BY <1>1, <2>1, <2>2, LaterSteps
<1>3. CASE OpenWaiting(fd) /\ ~(ParseDefer /\ Top.fd = fd)
  <2>1. CASE Reading(fd)
    <3>1. At("fcgi") /\ Top.fd = fd
      BY <2>1 DEF Reading
    <3>2. ~UNCHANGED stack
      BY <2>1 DEF Reading, At, Top
    <3>3. ParseStep
      BY <3>1, <3>2, FcgiSteps
    <3>4. ~ParseSkip /\ ~Taking
      <4>1. ASSUME ParseSkip \/ Taking PROVE FALSE
        <5>1. At("fcgi")' /\ Top' = [Top EXCEPT !.n = @ + 1] /\ Top \in StackFrame
          BY <3>3, <4>1, PastParse
        <5>2. Top'.fd = fd
          BY <3>1, <5>1 DEF StackFrame, FrameOf
        <5> QED BY <5>1, <5>2 DEF Reading
      <4> QED BY <4>1
    <3>5. ~\E a \in Arena : ParseFault(a)
      BY <3>2 DEF ParseFault
    <3>6. ParseEnd \/ ParseBad
      BY <1>3, <3>1, <3>3, <3>4, <3>5 DEF ParseStep, Taking
    <3>7. ~conn'[fd].waiting_for_arena
      BY <3>1, <3>6, ReturnIs
    <3> QED BY <3>7 DEF OpenWaiting
  <2>2. CASE ~Reading(fd)
    <3>1. Untouched(conn[fd])
      BY <1>1, <1>3, <2>2 DEF Flow, Idles
    <3>2. CASE Taking
      <4>1. fd # Top.fd
        BY <2>2, <3>2, TakingConns DEF Flow, Reading
      <4> QED BY <1>1, <3>1, <3>2, <4>1, TakingConns DEF Flow, Later
    <3>3. CASE ~Taking
      BY <1>1, <3>1, <3>3, LaterSteps
    <3> QED BY <3>2, <3>3
  <2> QED BY <2>1, <2>2
<1> QED BY <1>1, <1>2, <1>3

\* A connection that has been read, or waits with nothing to do, is still looked
\* at when handle_io has come to the end of it.
LEMMA HandledNext ==
  ASSUME TypeOK, TypeOK', Loops, Tended, [Next]_vars, NEW fd \in g_conns, fd \in g_conns',
         At("fcgi") \/ Untouched(conn[fd]), Handled(fd)
  PROVE  Handled(fd)'
<1> DEFINE OnFrame(f) == f.pc \in HandlePC /\ f.fd = fd
           Stacked == \A f \in Frames : OnFrame(f) \/ f.pc = "closing" => f \in Frames'
<1> USE DEF HandlePC
<1>1. ASSUME Stacked, UNCHANGED closing PROVE Handled(fd)'
  <2>1. CASE \E f \in Frames : OnFrame(f)
    BY <1>1, <2>1 DEF Handled
  <2>2. CASE fd \in Items(closing) /\ \E f \in Frames : f.pc = "closing"
    BY <1>1, <2>2 DEF Handled, Items
  <2> QED BY <2>1, <2>2 DEF Handled
<1>2. ASSUME stack # <<>>, Top.pc \notin HandlePC \cup {"closing"}, Below \subseteq Frames'
      PROVE  Stacked
  <2>1. Frames = {Top} \cup Below
    BY <1>2, StackFrames
  <2> QED BY <1>2, <2>1
<1>3. ASSUME stack # <<>>
      PROVE  /\ Return => Below \subseteq Frames'
             /\ \A f : Become(f) => Below \subseteq Frames' /\ f \in Frames'
  <2>1. ASSUME NEW f, Become(f) PROVE Below \subseteq Frames' /\ f \in Frames'
    <3>1. f \in StackFrame
      BY <1>3, <2>1, IntoStack
    <3> QED BY <1>3, <2>1, <3>1, StackFrames
  <2> QED BY <1>3, <2>1, StackFrames
<1>4. ASSUME stack # <<>>, Below = {}, Top.pc # "closing"
      PROVE  OnFrame(Top)
  <2>1. Frames = {Top}
    BY <1>4, StackFrames
  <2> QED BY <1>4, <2>1 DEF Handled
<1>5. stack # <<>>
  BY CallFrames DEF Handled
<1> HIDE DEF Stacked, OnFrame
<1>6. CASE UNCHANGED <<stack, closing>>
  BY <1>1, <1>6, CallFrames DEF Stacked
<1>7. CASE UNCHANGED closing /\ (Minor \/ Serving)
  <2>1. Top.pc \notin HandlePC \cup {"closing"} /\ (Return \/ \E f : Become(f))
    BY <1>5, <1>7 DEF Minor, Serving, MinorPC
  <2> QED BY <1>1, <1>2, <1>3, <1>5, <1>7, <2>1
<1>8. CASE ParseStep
  <2>1. Top.pc = "fcgi" /\ UNCHANGED closing
    BY <1>8 DEF ParseStep, ParseEnd, ParseBad, ParseDefer, ParseSkip, ParseNew, ParseKnown, ParseFault,
       listVars, closeVars, At, Top
  <2>2. UNCHANGED stack \/ Return \/ \E f : Become(f)
    BY <1>8 DEF ParseStep, ParseEnd, ParseBad, ParseDefer, ParseSkip, ParseNew, ParseKnown, ParseFault,
       Deliver, ioVars
  <2>3. Below \subseteq Frames'
    BY <1>3, <1>5, <2>2, CallFrames, StackFrames
  <2> QED BY <1>1, <1>2, <1>5, <2>1, <2>3
<1>9. CASE WaitingNext
  BY <1>1, <1>2, <1>9, WaitingEntry
<1>10. CASE \E e \in batch : IoEvent(e)
  BY <1>5, <1>10, IoEntry
<1>11. CASE AfterParse \/ OutFlush
  <2>1. Top.pc \in {"parsed", "outflush"} /\ UNCHANGED closing
    BY <1>11 DEF AfterParse, OutFlush, At, Top
  <2>2. Below = {} /\ Top.fd = fd
    BY <1>4, <1>5, <2>1, AloneFrames DEF OnFrame
  <2>3. \E x : Become(x) /\ x.fd = fd /\ x.pc \in {"outflush", "sweep"}
    <3>1. /\ Frame("outflush", fd).fd = fd /\ Frame("outflush", fd).pc = "outflush"
          /\ SweepFrame(fd).fd = fd /\ SweepFrame(fd).pc = "sweep"
      BY DEF Frame, SweepFrame
    <3>2. Become(Frame("outflush", fd)) \/ Become(SweepFrame(fd))
      BY <1>11, <2>2 DEF AfterParse, OutFlush
    <3> QED BY <3>1, <3>2
  <2>4. \E x \in Frames' : x.fd = fd /\ x.pc \in {"outflush", "sweep"}
    BY <1>3, <1>5, <2>3
  <2> QED BY <2>4 DEF Handled
<1>12. CASE SweepErase
  <2>1. Top.pc = "erase"
    BY <1>12 DEF SweepErase, At, Top
  <2>2. Below = {}
    BY <1>5, <2>1, AloneFrames
  <2> QED BY <1>4, <1>5, <2>1, <2>2 DEF OnFrame
<1>13. CASE SweepDone
  <2>1. Top.pc = "sweep" /\ Become(Frame("closing", NoFd))
    BY <1>13 DEF SweepDone, At, Top
  <2>2. Below = {} /\ Top.fd = fd
    BY <1>4, <1>5, <2>1, AloneFrames DEF OnFrame
  <2>3. ShouldClose(conn[fd])
    <3>1. Untouched(conn[fd])
      BY <2>1 DEF At, Top
    <3> QED BY <3>1 DEF Untouched, ShouldClose
  <2>4. closing' = Append(g_close_queue, fd)
    BY <1>13, <2>2, <2>3 DEF SweepDone
  <2>5. g_close_queue \in Seq(Fds) /\ fd \in Fds
    BY DEF TypeOK, ListTypeOK, ObjTypeOK
  <2>6. fd \in Items(closing')
    BY <2>4, <2>5 DEF Items
  <2>7. Items(closing)' = Items(closing')
    BY DEF Items
  <2>8. Frame("closing", NoFd) \in Frames' /\ Frame("closing", NoFd).pc = "closing"
    BY <1>3, <1>5, <2>1 DEF Frame
  <2> QED BY <2>6, <2>7, <2>8 DEF Handled
<1>14. ASSUME NEW id \in Ids, SweepFree(id) PROVE FALSE
  <2>1. \E a \in Arena, under \in StackFrame : /\ Releases(a, id, under)
                               /\ Top.pc = "sweep" /\ Below = {}
    BY <1>14, SweepFreeIs
  <2>2. Top.fd = fd /\ conn[Top.fd].requests[id] # NoArena
    BY <1>4, <1>5, <2>1 DEF OnFrame, Releases
  <2>3. Untouched(conn[fd])
    BY <2>1 DEF At, Top
  <2> QED BY <2>2, <2>3 DEF Untouched, Mapped
<1>15. ASSUME NEW id \in Ids, SweepKeep(id) PROVE Handled(fd)'
  <2>1. Top.pc = "sweep" /\ Become([Top EXCEPT !.ids = @ \ {id}])
    BY <1>15 DEF SweepKeep, At, Top
  <2>2. Below = {} /\ Top.fd = fd
    BY <1>4, <1>5, <2>1, AloneFrames DEF OnFrame
  <2>3. Top \in StackFrame
    BY <1>5, StackFrames
  <2>4. \E x : Become(x) /\ x.fd = fd /\ x.pc = "sweep"
    BY <2>1, <2>2, <2>3 DEF StackFrame, FrameOf
  <2>5. \E x \in Frames' : x.fd = fd /\ x.pc = "sweep"
    BY <1>3, <1>5, <2>4
  <2> QED BY <2>5 DEF Handled
<1>16. ASSUME NEW id \in Ids, CleanupOne(id) PROVE Handled(fd)'
  <2>1. PICK a \in Arena, under \in StackFrame :
          /\ Releases(a, id, under) /\ Top.pc = "cleanup" /\ under.pc = "cleanup"
    BY <1>16, CleanupOneIs
  <2>2. /\ under \in Frames' /\ under.fd = Top.fd /\ Below \subseteq Frames'
        /\ UNCHANGED closing
    BY <2>1 DEF Releases, ReleaseRequest, closeVars
  <2>3. CASE OnFrame(Top)
    BY <2>1, <2>2, <2>3 DEF OnFrame, Handled
  <2>4. CASE ~OnFrame(Top)
    <3>1. Stacked
      BY <1>5, <2>1, <2>2, <2>4, StackFrames DEF Stacked
    <3> QED BY <1>1, <2>2, <3>1
  <2> QED BY <2>3, <2>4
<1>17. CASE CloseQueued
  <2>1. /\ Top.pc = "closing" /\ closing # <<>> /\ closing' = Tail(closing)
        /\ IF Head(closing) \in g_conns /\ ShouldClose(conn[Head(closing)])
             THEN Call(<<CleanupFrame(Head(closing))>>) ELSE UNCHANGED stack
    BY <1>17 DEF CloseQueued, At, Top
  <2>2. Below = {} /\ Frames = {Top}
    BY <1>5, <2>1, AloneFrames, StackFrames
  <2>3. fd \in Items(closing) /\ Untouched(conn[fd]) /\ closing \in Seq(Fds)
    BY <2>1, <2>2 DEF Handled, At, Top, TypeOK, ListTypeOK
  <2>4. CASE Head(closing) = fd
    <3>1. Call(<<CleanupFrame(fd)>>)
      BY <2>1, <2>3, <2>4 DEF Untouched, ShouldClose
    <3>2. CleanupFrame(fd) \in StackFrame
      BY <3>1, IntoStack
    <3>3. CleanupFrame(fd) \in Frames'
      BY <3>1, <3>2, CallFrames
    <3>4. CleanupFrame(fd).pc = "cleanup" /\ CleanupFrame(fd).fd = fd
      BY DEF CleanupFrame, Frame
    <3> QED BY <3>3, <3>4 DEF Handled
  <2>5. CASE Head(closing) # fd
    <3>1. Top \in Frames'
      <4>1. CASE UNCHANGED stack
        BY <2>2, <4>1, CallFrames
      <4>2. ASSUME NEW g, Call(<<g>>) PROVE Top \in Frames'
        <5>1. g \in StackFrame
          BY <4>2, IntoStack
        <5> QED BY <2>2, <4>2, <5>1, CallFrames
      <4> QED BY <2>1, <4>1, <4>2
    <3>2. Items(closing) = {closing[1]} \cup Items(Tail(closing))
      BY <2>1, <2>3, FramesAre
    <3>3. fd \in Items(Tail(closing))
      BY <2>1, <2>3, <2>5, <3>2
    <3>4. Items(closing)' = Items(Tail(closing))
      BY <2>1 DEF Items
    <3> QED BY <2>1, <3>1, <3>3, <3>4 DEF Handled
  <2> QED BY <2>4, <2>5
<1>18. CASE CloseQueueDone
  <2>1. Top.pc = "closing" /\ closing = <<>>
    BY <1>18 DEF CloseQueueDone, At, Top
  <2>2. Frames = {Top} /\ Items(closing) = {}
    BY <1>5, <2>1, AloneFrames, StackFrames, NoItems
  <2> QED BY <2>1, <2>2 DEF Handled
<1>19. CASE CloseFd
  <2>1. Top.pc = "cleanup" /\ Return /\ UNCHANGED closing /\ Top.fd # fd
    BY <1>19 DEF CloseFd, At, Top, listVars, closeVars
  <2>2. Frames = {Top} \cup Below /\ Frames' = Below
    BY <1>5, <2>1, StackFrames
  <2>3. Stacked
    BY <2>1, <2>2 DEF Stacked, OnFrame
  <2> QED BY <1>1, <2>1, <2>3
<1>20. ASSUME NEW hfd \in Fds, HousekeepingClose(hfd) PROVE Handled(fd)'
  <2>1. UNCHANGED closing /\ (UNCHANGED stack \/ \E g : Call(<<g>>))
    BY <1>20 DEF HousekeepingClose
  <2>2. ASSUME NEW g, Call(<<g>>) PROVE Frames \subseteq Frames'
    <3>1. g \in StackFrame
      BY <2>2, IntoStack
    <3> QED BY <2>2, <3>1, CallFrames
  <2>3. Frames \subseteq Frames'
    BY <2>1, <2>2, CallFrames
  <2> QED BY <1>1, <2>1, <2>3 DEF Stacked
<1> QED BY <1>6, <1>7, <1>8, <1>9, <1>10, <1>11, <1>12, <1>13, <1>14, <1>15, <1>16, <1>17, <1>18,
           <1>19, <1>20, StackCases

\* What stands before a record that is to be parsed.
LEMMA ReadingBack ==
  ASSUME TypeOK, TypeOK', Loops, Tended, Nested, Flushed, [Next]_vars, NEW fd, Reading(fd)', Exists'
  PROVE  \/ Reading(fd) /\ Exists /\ Below' = Below /\ fd \in g_conns
         \/ Handled(fd)' /\ stack = <<>> /\ \E x : Below' = {x} /\ x.pc = "parsed"
         \/ /\ stack # <<>> /\ Top.pc = "waiting" /\ OpenWaiting(fd) /\ fd \in g_conns
            /\ \E f : /\ f.pc = "waited"
                      /\ \A g \in Below' : g = f \/ g \in Below
<1>1. CASE At("fcgi") /\ ParseStep
  <2>1. stack # <<>> /\ Top \in StackFrame /\ Top.fd \in g_conns
    BY <1>1, TopServed DEF At, Top, FdPC
  <2>2. ~Return
    BY <1>1, ReturnsHigher DEF Reading
  <2>3. CASE ParseSkip \/ Taking
    <3>1. Top' = [Top EXCEPT !.n = @ + 1] /\ Below' = Below /\ Exists
      BY <1>1, <2>3, PastParse DEF ParseSkip, Taking, ParseNew, ParseKnown
    <3>2. Top'.fd = Top.fd
      BY <2>1, <3>1 DEF StackFrame, FrameOf
    <3> QED BY <1>1, <2>1, <3>1, <3>2 DEF Reading
  <2>4. CASE \E a \in Arena : ParseFault(a)
    <3>1. UNCHANGED stack /\ Exists
      BY <2>4 DEF ParseFault, ioVars
    <3> QED BY <1>1, <2>1, <3>1 DEF Reading, Top, Below, Items
  <2> QED BY <1>1, <2>2, <2>3, <2>4 DEF ParseStep, Taking, ParseEnd, ParseBad, ParseDefer
<1>2. CASE At("fcgi") /\ ~ParseStep
  <2>1. UNCHANGED stack /\ (Workers \/ WsThreads \/ Undefined \/ UNCHANGED vars)
    BY <1>2, FcgiSteps
  <2>2. stack # <<>> /\ Top \in StackFrame /\ Top.fd \in g_conns /\ Top' = Top /\ Below' = Below
    BY <1>2, <2>1, TopServed DEF At, Top, FdPC, Below, Items
  <2>3. \A gd \in Fds : conn'[gd].in_buf = conn[gd].in_buf
    <3>1. CASE UNCHANGED conn
      BY <3>1
    <3>2. CASE \E t \in running : TaskLeave(t)
      BY <3>2, StillWire DEF SameWire
    <3> QED BY <2>1, <3>1, <3>2 DEF Workers, TaskStart, TaskFault, TaskPush, TaskInactive, WsThreads,
           WsGet, WsRelease, Undefined, vars, objVars, connVars
  <2>4. InBuf' = conn'[Top.fd].in_buf /\ Top.fd \in Fds
    BY <2>2 DEF InBuf, TypeOK, ObjTypeOK
  <2>5. Exists
    BY <2>2, <2>3, <2>4 DEF Exists, InBuf
  <2> QED BY <1>2, <2>2, <2>5 DEF Reading
<1>3. CASE ~At("fcgi")
  <2>1. ASSUME NEW e \in batch, IoEvent(e)
        PROVE  Handled(fd)' /\ stack = <<>> /\ \E x : Below' = {x} /\ x.pc = "parsed"
    <3>1. /\ stack = <<>> /\ \E x \in Frames' : x.fd = e.fd /\ x.pc \in {"parsed", "outflush", "sweep"}
          /\ Top' = Frame("fcgi", e.fd) /\ \E x : Below' = {x} /\ x.pc = "parsed"
      BY <2>1, IoEntry DEF Reading
    <3>2. e.fd = fd
      BY <3>1 DEF Frame, Reading
    <3> QED BY <3>1, <3>2 DEF Handled, HandlePC
  <2>2. CASE WaitingNext
    <3>1. stack # <<>> /\ Top.pc = "waiting" /\ UNCHANGED conn
      BY <2>2, WaitingEntry
    <3>2. PICK hd \in g_conns, f \in StackFrame :
             /\ ~conn[hd].closed /\ Top' = Frame("fcgi", hd) /\ f.pc = "waited"
             /\ \A g \in Below' : g = f \/ g \in Below
      BY <2>2, WaitingEntry DEF Reading
    <3>3. hd = fd /\ Top'.n = 0
      BY <3>2 DEF Frame, Reading
    <3>4. ~Drained(fd)
      <4> DEFINE in == conn[fd].in_buf
      <4>1. InBuf' = in
        BY <3>1, <3>3 DEF InBuf, Reading
      <4>2. in \in Seq(Record)
        BY <3>2, <3>3 DEF TypeOK, ObjTypeOK, Connection
      <4>3. 0 < Len(in) /\ in[1].type # "PARTIAL"
        BY <3>3, <4>1 DEF Exists
      <4> QED BY <4>2, <4>3 DEF Drained
    <3>5. ~Parsing(fd)
      BY <3>1, OnTop DEF Parsing
    <3>6. OpenWaiting(fd)
      BY <3>2, <3>3, <3>4, <3>5 DEF Flushed, Drains, OpenWaiting
    <3> QED BY <3>1, <3>2, <3>3, <3>6
  <2> QED BY <1>3, <2>1, <2>2, EntryCases DEF Reading
<1> QED BY <1>1, <1>2, <1>3

LEMMA LeavesNext ==
  ASSUME TypeOK, TypeOK', Loops, Tended, Counted, Nested, Flushed, Owned, Wire, Flow, [Next]_vars
  PROVE  Leaves'
<1>1. ASSUME NEW fd \in g_conns, fd \in g_conns',
             OpenWaiting(fd) \/ (Reading(fd) /\ Exists)
      PROVE  Handled(fd)'
  <2>1. Handled(fd)
    BY <1>1 DEF Flow, Leaves
  <2>2. At("fcgi") \/ Untouched(conn[fd])
    BY <1>1 DEF Flow, Idles, Reading
  <2> QED BY <1>1, <2>1, <2>2, HandledNext
<1>2. ASSUME NEW fd \in g_conns', OpenWaiting(fd)' PROVE Handled(fd)'
  <2>1. fd \in g_conns /\ (OpenWaiting(fd) \/ (ParseDefer /\ Top.fd = fd))
    BY <1>2, WaitingBack
  <2>2. OpenWaiting(fd) \/ (Reading(fd) /\ Exists)
    BY <2>1, DeferVirgin DEF Reading
  <2> QED BY <1>1, <1>2, <2>1, <2>2
<1>3. ASSUME NEW fd \in g_conns', Reading(fd)', Exists' PROVE Handled(fd)'
  <2>1. \/ Handled(fd)'
        \/ fd \in g_conns /\ (OpenWaiting(fd) \/ (Reading(fd) /\ Exists))
    BY <1>3, ReadingBack
  <2> QED BY <1>1, <1>3, <2>1
<1> QED BY <1>2, <1>3 DEF Leaves

LEMMA ApartNext ==
  ASSUME TypeOK, TypeOK', Loops, Tended, Counted, Nested, Flushed, Owned, Wire, Flow, [Next]_vars
  PROVE  Apart'
<1> SUFFICES ASSUME At("fcgi")', Exists', NEW g \in Below',
                    g.pc = "housekeeping" \/ (g.pc \in EndPC /\ g.fd = Top'.fd)
             PROVE  FALSE
  BY DEF Apart
<1>0. PICK fd : fd = Top'.fd
  OBVIOUS
<1>1. Reading(fd)'
  BY <1>0 DEF Reading
<1>2. CASE Reading(fd) /\ Exists /\ Below' = Below
  <2>1. g.pc = "housekeeping" \/ (g.pc \in EndPC /\ g.fd = Top.fd)
    BY <1>0, <1>2 DEF Reading
  <2> QED BY <1>2, <2>1 DEF Flow, Apart, Reading
<1>3. CASE \E x : Below' = {x} /\ x.pc = "parsed"
  BY <1>3 DEF EndPC
<1>4. CASE /\ stack # <<>> /\ Top.pc = "waiting" /\ OpenWaiting(fd) /\ fd \in g_conns
           /\ \E f : /\ f.pc = "waited"
                     /\ \A h \in Below' : h = f \/ h \in Below
  <2>1. g \in Below /\ g \in Frames
    BY <1>4, StackFrames DEF EndPC
  <2>2. Untouched(conn[fd]) /\ Handled(fd)
    BY <1>4 DEF Flow, Idles, Leaves, Reading, At, Top
  <2>3. \A h \in Frames : h.pc = "cleanup" => h.fd # fd
    BY <1>4, <2>2 DEF Owned, Cleans, Untouched, At, Top
  <2>4. CASE g.pc = "housekeeping"
    <3>1. \A h \in Frames : h.pc \notin CallsOn => h = g
      BY <2>1, <2>4, FramesOnce DEF CallsOn
    <3>2. \A h \in Frames : h.pc # "closing" /\ ~(h.pc \in HandlePC /\ h.fd = fd)
      BY <2>3, <2>4, <3>1 DEF CallsOn, HandlePC
    <3> QED BY <2>2, <3>2 DEF Handled
  <2>5. CASE g.pc = "erase" /\ g.fd = fd
    <3>1. VisitsMapped(g, conn)
      BY <2>1 DEF Loops, LoopsStayValid, Frames, Items
    <3> QED BY <2>2, <2>5, <3>1 DEF VisitsMapped, Untouched
  <2> QED BY <1>0, <2>1, <2>3, <2>4, <2>5 DEF EndPC
<1> QED BY <1>1, <1>2, <1>3, <1>4, ReadingBack

LEMMA FlowNext ==
  ASSUME TypeOK, TypeOK', OneId, OneShot, Loops, Tended, Counted, Nested, Flushed, Owned, Wire,
         Flow, [Next]_vars
  PROVE  Flow'
BY VirginsNext, IdlesNext, LeavesNext, ApartNext DEF Flow

LEMMA InitFlow == Init => Flow
BY DEF Init, Flow, Virgins, Idles, Leaves, Apart, At

-----------------------------------------------------------------------------
(* What a step makes of a request *)

\* A request that failed or was aborted has been ended.
Marked(r) == {"FAILED", "ABORTED"} \cap r.flags # {} => Responded(r)

LEMMA ApplyFlags ==
  ASSUME NEW r \in Request, NEW rec
  PROVE  LET after == ApplyRecord(r, rec) IN
         /\ r.flags \subseteq after.flags /\ after.worker_active = r.worker_active
         /\ Marked(r) => Marked(after)
         /\ "INPUT_COMPLETE" \in after.flags =>
              "INPUT_COMPLETE" \in r.flags \/ (rec.type = "STDIN" /\ rec.len = 0)
         /\ rec.type \notin {"BEGIN", "PARAMS", "STDIN"} => Responded(after)
<1> DEFINE Onward(q, p) == /\ q.flags \subseteq p.flags /\ p.worker_active = q.worker_active
                           /\ Marked(q) => Marked(p)
                           /\ "INPUT_COMPLETE" \in p.flags => "INPUT_COMPLETE" \in q.flags
<1>1. \A q \in Request : Onward(q, FailRequest(q)) /\ Responded(FailRequest(q))
  BY DEF FailRequest, Request, Marked, Responded
<1>2. Onward(r, ApplyBegin(r, rec))
  BY DEF ApplyBegin, Request, Marked, Responded
<1>3. Onward(r, ApplyParams(r, rec))
  <2>1. Onward(r, r)
    OBVIOUS
  <2>2. Onward(r, [r EXCEPT !.flags = @ \cup {"PARAMS_COMPLETE"}])
    BY DEF Request, Marked, Responded
  <2>3. Onward(r, [r EXCEPT !.params_bytes = @ + rec.len])
    BY DEF Request, Marked, Responded
  <2> HIDE DEF Onward
  <2> QED BY <1>1, <2>1, <2>2, <2>3 DEF ApplyParams
<1>4. CASE rec.type = "STDIN"
  <2>1. CASE rec.len = 0
    <3>1. ApplyRecord(r, rec) = [r EXCEPT !.flags = @ \cup {"INPUT_COMPLETE"}]
      BY <1>4, <2>1 DEF ApplyRecord, ApplyStdin
    <3> QED BY <1>4, <2>1, <3>1 DEF Request, Marked, Responded
  <2>2. CASE rec.len # 0
    <3>1. Onward(r, r) /\ Onward(r, [r EXCEPT !.body_bytes = @ + rec.len])
      BY DEF Request, Marked, Responded
    <3> HIDE DEF Onward
    <3>2. Onward(r, ApplyRecord(r, rec))
      BY <1>1, <1>4, <2>2, <3>1 DEF ApplyRecord, ApplyStdin
    <3> QED BY <1>4, <3>2 DEF Onward
  <2> QED BY <2>1, <2>2
<1>5. CASE rec.type \notin {"BEGIN", "PARAMS", "STDIN"}
  <2> DEFINE q == [r EXCEPT !.flags = @ \cup {"ABORTED"}]
  <2>1. /\ q \in Request /\ q.worker_active = r.worker_active /\ r.flags \subseteq q.flags
        /\ "INPUT_COMPLETE" \in q.flags => "INPUT_COMPLETE" \in r.flags
    BY DEF Request, Flag
  <2>2. ApplyRecord(r, rec) = FailRequest(q)
    BY <1>5 DEF ApplyRecord, ApplyAbort
  <2> HIDE DEF q
  <2>3. Onward(q, FailRequest(q)) /\ Responded(FailRequest(q))
    BY <1>1, <2>1
  <2> QED BY <2>1, <2>2, <2>3 DEF Marked
<1> HIDE DEF Onward
<1>6. CASE rec.type \in {"BEGIN", "PARAMS"}
  <2>1. Onward(r, ApplyRecord(r, rec))
    BY <1>2, <1>3, <1>6 DEF ApplyRecord
  <2> QED BY <1>6, <2>1 DEF Onward
<1> QED BY <1>4, <1>5, <1>6

\* The record of the connection being read is applied to its request r, which
\* lives in arena a from now on; go: the request goes to a worker.
Applies(a, r, go) ==
  /\ r \in Request /\ r.live /\ r.conn_ptr = Top.fd /\ r.cserial = conn[Top.fd].serial
  /\ \/ r = req[a]
     \/ /\ ~req[a].live /\ r.serial = built + 1
        /\ r.flags = {} /\ r.dispatches = 0
  /\ req'[a].flags = ApplyRecord(r, NextRecord).flags
  /\ req'[a].worker_active = (r.worker_active \/ go)
  /\ go = Ready(ApplyRecord(r, NextRecord))
  /\ Delivered(a, r, Top.fd, NextRecord.id, go)

\* What is written for it, if the record fails the request.
Tells(a, r) ==
  LET ended == EndsRequest(r, ApplyRecord(r, NextRecord)) IN
  /\ req'[a].ends = IF ended THEN r.ends + 1 ELSE r.ends
  /\ \A fd \in Fds : conn'[fd].out_buf = IF fd = Top.fd /\ ended
                                           THEN Append(conn[fd].out_buf, r.id)
                                           ELSE conn[fd].out_buf

LEMMA ApplyEnds ==
  ASSUME NEW r \in Request, NEW rec
  PROVE  LET after == ApplyRecord(r, rec) IN
         /\ after.ends = r.ends
         /\ EndsRequest(r, after) => "FAILED" \in after.flags
<1> DEFINE Fails(q, p) == /\ p.ends = q.ends
                          /\ EndsRequest(q, p) => "FAILED" \in p.flags
<1>1. \A q \in Request : Fails(q, FailRequest(q))
  BY DEF FailRequest, Request, EndsRequest, Responded
<1>2. Fails(r, ApplyBegin(r, rec))
  BY DEF ApplyBegin, Request, EndsRequest, Responded
<1>3. Fails(r, r)
  BY DEF EndsRequest
<1>4. Fails(r, ApplyParams(r, rec))
  <2>1. Fails(r, [r EXCEPT !.flags = @ \cup {"PARAMS_COMPLETE"}])
    BY DEF Request, EndsRequest, Responded
  <2>2. Fails(r, [r EXCEPT !.params_bytes = @ + rec.len])
    BY DEF Request, EndsRequest, Responded
  <2> HIDE DEF Fails
  <2> QED BY <1>1, <1>3, <2>1, <2>2 DEF ApplyParams
<1>5. Fails(r, ApplyStdin(r, rec))
  <2>1. Fails(r, [r EXCEPT !.flags = @ \cup {"INPUT_COMPLETE"}])
    BY DEF Request, EndsRequest, Responded
  <2>2. Fails(r, [r EXCEPT !.body_bytes = @ + rec.len])
    BY DEF Request, EndsRequest, Responded
  <2> HIDE DEF Fails
  <2> QED BY <1>1, <1>3, <2>1, <2>2 DEF ApplyStdin
<1>6. Fails(r, ApplyAbort(r))
  <2> DEFINE q == [r EXCEPT !.flags = @ \cup {"ABORTED"}]
  <2>1. q \in Request /\ q.ends = r.ends /\ (Responded(q) <=> Responded(r))
    BY DEF Request, Flag, Responded
  <2>2. ApplyAbort(r) = FailRequest(q)
    BY DEF ApplyAbort
  <2> HIDE DEF q
  <2> QED BY <1>1, <2>1, <2>2 DEF EndsRequest
<1> HIDE DEF Fails
<1>7. Fails(r, ApplyRecord(r, rec))
  BY <1>2, <1>4, <1>5, <1>6 DEF ApplyRecord
<1> QED BY <1>7 DEF Fails

LEMMA TakingIs ==
  ASSUME TypeOK, Tended, Apart, Taking
  PROVE  \E a \in Arena, r \in Request, go \in BOOLEAN : Applies(a, r, go) /\ Tells(a, r)
<1>1. PICK a \in Arena : ParseNew(a) \/ ParseKnown(a)
  BY DEF Taking
<1> DEFINE r == IF ParseNew(a)
                  THEN NewRequest(built + 1, Top.fd, conn[Top.fd].serial, NextRecord.id)
                  ELSE req[a]
           after == ApplyRecord(r, NextRecord)
           ready1 == Ready(after)
           ended == EndsRequest(r, after)
           ends == IF ended THEN after.ends + 1 ELSE after.ends
           active == after.worker_active \/ ready1
           n == IF ready1 THEN after.dispatches + 1 ELSE after.dispatches
           final == [after EXCEPT !.ends = ends, !.worker_active = active, !.dispatches = n]
<1>2. PICK go \in BOOLEAN : Delivered(a, r, Top.fd, NextRecord.id, go)
  BY <1>1, ParseDelivers
<1>3. /\ r \in Request /\ r.conn_ptr = Top.fd /\ r.cserial = conn[Top.fd].serial
  BY <1>1, ParseDelivers, TakingConn
<1>4. /\ r.live
      /\ \/ r = req[a]
         \/ /\ ~req[a].live /\ r.serial = built + 1 /\ r.flags = {} /\ r.dispatches = 0
  <2>1. CASE ParseNew(a)
    <3>1. ~in_use[a]
      BY <2>1 DEF ParseNew, Get, FirstFree, FreeArenas
    <3>2. ~req[a].live
      BY <3>1 DEF Tended, Held
    <3> QED BY <2>1, <3>2 DEF NewRequest
  <2>2. CASE ~ParseNew(a)
    BY <1>1, <2>2 DEF ParseKnown
  <2> QED BY <2>1, <2>2
<1>5. req' = [req EXCEPT ![a] = final]
  <2>1. Deliver(a, r, NextRecord)
    BY <1>1 DEF ParseNew, ParseKnown
  <2> QED BY <2>1 DEF Deliver
<1>6. NextRecord \in Record
  BY <1>1, RecordIs DEF ParseNew, ParseKnown
<1> HIDE DEF r
<1>7. after \in Request /\ after.dispatches = r.dispatches /\ after.worker_active = r.worker_active
  BY <1>3, <1>6, ApplyRecordType, ApplyRecordKeeps, ApplyFlags
<1>8. ready1 \in BOOLEAN
  BY DEF Ready
<1> HIDE DEF after, ready1, ends
<1>9. final.flags = after.flags /\ final.worker_active = active /\ final.dispatches = n
  <2> HIDE DEF active, n
  <2> QED BY <1>7 DEF Request
<1>10. req'[a] = final
  BY <1>5 DEF TypeOK, ObjTypeOK
<1>11. go = ready1
  <2>1. n = IF ready1 THEN r.dispatches + 1 ELSE r.dispatches
    BY <1>7
  <2> HIDE DEF n, final
  <2>2. n = IF go THEN r.dispatches + 1 ELSE r.dispatches
    BY <1>2, <1>9, <1>10 DEF Delivered
  <2>3. r.dispatches \in Nat
    BY <1>3 DEF Request
  <2> QED BY <1>2, <1>8, <2>1, <2>2, <2>3
<1>12. req'[a].flags = after.flags /\ req'[a].worker_active = (r.worker_active \/ go)
  <2>1. active = (r.worker_active \/ go)
    BY <1>7, <1>11
  <2> HIDE DEF final, active
  <2> QED BY <1>9, <1>10, <2>1
<1>13. req'[a].ends = IF ended THEN r.ends + 1 ELSE r.ends
  <2>1. ends = IF ended THEN r.ends + 1 ELSE r.ends
    BY <1>3, ApplyEnds DEF ends, after
  <2>2. final.ends = ends
    <3> HIDE DEF active, n
    <3> QED BY <1>7 DEF Request
  <2> HIDE DEF final, ended
  <2> QED BY <1>10, <2>1, <2>2
<1> HIDE DEF final, active, n, ended
<1>14. \A fd \in Fds : conn'[fd].out_buf = IF fd = Top.fd /\ ended
                                            THEN Append(conn[fd].out_buf, r.id)
                                            ELSE conn[fd].out_buf
  <2>1. Top.fd \in Fds
    BY <1>1, ParseDelivers
  <2>2. PICK w : conn' = [conn EXCEPT
          ![Top.fd].requests[NextRecord.id] = a,
          ![Top.fd].out_buf = IF ended THEN Append(@, r.id) ELSE @,
          ![r.conn_ptr].active_workers = IF w THEN @ + 1 ELSE @]
    <3>1. Deliver(a, r, NextRecord)
      BY <1>1 DEF ParseNew, ParseKnown, r
    <3> QED BY <3>1 DEF Deliver, ended, after
  <2> QED BY <1>3, <2>1, <2>2 DEF TypeOK, ObjTypeOK, Connection
<1>15. Applies(a, r, go)
  BY <1>2, <1>3, <1>4, <1>11, <1>12 DEF Applies, after, ready1
<1>16. Tells(a, r)
  BY <1>13, <1>14 DEF Tells, ended, after
<1> QED BY <1>2, <1>3, <1>15, <1>16

\* Request a is what it was, and ended if it was.
SameWork(a) ==
  /\ SameRequest(req[a], req'[a]) /\ req'[a].dispatches = req[a].dispatches
  /\ "INPUT_COMPLETE" \in req'[a].flags <=> "INPUT_COMPLETE" \in req[a].flags
  /\ Responded(req[a]) => Responded(req'[a])
  /\ Marked(req[a]) => Marked(req'[a])

SameActive(a) == req'[a].worker_active = req[a].worker_active

LEMMA WritingWork ==
  ASSUME TypeOK, Writing
  PROVE  \A a \in Arena : SameWork(a) /\ SameActive(a)
<1>1. req \in [Arena -> Request]
  BY DEF TypeOK, ObjTypeOK
<1> DEFINE Adds(b, S) == \A a \in Arena :
             /\ SameRequest(req[a], req'[a]) /\ req'[a].dispatches = req[a].dispatches
             /\ SameActive(a)
             /\ req'[a].flags = IF a = b THEN req[a].flags \cup S ELSE req[a].flags
<1>2. ASSUME PendingAnswer PROVE \E b : Adds(b, {"RESPONDED"})
  <2> DEFINE b == Head(taken).arena
  <2>1. req' = [req EXCEPT ![b].flags = @ \cup {"RESPONDED"}, ![b].ends = @ + 1]
    BY <1>2 DEF PendingAnswer, Answer
  <2> HIDE DEF b
  <2>2. Adds(b, {"RESPONDED"})
    BY <1>1, <2>1 DEF SameRequest, SameActive, Request
  <2> QED BY <2>2
<1>3. ASSUME NEW fd \in Fds, NEW id \in Ids, Expire(fd, id)
      PROVE  \E b : Adds(b, {"FAILED", "RESPONDED"})
  <2> DEFINE b == conn[fd].requests[id]
  <2>1. req' = [req EXCEPT ![b].flags = @ \cup {"FAILED", "RESPONDED"}, ![b].ends = @ + 1]
    BY <1>3 DEF Expire
  <2> HIDE DEF b
  <2>2. Adds(b, {"FAILED", "RESPONDED"})
    BY <1>1, <2>1 DEF SameRequest, SameActive, Request
  <2> QED BY <2>2
<1>4. ASSUME NEW b, NEW S, Adds(b, S), "RESPONDED" \in S, "INPUT_COMPLETE" \notin S
      PROVE  \A a \in Arena : SameWork(a) /\ SameActive(a)
  BY <1>4 DEF SameWork, Marked, Responded
<1> HIDE DEF Adds
<1>5. \E b : Adds(b, {"RESPONDED"}) \/ Adds(b, {"FAILED", "RESPONDED"})
  BY <1>2, <1>3 DEF Writing
<1> QED BY <1>4, <1>5

LEMMA InactiveWork ==
  ASSUME TypeOK, NEW t \in running, TaskInactive(t)
  PROVE  \A a \in Arena : SameWork(a) /\ (a # t.arena => SameActive(a))
<1>1. req \in [Arena -> Request] /\ req' = [req EXCEPT ![t.arena].worker_active = FALSE]
  BY DEF TypeOK, ObjTypeOK, TaskInactive
<1>2. \A a \in Arena : /\ SameRequest(req[a], req'[a]) /\ req'[a].dispatches = req[a].dispatches
                       /\ a # t.arena => SameActive(a)
  BY <1>1 DEF SameRequest, SameActive, Request
<1>3. \A a \in Arena : req'[a].flags = req[a].flags
  BY <1>1 DEF Request
<1> QED BY <1>2, <1>3 DEF SameWork, Marked, Responded

\* The steps that touch requests.
LEMMA ReqSteps ==
  ASSUME TypeOK, [Next]_vars
  PROVE  \/ Taking \/ Writing \/ UNCHANGED req
         \/ \E t \in running : TaskInactive(t)
         \/ \E id \in Ids : SweepFree(id) \/ CleanupOne(id)
<1>1. CASE Aside
  <2>1. ASSUME ~\E t \in running : TaskInactive(t),
               ~\E id \in Ids : SweepFree(id) \/ CleanupOne(id)
        PROVE  UNCHANGED req
    BY <1>1, <2>1 DEF Aside, EpollWait, AcceptDone, ListenEvent, EventFdEvent, TimerEvent, IoStale,
       SwapPending, PendingSkip, PendingFault, PendingDone, ParseSkip, SweepDone, CloseQueued,
       CloseQueueDone, ParseFault, SweepKeep, ExpireDone, HousekeepingDone, HousekeepingClose,
       WaitingNext, WaitingDone, WaitedAgain, TaskStart, TaskFault, TaskPush, WsThreads, WsGet,
       WsRelease, TimerTick, Undefined, vars, objVars
  <2> QED BY <2>1
<1>2. CASE Flushing
  BY <1>2, FlushingIs
<1>3. ASSUME NEW fd \in Fds, AcceptOne(fd) \/ Peer(fd) PROVE UNCHANGED req
  BY <1>3, PeerUnchanged DEF AcceptOne, objVars
<1>4. ASSUME NEW e \in batch, IoEvent(e) PROVE UNCHANGED req
  BY <1>4, IoEventIs
<1>5. CASE \/ ParseEnd \/ ParseBad \/ ParseDefer \/ SweepErase \/ CloseFd
           \/ \E t \in running : TaskLeave(t)
  BY <1>5 DEF ParseEnd, ParseBad, ParseDefer, SweepErase, CloseFd, TaskLeave
<1> QED BY <1>1, <1>2, <1>3, <1>4, <1>5, StepCases

\* What happens to the requests in a step.
LEMMA WorkSteps ==
  ASSUME TypeOK, [Next]_vars
  PROVE  \/ Taking
         \/ \A a \in Arena : SameWork(a) /\ SameActive(a)
         \/ \E t \in running : TaskInactive(t)
         \/ \E id \in Ids : SweepFree(id) \/ CleanupOne(id)
<1>1. UNCHANGED req => \A a \in Arena : SameWork(a) /\ SameActive(a)
  BY DEF SameWork, SameActive, SameRequest
<1> QED BY <1>1, ReqSteps, WritingWork

\* The connection of a live request is not closed.
LEMMA StillThere ==
  ASSUME TypeOK, Loops, Owned, [Next]_vars, NEW a \in Arena, req[a].live
  PROVE  req[a].conn_ptr \in g_conns /\ req[a].conn_ptr \in g_conns'
<1>1. Reached(a)
  BY DEF Owned, Reaches
<1> DEFINE fd == req[a].conn_ptr
<1>2. fd \in g_conns /\ req[a].id \in Ids
  BY <1>1 DEF Reached
<1>3. CASE CloseFd
  <2>1. stack # <<>> /\ Top.pc = "cleanup" /\ Top.ids = {} /\ g_conns' = g_conns \ {Top.fd}
    BY <1>3 DEF CloseFd, At, Top
  <2>2. Top \in Frames
    BY <2>1, StackFrames
  <2>3. Top.fd # fd
    BY <2>1, <2>2 DEF Owned, Cleans, Kindred
  <2> QED BY <1>2, <2>1, <2>3
<1>4. ASSUME NEW gd \in Fds, AcceptOne(gd) PROVE g_conns \subseteq g_conns'
  BY <1>4 DEF AcceptOne
<1>5. ASSUME NEW gd \in Fds, Peer(gd) PROVE UNCHANGED g_conns
  BY <1>5, PeerUnchanged
<1>6. Flushing => UNCHANGED g_conns
  BY FlushingIs
<1>7. Aside => UNCHANGED g_conns
  BY AsideSteps
<1>8. CASE \/ Writing \/ Taking \/ ParseEnd \/ ParseBad \/ ParseDefer \/ SweepErase
           \/ \E e \in batch : IoEvent(e)
           \/ \E t \in running : TaskLeave(t)
  <2>1. UNCHANGED g_conns
    BY <1>8 DEF Writing, PendingAnswer, Expire, Taking, ParseNew, ParseKnown, ParseEnd, ParseBad,
       ParseDefer, SweepErase, IoEvent, TaskLeave
  <2> QED BY <1>2, <2>1
<1> HIDE DEF fd
<1>9. fd \in g_conns'
  BY <1>2, <1>3, <1>4, <1>5, <1>6, <1>7, <1>8, StepCases DEF fd
<1> QED BY <1>2, <1>9 DEF fd

\* What is to come on the connection of a request whose body has come.
Finished ==
  \A a \in Arena : req[a].live /\ "INPUT_COMPLETE" \in req[a].flags => Through(req[a].conn_ptr)

HandedOnce ==
  \A a \in Arena : /\ req[a].dispatches <= 1
                   /\ req[a].dispatches = 1 => "INPUT_COMPLETE" \in req[a].flags

Marks == \A a \in Arena : Marked(req[a])

LEMMA ThroughNext ==
  ASSUME TypeOK, TypeOK', OneId, OneShot, Loops, Tended, Counted, Owned, Wire, Flow, Finished,
         [Next]_vars, NEW a \in Arena, req[a].live, "INPUT_COMPLETE" \in req[a].flags
  PROVE  \A fd \in Fds : fd = req[a].conn_ptr => Through(fd)'
<1> SUFFICES ASSUME NEW fd \in Fds, fd = req[a].conn_ptr PROVE Through(fd)'
  OBVIOUS
<1>1. fd \in g_conns /\ fd \in g_conns'
  BY StillThere
<1>2. Through(fd)
  BY DEF Finished
<1>3. CASE ParseDefer /\ Top.fd = fd
  <2>1. Untouched(conn[fd])
    BY <1>1, <1>3, DeferVirgin DEF Flow, Virgins
  <2>2. Reached(a)
    BY DEF Owned, Reaches
  <2>3. a # NoArena
    BY NArenasAssumption DEF Arena, NoArena
  <2> QED BY <2>1, <2>2, <2>3 DEF Reached, Untouched, Mapped
<1> QED BY <1>1, <1>2, <1>3, ComingBack DEF Counted

\* A request destroyed.
LEMMA Freed ==
  ASSUME TypeOK, NEW a \in Arena, NEW under, ReleaseRequest(a, under)
  PROVE  /\ \A b \in Arena \ {a} : req'[b] = req[b]
         /\ ~req'[a].live /\ req'[a].dispatches = 0 /\ req'[a].serial = 0
         /\ req'[a].flags = req[a].flags \cap {"RESPONDED"}
         /\ UNCHANGED <<conn, g_conns, sock, phase, queue, running, closing, to_close, built>>
<1>1. req \in [Arena -> Request] /\ req' = [req EXCEPT ![a] = Destroyed(@)]
  BY DEF TypeOK, ObjTypeOK, ReleaseRequest
<1>2. req'[a] = Destroyed(req[a]) /\ \A b \in Arena \ {a} : req'[b] = req[b]
  BY <1>1
<1>3. UNCHANGED <<conn, g_conns, sock, phase, queue, running, closing, to_close, built>>
  BY DEF ReleaseRequest, connVars, closeVars, taskVars, envVars, peerVars
<1> QED BY <1>2, <1>3 DEF Destroyed, NewRequest

LEMMA Releasing ==
  ASSUME TypeOK, TypeOK', Loops, Tended, NEW id \in Ids, SweepFree(id) \/ CleanupOne(id)
  PROVE  \E a \in Arena, under \in StackFrame : Releases(a, id, under)
BY SweepFreeIs, CleanupOneIs

LEMMA FinishedNext ==
  ASSUME TypeOK, TypeOK', OneId, OneShot, Loops, Tended, Counted, Owned, Wire, Flow, Finished,
         [Next]_vars
  PROVE  Finished'
<1> SUFFICES ASSUME NEW a \in Arena, req'[a].live, "INPUT_COMPLETE" \in req'[a].flags,
                    NEW fd, fd = req'[a].conn_ptr
             PROVE  Through(fd)'
  BY DEF Finished, Through
<1>1. ASSUME req[a].live, "INPUT_COMPLETE" \in req[a].flags, fd = req[a].conn_ptr
      PROVE  Through(fd)'
  <2>1. fd \in Fds
    BY <1>1, StillThere DEF TypeOK, ObjTypeOK
  <2> QED BY <1>1, <2>1, ThroughNext
<1>2. CASE Taking
  <2>1. PICK b \in Arena, r \in Request, go \in BOOLEAN : Applies(b, r, go)
    BY <1>2, TakingIs DEF Flow
  <2>2. CASE a # b
    <3>1. req'[a] = req[a]
      BY <2>1, <2>2 DEF Applies, Delivered
    <3> QED BY <1>1, <3>1
  <2>3. CASE a = b
    <3>1. /\ req'[a].conn_ptr = r.conn_ptr /\ r.conn_ptr = Top.fd
          /\ req'[a].flags = ApplyRecord(r, NextRecord).flags
      BY <2>1, <2>3 DEF Applies, Delivered, SameRequest
    <3>2. fd = Top.fd /\ fd \in Fds
      BY <1>2, <3>1, RecordIs, TakingConns DEF Flow
    <3>3. CASE "INPUT_COMPLETE" \in r.flags
      <4>1. r = req[a]
        BY <2>1, <2>3, <3>3 DEF Applies
      <4> QED BY <1>1, <2>1, <3>1, <3>2, <3>3, <4>1 DEF Applies
    <3>4. CASE "INPUT_COMPLETE" \notin r.flags
      <4>1. NextRecord.type = "STDIN" /\ NextRecord.len = 0
        BY <3>1, <3>4, ApplyFlags
      <4>2. Rank(NextRecord) = 5
        BY <4>1 DEF Rank
      <4>3. /\ \A x \in ToCome(fd)' : Rank(x) = 0 \/ Rank(x) > 5
            /\ \A id \in Ids : 5 <= Reach(fd, id) /\ Reach(fd, id)' = Reach(fd, id)
        BY <1>2, <3>2, <4>2, AfterRecord
      <4>4. \A x \in ToCome(fd)' : Rank(x) \in {0, 6}
        BY <4>3, Ranks
      <4>5. \A id \in Ids : Reach(fd, id)' >= 5
        BY <4>3, Ranks
      <4> QED BY <4>4, <4>5 DEF Through
    <3> QED BY <3>3, <3>4
  <2> QED BY <2>2, <2>3
<1>3. CASE \A b \in Arena : SameWork(b)
  BY <1>1, <1>3 DEF SameWork, SameRequest
<1>4. ASSUME NEW id \in Ids, SweepFree(id) \/ CleanupOne(id) PROVE Through(fd)'
  <2>1. PICK b \in Arena, under \in StackFrame : Releases(b, id, under)
    BY <1>4, Releasing
  <2>2. a # b /\ req'[a] = req[a]
    BY <2>1, Freed DEF Releases
  <2> QED BY <1>1, <2>2
<1> QED BY <1>2, <1>3, <1>4, InactiveWork, WorkSteps

\* After the end of the body only an ABORT comes.
LEMMA LateRecord ==
  ASSUME TypeOK, TypeOK', Loops, Tended, Wire, Flow, Finished, Taking,
         NEW a \in Arena, NEW go, Applies(a, req[a], go), "INPUT_COMPLETE" \in req[a].flags
  PROVE  /\ NextRecord.type = "ABORT"
         /\ Top.fd \in Fds /\ NextRecord \in Items(conn[Top.fd].in_buf)
<1>1. PICK fd : fd = Top.fd
  OBVIOUS
<1>2. At("fcgi") /\ Exists
  BY TakingConns DEF Flow
<1>3. Top.fd \in Fds /\ Top.n \in Nat /\ Top.n + 1 \in 1 .. Len(conn[fd].in_buf)
      /\ NextRecord = conn[fd].in_buf[Top.n + 1] /\ NextRecord \in Record
  BY <1>1, <1>2, RecordIs
<1>4. Through(fd)
  BY <1>1 DEF Applies, Finished
<1>5. NextRecord \in ToCome(fd)
  <2>1. Past(fd) = Top.n
    BY <1>1, <1>2 DEF Past
  <2>2. Top.n + 1 \in Past(fd) + 1 .. Len(conn[fd].in_buf)
    BY <1>3, <2>1
  <2> QED BY <1>3, <2>2 DEF ToCome, Unread
<1>6. Rank(NextRecord) = 6
  <2>1. Rank(NextRecord) \in 1 .. 6
    BY <1>1, <1>3, AfterRecord
  <2> QED BY <1>4, <1>5, <2>1 DEF Through
<1>7. NextRecord.type = "ABORT"
  BY <1>6 DEF Rank
<1> QED BY <1>1, <1>3, <1>7 DEF Items

LEMMA OnceNext ==
  ASSUME TypeOK, TypeOK', Loops, Tended, Wire, Flow, Finished, HandedOnce, [Next]_vars
  PROVE  HandedOnce'
<1> SUFFICES ASSUME NEW a \in Arena
             PROVE  /\ req'[a].dispatches <= 1
                    /\ req'[a].dispatches = 1 => "INPUT_COMPLETE" \in req'[a].flags
  BY DEF HandedOnce
<1>0. /\ req[a].dispatches <= 1
      /\ req[a].dispatches = 1 => "INPUT_COMPLETE" \in req[a].flags
  BY DEF HandedOnce
<1>1. CASE Taking
  <2>1. PICK b \in Arena, r \in Request, go \in BOOLEAN : Applies(b, r, go)
    BY <1>1, TakingIs DEF Flow
  <2>2. CASE a # b
    BY <1>0, <2>1, <2>2 DEF Applies, Delivered
  <2>3. CASE a = b
    <3> DEFINE after == ApplyRecord(r, NextRecord)
    <3>1. /\ req'[a].dispatches = IF go THEN r.dispatches + 1 ELSE r.dispatches
          /\ req'[a].flags = after.flags /\ r.flags \subseteq after.flags
          /\ go = Ready(after)
      BY <2>1, <2>3, ApplyFlags DEF Applies, Delivered
    <3>2. /\ r.dispatches \in 0 .. 1
          /\ r.dispatches = 1 => "INPUT_COMPLETE" \in r.flags /\ r = req[a]
      BY <1>0, <2>1, <2>3 DEF Applies, Request
    <3>3. go => "INPUT_COMPLETE" \in after.flags
      BY <3>1 DEF Ready, Complete
    <3>4. ASSUME go, r.dispatches = 1 PROVE FALSE
      <4>1. NextRecord.type = "ABORT"
        BY <1>1, <2>1, <2>3, <3>2, <3>4, LateRecord
      <4>2. Responded(after)
        BY <4>1, ApplyFlags
      <4> QED BY <3>1, <3>4, <4>2 DEF Ready
    <3> HIDE DEF after
    <3> QED BY <3>1, <3>2, <3>3, <3>4
  <2> QED BY <2>2, <2>3
<1>2. CASE \A b \in Arena : SameWork(b)
  BY <1>0, <1>2 DEF SameWork
<1>3. ASSUME NEW id \in Ids, SweepFree(id) \/ CleanupOne(id)
      PROVE  /\ req'[a].dispatches <= 1
             /\ req'[a].dispatches = 1 => "INPUT_COMPLETE" \in req'[a].flags
  <2>1. PICK b \in Arena, under \in StackFrame : Releases(b, id, under)
    BY <1>3, Releasing
  <2>2. req'[a] = req[a] \/ req'[a].dispatches = 0
    BY <2>1, Freed DEF Releases
  <2> QED BY <1>0, <2>2
<1> QED BY <1>1, <1>2, <1>3, InactiveWork, WorkSteps

LEMMA MarksNext ==
  ASSUME TypeOK, TypeOK', Loops, Tended, Flow, Marks, [Next]_vars
  PROVE  Marks'
<1>1. CASE Taking
  <2>1. PICK b \in Arena, r \in Request, go \in BOOLEAN : Applies(b, r, go)
    BY <1>1, TakingIs DEF Flow
  <2>2. \A a \in Arena \ {b} : req'[a] = req[a]
    BY <2>1 DEF Applies, Delivered
  <2>3. Marked(r)
    BY <2>1 DEF Applies, Marks, Marked
  <2>4. Marked(req'[b])
    <3>1. Marked(ApplyRecord(r, NextRecord)) /\ req'[b].flags = ApplyRecord(r, NextRecord).flags
      BY <2>1, <2>3, ApplyFlags DEF Applies
    <3> QED BY <3>1 DEF Marked, Responded
  <2>5. Marks' <=> \A a \in Arena : Marked(req'[a])
    BY DEF Marks, Marked, Responded
  <2> QED BY <2>2, <2>4, <2>5 DEF Marks
<1>2. CASE \A b \in Arena : SameWork(b)
  BY <1>2 DEF SameWork, Marks, Marked, Responded
<1>3. ASSUME NEW id \in Ids, SweepFree(id) \/ CleanupOne(id) PROVE Marks'
  <2>1. PICK b \in Arena, under \in StackFrame : Releases(b, id, under)
    BY <1>3, Releasing
  <2>2. /\ \A a \in Arena \ {b} : req'[a] = req[a]
        /\ req'[b].flags = req[b].flags \cap {"RESPONDED"}
    BY <2>1, Freed DEF Releases
  <2> QED BY <2>2 DEF Marks, Marked, Responded
<1> QED BY <1>1, <1>2, <1>3, InactiveWork, WorkSteps

-----------------------------------------------------------------------------
(* Requests handed over *)

\* What is inductive for peers that send one request on a connection.
OneEach == Loops /\ Tended /\ Counted /\ Waiting /\ Owned /\ Flushed /\ Wire /\ Flow

LEMMA OneEachNext ==
  ASSUME TypeOK, TypeOK', OneId, OneShot, OneEach, [Next]_vars
  PROVE  OneEach'
<1>1. Loops' /\ Tended' /\ Counted'
  BY LoopsNext, TendedNext, CountedStays DEF OneEach
<1>2. Waiting' /\ Flushed'
  BY <1>1, WaitingStays, FlushedNext DEF OneEach, Waiting
<1>3. Owned' /\ Wire' /\ Flow'
  BY OwnedNext, WireNext, FlowNext DEF OneEach, Counted, Waiting
<1> QED BY <1>1, <1>2, <1>3 DEF OneEach

LEMMA InitOneEach == Init => OneEach
<1> SUFFICES ASSUME Init PROVE Waiting /\ Owned /\ Flushed
  BY InitLoops, InitTended, InitCounted, InitWire, InitFlow DEF OneEach
<1>1. Frames = {}
  BY FramesAre DEF Init, Frames
<1>2. \A a \in Arena : ~req[a].live /\ ~in_use[a]
  BY DEF Init, PoolInit, NoRequest, Destroyed, NewRequest
<1>3. Owned
  BY <1>1, <1>2 DEF Owned, InUse, Reaches, Cleans, Erases, Kindred
<1>4. Waiting /\ Flushed
  BY <1>1 DEF Init, Waiting, Nested, Was, WaitingIsListed, At, Flushed, Armed, Drains, Dry, Duers
<1> QED BY <1>3, <1>4

LEMMA InitHanded == Init => Finished /\ HandedOnce /\ Marks
<1> SUFFICES ASSUME Init PROVE Finished /\ HandedOnce /\ Marks
  OBVIOUS
<1>1. \A a \in Arena : ~req[a].live /\ req[a].dispatches = 0 /\ req[a].flags = {}
  BY DEF Init, NoRequest, Destroyed, NewRequest
<1> QED BY <1>1 DEF Finished, HandedOnce, Marks, Marked

(***************************************************************************)
(* With peers that send one request on a connection, internal_on_request_- *)
(* ready runs at most once for a request: process_buffer calls it on every *)
(* record that finds the request complete and unanswered, but after the    *)
(* end of STDIN such a peer sends nothing but an ABORT, and that answers   *)
(* the request.                                                            *)
(***************************************************************************)
THEOREM HandedOverOnce ==
  ASSUME OneId, OneShot
  PROVE  Spec => []DispatchedOnce
<1> DEFINE IInv == OneEach /\ Finished /\ HandedOnce
<1>1. Init => IInv
  BY InitOneEach, InitHanded
<1>2. TypeOK /\ TypeOK' /\ IInv /\ [Next]_vars => IInv'
  BY OneEachNext, FinishedNext, OnceNext DEF OneEach
<1>3. IInv => DispatchedOnce
  BY DEF HandedOnce, DispatchedOnce
<1> QED BY <1>1, <1>2, <1>3, TypeCorrect, PTL DEF Spec

-----------------------------------------------------------------------------
(* What the connections that a worker uses keep *)

\* A connection leaves g_conns with CloseFd only.
LEMMA ConnsLeave ==
  ASSUME TypeOK, [Next]_vars, NEW fd \in g_conns, fd \notin g_conns'
  PROVE  CloseFd /\ Top.fd = fd
<1>1. CASE CloseFd
  BY <1>1 DEF CloseFd
<1>2. ASSUME NEW gd \in Fds, AcceptOne(gd) PROVE g_conns \subseteq g_conns'
  BY <1>2 DEF AcceptOne
<1>3. ASSUME NEW gd \in Fds, Peer(gd) PROVE UNCHANGED g_conns
  BY <1>3, PeerUnchanged
<1>4. Flushing => UNCHANGED g_conns
  BY FlushingIs
<1>5. Aside => UNCHANGED g_conns
  BY AsideSteps
<1>6. CASE \/ Writing \/ Taking \/ ParseEnd \/ ParseBad \/ ParseDefer \/ SweepErase
           \/ \E e \in batch : IoEvent(e)
           \/ \E t \in running : TaskLeave(t)
  <2>1. UNCHANGED g_conns
    BY <1>6 DEF Writing, PendingAnswer, Expire, Taking, ParseNew, ParseKnown, ParseEnd, ParseBad,
       ParseDefer, SweepErase, IoEvent, TaskLeave
  <2> QED BY <2>1
<1> QED BY <1>1, <1>2, <1>3, <1>4, <1>5, <1>6, StepCases

\* d is c some steps later, and no request came.
Stays(c, d) ==
  /\ d.serial = c.serial
  /\ c.closed => d.closed
  /\ c.active_workers = 0 => d.active_workers = 0
  /\ \A id \in Ids : d.requests[id] \in {c.requests[id], NoArena}

LEMMA StaysSteps ==
  ASSUME TypeOK, TypeOK', Tended, Counted, Owned, [Next]_vars, ~Taking
  PROVE  \A fd \in g_conns \cap g_conns' : Stays(conn[fd], conn'[fd])
<1>0. g_conns \subseteq Fds /\ conn \in [Fds -> Connection]
  BY DEF TypeOK, ObjTypeOK
<1>1. Conns => \A fd \in Fds : Stays(conn[fd], conn'[fd])
  BY DEF Conns, SteadyConn, Stays
<1>2. CASE UNCHANGED conn
  BY <1>2 DEF Stays
<1>3. CASE Flushing \/ Writing
  <2>1. Conns
    BY <1>3, FlushingIs, FlushSteady, AnswerSteady DEF Writing
  <2> QED BY <1>0, <1>1, <2>1
<1>4. CASE ParseEnd \/ ParseBad
  BY <1>0, <1>4, ReturnIs DEF Stays
<1>5. CASE ParseDefer
  <2>1. conn' = [conn EXCEPT ![Top.fd].waiting_for_arena = TRUE]
    BY <1>5 DEF ParseDefer
  <2> QED BY <1>0, <2>1 DEF Connection, Stays
<1>6. CASE \E e \in batch : IoEvent(e)
  BY <1>0, <1>6, IoEventIs DEF Stays
<1>7. ASSUME NEW gd \in Fds, AcceptOne(gd)
      PROVE  \A fd \in g_conns : conn'[fd] = conn[fd]
  <2>1. gd \notin g_conns
    BY <1>7 DEF AcceptOne, Backlog, Counted, Linked
  <2> QED BY <1>0, <1>7, <2>1 DEF AcceptOne
<1>8. ASSUME NEW gd \in Fds, Peer(gd) PROVE UNCHANGED conn
  BY <1>8, PeerUnchanged
<1>9. CASE SweepErase
  <2>1. conn' = [conn EXCEPT ![Top.fd].requests[Top.id] = NoArena]
    BY <1>9 DEF SweepErase
  <2>2. \A fd \in Fds : /\ conn'[fd].serial = conn[fd].serial
                        /\ conn'[fd].closed = conn[fd].closed
                        /\ conn'[fd].active_workers = conn[fd].active_workers
                        /\ \A id \in Ids : conn'[fd].requests[id] \in {conn[fd].requests[id], NoArena}
    BY <1>0, <2>1 DEF Connection
  <2> QED BY <1>0, <2>2 DEF Stays
<1>10. CASE CloseFd
  <2>1. \A fd \in Fds \ {Top.fd} : conn'[fd] = conn[fd]
    BY <1>0, <1>10 DEF CloseFd
  <2>2. Top.fd \notin g_conns'
    BY <1>10 DEF CloseFd
  <2> QED BY <1>0, <2>1, <2>2 DEF Stays
<1>11. ASSUME NEW t \in running, TaskLeave(t)
       PROVE  \A fd \in g_conns \cap g_conns' : Stays(conn[fd], conn'[fd])
  <2>1. ConnOf(t) /\ conn' = [conn EXCEPT ![t.fd].active_workers = @ - 1]
    BY <1>11 DEF TaskLeave
  <2>2. t \in Tasks
    BY DEF Tasks
  <2>3. conn[t.fd].active_workers # 0 /\ t.fd \in g_conns
    BY <2>1, <2>2, NoTasks DEF ConnOf
  <2>4. \A fd \in Fds : /\ conn'[fd].serial = conn[fd].serial
                        /\ conn'[fd].closed = conn[fd].closed
                        /\ conn'[fd].requests = conn[fd].requests
                        /\ fd # t.fd => conn'[fd] = conn[fd]
    BY <1>0, <2>1 DEF Connection
  <2> QED BY <1>0, <2>3, <2>4 DEF Stays
<1>12. CASE Aside
  BY <1>2, <1>12, AsideSteps
<1>13. (\A fd \in g_conns : conn'[fd] = conn[fd])
         => \A fd \in g_conns \cap g_conns' : Stays(conn[fd], conn'[fd])
  BY DEF Stays
<1> QED BY <1>2, <1>3, <1>4, <1>5, <1>6, <1>7, <1>8, <1>9, <1>10, <1>11, <1>12, <1>13, StepCases

\* The connection may be closed: its peer has, or all its requests are ended.
Ends(c) == c.closed \/ \A id \in Mapped(c) : Responded(req[c.requests[id]])

LEMMA EndedStays ==
  ASSUME TypeOK, TypeOK', Loops, Tended, [Next]_vars, ~Taking, NEW a \in Arena, Responded(req[a])
  PROVE  Responded(req'[a])
<1>1. CASE \A b \in Arena : SameWork(b)
  BY <1>1 DEF SameWork
<1>2. ASSUME NEW id \in Ids, SweepFree(id) \/ CleanupOne(id) PROVE Responded(req'[a])
  <2>1. PICK b \in Arena, under \in StackFrame : Releases(b, id, under)
    BY <1>2, Releasing
  <2>2. /\ a # b => req'[a] = req[a]
        /\ req'[b].flags = req[b].flags \cap {"RESPONDED"}
    BY <2>1, Freed DEF Releases
  <2> QED BY <2>2 DEF Responded
<1> QED BY <1>1, <1>2, InactiveWork, WorkSteps

LEMMA EndsNext ==
  ASSUME TypeOK, TypeOK', Loops, Tended, Counted, Owned, [Next]_vars, ~Taking,
         NEW fd \in g_conns \cap g_conns', Ends(conn[fd])
  PROVE  \A gd : gd = fd => Ends(conn[gd])'
<1>1. Stays(conn[fd], conn'[fd])
  BY StaysSteps
<1>2. fd \in Fds /\ conn[fd] \in Connection
  BY DEF TypeOK, ObjTypeOK
<1>3. ASSUME NEW id \in Ids, conn'[fd].requests[id] # NoArena, ~conn[fd].closed
      PROVE  Responded(req'[conn'[fd].requests[id]])
  <2>1. conn'[fd].requests[id] = conn[fd].requests[id]
    BY <1>1, <1>3 DEF Stays
  <2>2. conn[fd].requests[id] \in Arena /\ Responded(req[conn[fd].requests[id]])
    BY <1>2, <1>3, <2>1 DEF Ends, Mapped, Connection
  <2> QED BY <2>1, <2>2, EndedStays
<1> QED BY <1>1, <1>3 DEF Ends, Mapped, Stays, Responded

-----------------------------------------------------------------------------
(* The closures, and what they point to *)

\* A closure that has not started is as it was made.
Unstarted == \A t \in Items(queue) : t.at = "parsing"

\* Where a closure comes from, if not from a record.
Older(t) ==
  \/ t \in Tasks
  \/ \E u \in Tasks : u.at = "parsing" /\ t = [u EXCEPT !.at = "parsed"]
  \/ \E u \in running : TaskInactive(u) /\ t = [u EXCEPT !.at = "leaving"]

LEMMA ClosureTypes ==
  ASSUME TypeOK
  PROVE  Tasks \subseteq Closure /\ running \subseteq Tasks /\ Items(queue) \subseteq Tasks
<1>1. queue \in Seq(Closure) /\ running \subseteq Closure
  BY DEF TypeOK, TaskTypeOK
<1> QED BY <1>1, TasksAre DEF Items

LEMMA TasksNext ==
  ASSUME TypeOK, Once, Unstarted, [Next]_vars, ~Taking
  PROVE  /\ Unstarted'
         /\ \A t \in Tasks' : Older(t)
         /\ \A u \in running : TaskInactive(u) => u \notin Tasks'
<1>0. queue \in Seq(Closure) /\ Tasks = running \cup Items(queue) /\ Tasks' = running' \cup Items(queue')
  BY TasksAre DEF TypeOK, TaskTypeOK
<1>1. ASSUME NEW t \in running, TaskInactive(t)
      PROVE  /\ t.at = "parsed" /\ running' = (running \ {t}) \cup {[t EXCEPT !.at = "leaving"]}
             /\ UNCHANGED queue /\ t \notin Tasks'
  <2>1. t.at = "parsed" /\ running' = (running \ {t}) \cup {[t EXCEPT !.at = "leaving"]} /\ UNCHANGED queue
    BY <1>1 DEF TaskInactive, Move
  <2>2. t \in Closure /\ t \notin Items(queue)
    BY DEF Once, TypeOK, TaskTypeOK
  <2>3. [t EXCEPT !.at = "leaving"].at = "leaving"
    BY <2>2 DEF Closure
  <2>4. Items(queue') = Items(queue)
    BY <2>1
  <2> QED BY <1>0, <2>1, <2>2, <2>3, <2>4
<1>2. CASE UNCHANGED <<queue, running>> /\ ~\E u \in running : TaskInactive(u)
  BY <1>0, <1>2 DEF Unstarted, Older
<1>3. CASE \E t \in running : TaskInactive(t)
  <2>1. PICK t \in running : TaskInactive(t)
    BY <1>3
  <2>2. Items(queue') = Items(queue)
    BY <1>1, <2>1
  <2>3. \A u \in Tasks' : u \in Tasks \/ u = [t EXCEPT !.at = "leaving"]
    BY <1>0, <1>1, <2>1, <2>2
  <2> QED BY <1>0, <1>1, <2>1, <2>2, <2>3 DEF Unstarted, Older
<1>4. CASE TaskStart
  <2> DEFINE t == Head(queue)
             u == IF Responded(req[t.arena]) \/ conn[t.fd].closed THEN [t EXCEPT !.at = "parsed"] ELSE t
  <2>1. queue # <<>> /\ running' = running \cup {u} /\ queue' = Tail(queue)
    BY <1>4 DEF TaskStart
  <2>2. Items(queue') = Items(queue) \ {t} /\ t \in Items(queue)
    BY <1>0, <2>1, ShortQueue DEF Once
  <2>3. Older(u)
    BY <1>0, <2>2 DEF Older, Unstarted
  <2>4. \A x \in running : ~TaskInactive(x)
    <3>1. ASSUME NEW x \in running, TaskInactive(x) PROVE FALSE
      <4>1. Items(queue') = Items(queue)
        BY <1>1, <3>1
      <4> QED BY <2>2, <4>1
    <3> QED BY <3>1
  <2> HIDE DEF t, u
  <2>5. \A x \in Tasks' : x \in Tasks \/ x = u
    BY <1>0, <2>1, <2>2
  <2>6. Unstarted'
    BY <2>2 DEF Unstarted
  <2> QED BY <2>3, <2>4, <2>5, <2>6 DEF Older
<1>5. ASSUME NEW t \in running, TaskPush(t) \/ TaskLeave(t), ~\E u \in running : TaskInactive(u)
      PROVE  Unstarted' /\ \A x \in Tasks' : Older(x)
  <2>1. UNCHANGED queue
    BY <1>5 DEF TaskPush, TaskLeave
  <2>2. Items(queue') = Items(queue)
    BY <2>1
  <2>3. CASE TaskPush(t)
    <3>1. t.at = "parsing" /\ running' = (running \ {t}) \cup {[t EXCEPT !.at = "parsed"]}
      BY <2>3 DEF TaskPush, Move
    <3> QED BY <1>0, <2>2, <3>1 DEF Unstarted, Older
  <2>4. CASE TaskLeave(t)
    <3>1. running' = running \ {t}
      BY <2>4 DEF TaskLeave
    <3> QED BY <1>0, <2>2, <3>1 DEF Unstarted, Older
  <2> QED BY <1>5, <2>3, <2>4
<1>6. ASSUME \/ \E id \in Ids : SweepFree(id) \/ CleanupOne(id)
             \/ CloseFd \/ \E fd \in Fds : AcceptOne(fd)
             \/ \E fd \in Fds, keep \in KeepFlags : PeerConnect(fd, keep)
      PROVE  UNCHANGED <<queue, running>>
  BY <1>6 DEF SweepFree, CleanupOne, ReleaseRequest, CloseFd, AcceptOne, PeerConnect
<1>7. \/ \E fd \in Fds, keep \in KeepFlags : PeerConnect(fd, keep)
      \/ \E fd \in Fds : AcceptOne(fd)
      \/ \E id \in Ids : SweepFree(id) \/ CleanupOne(id)
      \/ CloseFd \/ TaskStart
      \/ \E t \in running : TaskPush(t) \/ TaskInactive(t) \/ TaskLeave(t)
      \/ UNCHANGED <<queue, running>>
  BY CalmSteps DEF Next, IoThread, Workers, AcceptStep, ParseStep, HandleStep, CloseStep, Taking, Calm
<1>8. CASE UNCHANGED <<queue, running>>
  BY <1>2, <1>3, <1>8
<1> QED BY <1>2, <1>3, <1>4, <1>5, <1>6, <1>7, <1>8

\* What worker_active and active_workers preserve for closure t.
Holds(t) ==
  /\ ConnOf(t) /\ t.nth = 1
  /\ t.at # "leaving" => RequestOf(t) /\ req[t.arena].worker_active
  /\ RequestOf(t) => req[t.arena].conn_ptr = t.fd

Holders == Unstarted /\ \A t \in Tasks : Holds(t)

\* A connection is closed when no worker uses it and nothing is owed to its
\* peer, and stays so until its request is destroyed.
Closes ==
  \A f \in Frames : f.pc = "cleanup" =>
    /\ conn[f.fd].active_workers = 0
    /\ At("cleanup") \/ f.ids = {}
    /\ f.ids # {} => Ends(conn[f.fd])

\* So are those that the second loop of housekeeping_close_idle will close.
Chosen ==
  \A f \in Frames : f.pc = "housekeeping" =>
    \A fd \in to_close \cap g_conns : conn[fd].active_workers = 0 /\ Ends(conn[fd])

LEMMA TakingHolders ==
  ASSUME TypeOK, TypeOK', Tended, Counted, Flow, HandedOnce', Holders, Taking
  PROVE  Holders'
<1>1. PICK a \in Arena, r \in Request, go \in BOOLEAN : Applies(a, r, go)
  BY TakingIs DEF Flow
<1> DEFINE c == ClosureOf(a, r)
<1>2. /\ Delivered(a, r, Top.fd, NextRecord.id, go) /\ r.live
      /\ r.conn_ptr = Top.fd /\ r.cserial = conn[Top.fd].serial
      /\ req'[a].worker_active = (r.worker_active \/ go)
      /\ r = req[a] \/ (~req[a].live /\ r.serial = built + 1)
  BY <1>1 DEF Applies
<1>3. UNCHANGED g_conns /\ Top.fd \in g_conns
  BY TopServed DEF Taking, ParseNew, ParseKnown, At, Top, FdPC
<1>4. /\ queue' = IF go THEN Append(queue, c) ELSE queue
      /\ UNCHANGED running
      /\ \A b \in Arena \ {a} : req'[b] = req[b]
      /\ \A fd \in Fds : conn'[fd].serial = conn[fd].serial
  BY <1>2 DEF Delivered
<1>5. g_conns \subseteq Fds /\ queue \in Seq(Closure) /\ built \in Nat
  BY DEF TypeOK, ObjTypeOK, TaskTypeOK
<1>6. c \in Closure
  BY <1>2, <1>3, <1>5 DEF ClosureOf, Closure, Request
<1>7. req'[a].live /\ req'[a].serial = r.serial /\ req'[a].conn_ptr = Top.fd
  BY <1>2 DEF Delivered, SameRequest
<1>8. ASSUME NEW t \in Tasks PROVE Holds(t)'
  <2>1. t \in Closure /\ Holds(t) /\ t.serial \in 1 .. built
    BY ClosureTypes DEF Holders, Counted, Numbered
  <2>2. ConnOf(t)'
    BY <1>3, <1>4, <1>5, <2>1 DEF Holds, ConnOf, Closure
  <2>3. CASE t.arena # a
    BY <1>4, <2>1, <2>2, <2>3 DEF Holds, RequestOf, Closure
  <2>4. CASE t.arena = a /\ r = req[a]
    BY <1>2, <1>7, <2>1, <2>2, <2>4 DEF Holds, RequestOf
  <2>5. CASE t.arena = a /\ ~req[a].live /\ r.serial = built + 1
    BY <1>5, <1>7, <2>1, <2>2, <2>5 DEF Holds, RequestOf
  <2> QED BY <1>2, <2>3, <2>4, <2>5
<1>9. CASE go
  <2>1. /\ c.arena = a /\ c.serial = r.serial /\ c.fd = Top.fd /\ c.cserial = conn[Top.fd].serial
        /\ c.nth = r.dispatches + 1 /\ c.at = "parsing"
    BY <1>2 DEF ClosureOf
  <2>2. c.nth = 1
    <3>1. req'[a].dispatches = r.dispatches + 1 /\ req'[a].dispatches <= 1
      BY <1>2, <1>9 DEF Delivered, HandedOnce
    <3>2. r.dispatches \in Nat
      BY DEF Request
    <3> QED BY <2>1, <3>1, <3>2
  <2> HIDE DEF c
  <2>3. Holds(c)'
    BY <1>2, <1>3, <1>4, <1>5, <1>7, <1>9, <2>1, <2>2 DEF Holds, ConnOf, RequestOf
  <2>4. Items(queue') = Items(queue) \cup {c}
    BY <1>4, <1>5, <1>6, <1>9, LongQueue
  <2>5. Unstarted'
    BY <2>1, <2>4 DEF Holders, Unstarted
  <2>6. \A t \in Tasks' : t \in Tasks \/ t = c
    BY <1>4, <2>4, TasksAre
  <2> QED BY <1>8, <2>3, <2>5, <2>6 DEF Holders
<1>10. CASE ~go
  <2>1. UNCHANGED <<queue, running>>
    BY <1>4, <1>10
  <2>2. Tasks' = Tasks /\ Items(queue') = Items(queue)
    BY <2>1, TasksAre
  <2> QED BY <1>8, <2>2 DEF Holders, Unstarted
<1> QED BY <1>9, <1>10

\* A closure's pointers stay valid through a step that is not a record's.
LEMMA StillHeld ==
  ASSUME TypeOK, TypeOK', Loops, Tended, Counted, Owned, Holders, Closes, [Next]_vars, ~Taking,
         NEW t \in Tasks, Holds(t), t \in Tasks' \/ ~\E u \in running : TaskInactive(u) /\ Same(t, u)
  PROVE  Holds(t)'
<1>0. t \in Closure /\ g_conns \subseteq Fds
  BY ClosureTypes DEF TypeOK, ObjTypeOK
<1>1. ConnOf(t)'
  <2>1. t.fd \in g_conns /\ conn[t.fd].serial = t.cserial
    BY DEF Holds, ConnOf
  <2>2. CASE t.fd \in g_conns'
    <3>1. Stays(conn[t.fd], conn'[t.fd])
      BY <2>1, <2>2, StaysSteps
    <3> QED BY <2>1, <2>2, <3>1 DEF ConnOf, Stays
  <2>3. CASE t.fd \notin g_conns'
    <3>1. CloseFd /\ Top.fd = t.fd
      BY <2>1, <2>3, ConnsLeave
    <3>2. stack # <<>> /\ Top.pc = "cleanup" /\ Top \in Frames
      BY <3>1, StackFrames DEF CloseFd, At, Top
    <3>3. conn[t.fd].active_workers = 0
      BY <3>1, <3>2 DEF Closes
    <3> QED BY <2>1, <3>3, NoTasks
  <2> QED BY <2>2, <2>3
<1> DEFINE a == t.arena
<1>2. a \in Arena
  BY <1>0 DEF Closure
<1> DEFINE Alike == /\ req'[a].live = req[a].live /\ req'[a].serial = req[a].serial
                    /\ req'[a].conn_ptr = req[a].conn_ptr
           Quits == t.at = "leaving" \/ req'[a].worker_active = req[a].worker_active
<1>3. Alike /\ Quits => Holds(t)'
  BY <1>1 DEF Holds, RequestOf
<1>4. CASE SameWork(a) /\ SameActive(a)
  BY <1>3, <1>4 DEF SameWork, SameActive, SameRequest
<1>5. ASSUME NEW u \in running, TaskInactive(u) PROVE Holds(t)'
  <2>1. /\ SameWork(a) /\ (a # u.arena => SameActive(a))
        /\ u.at = "parsed" /\ RequestOf(u) /\ u \in Tasks /\ u \notin Tasks'
    BY <1>2, <1>5, InactiveWork, ClosureTypes, TasksNext DEF TaskInactive, Counted, Holders
  <2>2. t.at = "leaving" \/ a # u.arena
    <3>1. ASSUME t.at # "leaving", a = u.arena PROVE FALSE
      <4>1. Same(t, u)
        BY <2>1, <3>1 DEF Holds, RequestOf, Same, Holders
      <4>2. t = u
        BY <2>1, <4>1 DEF Counted, Once
      <4> QED BY <1>5, <2>1, <4>1, <4>2
    <3> QED BY <3>1
  <2> HIDE DEF a
  <2> QED BY <1>3, <2>1, <2>2 DEF SameWork, SameActive, SameRequest
<1>6. ASSUME NEW id \in Ids, SweepFree(id) \/ CleanupOne(id) PROVE Holds(t)'
  <2>1. PICK b \in Arena, under \in StackFrame :
          /\ Releases(b, id, under)
          /\ Sweepable(req[b]) \/ Top.pc = "cleanup"
    BY <1>6, SweepFreeIs, CleanupOneIs
  <2>2. /\ \A d \in Arena \ {b} : req'[d] = req[d]
        /\ ~req'[b].live /\ stack # <<>> /\ EntryLives(Top.fd, id)
        /\ b = conn[Top.fd].requests[id]
    BY <2>1, Freed DEF Releases
  <2>3. CASE a # b
    BY <1>2, <1>3, <2>2, <2>3
  <2>4. CASE a = b /\ t.at = "leaving"
    BY <1>1, <2>2, <2>4 DEF Holds, RequestOf
  <2>5. CASE a = b /\ t.at # "leaving"
    <3>1. RequestOf(t) /\ req[a].worker_active /\ req[a].conn_ptr = t.fd
      BY <2>5 DEF Holds
    <3>2. CASE Sweepable(req[b])
      BY <2>5, <3>1, <3>2 DEF Sweepable
    <3>3. CASE Top.pc = "cleanup"
      <4>1. Top.fd = t.fd
        BY <2>2, <2>5, <3>1 DEF EntryLives
      <4>2. conn[t.fd].active_workers = 0
        BY <2>2, <3>3, <4>1, StackFrames DEF Closes
      <4> QED BY <4>2, NoTasks DEF Holds, ConnOf
    <3> QED BY <2>1, <3>2, <3>3
  <2> QED BY <2>3, <2>4, <2>5
<1> QED BY <1>2, <1>4, <1>5, <1>6, WorkSteps

LEMMA HoldersNext ==
  ASSUME TypeOK, TypeOK', Loops, Tended, Counted, Owned, Flow, HandedOnce', Holders, Closes,
         [Next]_vars
  PROVE  Holders'
<1>1. CASE Taking
  BY <1>1, TakingHolders
<1>2. CASE ~Taking
  <2>1. /\ Unstarted'
        /\ \A t \in Tasks' : Older(t)
        /\ \A u \in running : TaskInactive(u) => u \notin Tasks'
    BY <1>2, TasksNext DEF Counted, Holders
  <2>2. ASSUME NEW t \in Tasks' PROVE Holds(t)'
    <3>1. CASE t \in Tasks
      BY <1>2, <3>1, StillHeld DEF Holders
    <3>2. ASSUME NEW u \in Tasks, u.at = "parsing", t = [u EXCEPT !.at = "parsed"]
          PROVE  Holds(t)'
      <4>1. u \in Closure
        BY ClosureTypes
      <4>2. ASSUME NEW v \in running, TaskInactive(v), Same(u, v) PROVE FALSE
        <5>1. v \in Tasks /\ v.at = "parsed"
          BY <4>2, ClosureTypes DEF TaskInactive
        <5> QED BY <3>2, <4>2, <5>1 DEF Counted, Once
      <4>3. Holds(u)'
        BY <1>2, <4>2, StillHeld DEF Holders
      <4> QED BY <3>2, <4>1, <4>3 DEF Holds, ConnOf, RequestOf, Closure
    <3>3. ASSUME NEW u \in running, TaskInactive(u), t = [u EXCEPT !.at = "leaving"]
          PROVE  Holds(t)'
      <4>1. u \in Closure /\ u \in Tasks /\ Holds(u) /\ RequestOf(u)
        BY <3>3, ClosureTypes DEF TaskInactive, Holders
      <4>2. SameWork(u.arena) /\ UNCHANGED <<conn, g_conns>>
        BY <3>3, <4>1, InactiveWork DEF TaskInactive, Closure
      <4> QED BY <3>3, <4>1, <4>2
          DEF Holds, ConnOf, RequestOf, SameWork, SameRequest, Closure
    <3> QED BY <2>1, <3>1, <3>2, <3>3 DEF Older
  <2> QED BY <2>1, <2>2 DEF Holders
<1> QED BY <1>1, <1>2

-----------------------------------------------------------------------------
(* The connections that are being closed, or will be *)

\* No function but the first loop of housekeeping begins its second.
NoHousekeeping == \A f \in Frames' : f.pc = "housekeeping" => f \in Frames

LEMMA HouseStacks ==
  ASSUME TypeOK, TypeOK'
  PROVE  /\ UNCHANGED stack => NoHousekeeping
         /\ \A g : Call(<<g>>) /\ g.pc # "housekeeping" => NoHousekeeping
         /\ stack # <<>> =>
              /\ Return => NoHousekeeping
              /\ \A f : Become(f) /\ f.pc # "housekeeping" => NoHousekeeping
              /\ \A f, g : CallFrom(f, <<g>>) /\ f.pc # "housekeeping" /\ g.pc # "housekeeping"
                             => NoHousekeeping
<1>1. UNCHANGED stack => NoHousekeeping
  BY CallFrames DEF NoHousekeeping
<1>2. ASSUME NEW g, Call(<<g>>), g.pc # "housekeeping" PROVE NoHousekeeping
  BY <1>2, CallFrames, IntoStack DEF NoHousekeeping
<1>3. ASSUME stack # <<>>, Return PROVE NoHousekeeping
  BY <1>3, StackFrames DEF NoHousekeeping
<1>4. ASSUME stack # <<>>, NEW f, Become(f), f.pc # "housekeeping" PROVE NoHousekeeping
  <2>1. Frames = {Top} \cup Below /\ Frames' = {f} \cup Below
    BY <1>4, IntoStack, StackFrames
  <2> QED BY <1>4, <2>1 DEF NoHousekeeping
<1>5. ASSUME stack # <<>>, NEW f, NEW g, CallFrom(f, <<g>>), f.pc # "housekeeping",
             g.pc # "housekeeping"
      PROVE  NoHousekeeping
  <2>1. Frames = {Top} \cup Below /\ Frames' = {f, g} \cup Below
    BY <1>5, IntoStack, StackFrames
  <2> QED BY <1>5, <2>1 DEF NoHousekeeping
<1> QED BY <1>1, <1>2, <1>3, <1>4, <1>5

LEMMA HouseFrames ==
  ASSUME TypeOK, TypeOK', Loops, Tended, [Next]_vars
  PROVE  NoHousekeeping \/ ExpireDone
<1>1. \A pc, fd : Frame(pc, fd).pc = pc
  BY DEF Frame
<1>2. \A fd : SweepFrame(fd).pc = "sweep" /\ CleanupFrame(fd).pc = "cleanup"
  BY DEF SweepFrame, CleanupFrame, Frame
<1>3. CASE UNCHANGED stack
  BY <1>3, HouseStacks
<1>4. CASE Minor \/ Serving
  <2>1. \/ \E g : Call(<<g>>) /\ g.pc # "housekeeping"
        \/ stack # <<>> /\ \/ Return
                           \/ \E f : Become(f) /\ (f.pc # "housekeeping" \/ ExpireDone)
    BY <1>4 DEF Minor, Serving
  <2> QED BY <2>1, HouseStacks
<1>5. CASE ParseStep
  <2>1. stack # <<>> /\ Top.pc = "fcgi"
    BY <1>5 DEF ParseStep, ParseEnd, ParseBad, ParseDefer, ParseSkip, ParseNew, ParseKnown,
                ParseFault, At, Top
  <2>2. UNCHANGED stack \/ Return \/ Become([Top EXCEPT !.n = @ + 1])
    BY <1>5 DEF ParseStep, ParseEnd, ParseBad, ParseDefer, ParseSkip, ParseNew, ParseKnown,
                ParseFault, Deliver
  <2>3. [Top EXCEPT !.n = @ + 1].pc = "fcgi"
    BY <2>1, TopFrame DEF StackFrame, FrameOf
  <2> QED BY <2>1, <2>2, <2>3, HouseStacks
<1>6. CASE WaitingNext
  <2> DEFINE fd == Head(g_waiting_conns)
             was == conn[fd].waiting_for_arena
             next == [Top EXCEPT !.m = @ - 1]
             serve == [next EXCEPT !.pc = "waited", !.fd = fd, !.was = was]
  <2>1. /\ stack # <<>> /\ Top.pc = "waiting"
        /\ Become(next) \/ CallFrom(serve, <<Frame("fcgi", fd)>>)
    BY <1>6 DEF WaitingNext, At, Top
  <2>2. next.pc = "waiting"
    BY <2>1, TopFrame DEF StackFrame, FrameOf
  <2>3. serve.pc = "waited"
    <3> HIDE DEF fd, was
    <3> QED BY <2>1, TopFrame DEF StackFrame, FrameOf
  <2> HIDE DEF next, serve, fd
  <2> QED BY <1>1, <2>1, <2>2, <2>3, HouseStacks
<1>7. CASE \E e \in batch : IoEvent(e)
  <2>1. PICK e \in batch : IoEvent(e)
    BY <1>7
  <2>2. CASE \E x : x.pc \in {"outflush", "sweep"} /\ Call(<<x>>)
    BY <2>2, HouseStacks
  <2>3. ASSUME NEW x, x.pc = "parsed", stack' = <<x>> \/ stack' = <<Frame("fcgi", e.fd)>> \o <<x>>
        PROVE  NoHousekeeping
    <3> DEFINE g == Frame("fcgi", e.fd)
               S == {x, g}
    <3>1. g.pc = "fcgi"
      BY <1>1
    <3>2. x \in S /\ g \in S
      OBVIOUS
    <3>3. stack' = <<x>> \/ stack' = <<g>> \o <<x>>
      BY <2>3
    <3> HIDE DEF S, g
    <3>4. Items(<<x>>) = {x} /\ Items(<<g>> \o <<x>>) = {g, x}
      BY <3>2, FewFrames
    <3>5. Frames' = Items(stack')
      BY DEF Frames
    <3>6. Frames' = {x} \/ Frames' = {g, x}
      <4> HIDE DEF Items
      <4> QED BY <3>3, <3>4, <3>5, Zenon
    <3> QED BY <2>3, <3>1, <3>6 DEF NoHousekeeping
  <2> QED BY <2>1, <2>2, <2>3, IoEventStack
<1>8. CASE AfterParse \/ OutFlush \/ SweepDone
  <2>1. stack # <<>>
    BY <1>8 DEF AfterParse, OutFlush, SweepDone, At
  <2>2. \/ Become(Frame("outflush", Top.fd)) \/ Become(SweepFrame(Top.fd))
        \/ Become(Frame("closing", NoFd))
    BY <1>8 DEF AfterParse, OutFlush, SweepDone
  <2> QED BY <1>1, <1>2, <2>1, <2>2, HouseStacks
<1>9. CASE SweepErase
  <2>1. stack # <<>> /\ Top.pc = "erase" /\ Become([Top EXCEPT !.pc = "sweep", !.id = NoId])
    BY <1>9 DEF SweepErase, At, Top
  <2>2. [Top EXCEPT !.pc = "sweep", !.id = NoId].pc = "sweep"
    BY <2>1, TopFrame DEF StackFrame, FrameOf
  <2> QED BY <2>1, <2>2, HouseStacks
<1>10. ASSUME NEW id \in Ids, SweepKeep(id) PROVE NoHousekeeping
  <2>1. stack # <<>> /\ Top.pc = "sweep" /\ Become([Top EXCEPT !.ids = @ \ {id}])
    BY <1>10 DEF SweepKeep, At, Top
  <2>2. [Top EXCEPT !.ids = @ \ {id}].pc = "sweep"
    BY <2>1, TopFrame DEF StackFrame, FrameOf
  <2> QED BY <2>1, <2>2, HouseStacks
<1>11. ASSUME NEW id \in Ids, SweepFree(id) \/ CleanupOne(id) PROVE NoHousekeeping
  <2>1. PICK a \in Arena, under \in StackFrame :
          Releases(a, id, under) /\ under.pc \in {"erase", "cleanup"}
    BY <1>11, SweepFreeIs, CleanupOneIs
  <2>2. Frames = {Top} \cup Below
    BY <2>1, StackFrames DEF Releases
  <2> QED BY <2>1, <2>2 DEF Releases, NoHousekeeping
<1>12. CASE CloseQueued \/ \E fd \in Fds : HousekeepingClose(fd)
  <2>1. UNCHANGED stack \/ \E fd : Call(<<CleanupFrame(fd)>>)
    BY <1>12 DEF CloseQueued, HousekeepingClose
  <2> QED BY <1>2, <2>1, HouseStacks
<1>13. CASE CloseQueueDone \/ CloseFd
  BY <1>13, HouseStacks DEF CloseQueueDone, CloseFd, At
<1> QED BY <1>3, <1>4, <1>5, <1>6, <1>7, <1>8, <1>9, <1>10, <1>11, <1>12, <1>13, StackCases

\* What housekeeping has listed is not added to.
LEMMA ListedToClose ==
  ASSUME TypeOK, Tended, [Next]_vars
  PROVE  to_close' \subseteq to_close \/ ExpireDone
<1>1. CASE Aside
  BY <1>1 DEF Aside, EpollWait, AcceptDone, ListenEvent, EventFdEvent, TimerEvent, IoStale,
     SwapPending, PendingSkip, PendingFault, PendingDone, ParseSkip, SweepDone, CloseQueued,
     CloseQueueDone, ParseFault, SweepKeep, SweepFree, CleanupOne, ReleaseRequest, HousekeepingDone,
     HousekeepingClose, WaitingNext, WaitingDone, WaitedAgain, TaskStart, TaskFault, TaskPush,
     TaskInactive, WsThreads, WsGet, WsRelease, TimerTick, Undefined, vars
<1>2. CASE Flushing
  BY <1>2, FlushingIs
<1>3. CASE ParseEnd \/ ParseBad
  BY <1>3, ReturnIs
<1>4. ASSUME NEW e \in batch, IoEvent(e) PROVE UNCHANGED to_close
  BY <1>4, IoEventIs
<1>5. ASSUME NEW fd \in Fds, AcceptOne(fd) \/ Peer(fd) PROVE UNCHANGED to_close
  BY <1>5, PeerUnchanged DEF AcceptOne
<1>6. CASE \/ Writing \/ Taking \/ ParseDefer \/ SweepErase \/ CloseFd
           \/ \E t \in running : TaskLeave(t)
  BY <1>6 DEF Writing, PendingAnswer, Expire, Taking, ParseNew, ParseKnown, ParseDefer, SweepErase,
     CloseFd, TaskLeave
<1> QED BY <1>1, <1>2, <1>3, <1>4, <1>5, <1>6, StepCases

LEMMA ShouldCloseIs ==
  ASSUME NEW c, ShouldClose(c)
  PROVE  c.active_workers = 0 /\ Ends(c)
BY DEF ShouldClose, Ends

LEMMA ChosenNext ==
  ASSUME TypeOK, TypeOK', Loops, Tended, Counted, Owned, Flow, Chosen, [Next]_vars
  PROVE  Chosen'
<1> SUFFICES ASSUME NEW f \in Frames', f.pc = "housekeeping", NEW fd \in to_close' \cap g_conns'
             PROVE  conn'[fd].active_workers = 0 /\ Ends(conn[fd])'
  BY DEF Chosen
<1>1. CASE ExpireDone
  <2>1. to_close' = {gd \in g_conns : ShouldClose(conn[gd])} /\ UNCHANGED <<conn, req>>
    BY <1>1 DEF ExpireDone
  <2>2. conn[fd].active_workers = 0 /\ Ends(conn[fd])
    BY <2>1, ShouldCloseIs
  <2> QED BY <2>1, <2>2 DEF Ends, Mapped, Responded
<1>2. CASE ~ExpireDone
  <2>1. f \in Frames /\ fd \in to_close
    BY <1>2, HouseFrames, ListedToClose DEF NoHousekeeping
  <2>2. stack # <<>> /\ Frames = {Top} \cup Below
    BY <2>1, CallFrames, StackFrames
  <2>3. fd \in g_conns
    <3>1. CASE fd \notin g_conns
      <4>1. AcceptOne(fd)
        BY <3>1, NewConns
      <4>2. Top.pc = "accept"
        BY <4>1 DEF AcceptOne, At, Top
      <4> QED BY <2>1, <2>2, <4>2, AloneFrames
    <3> QED BY <3>1
  <2>4. ~Taking
    <3>1. ASSUME Taking PROVE FALSE
      <4>1. At("fcgi") /\ Exists
        BY <3>1 DEF Taking, ParseNew, ParseKnown
      <4> QED BY <2>1, <2>2, <4>1 DEF Flow, Apart, At, Top
    <3> QED BY <3>1
  <2>5. conn[fd].active_workers = 0 /\ Ends(conn[fd])
    BY <2>1, <2>3 DEF Chosen
  <2> QED BY <2>3, <2>4, <2>5, StaysSteps, EndsNext DEF Stays
<1> QED BY <1>1, <1>2

\* A cleanup that was under way stays as it was.
LEMMA TidyCloses ==
  ASSUME TypeOK, TypeOK', Loops, Tended, Tended', Counted, Owned, Flow, Closes, [Next]_vars, Tidy
  PROVE  Closes'
<1> SUFFICES ASSUME NEW f \in Frames', f.pc = "cleanup"
             PROVE  /\ conn'[f.fd].active_workers = 0
                    /\ At("cleanup")' \/ f.ids = {}
                    /\ f.ids # {} => Ends(conn[f.fd])'
  BY DEF Closes
<1>1. f \in Frames
  BY DEF Tidy, Enders, EndPC
<1>2. /\ conn[f.fd].active_workers = 0
      /\ At("cleanup") \/ f.ids = {}
      /\ f.ids # {} => Ends(conn[f.fd])
  BY <1>1 DEF Closes
<1>3. f.fd \in g_conns /\ f.fd \in g_conns' /\ f.fd \in Fds
  BY <1>1 DEF Tended, Served, ServesConn, FdPC, TypeOK, ObjTypeOK
<1>4. At("cleanup")' \/ f.ids = {}
  BY <1>2 DEF Tidy, At
<1>5. CASE Taking
  <2>1. PICK a \in Arena, r \in Request, go \in BOOLEAN : Applies(a, r, go)
    BY <1>5, TakingIs DEF Flow
  <2>2. At("fcgi") /\ Exists /\ stack # <<>> /\ Top.pc = "fcgi"
    BY <1>5 DEF Taking, ParseNew, ParseKnown, At, Top
  <2>3. f \in Below
    BY <1>1, <2>2, StackFrames
  <2>4. f.fd # Top.fd /\ f.ids = {}
    BY <1>2, <2>2, <2>3 DEF Flow, Apart, EndPC, At, Top
  <2>5. conn'[f.fd].active_workers = conn[f.fd].active_workers
    BY <1>3, <2>1, <2>4 DEF Applies, Delivered
  <2> QED BY <1>2, <1>4, <2>4, <2>5
<1>6. CASE ~Taking
  <2>1. Stays(conn[f.fd], conn'[f.fd])
    BY <1>3, <1>6, StaysSteps
  <2>2. f.ids # {} => Ends(conn[f.fd])'
    BY <1>2, <1>3, <1>6, EndsNext
  <2> QED BY <1>2, <1>4, <2>1, <2>2 DEF Stays
<1> QED BY <1>5, <1>6

\* A cleanup begins on a connection that may be closed.
LEMMA BeginCloses ==
  ASSUME TypeOK, TypeOK', Loops, stack # <<>>, Top.pc \in {"closing", "housekeeping"},
         NEW fd \in g_conns, conn[fd].active_workers = 0, Ends(conn[fd]),
         Call(<<CleanupFrame(fd)>>), UNCHANGED <<conn, req>>
  PROVE  Closes'
<1> DEFINE g == CleanupFrame(fd)
<1>1. g.pc = "cleanup" /\ g.fd = fd
  BY DEF CleanupFrame, Frame
<1>2. g \in StackFrame /\ Frames' = {g} \cup Frames
  BY IntoStack, CallFrames
<1> HIDE DEF g
<1>3. stack' # <<>> /\ Top' = g
  BY <1>2, NewTop DEF g
<1>4. Frames = {Top}
  BY AloneFrames, StackFrames
<1>5. At("cleanup")'
  BY <1>1, <1>3 DEF At, Top
<1>6. Ends(conn[fd])'
  BY DEF Ends, Mapped, Responded
<1> QED BY <1>1, <1>2, <1>4, <1>5, <1>6 DEF Closes

LEMMA ClosesNext ==
  ASSUME TypeOK, TypeOK', OneId, Loops, Tended, Tended', Counted, Owned, Flow, Closes, Chosen,
         [Next]_vars
  PROVE  Closes'
<1>1. CASE Tidy
  BY <1>1, TidyCloses
<1>2. CASE CloseQueued
  <2> DEFINE fd == Head(closing)
  <2>1. stack # <<>> /\ Top.pc = "closing" /\ UNCHANGED <<conn, req>>
    BY <1>2 DEF CloseQueued, At, Top
  <2>2. \/ UNCHANGED stack
        \/ fd \in g_conns /\ ShouldClose(conn[fd]) /\ Call(<<CleanupFrame(fd)>>)
    BY <1>2 DEF CloseQueued
  <2> HIDE DEF fd
  <2>3. UNCHANGED stack => Tidy
    BY TidyStacks
  <2> QED BY <1>1, <2>1, <2>2, <2>3, ShouldCloseIs, BeginCloses
<1>3. ASSUME NEW fd \in Fds, HousekeepingClose(fd) PROVE Closes'
  <2>1. /\ stack # <<>> /\ Top.pc = "housekeeping" /\ fd \in to_close /\ UNCHANGED <<conn, req>>
        /\ IF fd \in g_conns THEN Call(<<CleanupFrame(fd)>>) ELSE UNCHANGED stack
    BY <1>3 DEF HousekeepingClose, At, Top
  <2>2. CASE fd \notin g_conns
    BY <1>1, <2>1, <2>2, TidyStacks
  <2>3. CASE fd \in g_conns
    <3>1. Top \in Frames
      BY <2>1, StackFrames
    <3>2. conn[fd].active_workers = 0 /\ Ends(conn[fd])
      BY <2>1, <2>3, <3>1 DEF Chosen
    <3> QED BY <2>1, <2>3, <3>2, BeginCloses
  <2> QED BY <2>2, <2>3
<1>4. CASE SweepErase
  <2>1. stack # <<>> /\ Top.pc = "erase" /\ Become([Top EXCEPT !.pc = "sweep", !.id = NoId])
    BY <1>4 DEF SweepErase, At, Top
  <2>2. [Top EXCEPT !.pc = "sweep", !.id = NoId].pc = "sweep"
    BY <2>1, TopFrame DEF StackFrame, FrameOf
  <2>3. \A f \in Frames' : f.pc # "cleanup"
    <3>1. Below = {}
      BY <2>1, AloneFrames
    <3>2. Frames' = {[Top EXCEPT !.pc = "sweep", !.id = NoId]} \cup Below
      BY <2>1, IntoStack, StackFrames
    <3> QED BY <2>2, <3>1, <3>2
  <2> QED BY <2>3 DEF Closes
<1>5. ASSUME NEW id \in Ids, SweepFree(id) PROVE Closes'
  <2>1. PICK a \in Arena, under \in StackFrame : Releases(a, id, under) /\ Below = {} /\ under.pc = "erase"
    BY <1>5, SweepFreeIs
  <2> QED BY <2>1 DEF Releases, Closes
<1>6. ASSUME NEW id \in Ids, CleanupOne(id) PROVE Closes'
  <2>1. PICK a \in Arena, under \in StackFrame :
          /\ Releases(a, id, under) /\ Top.pc = "cleanup"
          /\ \A f \in Below : f.pc \in {"closing", "housekeeping"}
    BY <1>6, CleanupOneIs
  <2>2. Top \in StackFrame /\ Top \in Frames
    BY <2>1, TopFrame, StackFrames DEF Releases
  <2>3. under.fd = Top.fd /\ under.ids = {}
    <3>1. Top.ids \subseteq Ids
      BY <2>2 DEF StackFrame, FrameOf
    <3>2. under.fd = Top.fd /\ under.ids = Top.ids \ {id}
      BY <2>1 DEF Releases
    <3> QED BY <3>1, <3>2 DEF OneId
  <2>4. conn' = conn
    BY <2>1, Freed DEF Releases
  <2>5. conn[Top.fd].active_workers = 0
    BY <2>1, <2>2 DEF Closes
  <2> QED BY <2>1, <2>3, <2>4, <2>5 DEF Releases, Closes
<1>7. CASE CloseFd
  <2>1. stack # <<>> /\ Top.pc = "cleanup" /\ Return
    BY <1>7 DEF CloseFd, At, Top
  <2>2. Frames' = Below /\ \A f \in Below : f.pc \in {"closing", "housekeeping"}
    BY <2>1, StackFrames, CleanupFrames
  <2> QED BY <2>2 DEF Closes
<1>8. CASE WsThreads
  <2>1. UNCHANGED stack
    BY <1>8 DEF WsThreads, WsGet, WsRelease
  <2> QED BY <1>1, <2>1, TidyStacks
<1>9. \/ CloseQueued \/ \E fd \in Fds : HousekeepingClose(fd)
      \/ SweepErase \/ \E id \in Ids : SweepFree(id) \/ CleanupOne(id)
      \/ CloseFd \/ WsThreads \/ Tidy
  BY EventTidy, PartsTidy, WaitingTidy, OthersTidy
     DEF Next, IoThread, HandleStep, CloseStep, HousekeepingStep
<1> QED BY <1>1, <1>2, <1>3, <1>4, <1>5, <1>6, <1>7, <1>8, <1>9

-----------------------------------------------------------------------------
(* What is never freed under a worker *)

Protected == OneEach /\ Finished /\ HandedOnce /\ Marks /\ Holders /\ Closes /\ Chosen

LEMMA ProtectedNext ==
  ASSUME TypeOK, TypeOK', OneId, OneShot, Protected, [Next]_vars
  PROVE  Protected'
<1>1. OneEach'
  BY OneEachNext DEF Protected
<1>2. Finished' /\ HandedOnce' /\ Marks'
  BY FinishedNext, OnceNext, MarksNext DEF Protected, OneEach
<1>3. Holders'
  BY <1>2, HoldersNext DEF Protected, OneEach
<1>4. Closes' /\ Chosen'
  BY <1>1, ClosesNext, ChosenNext DEF Protected, OneEach
<1> QED BY <1>1, <1>2, <1>3, <1>4 DEF Protected

LEMMA InitProtected == Init => Protected
<1> SUFFICES ASSUME Init PROVE Holders /\ Closes /\ Chosen
  BY InitOneEach, InitHanded DEF Protected
<1>1. Frames = {} /\ Items(queue) = {} /\ running = {}
  BY FramesAre DEF Init, Frames
<1>2. Tasks = {}
  BY <1>1, TasksAre
<1> QED BY <1>1, <1>2 DEF Holders, Unstarted, Closes, Chosen

(***************************************************************************)
(* With peers that send one request on a connection, the raw Request* and  *)
(* Connection* that internal_on_request_ready's closure captured are valid *)
(* as long as it uses them, queued or running: the sweep passes over a     *)
(* request whose worker_active is set, and no connection is closed while   *)
(* its active_workers is above zero, not by the deferred closes, which are *)
(* decided again when their turn comes, and not by the second loop of      *)
(* housekeeping_close_idle, below which no record is parsed.               *)
(***************************************************************************)
THEOREM WorkersAreSafe ==
  ASSUME OneId, OneShot
  PROVE  Spec => []WorkersHoldLiveObjects
<1>1. Init => Protected
  BY InitProtected
<1>2. TypeOK /\ TypeOK' /\ Protected /\ [Next]_vars => Protected'
  BY ProtectedNext
<1>3. Protected => WorkersHoldLiveObjects
  BY DEF Protected, Holders, Holds, WorkersHoldLiveObjects
<1> QED BY <1>1, <1>2, <1>3, TypeCorrect, PTL DEF Spec

LEMMA ReleasedSafely ==
  ASSUME TypeOK, TypeOK', OneId, OneShot, Protected, [Next]_vars
  PROVE  ReleasesSafely
<1> SUFFICES ASSUME NEW a \in Arena, req[a].live, ~req'[a].live
             PROVE  /\ Responded(req[a]) \/ conn[req[a].conn_ptr].closed
                    /\ \A t \in Tasks : t.arena = a /\ t.serial = req[a].serial => t.at = "leaving"
  BY DEF ReleasesSafely
<1> USE DEF Protected, OneEach
<1>1. ASSUME NEW t \in Tasks, t.arena = a, t.serial = req[a].serial, t.at # "leaving"
      PROVE  /\ req[a].worker_active
             /\ \A fd \in g_conns : conn[fd].active_workers = 0 => req[a].conn_ptr # fd
  <2>1. Holds(t) /\ RequestOf(t)
    BY <1>1 DEF Holders, RequestOf
  <2> QED BY <1>1, <2>1, NoTasks DEF Holds, ConnOf
<1>2. CASE Taking
  <2>1. PICK b \in Arena, r \in Request, go \in BOOLEAN : Applies(b, r, go)
    BY <1>2, TakingIs DEF Flow
  <2>2. req'[b].live /\ \A d \in Arena \ {b} : req'[d] = req[d]
    BY <2>1 DEF Applies, Delivered, SameRequest
  <2> QED BY <2>2
<1>3. CASE \A b \in Arena : SameWork(b)
  BY <1>3 DEF SameWork, SameRequest
<1>4. ASSUME NEW id \in Ids, SweepFree(id)
      PROVE  /\ Responded(req[a])
             /\ \A t \in Tasks : t.arena = a /\ t.serial = req[a].serial => t.at = "leaving"
  <2>1. PICK b \in Arena, under \in StackFrame : Releases(b, id, under) /\ Sweepable(req[b])
    BY <1>4, SweepFreeIs
  <2>2. a = b
    BY <2>1, Freed DEF Releases
  <2> QED BY <1>1, <2>1, <2>2 DEF Sweepable, Marks, Marked, Responded
<1>5. ASSUME NEW id \in Ids, CleanupOne(id)
      PROVE  /\ Responded(req[a]) \/ conn[req[a].conn_ptr].closed
             /\ \A t \in Tasks : t.arena = a /\ t.serial = req[a].serial => t.at = "leaving"
  <2>1. PICK b \in Arena, under \in StackFrame : Releases(b, id, under) /\ Top.pc = "cleanup"
    BY <1>5, CleanupOneIs
  <2>2. a = b /\ stack # <<>>
    BY <2>1, Freed DEF Releases
  <2>3. /\ Top \in Frames /\ Top.fd \in g_conns /\ id \in Top.ids
        /\ a = conn[Top.fd].requests[id] /\ a # NoArena /\ req[a].conn_ptr = Top.fd
    BY <2>1, <2>2, StackFrames DEF Releases, EntryLives
  <2>4. conn[Top.fd].active_workers = 0 /\ Ends(conn[Top.fd])
    BY <2>1, <2>3 DEF Closes
  <2>5. Responded(req[a]) \/ conn[Top.fd].closed
    BY <2>3, <2>4 DEF Ends, Mapped
  <2> QED BY <1>1, <2>3, <2>4, <2>5
<1> QED BY <1>2, <1>3, <1>4, <1>5, InactiveWork, WorkSteps

(***************************************************************************)
(* With peers that send one request on a connection, release_request is    *)
(* called for a request only when no closure will use it any more, and     *)
(* when it was answered or its peer had closed the connection: the sweep   *)
(* takes requests that are marked answered, failed or aborted, a failed or *)
(* aborted one is marked answered by the same call, and a connection is    *)
(* closed only when all its requests are answered or it is marked closed.  *)
(***************************************************************************)
THEOREM ReleasesAreSafe ==
  ASSUME OneId, OneShot
  PROVE  Spec => ReleaseIsSafe
<1>1. Init => Protected
  BY InitProtected
<1>2. TypeOK /\ TypeOK' /\ Protected /\ [Next]_vars => Protected'
  BY ProtectedNext
<1>3. TypeOK /\ TypeOK' /\ Protected /\ [Next]_vars => [ReleasesSafely]_vars
  BY ReleasedSafely
<1> QED BY <1>1, <1>2, <1>3, TypeCorrect, PTL DEF Spec, ReleaseIsSafe
=============================================================================
