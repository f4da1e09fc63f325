--------------------------- MODULE MCFcgiConfigs ----------------------------
(***************************************************************************)
(* The FastCGI server under several configurations in one run of TLC: the  *)
(* initial state picks one, and it stays.  Each stresses another part, at  *)
(* bounds that would be too large all together:                            *)
(*   faults    peers abort, close or are reset while requests time out and *)
(*             accept() fails, on two connections that follow each other   *)
(*             on one descriptor                                           *)
(*   records   records of every type and size, split or of a wrong         *)
(*             version, up to and past the limits                          *)
(*   parallel  two requests of one connection in two arenas, served by two *)
(*             workers at a time, while the peer may close                 *)
(*   keep      two keep-alive connections compete for one arena            *)
(*   shared    a multiplexing peer and a WebSocket thread share one arena  *)
(***************************************************************************)
EXTENDS Naturals

CONSTANTS f1, f2, NoFd, NoId

VARIABLES
 
  config,                 \* the configuration
  in_use, available_count, g_conns, conn, req, g_pending_output, taken, g_close_queue,
  closing, to_close, g_waiting_conns, g_accept_paused, stack, batch, queue, running,
  eventfd, timer, ready, sock, phase, ws, begun, connects, built, fault

Faults == INSTANCE FcgiProperties WITH
  Fds <- {f1}, Ids <- {1}, NArenas <- 1, MaxParams <- 1, MaxStdin <- 1,
  ParamLens <- {}, StdinLens <- {}, SndBuf <- 1, Buckets <- 1, KeepFlags <- BOOLEAN,
  Env <- {"abort", "accept", "close", "timeout"}, MaxConnects <- 2, MaxRequests <- 2,
  MaxWs <- 0

Records == INSTANCE FcgiProperties WITH
  Fds <- {f1}, Ids <- {1}, NArenas <- 1, MaxParams <- 1, MaxStdin <- 1,
  ParamLens <- {1, 2}, StdinLens <- {1, 2}, SndBuf <- 1, Buckets <- 1, KeepFlags <- {FALSE},
  Env <- {"bad", "other", "partial", "close"}, MaxConnects <- 1, MaxRequests <- 1,
  MaxWs <- 0

Parallel == INSTANCE FcgiProperties WITH
  Fds <- {f1}, Ids <- {1, 2}, NArenas <- 2, MaxParams <- 1, MaxStdin <- 1,
  ParamLens <- {}, StdinLens <- {}, SndBuf <- 1, Buckets <- 2, KeepFlags <- {FALSE},
  Env <- {"multiplex", "close"}, MaxConnects <- 1, MaxRequests <- 2, MaxWs <- 0

Keep == INSTANCE FcgiProperties WITH
  Fds <- {f1, f2}, Ids <- {1, 2}, NArenas <- 1, MaxParams <- 1, MaxStdin <- 1,
  ParamLens <- {}, StdinLens <- {}, SndBuf <- 1, Buckets <- 2, KeepFlags <- {TRUE}, Env <- {},
  MaxConnects <- 2, MaxRequests <- 2, MaxWs <- 0

Shared == INSTANCE FcgiProperties WITH
  Fds <- {f1}, Ids <- {1, 2}, NArenas <- 1, MaxParams <- 1, MaxStdin <- 1,
  ParamLens <- {}, StdinLens <- {}, SndBuf <- 1, Buckets <- 1, KeepFlags <- {FALSE},
  Env <- {"multiplex"}, MaxConnects <- 1, MaxRequests <- 2, MaxWs <- 1

allVars == <<config, Faults!vars>>

Init ==
  \/ config = "faults"   /\ Faults!Init
  \/ config = "records"  /\ Records!Init
  \/ config = "parallel" /\ Parallel!Init
  \/ config = "keep"     /\ Keep!Init
  \/ config = "shared"   /\ Shared!Init

Next ==
  \/ config = "faults"   /\ Faults!Next   /\ UNCHANGED config
  \/ config = "records"  /\ Records!Next  /\ UNCHANGED config
  \/ config = "parallel" /\ Parallel!Next /\ UNCHANGED config
  \/ config = "keep"     /\ Keep!Next     /\ UNCHANGED config
  \/ config = "shared"   /\ Shared!Next   /\ UNCHANGED config

Spec == Init /\ [][Next]_allVars

-----------------------------------------------------------------------------
(* The properties of FcgiProperties, each in the configurations it is about. *)

\* A request is handed to a worker once, and the raw pointers its closure holds
\* stay valid, with one worker and with two; neither when a deferred request is
\* replayed, which the configuration shared does.
ClosuresAreSafe ==
  /\ config = "faults"   => Faults!WorkersHoldLiveObjects
  /\ config = "parallel" => Parallel!WorkersHoldLiveObjects
  /\ config = "keep"     => Keep!DispatchedOnce
  /\ config = "records"  => Records!DispatchedOnce

\* What the workers hand back is answered before it is destroyed, as long as no
\* peer closes; and each response ends one open request of its peer, also when a
\* deferred BEGIN_REQUEST is replayed.
AnswersAreSafe ==
  /\ config = "keep"   => Keep!PendingLive /\ Keep!ResponsesAreOwed
  /\ config = "shared" => Shared!ResponsesAreOwed

\* Between events nothing is left that no event will come for: unsent output
\* is watched for by epoll, and no connection waits while an arena is free.
\* The latter not where a WebSocket thread may have released the arena.
NothingStranded ==
  /\ config = "keep"   => Keep!UnsentIsArmed /\ Keep!WaitingMeansExhausted
  /\ config = "shared" => Shared!UnsentIsArmed

(***************************************************************************)
(* From its BEGIN_REQUEST to END_REQUEST a request is served once: by one  *)
(* closure whose pointers hold, with one answer that its peer waits for,   *)
(* and with nothing left over that no event will come for.                 *)
(***************************************************************************)
RequestsAreSafe == ClosuresAreSafe /\ AnswersAreSafe /\ NothingStranded

(***************************************************************************)
(* With two workers handing back at a time, the IO thread is woken for     *)
(* every request in g_pending_output, also for one pushed after it has     *)
(* drained the eventfd or while it works off the list it took (run,        *)
(* process_pending_output).                                                *)
(***************************************************************************)
NoLostWakeup == config = "parallel" => Parallel!NoLostWakeup

(***************************************************************************)
(* The loops over a connection's requests outlive what their releases run  *)
(* (handle_io, cleanup_connection_requests): other connections are served  *)
(* from inside them, and the one they iterate over.  With room in the map  *)
(* (keep) nothing rehashes it; in shared there is none, and up to a rehash *)
(* no entry is taken away.                                                 *)
(***************************************************************************)
LoopsStayValid ==
  /\ config = "keep"   => Keep!LoopsStayValid /\ Keep!NeverRehashed
  /\ config = "shared" => Shared!LoopsStayValid

(***************************************************************************)
(* Only a complete request is answered, and none is ended twice; a request *)
(* dies answered, or with its connection, and never under a worker         *)
(* (process_pending_output, fail_request, release_request).                *)
(***************************************************************************)
EndsAreSafe ==
  [][/\ config = "records" => Records!AnswersComplete
     /\ config = "shared"  => Shared!AnswersComplete
     /\ config = "faults"  => Faults!ReleasesSafely]_allVars
=============================================================================
