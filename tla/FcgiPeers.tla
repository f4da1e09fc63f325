----------------------------- MODULE FcgiPeers ------------------------------
(***************************************************************************)
(* The environment of the FastCGI server: the peers (web servers) that     *)
(* connect to it, the timer, and the WebSocket threads that use the same   *)
(* arenas.  What peers may do is chosen by Env; a well-behaved peer sends  *)
(* each request's records in order and reads what it is sent.              *)
(***************************************************************************)
EXTENDS FcgiState

Phase == {"idle", "begun", "params", "params_end", "stdin", "complete", "aborted"}

\* A descriptor number is chosen when the peer connects, before accept().
PeerConnect(fd, keep) ==
  /\ sock[fd].st = "free" /\ connects < MaxConnects
  /\ connects' = connects + 1
  /\ sock' = [sock EXCEPT ![fd] = [FreeSock EXCEPT !.st = "backlog", !.keep = keep,
                                                   !.serial = connects + 1]]
  /\ UNCHANGED <<objVars, listVars, ioVars, taskVars, wakeVars, phase, begun, ws, fault>>

CanSend(fd) == sock[fd].st # "free" /\ ~sock[fd].eof /\ ~sock[fd].bad

\* New bytes put an accepted connection on the ready list.
Wake(fd) == ready' = IF sock[fd].st = "conn" THEN ready \cup {fd} ELSE ready

Send(fd, recs) ==
  /\ CanSend(fd)
  /\ sock' = [sock EXCEPT ![fd].rx = Joined(@, recs),
                          ![fd].used = @ \/ recs[Len(recs)].type = "BEGIN",
                          ![fd].bad = (recs[Len(recs)].type = "BAD")]
  /\ Wake(fd)
  /\ UNCHANGED <<objVars, listVars, ioVars, taskVars, eventfd, timer, connects, ws,
                 fault>>

Enter(fd, id, p) == phase' = [phase EXCEPT ![fd][id] = p]

\* Without KEEP_CONN a connection carries one request, unless the peer
\* multiplexes; with it, the next one once the last was answered.  A management
\* record may come first.
PeerBegin(fd, id) ==
  /\ begun < MaxRequests /\ phase[fd][id] = "idle"
  /\ \/ "multiplex" \in Env
     \/ /\ \A i \in Ids : phase[fd][i] = "idle"
        /\ sock[fd].keep \/ ~sock[fd].used
  /\ begun' = begun + 1
  /\ \E before \in {<<>>} \cup (IF "other" \in Env THEN {<<Bare("OTHER")>>} ELSE {}) :
       Send(fd, before \o <<Rec("BEGIN", id, 8, sock[fd].keep)>>)
  /\ Enter(fd, id, "begun")

\* The two streams, parameters first, each ended by an empty record.
PeerStream(fd, id) ==
  /\ \/ /\ phase[fd][id] = "begun"
        /\ \E len \in ParamLens : Send(fd, <<Rec("PARAMS", id, len, FALSE)>>)
        /\ Enter(fd, id, "params")
     \/ /\ phase[fd][id] \in {"begun", "params"}
        /\ Send(fd, <<Rec("PARAMS", id, 0, FALSE)>>) /\ Enter(fd, id, "params_end")
     \/ /\ phase[fd][id] = "params_end"
        /\ \E len \in StdinLens : Send(fd, <<Rec("STDIN", id, len, FALSE)>>)
        /\ Enter(fd, id, "stdin")
     \/ /\ phase[fd][id] \in {"params_end", "stdin"}
        /\ Send(fd, <<Rec("STDIN", id, 0, FALSE)>>) /\ Enter(fd, id, "complete")
  /\ UNCHANGED begun

PeerAbort(fd, id) ==
  /\ "abort" \in Env /\ phase[fd][id] \notin {"idle", "aborted"}
  /\ Send(fd, <<Rec("ABORT", id, 0, FALSE)>>) /\ Enter(fd, id, "aborted")
  /\ UNCHANGED begun

PeerBad(fd) ==
  /\ "bad" \in Env
  /\ Send(fd, <<Bare("BAD")>>)
  /\ UNCHANGED <<phase, begun>>

\* The first bytes of the next record; the rest comes with the next Send.
PeerPartial(fd) ==
  /\ "partial" \in Env
  /\ ~EndsPartial(sock[fd].rx)
  /\ sock[fd].rx = <<>> /\ fd \in g_conns => ~EndsPartial(conn[fd].in_buf)
  /\ Send(fd, <<Bare("PARTIAL")>>)
  /\ UNCHANGED <<phase, begun>>

\* The peer reads all there is; an answered id may be used again.  A socket
\* that was full and is watched for writing becomes writable.
PeerRead(fd) ==
  /\ ~sock[fd].eof /\ sock[fd].tx # <<>>
  /\ phase' = [phase EXCEPT ![fd] = [id \in Ids |->
       IF \E i \in 1 .. Len(sock[fd].tx) : sock[fd].tx[i] = id THEN "idle" ELSE @[id]]]
  /\ sock' = [sock EXCEPT ![fd].tx = <<>>]
  /\ ready' = IF conn[fd].epollout /\ Len(sock[fd].tx) >= SndBuf
                THEN ready \cup {fd} ELSE ready
  /\ UNCHANGED <<objVars, listVars, ioVars, taskVars, eventfd, timer, begun, connects,
                 ws, fault>>

\* The peer closes.  A Unix socket reports HUP at once; TCP reports the end of
\* the stream, and HUP when a reset follows.
PeerClose(fd, hup) ==
  /\ "close" \in Env /\ sock[fd].st # "free"
  /\ \/ ~sock[fd].eof
     \/ hup /\ ~sock[fd].hup
  /\ sock' = [sock EXCEPT ![fd].eof = TRUE, ![fd].hup = hup, ![fd].tx = <<>>]
  /\ Wake(fd)
  /\ UNCHANGED <<objVars, listVars, ioVars, taskVars, eventfd, timer, phase, begun,
                 connects, ws, fault>>

\* The timerfd expires every 100 ms.
TimerTick ==
  /\ stack = <<>> /\ batch = {} /\ ~timer /\ timer' = TRUE
  /\ UNCHANGED <<objVars, listVars, ioVars, taskVars, eventfd, ready, peerVars, ws,
                 fault>>

\* websockets.cpp builds its requests in the same arenas, and gives them back
\* with ArenaManager::release alone.
WsGet(a) ==
  /\ Cardinality(ws) < MaxWs /\ Get(a)
  /\ ws' = ws \cup {a}
  /\ UNCHANGED <<connVars, req, built, listVars, ioVars, taskVars, wakeVars, peerVars,
                 fault>>

WsRelease(a) ==
  /\ a \in ws /\ Release(a)
  /\ ws' = ws \ {a}
  /\ UNCHANGED <<connVars, req, built, listVars, ioVars, taskVars, wakeVars, peerVars,
                 fault>>

-----------------------------------------------------------------------------
(***************************************************************************)
(* The IO thread meets its peers in its system calls only: epoll_wait, the *)
(* recv loop at the head of handle_io and the sends of flush_connection.   *)
(* A step of a peer anywhere else commutes with what the IO thread does    *)
(* until the next of these points, so peers step there; likewise the timer *)
(* is seen by epoll_wait alone.                                            *)
(***************************************************************************)
AtSystemCall == stack # <<>> => Top.pc \in {"parsed", "outflush", "waited"}

Peer(fd) ==
  \/ \E keep \in KeepFlags : PeerConnect(fd, keep)
  \/ \E id \in Ids : PeerBegin(fd, id) \/ PeerStream(fd, id) \/ PeerAbort(fd, id)
  \/ PeerBad(fd) \/ PeerPartial(fd) \/ PeerRead(fd)
  \/ \E hup \in BOOLEAN : PeerClose(fd, hup)

WsThreads == \E a \in Arena : WsGet(a) \/ WsRelease(a)
=============================================================================
