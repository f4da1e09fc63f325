-------------------------------- MODULE MCWs --------------------------------
(***************************************************************************)
(* Instances of the WebSocket and HTTP server for TLC.  The constants are  *)
(* given in the .cfg files; descriptors are interchangeable.               *)
(***************************************************************************)
EXTENDS WsProperties, TLC

WsSymmetry == Permutations(Fds)
=============================================================================
