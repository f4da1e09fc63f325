------------------------------- MODULE MCFcgi -------------------------------
(***************************************************************************)
(* The FastCGI server for TLC, one configuration per run; the constants    *)
(* are given in the .cfg files.                                            *)
(***************************************************************************)
EXTENDS FcgiProperties
=============================================================================
