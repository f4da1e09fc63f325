------------------------------- MODULE MCPool --------------------------------
(***************************************************************************)
(* Instances of the worker pool for TLC; the constants are in the .cfg.    *)
(***************************************************************************)
EXTENDS PoolProperties
==============================================================================
