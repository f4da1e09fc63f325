------------------------------ MODULE MCFiles -------------------------------
(***************************************************************************)
(* Instances of the file cache for TLC; threads and paths are alike.       *)
(***************************************************************************)
EXTENDS FileProperties, TLC

FileSymmetry == Permutations(Callers) \cup Permutations(Files)
=============================================================================
