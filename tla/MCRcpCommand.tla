---------------------------- MODULE MCRcpCommand ----------------------------
(***************************************************************************)
(* RcpCommand for TLC.  The threads run the same code, so the safety runs  *)
(* may permute them; the runs that check liveness do not.                  *)
(***************************************************************************)
EXTENDS RcpCommand, TLC

ThreadSymmetry == Permutations(Threads)
=============================================================================
