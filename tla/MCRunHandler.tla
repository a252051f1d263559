---------------------------- MODULE MCRunHandler ----------------------------
(***************************************************************************)
(* Instances of RunHandler for TLC.  Model values stand for threads and    *)
(* ids; 202 is what the service answers to a POST, 300 the first code      *)
(* is_success() rejects.                                                   *)
(***************************************************************************)
EXTENDS RunHandler, TLC

Symmetry == Permutations(Threads) \cup Permutations(RequestIds)
              \cup Permutations(InvocationIds)
=============================================================================
