---------------------------- MODULE MCMpmcHandles ----------------------------
(* Model-checking module for MpmcHandles: threads and messages are model   *)
(* values, interchangeable within their set.                               *)
EXTENDS MpmcHandles, TLC

Symmetry ==
  UNION {Permutations(S) : S \in {Senders, Receivers, Closers, Messages}}

=============================================================================
