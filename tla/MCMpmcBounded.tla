---------------------------- MODULE MCMpmcBounded ----------------------------
(* Model-checking module for MpmcBounded.                                  *)
EXTENDS MpmcBounded, TLC

\* For the runs that check safety only.
Symmetry ==
  UNION {Permutations(S) : S \in {Senders, Receivers, Closers, Messages}}

=============================================================================
