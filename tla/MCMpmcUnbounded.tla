--------------------------- MODULE MCMpmcUnbounded ---------------------------
(* Model-checking module for MpmcUnbounded: threads are interchangeable    *)
(* within their set, in the runs that check safety only.                   *)
EXTENDS MpmcUnbounded, TLC

Symmetry == UNION {Permutations(S) : S \in {Senders, Receivers, Closers}}

=============================================================================
