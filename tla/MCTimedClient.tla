---------------------------- MODULE MCTimedClient ----------------------------
(* Instances of TimedClient for TLC. *)
EXTENDS TimedClient, TLC

FixedQps == <<4, 4, 4, 4>>

\* Threads are interchangeable: safety checks only.
Symmetry == Permutations(Threads) \cup Permutations(Receivers)

=============================================================================
