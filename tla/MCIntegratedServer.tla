------------------------- MODULE MCIntegratedServer -------------------------
(* Instances of IntegratedServer for TLC. *)
EXTENDS IntegratedServer, TLC

FixedQps == <<4, 4, 4, 4>>

Symmetry == Permutations(Threads)

=============================================================================
