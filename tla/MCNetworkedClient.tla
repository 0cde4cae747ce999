-------------------------- MODULE MCNetworkedClient --------------------------
(* Instances of NetworkedClient for TLC. *)
EXTENDS NetworkedClient, TLC

\* The rates of TBENCH_VARQPS=2 for TLC: down, up and equal steps.
CycleQps == <<1, 4, 4, 2>>

FixedQps == <<4, 4, 4, 4>>

\* Threads are interchangeable: safety checks only.
Symmetry == Permutations(Threads) \cup Permutations(Receivers)

=============================================================================
