-------------------------- MODULE MCNetworkedServer --------------------------
(* Instances of NetworkedServer for TLC. *)
EXTENDS NetworkedServer, TLC

\* Workers, clients and ids are interchangeable: safety checks only.
Symmetry == Permutations(Workers) \cup Permutations(Clients) \cup Permutations(Ids)

=============================================================================
