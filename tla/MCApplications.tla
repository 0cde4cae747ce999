--------------------------- MODULE MCApplications ---------------------------
(* Values for model checking Applications. *)
EXTENDS Applications

AllPrograms == Loops \cup {"moses"}
=============================================================================
