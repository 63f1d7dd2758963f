------------------------------ MODULE MCCommand ------------------------------
(* Command with pipes smaller or larger than what is written to them. *)
EXTENDS Command
=============================================================================
