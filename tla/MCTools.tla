------------------------------- MODULE MCTools -------------------------------
(* Tools with up to two files of up to two tests. *)
EXTENDS Tools
=============================================================================
