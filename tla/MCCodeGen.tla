----------------------------- MODULE MCCodeGen -----------------------------
(* One file's code generation for TLC. *)
EXTENDS CodeGen
=============================================================================
