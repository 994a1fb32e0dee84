---------------------------- MODULE MCPasswordKdf ----------------------------
(* PasswordKdf for TLC.  No symmetry: the run checks a liveness property. *)
EXTENDS PasswordKdf
=============================================================================
