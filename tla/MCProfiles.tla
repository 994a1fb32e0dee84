------------------------------ MODULE MCProfiles ------------------------------
(* Instances of Profiles for TLC. *)
EXTENDS Profiles, TLC

(* Sign-ins are interchangeable, and so are operation ids. *)
Interchangeable == Permutations(Flows) \cup Permutations(Operations)
=============================================================================
