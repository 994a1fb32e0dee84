------------------------------ MODULE MCWebauthn ------------------------------
(* Instances of Webauthn for TLC. *)
EXTENDS Webauthn, TLC

CONSTANT alice

(* Every session is of one account. *)
OfAlice == [s \in Sessions |-> alice]

(* Ceremonies, passkeys, requests and processes are interchangeable. *)
Interchangeable ==
  Permutations(Ceremonies) \cup Permutations(Keys) \cup Permutations(Operations)
    \cup Permutations(Deployments)
=============================================================================
