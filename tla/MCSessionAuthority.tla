-------------------------- MODULE MCSessionAuthority --------------------------
(* Small instances of the session authority for TLC. *)
EXTENDS SessionAuthority, TLC

CONSTANTS alice, bob, r1, r2

(* Requests are interchangeable. *)
OneRequest == {r1}
TwoRequests == {r1, r2}
Symmetry == Permutations(TwoRequests)

TwoAccounts == {alice, bob}
OneAccount == {alice}
ShortPolicies == { [idle |-> 1, absolute |-> 2] }
SlidingPolicies == { [idle |-> 2, absolute |-> 3] }
BothKinds == {"cookie", "bearer"}
CookieOnly == {"cookie"}
=============================================================================
