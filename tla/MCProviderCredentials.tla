------------------------ MODULE MCProviderCredentials ------------------------
EXTENDS ProviderCredentials

CONSTANTS p1, p2, k1, k2

OneEach == (p1 :> 1) @@ (p2 :> 2)

(* The keyrings of a rotation from k1 to k2. *)
Rotation ==
  { [active |-> k1, keys |-> {k1}], [active |-> k2, keys |-> {k1, k2}],
    [active |-> k2, keys |-> {k2}] }

Symmetric == Permutations(Servers)
=============================================================================
