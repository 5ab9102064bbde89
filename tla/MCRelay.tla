-------------------------------- MODULE MCRelay --------------------------------
(* Two peers of one tenant and one of another that has the same mesh address. *)
EXTENDS Relay, TLC

CONSTANTS p1, p2, p3

MCTenantOf == (p1 :> "A") @@ (p2 :> "A") @@ (p3 :> "B")
MCMeshIP == (p1 :> 2) @@ (p2 :> 3) @@ (p3 :> 2)

Symmetry == Permutations(Tokens) \cup Permutations(Addrs)
===============================================================================
