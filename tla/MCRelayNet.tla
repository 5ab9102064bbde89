------------------------------ MODULE MCRelayNet ------------------------------
EXTENDS RelayNet, TLC

\* Two nodes of one tenant and a spare address.  Six tokens are enough for one
\* fault: each node asks once and once more after a restart, and a call that was
\* given up may still be served.

CONSTANTS p1, p2, a1, a2

MCTenantOf == (p1 :> "A") @@ (p2 :> "A")
MCMeshIP == (p1 :> 2) @@ (p2 :> 3)
MCStartsAt == (p1 :> a1) @@ (p2 :> a2)
===============================================================================
