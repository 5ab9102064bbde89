------------------------------ MODULE MCPeerSync ------------------------------
EXTENDS PeerSync, TLC

CONSTANTS n1, n2, a1, a2, a3

MCHomeOf == (n1 :> {a1, a3}) @@ (n2 :> {a2})
===============================================================================
