---------------------------- MODULE MCNATEndpoint -----------------------------
EXTENDS NATEndpoint, TLC

\* Two mappings, on two ips: it may change and come back.

CONSTANTS a1, a2

MCIPOf == (a1 :> "x") @@ (a2 :> "y")
===============================================================================
