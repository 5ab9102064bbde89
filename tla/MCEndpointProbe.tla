--------------------------- MODULE MCEndpointProbe ----------------------------
(* A node that may move between two endpoints, and two reports: one that it   *)
(* waits for and one that it does not wait for any more.                      *)
EXTENDS EndpointProbe
===============================================================================
