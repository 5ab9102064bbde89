------------------------------- MODULE RelayTable -------------------------------
(***************************************************************************)
(* What the relay promises, without sessions, tokens or maps: a table of   *)
(* where each peer was last heard to register, in which no two peers share *)
(* an address, and frames carried between peers of one tenant to the       *)
(* address the table gives.  Relay implements it.                          *)
(***************************************************************************)
CONSTANTS Peers, TenantOf, Addrs, NoAddr

VARIABLES
    where,      \* where[p]: the address of p, or NoAddr
    heard,      \* peers heard within SessionTTL
    frame       \* the frame being carried, if there is one: a set of at most one

tableVars == <<where, heard, frame>>

Init ==
    /\ where = [p \in Peers |-> NoAddr]
    /\ heard = {}
    /\ frame = {}

\* p asks for a new token: it has to register again.
Renew(p) ==
    /\ where' = [where EXCEPT ![p] = NoAddr]
    /\ heard' = heard \ {p}
    /\ UNCHANGED frame

\* p registers from a, which no other peer has any more.
Settle(p, a) ==
    /\ frame = {}
    /\ where' = [q \in Peers |-> IF q = p THEN a ELSE IF where[q] = a THEN NoAddr ELSE where[q]]
    /\ heard' = heard \cup {p}
    /\ UNCHANGED frame

Carry(p, q) ==
    /\ frame = {}
    /\ p # q /\ TenantOf[p] = TenantOf[q]
    /\ {p, q} \subseteq heard
    /\ where[p] # NoAddr /\ where[q] # NoAddr
    /\ frame' = {[from |-> p, to |-> q, dst |-> where[q]]}
    /\ UNCHANGED <<where, heard>>

Delivered ==
    /\ frame' = {}
    /\ UNCHANGED <<where, heard>>

Silence(p) ==
    /\ heard' = heard \ {p}
    /\ UNCHANGED <<where, frame>>

Next ==
    \/ \E p \in Peers : Renew(p) \/ Silence(p)
    \/ \E p \in Peers, a \in Addrs : Settle(p, a)
    \/ \E p, q \in Peers : Carry(p, q)
    \/ Delivered

Spec == Init /\ [][Next]_tableVars
===============================================================================
