------------------------------- MODULE AddrPool -------------------------------
(***************************************************************************)
(* The address arithmetic of a tenant's pool, from internal/store/addr.go. *)
(*                                                                         *)
(* An address is a natural number.  A tenant's prefix, once masked, is the *)
(* block of the addresses it contains, [first, last, v4].                  *)
(***************************************************************************)
EXTENDS Naturals

\* The network address and the server's relay address are never given out.
ReservedHosts == 2

BlockType == [first : Nat, last : Nat, v4 : BOOLEAN]

Contains(block, a) == block.first <= a /\ a <= block.last

\* The addresses a peer may be given: not the reserved ones and, in an IPv4
\* block, not the broadcast address.
Usable(block) ==
    (block.first + ReservedHosts) ..
        (IF block.v4 THEN block.last - 1 ELSE block.last)

Free(block, used) == Usable(block) \ used

IsLowest(a, S) == a \in S /\ \A b \in S : a <= b

\* What nextFreeAddr promises to return when Free(block, used) is not empty.
LowestFree(block, used) == CHOOSE a \in Free(block, used) : IsLowest(a, Free(block, used))
===============================================================================
