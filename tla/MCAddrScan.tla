------------------------------ MODULE MCAddrScan ------------------------------
(* Every masked prefix of a three-bit address space, in either family, under *)
(* every set of used addresses; and every lifetime that ten bits can ask for. *)
EXTENDS AddrScan, Lifetimes

Sizes == {1, 2, 4, 8}

MCBlocks ==
    UNION { { [first |-> f, last |-> f + size - 1, v4 |-> v] :
                f \in {n \in 0..7 : n % size = 0}, v \in BOOLEAN } : size \in Sizes }

\* GrantedAsAsked is about constants: TLC evaluates it before it runs the loop.
ASSUME LifetimesGranted == GrantedAsAsked
===============================================================================
