------------------------------- MODULE AddrScan -------------------------------
(***************************************************************************)
(* The loop of nextFreeAddr (internal/store/addr.go), one step per         *)
(* iteration, over every block and every set of used addresses.  The       *)
(* modules that allocate addresses use AddrPool's LowestFree instead of    *)
(* this loop; what is checked here is that they may.                       *)
(***************************************************************************)
EXTENDS AddrPool

CONSTANT Prefixes     \* the masked prefixes the loop is run on

ASSUME PrefixesAssumption ==
    /\ Prefixes \subseteq BlockType
    /\ \A b \in Prefixes : b.first <= b.last

VARIABLES
    prefix,         \* the prefix argument, masked
    used,           \* the used argument
    addr,           \* the loop's cursor
    outcome         \* "scanning", or what the call returned: "found", "exhausted"

scanVars == <<prefix, used, addr, outcome>>

ScanInit ==
    /\ prefix \in Prefixes
    /\ used \in SUBSET (prefix.first .. prefix.last)
    /\ addr = prefix.first + ReservedHosts
    /\ outcome = "scanning"

\* A bug: the broadcast address is an address like any other.
BugNoBroadcast == FALSE

AtBroadcast == prefix.v4 /\ addr = prefix.last

\* The loop's condition fails, or it stops at the broadcast address.
LeaveBlock ==
    /\ outcome = "scanning"
    /\ ~Contains(prefix, addr) \/ AtBroadcast
    /\ outcome' = "exhausted"
    /\ UNCHANGED <<prefix, used, addr>>

TakeAddr ==
    /\ outcome = "scanning"
    /\ Contains(prefix, addr) /\ ~AtBroadcast
    /\ addr \notin used
    /\ outcome' = "found"
    /\ UNCHANGED <<prefix, used, addr>>

\* A bug: the cursor is not advanced.
BugStays ==
    /\ outcome = "scanning"
    /\ Contains(prefix, addr) /\ ~AtBroadcast
    /\ addr \in used
    /\ UNCHANGED scanVars

\* addr.Next() is not called on the last address of the block, so it cannot
\* wrap past the end of the address space.
SkipUsed ==
    /\ outcome = "scanning"
    /\ Contains(prefix, addr) /\ ~AtBroadcast
    /\ addr \in used
    /\ IF addr = prefix.last
       THEN outcome' = "exhausted" /\ addr' = addr
       ELSE outcome' = "scanning" /\ addr' = addr + 1
    /\ UNCHANGED <<prefix, used>>

Returned == outcome # "scanning" /\ UNCHANGED scanVars

ScanNext == LeaveBlock \/ TakeAddr \/ SkipUsed \/ Returned

ScanSpec == ScanInit /\ [][ScanNext]_scanVars /\ WF_scanVars(ScanNext)
-------------------------------------------------------------------------------
\* The state is well formed and, past the two reserved hosts the cursor starts
\* after, it stays inside the block: Next() is never applied to the last
\* address, which for 255.255.255.255 would yield the invalid address.
ScanTypeOK ==
    /\ prefix \in Prefixes
    /\ used \subseteq Nat
    /\ addr \in Nat
    /\ addr = prefix.first + ReservedHosts \/ Contains(prefix, addr)
    /\ outcome \in {"scanning", "found", "exhausted"}

\* The loop returns the lowest address that is neither used nor reserved nor
\* the broadcast address, and gives up only when there is none: the doc
\* comment of nextFreeAddr.
ReturnsLowestFree ==
    /\ outcome = "found" =>
         Free(prefix, used) # {} /\ addr = LowestFree(prefix, used)
    /\ outcome = "exhausted" => Free(prefix, used) = {}

\* The call returns, whatever the block and however full it is: no block makes
\* the loop of nextFreeAddr spin.
Terminates == <>(outcome # "scanning")

\* Why ReturnsLowestFree holds: every usable address the cursor has passed is
\* used.  With ScanTypeOK, an inductive invariant of the loop.
PassedAreUsed ==
    /\ addr >= prefix.first + ReservedHosts
    /\ \A a \in Usable(prefix) : a < addr => a \in used
    /\ outcome = "exhausted" => Free(prefix, used) = {}
    /\ outcome = "found" => addr \in Free(prefix, used)
===============================================================================
