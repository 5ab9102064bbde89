----------------------------- MODULE MCEnrollment -----------------------------
EXTENDS Enrollment, TLC

\* A /29 with its network address at 0 would have five usable addresses: the
\* blocks here have two, and one (a /30), so that pools fill up.
MCBlocks == {[first |-> 0, last |-> 4, v4 |-> TRUE], [first |-> 4, last |-> 7, v4 |-> TRUE]}

\* Sound: no property names a tenant, token, request or key.
Symmetry ==
    Permutations(Tenants) \cup Permutations(Tokens)
        \cup Permutations(Requests) \cup Permutations(Keys)
===============================================================================
