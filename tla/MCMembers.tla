------------------------------- MODULE MCMembers -------------------------------
(* Two requests at a time, of any number: owners who remove each other, users *)
(* who accept the last use of an invite or claim the same tenant at once, and *)
(* two sessions of a user of two tenants that bring new names.                *)
EXTENDS Members

CONSTANTS t1, t2, u1, u2, u3

\* t1 takes all users and t2 one of them: enough for rows of one user in two tenants.
MCEligible == {<<t1, u1>>, <<t1, u2>>, <<t1, u3>>, <<t2, u1>>}
===============================================================================
