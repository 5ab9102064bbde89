---------------------------- MODULE MCMembersPage -----------------------------
EXTENDS MembersPage
===============================================================================
