---------------------------- MODULE MCCurrentTenant ----------------------------
EXTENDS CurrentTenant
===============================================================================
