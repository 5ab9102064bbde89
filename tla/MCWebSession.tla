----------------------------- MODULE MCWebSession -----------------------------
EXTENDS WebSession
===============================================================================
