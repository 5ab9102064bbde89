------------------------------ MODULE MCMachines ------------------------------
EXTENDS Machines
===============================================================================
