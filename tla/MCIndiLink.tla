------------------------------ MODULE MCIndiLink ------------------------------
EXTENDS IndiLink
=============================================================================
