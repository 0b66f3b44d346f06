---------------------------- MODULE MCDriverThread ----------------------------
EXTENDS DriverThread
=============================================================================
