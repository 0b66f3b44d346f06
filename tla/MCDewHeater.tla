------------------------------ MODULE MCDewHeater ------------------------------
EXTENDS DewHeater
=============================================================================
