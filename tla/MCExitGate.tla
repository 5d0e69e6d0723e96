------------------------------ MODULE MCExitGate ------------------------------
EXTENDS ExitGate
CONSTANTS c1, t1
=============================================================================
