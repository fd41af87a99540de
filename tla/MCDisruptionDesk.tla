-------------------------- MODULE MCDisruptionDesk --------------------------
EXTENDS DisruptionDesk, TLC
=============================================================================
