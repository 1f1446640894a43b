-------------------------- MODULE MC_StatelessGate --------------------------
EXTENDS StatelessGate
CONSTANTS u1, u2, nouser, t1, t2, forged
=============================================================================
