------------------------------ MODULE MCUdbfs ------------------------------
EXTENDS Udbfs

CONSTANTS h1, sig1
=============================================================================
