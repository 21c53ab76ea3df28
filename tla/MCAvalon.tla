------------------------------ MODULE MCAvalon ------------------------------
EXTENDS Avalon

CONSTANTS p1, p2

OnePool == <<p1>>
=============================================================================
