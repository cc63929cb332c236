---------------------------- MODULE MCAutoQueues ----------------------------
(* a upholds b, and b is bound to c and stopped when unneeded.             *)
EXTENDS AutoQueues

CONSTANTS a, b, c

MCUnits == {a, b, c}
MCUpholds == {<<a, b>>}
MCBindsTo == {<<b, c>>}
MCWants == {}
=============================================================================
