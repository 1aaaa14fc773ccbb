------------------------------- MODULE MCLoad -------------------------------
(* Instances of Load for TLC: every dump of a few objects.  Objects are in    *)
(* the order of the dump, and every object may have every controller.        *)
EXTENDS Load
=============================================================================
