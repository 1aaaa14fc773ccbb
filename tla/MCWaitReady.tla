---------------------------- MODULE MCWaitReady ----------------------------
(* Instances of WaitReady for TLC: timeouts of up to MaxPolls seconds.       *)
EXTENDS WaitReady
=============================================================================
