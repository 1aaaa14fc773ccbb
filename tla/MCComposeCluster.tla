-------------------------- MODULE MCComposeCluster --------------------------
(* Instances of ComposeCluster for TLC.                                      *)
EXTENDS ComposeCluster
=============================================================================
