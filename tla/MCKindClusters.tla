--------------------------- MODULE MCKindClusters ---------------------------
(* Instances of KindClusters for TLC.                                        *)
EXTENDS KindClusters

WithPrometheus == <<"fake-kubelet", "prometheus">>
=============================================================================
