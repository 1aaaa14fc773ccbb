-------------------------- MODULE MCBinaryCluster --------------------------
(* Instances of BinaryCluster for TLC: the six components, each with its own *)
(* few process numbers.                                                      *)
EXTENDS BinaryCluster

Six == {"etcd", "kube-apiserver", "kube-controller-manager", "kube-scheduler",
        "fake-kubelet", "prometheus"}
TwoEach == Six \X (1..2)
ThreeEach == Six \X (1..3)
FourEach == Six \X (1..4)
OwnNumbers == [n \in Six |-> {p \in Pids : p[1] = n}]
=============================================================================
