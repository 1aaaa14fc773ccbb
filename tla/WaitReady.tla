----------------------------- MODULE WaitReady -----------------------------
(***************************************************************************)
(* Ready and WaitReady of pkg/runtime/cluster.go: kubectl get node once a  *)
(* second, against a cluster that comes up, and goes down, by itself.      *)
(***************************************************************************)
EXTENDS Naturals

CONSTANT MaxPolls     \* bound of the model: largest timeout, in seconds

VARIABLES
  cluster,      \* what kubectl get node meets
  timeout, i,   \* polls allowed, polls made
  ready, err,   \* results of the last poll
  result        \* what WaitReady returned: "nil", "error", or still "waiting"

vars == <<cluster, timeout, i, ready, err, result>>

\* The server does not answer, shows a node that is NotReady, or shows none.
Clusters == {"silent", "not_ready", "ready"}

Init ==
  /\ cluster \in Clusters
  /\ timeout \in 0..MaxPolls
  /\ i = 0 /\ ready = FALSE /\ err = FALSE
  /\ result = "waiting"

\* Ready: an error is not ready; the answer is ready if no line says NotReady.
Poll ==
  /\ result = "waiting" /\ i < timeout
  /\ i' = i + 1
  /\ ready' = (cluster = "ready")
  /\ err' = (cluster = "silent")
  /\ result' = IF ready' THEN "nil" ELSE "waiting"
  /\ UNCHANGED <<cluster, timeout>>

\* The error of the last poll is returned.
GiveUp ==
  /\ result = "waiting" /\ i = timeout
  /\ result' = IF err THEN "error" ELSE "nil"
  /\ UNCHANGED <<cluster, timeout, i, ready, err>>

\* A second passes.
Change == cluster' \in Clusters \ {cluster} /\ UNCHANGED <<timeout, i, ready, err, result>>

Next == Poll \/ GiveUp \/ Change

Spec == Init /\ [][Next]_vars

-----------------------------------------------------------------------------
(* Properties *)

\* config.go:67 "WaitReady wait the cluster is ready": without an error it is.
NilMeansReady == result = "nil" /\ timeout > 0 => ready
=============================================================================
