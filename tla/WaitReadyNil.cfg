\* Is the cluster ready when WaitReady reports no error?
SPECIFICATION Spec
CONSTANT MaxPolls = 3
INVARIANTS NilMeansReady
