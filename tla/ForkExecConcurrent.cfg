\* Two commands at work in the same directory; numbers are not reused.
SPECIFICATION Spec
CONSTANTS
  Callers = {c1, c2}
  Components = {etcd, kcm}
  Pids = {p1, p2}
  None = None
  Torn = Torn
  Free = Free
  Dead = Dead
  Root = root
  Outsiders = {root}
  Args = {"ports1", "ports2"}
  ArgLists <- OneArgList
  MaxArgv = 3
  Serial = FALSE
  Faults = TRUE
  Recycle = FALSE
SYMMETRY Interchangeable
INVARIANTS KillsOnlyOwn
