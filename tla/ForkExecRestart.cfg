\* Is a component restarted with its command line?
SPECIFICATION Spec
CONSTANTS
  Callers = {c1}
  Components = {etcd}
  Pids = {p1, p2}
  None = None
  Torn = Torn
  Free = Free
  Dead = Dead
  Root = root
  Outsiders = {root, user}
  Args = {"ports1", "ports2"}
  ArgLists <- OneArgList
  MaxArgv = 3
  Serial = TRUE
  Faults = FALSE
  Recycle = TRUE
INVARIANTS RestartKeepsCommandLine
