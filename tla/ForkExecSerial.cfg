\* One command at a time, which may crash and change the ports; numbers are reused.
SPECIFICATION Spec
CONSTANTS
  Callers = {c1}
  Components = {etcd, kcm}
  Pids = {p1, p2}
  None = None
  Torn = Torn
  Free = Free
  Dead = Dead
  Root = root
  Outsiders = {root, user}
  Args = {"ports1", "ports2"}
  ArgLists <- TwoArgLists
  MaxArgv = 3
  Serial = TRUE
  Faults = TRUE
  Recycle = TRUE
SYMMETRY Interchangeable
INVARIANTS TypeOK UnrecordedOnlyIfLost AtMostOneInstance RecordedCommandLine
PROPERTIES ImplementsSupervisor
