\* One cluster, two shells, five ports; four events.
SPECIFICATION Spec
CONSTANTS
  Ports = {p1, p2, p3, p4, p5}
  Users = {u1, u2}
  None = None
  Torn = Torn
  MaxEvents = 4
INVARIANTS TypeOK NothingOrphaned ReadyAgrees ControllerStopped ControllerBack
PROPERTIES RetryConverges
