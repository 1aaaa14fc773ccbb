\* Two clusters, two shells, and the user's own cluster; two events.
SPECIFICATION Spec
CONSTANTS
  Clusters = {c1, c2}
  Other = own
  Users = {u1, u2}
  Manifests <- WithPrometheus
  None = None
  Torn = Torn
  Gone = Gone
  MaxEvents = 2
INVARIANTS TypeOK StaysHome ReadyIsComplete ControllerStopped ControllerBack NothingOrphaned
PROPERTIES RetryConverges
