\* Create again and again, among crashes, exits, reused numbers, deletes and loads.
SPECIFICATION RetrySpec
CONSTANTS
  Components <- Six
  Pids <- FourEach
  NumbersOf <- OwnNumbers
  None = None
  Torn = Torn
  Free = Free
  Dead = Dead
  Root = root
  Outsiders = {root, user}
  Gens = {1, 2, 3, 4, 5, 6, 7, 8}
  Reuse = TRUE
  MaxEvents = 3
INVARIANTS ClusterTypeOK NothingOrphaned Coherent ControllerStopped ControllerBack
PROPERTIES RetryConverges
