\* Has every component of a ready cluster been started?
SPECIFICATION ClusterSpec
CONSTANTS
  Components <- Six
  Pids <- ThreeEach
  NumbersOf <- OwnNumbers
  None = None
  Torn = Torn
  Free = Free
  Dead = Dead
  Root = root
  Outsiders = {root}
  Gens = {1, 2, 3, 4, 5, 6, 7, 8}
  Reuse = FALSE
  MaxEvents = 1
INVARIANTS ReadyIsStarted
