\* Does an object name its own controller when some are refused?
SPECIFICATION Spec
CONSTANTS
  N = 3
  None = None
INVARIANTS OwnControllerNamed
\* load returns.
CHECK_DEADLOCK FALSE
