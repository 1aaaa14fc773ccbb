\* Every dump of five objects; the API server may refuse any of them.
SPECIFICATION Spec
CONSTANTS
  N = 5
  None = None
INVARIANTS TypeOK CreatedOnce NothingDropped RestoresAll
PROPERTIES ImplementsRestore RoundsProgress Returns
\* load returns.
CHECK_DEADLOCK FALSE
