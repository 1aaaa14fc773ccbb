\* Two commands that want one file or binary; two failures or removals.
SPECIFICATION Spec
CONSTANTS
  Callers = {c1, c2}
  Inodes = {f1, f2, f3, f4, f5, f6}
  Pieces = 2
  None = None
  MaxFaults = 2
INVARIANTS TypeOK CacheComplete CompleteAtRest BinaryComplete OwnArchiveNotLost
PROPERTIES EveryoneLinks
\* Every command has its file.
CHECK_DEADLOCK FALSE
