\* Is every document of a stream decoded by itself?
SPECIFICATION Spec
CONSTANTS
  Documents <- SomeDocuments
  MaxDocuments = 3
INVARIANTS OwnDocument
\* The stream has been read.
CHECK_DEADLOCK FALSE
