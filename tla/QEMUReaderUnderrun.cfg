CONSTANTS
  N = 8
  Bulk = 5
  MinReal = 2
  MayPause = FALSE
  Programs <- DenseMultiples
SPECIFICATION Spec
INVARIANT EntryHasUops
CHECK_DEADLOCK FALSE
