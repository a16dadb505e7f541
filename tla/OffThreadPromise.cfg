\* Dispatch, drain and shutdown with four tasks.
CONSTANTS
  Tasks = {t1, t2, t3, t4}
  MaxNesting = 2
SPECIFICATION FairSpec
INVARIANTS
  LiveIffRegistered
  NoUseAfterFree
  CancelCountExact
PROPERTIES
  ShutdownCompletes
  DrainCompletes
