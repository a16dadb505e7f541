\* Each kind of background task, with no promise of a free helper thread.
CONSTANTS
  Items = {i1, i2, i3}
SPECIFICATION BusySpec
INVARIANTS
  OneRunAtATime
  NoStrandedWork
PROPERTIES
  WorkGetsDone
  JoinReturns
