\* Two agents that may wait and one that may not, two locations.
SPECIFICATION FairSpec
CONSTANTS
  Agents = {a1, a2, m}
  CanWait = {a1, a2}
  Locations = {l1, l2}
  Counts <- OneOrAll
  MaxInterrupts = 2
INVARIANTS
  WaitersExact
  CountedIsWoken
PROPERTIES
  WaitsReturn
  ImplementsWaiterList
