\* An urgent interrupt asked for while a thread is about to wait.
SPECIFICATION Spec
CONSTANTS
  Agents = {a1, a2}
  CanWait = {a1, a2}
  Locations = {l1}
  Counts <- OneOrAll
  MaxInterrupts = 2
INVARIANT UrgentInterruptArrives
