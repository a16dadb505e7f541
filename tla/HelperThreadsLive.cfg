\* Two masters and a source compression share two threads.
CONSTANTS
  Threads = {h1, h2}
  CpuCount = 2
  BacklogLimit = 1
  TaskSlots = 1
  MaxBatches = 1
  GcTasks = {}
  IonTasks = {}
  IonFreeTasks = {}
  PromiseTasks = {p1}
  ParseTasks = {s1}
  CompressTasks = {c1}
SPECIFICATION FairSpec
INVARIANTS
  NoLostConsumerWakeup
PROPERTIES
  EveryTaskCompletes
  WaitsEnd
