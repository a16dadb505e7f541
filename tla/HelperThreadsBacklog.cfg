\* A tier-2 backlog above the limit: the masters stop the pool.
CONSTANTS
  Threads = {h1, h2}
  CpuCount = 2
  BacklogLimit = 1
  TaskSlots = 1
  MaxBatches = 1
  GcTasks = {}
  IonTasks = {}
  IonFreeTasks = {}
  PromiseTasks = {p1, p2, p3}
  ParseTasks = {}
  CompressTasks = {}
SPECIFICATION Spec
INVARIANTS
  MastersMakeProgress
