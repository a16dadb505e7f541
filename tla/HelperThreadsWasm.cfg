\* Wasm masters and their workers on three threads, with GC and Ion tasks.
CONSTANTS
  Threads = {h1, h2, h3}
  CpuCount = 3
  BacklogLimit = 3
  TaskSlots = 2
  MaxBatches = 2
  GcTasks = {g1}
  IonTasks = {i1}
  IonFreeTasks = {f1}
  PromiseTasks = {p1, p2}
  ParseTasks = {}
  CompressTasks = {}
SPECIFICATION Spec
SYMMETRY Symmetry
INVARIANTS
  MastersLeaveOneThread
  OutstandingExact
  NoLostWakeup
  GeneratorsEndBeforeThreads
