\* A task for each of two scripts of one zone, linked lazily or eagerly.
SPECIFICATION FairSpec
CONSTANTS
  s1 = s1  s2 = s2
  a1 = a1  b1 = b1
  Scripts = {s1, s2}
  Tasks = {a1, b1}
  Scr <- ScrTwo
  UsesNursery = {a1}
  Zones <- OneZone
  UnlinkedLimits = {0, 1}
  NoTask = NoTask
INVARIANTS
  MarksAgree
  ContextOutlivesTasks
PROPERTIES
  CancelIsComplete
  AttachIsComplete
  CompilationsArrive
