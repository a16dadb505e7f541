\* Three tasks of two runtimes.
CONSTANTS
  r1 = r1
  r2 = r2
  t1 = t1
  t2 = t2
  u1 = u1
  Runtimes = {r1, r2}
  Tasks = {t1, t2, u1}
  Rt <- RtTwo
SPECIFICATION FairSpec
INVARIANTS
  AtomsNotCollectedUnderParse
  RequestNotForgotten
  DelayedGCCollectsAtoms
  CleanShutdown
PROPERTIES
  ParsesEnd
  DestroyCompletes
