\* Two buckets of capacity two, then four of five: the third key grows the table.
SPECIFICATION Spec
CONSTANTS
  Keys = {k1, k2, k3}
  ObjectKeys = {k1}
  Iterators = {r1}
  NoKey = NoKey
  OutOfMemory = OutOfMemory
  HashRange = 4
  Hashes = {0, 1}
  FillNum = 5
  FillDen = 4
SYMMETRY Symmetry
VIEW StateOfTheTable
INVARIANTS
  ChainsFindEntries
  RangesExact
PROPERTY ImplementsCollection
