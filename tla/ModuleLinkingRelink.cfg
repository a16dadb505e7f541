SPECIFICATION Spec
CONSTANTS
  Modules = {a, b, c}
  Names <- NameSet
  NoModule = NoModule
  MaxRequests = 2
  Graphs <- RequestGraphs
  MaxEdges = 4
SYMMETRY Symmetry
INVARIANT LinkErrorsAreReal
