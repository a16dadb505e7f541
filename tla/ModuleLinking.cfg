SPECIFICATION Spec
CONSTANTS
  Modules = {a, b, c}
  Names <- NameSet
  NoModule = NoModule
  MaxRequests = 2
  Graphs <- AllGraphs
  MaxEdges = 4
SYMMETRY Symmetry
INVARIANTS
  InProgressIsStack
  FinishedIsClosed
  BodiesRunInOrder
  ResolutionIsMeaning
PROPERTIES
  FinishByComponent
  ErrorsStick
