SPECIFICATION Spec
CONSTANTS
  Streams = {"s1"}
  Kinds = {"thread"}
  Events = 2
INVARIANTS
  ExceptionSurfaces
