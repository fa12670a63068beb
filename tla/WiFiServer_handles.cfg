CONSTANTS
  c1 = c1
  c2 = c2
  c3 = c3
  h1 = h1
  h2 = h2
  h3 = h3
  Null = Null
  NoObject = NoObject
  Conns <- ThreeConns
  Handles <- ThreeHandles
  RefMod = 256
SYMMETRY Symmetry
SPECIFICATION Spec
INVARIANT ContextsSound
INVARIANT ClaimOrder
INVARIANT NoneStranded
CHECK_DEADLOCK FALSE
