CONSTANTS
  Clients = {c1, c2}
  Fields = {f}
  Values = {x, y}
  NoRevision = NoRevision
  Instants = {1}
  MaxVersion = 4
SPECIFICATION Spec
INVARIANTS Inv EventsTellTheState
PROPERTIES Linearizable EditsStayPrivate
SYMMETRY Symmetry
CHECK_DEADLOCK FALSE
