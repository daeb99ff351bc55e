SPECIFICATION Spec
CONSTANTS
  Reg = {r1}
INVARIANTS
  RegistersInOrder
  OperandsNewest
  MirrorAgrees
