SPECIFICATION Spec
CONSTANTS
  Reg = {r1}
INVARIANTS
  BranchKills
