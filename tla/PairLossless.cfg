SPECIFICATION Spec
CONSTANTS
  NPC = 8
  Flags <- MCFlags
PROPERTIES Lossless
