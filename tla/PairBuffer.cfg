SPECIFICATION FairSpec
CONSTANTS
  NPC = 8
  Flags <- MCFlags
PROPERTIES BufferSpec FrontSpec HeldLeaves
