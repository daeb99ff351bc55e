SPECIFICATION FairSpec
CONSTANTS
  Line <- MCLine
  Word <- MCWord
  Zero = Zero
  MaxLatency = 4
INVARIANTS TypeOK LineDelivered
PROPERTIES LineCompletes FetchSpec
CHECK_DEADLOCK TRUE
