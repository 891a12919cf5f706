CONSTANTS
  None = None
  f = f
  g = g
  FilterLists <- MCFilterLists
  MaxInbox = 2
  MaxRequests = 1
  MaxDue = 1
SPECIFICATION AgentFairSpec
INVARIANTS MisreportExplained
PROPERTY OperationsEnd
