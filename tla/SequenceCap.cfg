SPECIFICATION FairSpec
CONSTANTS
  Name <- Names
  Tag <- Tags
  ConstraintId <- Ids
  Nil = Nil
  Empty = ""
  NoAgent = NoAgent
  Agent = {a1, a2}
  Root = {"r1", "r2"}
  Offered <- LeanOffered
  Attempted <- LeanAttempted
  MaxRoots = 1
  MaxCalls = 3
INVARIANTS StoreBounded
PROPERTIES LiveStateOnlyGrows EveryCallReturns
