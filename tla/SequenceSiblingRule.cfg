SPECIFICATION Spec
CONSTANTS
  Name <- Names
  Tag <- Tags
  ConstraintId <- Ids
  Nil = Nil
  Empty = ""
  NoAgent = NoAgent
  Agent = {a1, a2}
  Root = {"r1"}
  Offered <- RichOffered
  Attempted <- RichAttempted
  MaxRoots = 0
  MaxCalls = 3
SYMMETRY Agents
INVARIANTS EveryCarriedRuleBinds
