SPECIFICATION FairGateSpec
CONSTANTS
  Name <- Names
  Tag <- Tags
  ConstraintId <- Rules1
  Nil = Nil
  Empty = ""
  Char <- Chars
  Star = "*"
  Zero = "0"
  Type <- Types
  Key <- Keys
  Principal <- Who
  Id <- Jtis
  Call = {c1, c2}
  Presented <- Chains
  Tool <- Tools
  Described <- Catalog
  ResourceType = "tool"
  ActionName = "invoke"
  Audience = "res"
  Limit = 1
  Skew = 0
  Second = 1
  MaxClock = 0
  Text <- Texts
  NotText = NotText
  Property <- Open
  Fold <- Folds
  Argument = {"path", "size"}
  MaxValues = 6
  Offered <- Inputs
  Declared <- Mappings
  Spelled <- Names1
  Metadata <- Documents
  Pdp <- PdpId
INVARIANTS AllowIsForThisRequest AskedAboutTheChain PolicyHeardTheWholeMapping MappingRefusedForCause ResolvedWithinBudget AskedInConfidence OneSpendPerForward
PROPERTIES ImplementsEnforcer EveryRequestAnswered
CHECK_DEADLOCK FALSE
