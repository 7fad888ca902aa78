SPECIFICATION Spec
CONSTANTS
  Name <- Names
  Tag <- Tags
  ConstraintId <- Rules1
  Nil = Nil
  Empty = ""
  Char <- Chars
  Star = "*"
  Zero = "0"
  Type <- Types
  Key <- Keys
  Principal <- Who
  Id <- Jtis
  Call = {c1, c2}
  Presented <- Spending
  Tool <- OneTool
  Described <- OneCatalog
  ResourceType = "tool"
  ActionName = "invoke"
  Audience = "res"
  Limit = 1
  Skew = 0
  Second = 1
  MaxClock = 1
SYMMETRY Calls
INVARIANTS DeadStateIsDeadWeight
CHECK_DEADLOCK FALSE
