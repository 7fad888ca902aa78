SPECIFICATION Spec
CONSTANTS
  Name <- Names
  Tag <- Tags
  ConstraintId <- Rules1
  Nil = Nil
  Empty = ""
  Char <- Chars
  Star = "*"
  Zero = "0"
  Type <- Types
  Key <- Keys
  Principal <- Who
  Id <- Jtis
  Human <- Humans
  Offer <- Offers
  Asked <- Requests
  Second = 10
  MaxIssued = 4
INVARIANTS EveryLinkVerifies GrantBoundsDescendants NothingGainedBelow
CHECK_DEADLOCK FALSE
