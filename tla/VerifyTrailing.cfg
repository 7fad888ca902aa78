SPECIFICATION Spec
CONSTANTS
  Name <- Names
  Tag <- Tags
  ConstraintId <- Rules1
  Nil = Nil
  Empty = ""
  Char <- Chars
  Star = "*"
  Zero = "0"
  Type <- Types
  Key <- Keys
  Principal <- Who
  Id <- Jtis
  KeyId = {"", "1", "2"}
  PublicKey = {"idp", "ann1", "ann2", "bob", "cyd"}
  Holder <- Keyholders
  Added <- Rings
  Call = {c1}
  Presented <- Bracketed
  Asked <- Requests
  Audience = "res"
  Skew = 1
  Second = 2
  MaxClock = 5
INVARIANTS NothingFollowsTheClaims
