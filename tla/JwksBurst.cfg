SPECIFICATION Spec
CONSTANTS
  Caller = {c1, c2, c3}
  Source <- Steady
  Kid = {"a", "b"}
  Key = {"ka", "kb"}
  Empty = ""
  Nil = Nil
  Documents <- Unchanging
  Ttl = 2
  MinRefresh = 1
  MaxClock = 3
  MaxCalls = 3
  MaxSources = 1
PROPERTIES BurstCostsOneRequest
CHECK_DEADLOCK FALSE
