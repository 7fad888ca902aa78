SPECIFICATION FairSpec
CONSTANTS
  Caller = {c1, c2}
  Source <- Rotated
  Kid = {"a", "b"}
  Key = {"ka", "kb"}
  Empty = ""
  Nil = Nil
  Documents <- Published
  Ttl = 2
  MinRefresh = 1
  MaxClock = 4
  MaxCalls = 3
  MaxSources = 2
INVARIANTS AnswerIsFresh AnswerIsNotReplayed AnswerIsFromItsSource
PROPERTIES UnknownKidsAreLimited EveryCallerAnswered
CHECK_DEADLOCK FALSE
