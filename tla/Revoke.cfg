SPECIFICATION Spec
CONSTANTS
  Jti <- Jtis
  Empty = ""
  Nil = Nil
  Hash <- Hashes
  Wrap = 16
  MaxHashes = 3
  Shape <- Shapes
  Corrupt <- Broken
  MaxAge = 2
  Second = 2
  MaxClock = 6
  MaxSequence = 2
INVARIANTS NothingReinstated ExactSettlesCollisions
PROPERTIES RevocationTakesHold HeldSetOnlyGrows
