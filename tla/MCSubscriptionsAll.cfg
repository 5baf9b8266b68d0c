CONSTANTS
  Conn = {1}
  SubId = {1, 2}
  one = one
  two = two
  Event = {one, two}
  Stored = {one}
  alice = alice
  Pubkey = {alice}
  None = None
  Asks <- MCAsks
  Chunks <- MCChunks
  MaxTime = 3
  MaxReqs = 2
  MaxChunks = 1
SPECIFICATION FairSpec
INVARIANT SubscriptionInv
INVARIANT IdleIsTimed
PROPERTY LapsedEnds
CHECK_DEADLOCK FALSE
