CONSTANTS
  Global = Global
  alice = alice
  Author = {alice, bob}
  Reservation = {r1}
  Deletion = {d1}
  older = older
  newer = newer
  others = others
  bob = bob
  site = site
  home = home
  Event <- MCPairEvent
  Ref <- MCPairRef
  RefOf <- MCPairRefOf
  AuthorOf <- MCPairAuthorOf
  Size <- MCPairSize
  Rank <- MCPairRank
  Earlier <- MCPairEarlier
  Emergency <- MCPairEmergency
  None = None
  MaxAborts = 1
  Faults = {}
SPECIFICATION FairSpec
INVARIANT PoolInv
PROPERTY EventuallySettled
PROPERTY ReconciliationRecurs
