CONSTANTS
  Global = Global
  alice = alice
  Author = {alice, bob}
  Reservation = {r1}
  Deletion = {}
  older = older
  newer = newer
  bob = bob
  site = site
  others = others
  home = home
  Event <- MCPairEvent
  Ref <- MCPairRef
  RefOf <- MCPairRefOf
  AuthorOf <- MCPairAuthorOf
  Size <- MCPairShrink
  Rank <- MCPairRank
  Earlier <- MCPairStored
  Emergency <- MCPairRoom
  None = None
  MaxAborts = 1
  Faults = {"unknown_enqueue"}
SPECIFICATION Spec
INVARIANT TypeOK
INVARIANT OneOutcome
INVARIANT ReservationTokensOwned
