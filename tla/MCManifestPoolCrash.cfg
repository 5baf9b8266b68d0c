CONSTANTS
  Global = Global
  alice = alice
  Author = {alice}
  Reservation = {r1, r2}
  Deletion = {}
  older = older
  newer = newer
  bob = bob
  site = site
  others = others
  home = home
  Event <- MCEvent
  Ref <- MCRef
  RefOf <- MCRefOf
  AuthorOf <- MCAuthorOf
  Size <- MCShrink
  Rank <- MCRank
  Earlier <- MCNothing
  Emergency <- MCEmergency
  None = None
  MaxAborts = 1
  Faults = {}
SPECIFICATION Spec
INVARIANT LedgerBalances
INVARIANT WithinEmergency
INVARIANT OtherTokensOwned
PROPERTY StoredOnlyUnderReservation
PROPERTY NewestManifestWins
SYMMETRY Symmetry
