---------------------------- MODULE MCManifestPool ----------------------------
(***************************************************************************)
(* Small instances of ManifestPool: two versions of one manifest and one   *)
(* author, enough for duplicates, replacements and a limit that bites.     *)
(***************************************************************************)
EXTENDS ManifestLedgerInv, TLC

CONSTANTS older, newer, home, alice

MCEvent == {older, newer}
MCRef == {home}
MCRefOf == [e \in MCEvent |-> home]
MCAuthorOf == [e \in MCEvent |-> alice]
MCSize == (older :> 1) @@ (newer :> 2)
MCShrink == (older :> 2) @@ (newer :> 1)
MCRank == (older :> 1) @@ (newer :> 2)
MCEmergency == (Global :> 3) @@ (alice :> 3)

MCNothing == [x \in MCRef |-> None]

\* A second author, whose manifest is stored from the start.
CONSTANTS bob, site, others
MCPairEvent == {older, newer, others}
MCPairRef == {home, site}
MCPairRefOf == (older :> home) @@ (newer :> home) @@ (others :> site)
MCPairAuthorOf == (older :> alice) @@ (newer :> alice) @@ (others :> bob)
MCPairSize == (older :> 1) @@ (newer :> 2) @@ (others :> 1)
MCPairRank == (older :> 1) @@ (newer :> 2) @@ (others :> 1)
MCPairEarlier == (home :> None) @@ (site :> others)
MCPairEmergency == (Global :> 2) @@ (alice :> 1) @@ (bob :> 1)

\* The first author's manifest is stored, and what would replace it is smaller.
MCPairShrink == (older :> 2) @@ (newer :> 1) @@ (others :> 1)
MCPairStored == (home :> older) @@ (site :> None)
MCPairRoom == (Global :> 3) @@ (alice :> 2) @@ (bob :> 1)

Symmetry == Permutations(Reservation)
===============================================================================
