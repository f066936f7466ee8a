SPECIFICATION Spec
CONSTANTS
  Unset = Unset
  Blank = Blank
  Garbled = Garbled
  MaxU32 = 20
  MaxPort = 9
  Hosts <- MCHosts
INVARIANT TypeOK
INVARIANT HighestLayerWins
INVARIANT VettedPeers
INVARIANT NothingMissing
INVARIANT ControlComesFirst
