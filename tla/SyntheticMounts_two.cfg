SPECIFICATION Spec
CONSTANTS
  Daemon = {d1, d2}
  NTarget = 2
  Ino = {i1, i2, i3}
  NoInode = NoInode
  NoMarker = NoMarker
  Provisional = Provisional
  Missing = Missing
  Nobody = Nobody
  UserKinds = {}
  HelperKills = FALSE
SYMMETRY Sym
INVARIANT TypeOK
INVARIANT PlaceholderTracked
INVARIANT PlaceholderNotMistaken
