SPECIFICATION ServerSpec
CONSTANTS
  t1 = t1
  t2 = t2
  alice = alice
  bob = bob
  carol = carol
  NoTrack = NoTrack
  Nobody = Nobody
  Tracks <- MCTracks
  Conns <- MCConns
  Readers <- MCReaders
  Albums <- MCAlbums
  MaxPosition = 2
  Settings <- MCSettings
INVARIANTS VersionsAccounted IndexCurrent
PROPERTY Answered
CHECK_DEADLOCK FALSE
