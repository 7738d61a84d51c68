SPECIFICATION Spec
CONSTANTS
  t1 = t1
  t2 = t2
  alice = alice
  bob = bob
  Stream = Stream
  Fetch = Fetch
  MaxWire = 1
  NoTrack = NoTrack
  Nobody = Nobody
  Tracks <- MCTracks
  Conns <- MCConns
  Readers <- MCReaders
  Albums <- MCAlbums
  MaxPosition = 2
  Settings <- FallsBehind
INVARIANT QueueFresh
CHECK_DEADLOCK FALSE
