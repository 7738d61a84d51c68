SPECIFICATION Spec
CONSTANTS
  t1 = t1
  t2 = t2
  t3 = t3
  NoTrack = NoTrack
  NoUndo = NoUndo
  Tracks <- MCTracks
  Albums <- MCAlbums
  Playlists <- MCPlaylists
  MaxTracks = 4
INVARIANTS TypeOK PeekIsFirstUpcoming UpcomingEditsExact
PROPERTIES UndoRestores ImplementsTrackList
