SPECIFICATION Spec
CONSTANTS
  t1 = t1
  t2 = t2
  t3 = t3
  f = f
  NoTrack = NoTrack
  Tracks <- MCTracks
  Albums <- MCAlbums
  Playlists <- MCPlaylists
  Files <- MCFiles
  MaxTracks = 3
  Interfaces <- WithPlaylists
PROPERTY PlaylistContinues
