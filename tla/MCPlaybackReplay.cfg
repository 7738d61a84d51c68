SPECIFICATION Spec
CONSTANTS
  t1 = t1
  t2 = t2
  t3 = t3
  stereo = stereo
  NoTrack = NoTrack
  Tracks <- MCTracks
  Settings <- NoFaults
PROPERTY NeverReplays
