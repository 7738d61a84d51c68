--------------------------- MODULE MCPlayerServer ---------------------------
(* Three connections; two albums of one track are queued at the start.     *)
EXTENDS PlayerServer

CONSTANTS t1, t2, alice, bob, carol

MCTracks == {t1, t2}
MCConns == {alice, bob, carol}
MCAlbums == {<<t1>>, <<t2>>}
MCReaders == {}

Use(conns, commands, faults, n) ==
  [conns |-> conns, commands |-> commands, faults |-> faults, budget |-> n,
   start |-> <<<<t1>>, <<t2>>>>, capacity |-> 64, client |-> "none"]

(* Commands that take two locks, commands that edit the queue in both ways *)
(* with loads that fail, and the library.                                  *)
MCSettings ==
  {Use(MCConns, MpdMoves \cup {"status", "add", "resume"}, {"ends"}, 3),
   Use({alice, bob}, {"play"} \cup MpdEdits \cup HttpEdits, {"engine"}, 3),
   Use(MCConns, {"reload", "media", "albums", "items", "status", "pause", "stop"}, {"database", "engine"}, 3)}
=============================================================================
