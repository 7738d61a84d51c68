---------------------------- MODULE MCRemoteView ----------------------------
(* Two connections beside the screen's own; two albums of one track.       *)
EXTENDS RemoteView

CONSTANTS t1, t2, alice, bob

MCTracks == {t1, t2}
MCReaders == {Stream, Fetch}
MCConns == {alice, bob} \cup MCReaders
MCAlbums == {<<t1>>, <<t2>>}

Use(kind, conns, commands, faults, n, capacity) ==
  [client |-> kind, conns |-> conns, commands |-> commands, faults |-> faults, budget |-> n,
   start |-> <<<<t1>>, <<t2>>>>, capacity |-> capacity]

(* A screen that follows two others' commands with the channel the server  *)
(* has; a new one on a channel that overflows and a network that fails; a  *)
(* refresh that fails until it is given up; reloads of the library.        *)
MCSettings ==
  {Use("following", {alice, bob}, {"http_play", "http_delete", "next", "play", "pause"}, {"fetch"}, 2, 64),
   Use("new", {alice}, {"http_add", "play"}, {"close", "break", "select"}, 2, 1),
   Use("new", {alice}, {"play"}, {"fetch", "panic", "reset"}, 3, 64),
   Use("following", {alice, bob}, {"reload", "media"}, {}, 3, 64)}

FallsBehind == {Use("following", {alice}, {"http_play"}, {}, 1, 1)}
=============================================================================
