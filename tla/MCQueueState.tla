---------------------------- MODULE MCQueueState ----------------------------
(* A two-track album, a single, and a file that is in no album. *)
EXTENDS QueueState

CONSTANTS t1, t2, t3, f

MCTracks == {t1, t2, t3, f}
MCAlbums == {<<t1, t2>>, <<t3>>}
MCPlaylists == {<<t3, t1>>}
MCFiles == {t2, f}
Desktop == {"library", "queue", "flat_queue", "transport"}
Phone == {"library", "phone", "transport"}
Handheld == {"library", "playlists", "phone", "files"}

MCInterfaces == {Desktop, Phone, Handheld}
WithPlaylists == {{"library", "playlists"}}

(* Bound: on the desktop no track is queued twice (MCQueueController has   *)
(* such queues).                                                           *)
OneCopy == surfaces = Desktop => IsInjective(FlatTracks(ctrl))
=============================================================================
