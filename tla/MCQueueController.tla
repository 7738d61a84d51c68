-------------------------- MODULE MCQueueController --------------------------
(* A two-track album, a single, and a playlist that overlaps both. *)
EXTENDS QueueController

CONSTANTS t1, t2, t3

MCTracks == {t1, t2, t3}
MCAlbums == {<<t1, t2>>, <<t3>>}
MCPlaylists == {<<t3, t1>>}
=============================================================================
