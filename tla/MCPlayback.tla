----------------------------- MODULE MCPlayback -----------------------------
(* Three tracks, as an album of two and a single; gapless needs one layout.*)
EXTENDS Playback

CONSTANTS t1, t2, t3, stereo

MCTracks == {t1, t2, t3}
MCQueues == {<<<<t1, t2>>, <<t3>>>>, <<<<t1>>>>}
AllStereo == [t \in MCTracks |-> stereo]
AllDifferent == [t \in MCTracks |-> t]

Setting(layout, surfaces, faults) ==
  [queues |-> MCQueues, layout |-> layout, surfaces |-> surfaces, faults |-> faults, capacity |-> 3]

LeftToPlay == Setting(AllStereo, {"start"}, {"load", "stop"})
Keys == Setting(AllStereo, {"start", "transport"}, {})
Breakdowns == Setting(AllDifferent, {"start", "transport", "pause"}, {"load", "crash"})
Edits == Setting(AllDifferent, {"start", "queue", "flat_queue"}, {"load", "crash"})
Races ==
  [queues |-> {<<<<t1>>, <<t2>>>>}, layout |-> AllDifferent,
   surfaces |-> {"start", "transport", "pause", "media"}, faults |-> AllFaults \ {"stop"}, capacity |-> 2]
Everything ==
  [queues |-> {<<<<t1>>, <<t2>>>>}, layout |-> AllStereo, surfaces |-> AllSurfaces,
   faults |-> AllFaults, capacity |-> 2]

MCSettings == {LeftToPlay, Keys, Breakdowns, Edits, Races, Everything}
NoFaults == {Setting(AllStereo, {"start"}, {})}
OneCrash == {Setting(AllStereo, {"start"}, {"crash"})}
=============================================================================
