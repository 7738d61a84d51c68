------------------------------ MODULE Playback ------------------------------
(***************************************************************************)
(* Playing through the queue: the UI timer (crates/app-gpui/ui/tick.rs,    *)
(* ui/player_view.rs), the Player behind its command channel               *)
(* (crates/sotf-player/src/player.rs) and the engine, which runs by itself *)
(* and moves on to a prepared next track without a gap.                    *)
(*                                                                         *)
(* The channel and its snapshots are those of PlayerHandle, one step per   *)
(* command: submitting a transport makes the published snapshot and the    *)
(* pending events unusable, and a poll is usable only when no transport is *)
(* behind it in the channel.  Repeat and shuffle are off.                  *)
(***************************************************************************)
EXTENDS QueueOps

CONSTANT
  Settings  \* [queues, layout, surfaces, faults, capacity]: the queues (sequences
            \* of albums) playback can start from, the channel layout of each
            \* track, the parts of the interface in use, what can go wrong, and
            \* a bound, the channel length at which the UI thread holds back

AllSurfaces == {"start", "transport", "pause", "media", "queue", "flat_queue"}
AllFaults == {"load", "stop", "crash", "late_events"}

ASSUME PlaybackAssumption ==
  \A s \in Settings :
    /\ s.queues \subseteq Seq(Seq(Tracks) \ {<<>>})
    /\ DOMAIN s.layout = Tracks
    /\ s.surfaces \subseteq AllSurfaces /\ s.faults \subseteq AllFaults
    /\ s.capacity \in Nat

VARIABLES
  setting,    \* which of Settings this run of the program is in
  ctrl,       \* the queue
  uiCurrent,  \* playback.current_queue_index
  isPlaying,  \* playback.is_playing
  near,       \* the position last shown is within ten seconds of the end
  tick,       \* the timer tick in progress: what it read, and was_playing
  channel,    \* commands on their way to the player
  shown,      \* the published snapshot, if it is still usable
  pending,    \* the one-shot events published with it
  player,     \* [saved, restarts]: saved_config's source, restart_count
  engine,     \* [state, track, next, near, ready, revived]
  raised      \* events the engine has not handed over yet
ui == <<setting, ctrl, uiCurrent, isPlaying, near>>
link == <<channel, shown, pending>>
vars == <<ui, tick, link, player, engine, raised>>

Layout == setting.layout
Surfaces == setting.surfaces
Faults == setting.faults
MaxChannel == setting.capacity

NoSnapshot == [state |-> "unknown"]
EngineState == {"stopped", "playing", "paused", "error"}
Snapshot == [state : EngineState, near : BOOLEAN] \cup {NoSnapshot}
Command ==
  [kind : {"load", "queue_next"}, track : Tracks]
  \cup [kind : {"pause", "resume", "stop", "cancel_next", "snapshot"}]
Raised == [moved : Tracks \cup {NoTrack}, ended : BOOLEAN, crashed : BOOLEAN]
Nothing == [moved |-> NoTrack, ended |-> FALSE, crashed |-> FALSE]
Reported == {"moved", "ended", "restarted", "error"}

TypeOK ==
  /\ setting \in Settings
  /\ ctrl \in Controller
  /\ uiCurrent \in Nat
  /\ isPlaying \in BOOLEAN /\ near \in BOOLEAN
  /\ tick \in [pc : {"idle", "read", "handle"}, state : EngineState \cup {"unknown"},
               events : SUBSET Reported, was : BOOLEAN]
  /\ channel \in Seq(Command)
  /\ shown \in Snapshot /\ pending \subseteq Reported
  /\ player \in [saved : Tracks \cup {NoTrack}, restarts : 0..1]
  /\ engine \in [state : EngineState, track : Tracks \cup {NoTrack}, next : Tracks \cup {NoTrack},
                 near : BOOLEAN, ready : BOOLEAN, revived : BOOLEAN]
  /\ raised \in Raised

Idle == [pc |-> "idle", state |-> "unknown", events |-> {}, was |-> FALSE]
Off == [state |-> "stopped", track |-> NoTrack, next |-> NoTrack,
        near |-> FALSE, ready |-> FALSE, revived |-> FALSE]
Playing(t) == [Off EXCEPT !.state = "playing", !.track = t]

Init ==
  /\ setting \in Settings
  /\ \E q \in setting.queues :
       ctrl = [EmptyController EXCEPT !.items = [i \in DOMAIN q |-> NewItem(q[i])]]
  /\ uiCurrent = 0 /\ isPlaying = FALSE /\ near = FALSE /\ tick = Idle
  /\ channel = <<>> /\ shown = NoSnapshot /\ pending = {}
  /\ player = [saved |-> NoTrack, restarts |-> 0]
  /\ engine = Off /\ raised = Nothing

-----------------------------------------------------------------------------
(* Submitting commands. *)

Load(t) == [kind |-> "load", track |-> t]
QueueNext(t) == [kind |-> "queue_next", track |-> t]
Plain(kind) == [kind |-> kind]
IsTransport(c) == c.kind \in {"load", "pause", "resume", "stop"}
HoldsTransport(cs) == \E i \in DOMAIN cs : IsTransport(cs[i])

(* Faulty: the snapshot from before the transport stays usable. *)
SubmitKeepingSnapshot(cs) == channel' = channel \o cs /\ UNCHANGED <<shown, pending>>

(* A tick that has read its snapshot goes on with it whatever is submitted.*)
Submit(cs) ==
  /\ channel' = channel \o cs
  /\ IF HoldsTransport(cs) THEN shown' = NoSnapshot /\ pending' = {} ELSE UNCHANGED <<shown, pending>>

Handler(surface) ==
  /\ surface \in Surfaces
  /\ Len(channel) < MaxChannel
  /\ UNCHANGED <<setting, near, player, engine, raised>>
BetweenTicks == tick.pc = "idle" /\ UNCHANGED tick
Sync == uiCurrent' = ctrl'.current

(* App::next_track and the handlers around it: load what it returns. *)
GoTo(c, moved, before) ==
  /\ ctrl' = c /\ Sync
  /\ IF moved /\ CurrentTrack(c) # NoTrack
     THEN Submit(before \o <<Load(CurrentTrack(c))>>) /\ isPlaying' = TRUE
     ELSE Submit(before) /\ isPlaying' = FALSE

NextKey ==
  /\ Handler("transport") /\ BetweenTicks
  /\ GoTo(NextTrack(ctrl), ~AtEnd(ctrl), <<Plain("cancel_next")>>)

PreviousKey ==
  /\ Handler("transport") /\ BetweenTicks
  /\ GoTo(PreviousTrack(ctrl), ~AtStart(ctrl), <<Plain("cancel_next")>>)

(* Stop, play and pause, by key and by media key. *)
StopAll ==
  Submit(<<Plain("stop")>>) /\ isPlaying' = FALSE /\ uiCurrent' = 0 /\ UNCHANGED ctrl
StartPlaying ==
  ~isPlaying /\ uiCurrent = 0 /\ ctrl.items # <<>> /\ GoTo(JumpTo(ctrl, 1), TRUE, <<>>)
PauseOrResume ==
  /\ isPlaying \/ uiCurrent # 0
  /\ Submit(<<Plain(IF isPlaying THEN "pause" ELSE "resume")>>)
  /\ isPlaying' = ~isPlaying /\ UNCHANGED <<ctrl, uiCurrent>>

StopPlayback == Handler("transport") /\ BetweenTicks /\ StopAll
StartQueue == Handler("start") /\ BetweenTicks /\ StartPlaying
TogglePlayback == Handler("pause") /\ BetweenTicks /\ PauseOrResume

(* Faulty: removing the current album does not load the next one. *)
RemoveFromQueueSilently(i) ==
  /\ Handler("queue") /\ BetweenTicks
  /\ i \in DOMAIN ctrl.items
  /\ ctrl' = RemoveAlbum(ctrl, i) /\ Sync
  /\ UNCHANGED <<link, isPlaying>>

(* App::remove_from_queue and the queue screen's handler. *)
RemoveFromQueue(i) ==
  /\ Handler("queue") /\ BetweenTicks
  /\ i \in DOMAIN ctrl.items
  /\ ctrl' = RemoveAlbum(ctrl, i) /\ Sync
  /\ LET wasCurrent == ctrl.current = i
         t == CurrentTrack(ctrl')
     IN CASE wasCurrent /\ t = NoTrack -> Submit(<<Plain("stop")>>) /\ isPlaying' = FALSE
          [] wasCurrent /\ t # NoTrack /\ isPlaying -> Submit(<<Load(t)>>) /\ UNCHANGED isPlaying
          [] OTHER -> UNCHANGED <<link, isPlaying>>

RemoveUpcomingTrack(index) ==
  /\ Handler("flat_queue") /\ BetweenTicks
  /\ index \in DOMAIN Upcoming(ctrl)
  /\ ctrl' = TakeUpcoming(ctrl, Upcoming(ctrl)[index]) /\ Sync
  /\ Submit(<<Plain("cancel_next")>>)
  /\ UNCHANGED isPlaying

-----------------------------------------------------------------------------
(* The timer tick: ask for a snapshot, read the latest one, let the media  *)
(* keys in, then act on what was read.  Nothing else of the UI runs inside.*)

TickRequest ==
  /\ tick.pc = "idle"
  /\ Len(channel) < MaxChannel
  /\ tick' = [Idle EXCEPT !.pc = "read"]
  /\ channel' = IF \E i \in DOMAIN channel : channel[i].kind = "snapshot" THEN channel
                ELSE Append(channel, Plain("snapshot"))
  /\ UNCHANGED <<ui, shown, pending, player, engine, raised>>

(* Without a usable snapshot the state is made up from the flags. *)
TickRead ==
  /\ tick.pc = "read"
  /\ IF shown = NoSnapshot
     THEN /\ tick' = [Idle EXCEPT !.pc = "handle", !.was = isPlaying,
                                  !.state = IF isPlaying THEN "playing" ELSE "paused"]
          /\ UNCHANGED <<isPlaying, near>>
     ELSE /\ tick' = [Idle EXCEPT !.pc = "handle", !.was = isPlaying, !.state = shown.state,
                                  !.events = pending]
          /\ isPlaying' = (shown.state = "playing")
          /\ near' = shown.near
  /\ pending' = {}
  /\ UNCHANGED <<setting, ctrl, uiCurrent, channel, shown, player, engine, raised>>

(* The media keys do not cancel the prepared track. *)
InsideTick == tick.pc = "handle" /\ UNCHANGED tick

MediaNext ==
  /\ Handler("media") /\ InsideTick
  /\ GoTo(NextTrack(ctrl), ~AtEnd(ctrl), <<>>)

MediaPrevious ==
  /\ Handler("media") /\ InsideTick
  /\ ctrl' = PreviousTrack(ctrl) /\ Sync
  /\ IF AtStart(ctrl) THEN UNCHANGED <<link, isPlaying>>
     ELSE Submit(<<Load(CurrentTrack(ctrl'))>>) /\ isPlaying' = TRUE

MediaStop == Handler("media") /\ InsideTick /\ StopAll

(* Unlike the keys, whether or not something plays; Toggle is the one or   *)
(* the other of these.                                                     *)
MediaPause ==
  /\ Handler("media") /\ InsideTick
  /\ Submit(<<Plain("pause")>>) /\ isPlaying' = FALSE /\ UNCHANGED <<ctrl, uiCurrent>>

MediaPlay ==
  /\ Handler("media") /\ InsideTick
  /\ \/ uiCurrent = 0 /\ ctrl.items # <<>> /\ GoTo(JumpTo(ctrl, 1), TRUE, <<>>)
     \/ /\ uiCurrent # 0
        /\ Submit(<<Plain("resume")>>) /\ isPlaying' = TRUE /\ UNCHANGED <<ctrl, uiCurrent>>

(* Faulty: only an end of stream advances the queue. *)
OverAtEndOfStream == uiCurrent # 0 /\ "ended" \in tick.events

(* should_auto_advance_on_engine_stop, engine_stop_without_queue_...      *)
EngineStopped == tick.was /\ tick.state \in {"stopped", "error"}
OverByItself == uiCurrent # 0 /\ ("ended" \in tick.events \/ EngineStopped)
StoppedOutsideQueue == uiCurrent = 0 /\ EngineStopped

(* Faulty: whatever comes next is prepared, even nothing. *)
PrequeueUnpeeked(c, cursor) ==
  IF tick.state = "playing" /\ near /\ cursor # 0 THEN <<QueueNext(PeekNext(c))>> ELSE <<>>

(* handle_gapless_prequeue, on the queue and the cursor as they are by then*)
Prequeue(c, cursor) ==
  IF /\ tick.state = "playing" /\ near /\ cursor # 0
     /\ PeekNext(c) # NoTrack /\ Layout[PeekNext(c)] = Layout[CurrentTrack(c)]
  THEN <<QueueNext(PeekNext(c))>>
  ELSE <<>>

(* handle_engine_state: the first that applies, and only that one. *)
HandleEngineState ==
  CASE "error" \in tick.events ->
         isPlaying' = FALSE /\ UNCHANGED <<ctrl, uiCurrent>> /\ Submit(Prequeue(ctrl, uiCurrent))
    [] "error" \notin tick.events /\ "restarted" \in tick.events ->
         UNCHANGED <<ctrl, uiCurrent, isPlaying>> /\ Submit(Prequeue(ctrl, uiCurrent))
    [] tick.events \cap {"error", "restarted"} = {} /\ "moved" \in tick.events ->
         /\ ctrl' = NextTrack(ctrl) /\ Sync /\ UNCHANGED isPlaying
         /\ Submit(Prequeue(ctrl', uiCurrent'))
    [] tick.events \subseteq {"ended"} ->
         IF OverByItself THEN GoTo(NextTrack(ctrl), ~AtEnd(ctrl), <<>>)
         ELSE /\ isPlaying' = (isPlaying /\ ~StoppedOutsideQueue)
              /\ UNCHANGED <<ctrl, uiCurrent>> /\ Submit(Prequeue(ctrl, uiCurrent))

TickHandle ==
  /\ tick.pc = "handle"
  /\ HandleEngineState
  /\ tick' = Idle
  /\ engine' = [engine EXCEPT !.ready =
                  @ \/ (engine.near /\ near /\ \A i \in DOMAIN channel' : channel'[i].kind # "queue_next")]
  /\ UNCHANGED <<setting, near, player, raised>>

Tick == TickRequest \/ TickRead \/ TickHandle

-----------------------------------------------------------------------------
(* The player runs its commands.  An engine that is stopped may still hand *)
(* over what it raised before ("late_events"); one that cannot be stopped  *)
(* goes on ("stop"), and the error ends the command.                       *)

Receive == channel # <<>> /\ channel' = Tail(channel) /\ UNCHANGED <<ui, tick>>
LeftOver == raised' = Nothing \/ ("late_events" \in Faults /\ raised' = raised)
Unstoppable == "stop" \in Faults /\ UNCHANGED <<engine, raised>>

(* Faulty: the saved configuration keeps its first source. *)
RunLoadKeepingSaved ==
  /\ Receive /\ Head(channel).kind = "load"
  /\ player' = [saved |-> IF player.saved = NoTrack THEN Head(channel).track ELSE player.saved,
                restarts |-> 0]
  /\ engine' = Playing(Head(channel).track)
  /\ LeftOver
  /\ UNCHANGED <<shown, pending>>

(* load_or_switch_source_at: the configuration is saved before the attempt.*)
RunLoad ==
  /\ Receive /\ Head(channel).kind = "load"
  /\ player' = [saved |-> Head(channel).track, restarts |-> 0]
  /\ \/ engine' = Playing(Head(channel).track) /\ LeftOver
     \/ "load" \in Faults /\ engine' = Off /\ LeftOver
     \/ Unstoppable
  /\ UNCHANGED <<shown, pending>>

(* Faulty: stopping keeps the configuration to restart from. *)
RunStopKeepingSaved ==
  /\ Receive /\ Head(channel).kind = "stop"
  /\ \/ player' = [player EXCEPT !.restarts = 0] /\ engine' = Off /\ LeftOver
     \/ Unstoppable /\ UNCHANGED player
  /\ UNCHANGED <<shown, pending>>

RunStop ==
  /\ Receive /\ Head(channel).kind = "stop"
  /\ \/ player' = [saved |-> NoTrack, restarts |-> 0] /\ engine' = Off /\ LeftOver
     \/ Unstoppable /\ UNCHANGED player
  /\ UNCHANGED <<shown, pending>>

RunPause ==
  /\ Receive /\ Head(channel).kind \in {"pause", "resume"}
  /\ engine' = [engine EXCEPT !.state =
                  CASE @ = "playing" /\ Head(channel).kind = "pause" -> "paused"
                    [] @ = "paused" /\ Head(channel).kind = "resume" -> "playing"
                    [] OTHER -> @]
  /\ UNCHANGED <<shown, pending, player, raised>>

(* No engine running: nothing to prepare, and no error. *)
RunPrepare ==
  /\ Receive /\ Head(channel).kind \in {"queue_next", "cancel_next"}
  /\ engine' = IF Head(channel).kind = "queue_next" /\ engine.state # "stopped"
               THEN [engine EXCEPT !.next = Head(channel).track, !.ready = @ \/ engine.near]
               ELSE [engine EXCEPT !.next = NoTrack]
  /\ UNCHANGED <<shown, pending, player, raised>>

(* get_playback_state, through the snapshot command.  The saved source     *)
(* follows a transition before a crash in the same batch is looked at.     *)
Saved == IF raised.moved # NoTrack /\ player.saved # NoTrack THEN raised.moved ELSE player.saved
CrashKnown == raised.crashed /\ Saved # NoTrack
(* Faulty: every crash restarts. *)
RestartsEveryTime == CrashKnown
Restarts == CrashKnown /\ player.restarts = 0

Publish(state, isNear, events) ==
  IF HoldsTransport(Tail(channel)) THEN UNCHANGED <<shown, pending>>
  ELSE shown' = [state |-> state, near |-> isNear] /\ pending' = pending \cup events

RunPoll ==
  /\ Receive /\ Head(channel).kind = "snapshot"
  /\ raised' = Nothing
  /\ LET events == {e \in {"moved", "ended"} : IF e = "moved" THEN raised.moved # NoTrack ELSE raised.ended} IN
     \/ /\ Restarts
        /\ player' = [saved |-> Saved, restarts |-> 1]
        /\ engine' = [Playing(Saved) EXCEPT !.revived = TRUE]
        /\ Publish("playing", FALSE, events \cup {"restarted"})
     \/ /\ Restarts /\ "load" \in Faults
        /\ player' = [saved |-> Saved, restarts |-> 1]
        /\ engine' = Off
        /\ Publish("stopped", FALSE, events \cup {"error"})
     \/ /\ ~Restarts
        /\ player' = [player EXCEPT !.saved = Saved]
        /\ UNCHANGED engine
        /\ Publish(engine.state, engine.near,
                   events \cup (IF raised.crashed THEN {"error"} ELSE {}))

Worker == RunLoad \/ RunStop \/ RunPause \/ RunPrepare \/ RunPoll

-----------------------------------------------------------------------------
(* The engine.  Ticks and commands take milliseconds, the end of a track is *)
(* near for ten seconds, and a track is longer than that: the UI has shown *)
(* its beginning before its end is near, and then has one turn to prepare  *)
(* the next track before it ends.                                          *)

BeginningShown ==
  /\ ~near /\ raised = Nothing /\ pending = {} /\ tick.events = {}
  /\ \A i \in DOMAIN channel : channel[i].kind # "queue_next"

NearEnd ==
  /\ engine.state = "playing" /\ ~engine.near
  /\ BeginningShown
  /\ engine' = [engine EXCEPT !.near = TRUE]
  /\ UNCHANGED <<ui, tick, link, player, raised>>

GaplessTransition ==
  /\ engine.state = "playing" /\ engine.ready
  /\ engine.next # NoTrack
  /\ engine' = Playing(engine.next)
  /\ raised' = [raised EXCEPT !.moved = engine.next]
  /\ UNCHANGED <<ui, tick, link, player>>

EndOfStream ==
  /\ engine.state = "playing" /\ engine.ready
  /\ engine.next = NoTrack
  /\ engine' = Off
  /\ raised' = [raised EXCEPT !.ended = TRUE]
  /\ UNCHANGED <<ui, tick, link, player>>

Crash ==
  /\ "crash" \in Faults
  /\ engine.state = "playing"
  /\ engine' = [engine EXCEPT !.state = "error"]
  /\ raised' = [raised EXCEPT !.crashed = TRUE]
  /\ UNCHANGED <<ui, tick, link, player>>

-----------------------------------------------------------------------------

User ==
  \/ NextKey \/ PreviousKey \/ StopPlayback \/ StartQueue \/ TogglePlayback
  \/ MediaNext \/ MediaPrevious \/ MediaStop \/ MediaPause \/ MediaPlay
  \/ \E i \in DOMAIN ctrl.items : RemoveFromQueue(i)
  \/ \E i \in DOMAIN Upcoming(ctrl) : RemoveUpcomingTrack(i)

Next == User \/ Tick \/ Worker \/ NearEnd \/ GaplessTransition \/ EndOfStream \/ Crash

(* The timer fires, the worker runs its commands, music plays on. *)
Fairness ==
  WF_vars(Tick) /\ WF_vars(Worker)
  /\ WF_vars(NearEnd) /\ WF_vars(GaplessTransition \/ EndOfStream)

Spec == Init /\ [][Next]_vars
FairSpec == Spec /\ Fairness

-----------------------------------------------------------------------------
(* Properties *)

(* When nothing is under way, the track that sounds is the one the queue   *)
(* shows as current: the cursor follows the engine through its own         *)
(* transitions (ui/tick.rs:760-765) although skips, ends and restarts race *)
(* with the events that report them.  A gapless transition is reported     *)
(* once, without its place in the queue, so where tracks follow each other *)
(* without a gap this is not promised when it can meet a pause, a media    *)
(* key, an edit of the queue, a crash, or a layout that ends the series;   *)
(* an album that is removed while nothing plays is not unloaded; and an    *)
(* engine that cannot be stopped goes on with what it played.              *)
Settled == channel = <<>> /\ raised = Nothing /\ pending = {} /\ tick.pc = "idle"
Alike == \A t, u \in Tracks : Layout[t] = Layout[u]
NoRepeats(albums) ==
  \A i, j \in DOMAIN albums : \A k \in DOMAIN albums[i], l \in DOMAIN albums[j] :
    albums[i][k] = albums[j][l] => i = j /\ k = l
Apart ==
  /\ \A t, u \in Tracks : Layout[t] = Layout[u] => t = u
  /\ \A q \in setting.queues : NoRepeats(q)
Promised ==
  \/ Alike /\ Surfaces \subseteq {"start", "transport"} /\ Faults \subseteq {"load"}
  \/ /\ Apart /\ "stop" \notin Faults
     /\ "queue" \in Surfaces =>
          Surfaces \subseteq {"start", "queue", "flat_queue"} /\ Faults \subseteq {"load", "crash"}
InStep ==
  Promised /\ Settled /\ uiCurrent # 0 /\ engine.state \in {"playing", "paused"} =>
    CurrentTrack(ctrl) = engine.track

(* Stop is final: until the user starts something, no late end of track,   *)
(* transition or crash, not even one already read by the tick in progress, *)
(* brings the music back or asks for it (player.rs:320-327,                *)
(* ui/tick.rs:80-95).  Only a stop that failed leaves a source behind that *)
(* a crash may still restart.                                              *)
StartsNow == engine.state # "playing" /\ engine'.state = "playing"
TickHandled == tick.pc = "handle" /\ tick'.pc = "idle"
StaysStopped ==
  [][uiCurrent = 0 /\ ~HoldsTransport(channel) =>
       /\ StartsNow => "stop" \in Faults
       /\ TickHandled => ~HoldsTransport(channel')]_vars

(* A crash is followed by one restart, of the source that was playing,     *)
(* unless a stopped engine hands over late what it raised: such a          *)
(* transition would pass for the new engine's (player.rs:511-563); or it   *)
(* could not be stopped for the next source, which is what is then loaded. *)
RestartsFaithfully ==
  []["late_events" \notin Faults /\ StartsNow /\ engine.state = "error" /\ Head(channel).kind = "snapshot" =>
       "stop" \in Faults \/ (engine'.track = engine.track /\ ~engine.revived)]_vars

(* Started and left alone, the queue plays to its end, whichever tracks    *)
(* fail to load.                                                           *)
AtLastTrack == FlatCursor(ctrl) = Len(FlatTracks(ctrl))
LeftAlone == Surfaces = {"start"} /\ Faults \subseteq {"load", "stop"}
QueueFinishes ==
  LeftAlone /\ isPlaying ~> AtLastTrack /\ engine.state = "stopped" /\ ~isPlaying /\ Settled

(* "When the current track finishes, the decoder seamlessly transitions to *)
(* the queued file" and what is queued is "the next file" (player.rs:      *)
(* 356-358, ui/tick.rs:791): no track is followed by itself.               *)
NeverReplays == [][GaplessTransition => engine'.track # engine.track]_vars

(* "How many times we've restarted for the current track (max 1)"          *)
(* (player.rs:19): the player gives up on a track only if it was           *)
(* restarted on that track before.                                         *)
RestartPerTrack ==
  [][RunPoll /\ CrashKnown /\ ~Restarts => engine.revived]_vars
=============================================================================
