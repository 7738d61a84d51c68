# A model of the player behind SotF

SotF is a music player. One Rust library (`crates/sotf-player`) holds the queue,
the library, the plugin graph and the `Player` that drives the audio engine;
several front ends share it: the GPUI application (`crates/app-gpui`, desktop and
phone layouts), a terminal interface (`crates/app-tui`), command line tools
(`crates/app-cli`), and MPD and HTTP servers (`crates/sotf-server`,
`crates/sotf-player/src/server`), which the GPUI application can also follow as a
remote control.

This directory models what these parts share and what is hard to test in them:
the queue and its cursor, the command channel between the user interface and the
player, the clocks that meet in playback (the user, the UI timer, the engine), the
locks and versions of the server, the screen that follows it over a network, and
the plugin graph on its way from the editor to the engine. Paths below are relative
to `crates/`.

| File | What it is |
| --- | --- |
| `QueueOps` | the queue as data: every operation of `Queue` and `QueueController` as an operator |
| `QueueController` | a state machine of those operations, with the undo record of a track removal |
| `TrackList` | abstract specification: one flat list of tracks and a cursor; `QueueController` implements it |
| `QueueLemmas` | lemmas about inserting into, removing from, cutting and flattening sequences, and about the operations of `QueueOps`: what each leaves of albums, cursor, selection and the track that plays |
| `QueueControllerProofs` | proofs about `QueueController`, for any tracks, albums, playlists and length |
| `PlayerHandle` | the command channel, the worker thread, snapshots and receipts |
| `PlayerHandleProofs` | proofs about `PlayerHandle`, for any number of threads and any bounds |
| `QueueState` | the handlers of the GPUI application that change the queue, with rows, undo and cursor copies |
| `QueueStateProofs` | proofs about `QueueState`, for any tracks, albums, playlists, files, length and surfaces in use |
| `Playback` | timer, `Player`, engine: skipping, gapless transitions, auto-advance, restart after a crash |
| `PlaybackProofs` | proofs about `Playback`, for any tracks, queues, layouts, surfaces and faults |
| `PlayerServer` | the headless server: MPD and HTTP commands of several connections, lock by lock |
| `RemoteView` | `PlayerServer` with the remote screen: event stream, refresh worker, timer |
| `RemoteViewProofs` | proofs about types, versions, cached answers, pages, requests and what is shown in `PlayerServer` and `RemoteView`, for any number of connections |
| `PluginGraph` | the plugin graph as data: connections, channel counts, conflicts, rewiring, validation |
| `PluginRack` | rack, routing draft, loading of tracks and the channel conflict dialog over such graphs |
| `RackList` | abstract specification: the rack is a list of plugins; `PluginRack` implements it |
| `PluginRackProofs` | proofs about `PluginRack` and `PluginGraph`, for any plugins, tracks, channel counts and edits |
| `PluginUpdates` | an edited graph on its way to the engine: pending update, acknowledgement, failures |
| `PluginUpdatesProofs` | proofs about `PluginUpdates`, for any graph and any bounds |
| `MC*.tla`, `MC*.cfg` | instances for TLC |

`QueueController`, `QueueState`, `Playback` and `PlayerServer` extend `QueueOps`, so
the queue of the application and that of the server are the same operators;
`RemoteView` extends `PlayerServer` and composes it with the client; `PluginRack`
extends `PluginGraph`.

Definitions whose comment begins with "Faulty:" are deliberate mistakes, one beside
the operator it would replace. No action uses them: each shows that some property
would notice that mistake.

## 1. Inventory

### The queue (`sotf-player/src/queue.rs`, `sotf-player/src/controllers/queue.rs`)

* **State**: `items`, a vector of albums each with `current_track_index`;
  `current_index: Option<usize>`; `selected_index`. A record
  `UpcomingTrackRemoval` is given to the caller for one undo.
* **Operations**: add, play now, enqueue next (splits the playing album), append
  a playlist, play a single file, remove and move albums, clear, start, jump,
  next, previous, peek; the flat view of upcoming tracks with remove, undo, move
  (splits and merges albums) and play by row.
* **Interaction**: called by every front end; returns a
  `QueuePlaybackEffect` that the caller must pass on to the player.
* **Hard**: index arithmetic over a nested structure that is split and merged by
  edits, in combination with a cursor that only some operations may move.
* **Correct when** the cursor names a queued item, edits touch exactly the row
  they were given, undo restores the list after arbitrary navigation, and the
  nested structure cannot be told from a flat list.

### The command handle (`app-gpui/app/player_handle.rs`)

* **State**: the mpsc channel to a worker thread that owns the `Player`; the
  transport epoch (`requested`, `completed`); `latest_snapshot`;
  `pending_events`; the coalescing flag `snapshot_requested`; the last transport
  receipt under a mutex.
* **Operations**: submit a transport command (counted, receipted), submit a plain
  command, request a snapshot, read a snapshot.
* **Interaction**: clones of the handle are used from several threads; the UI
  timer requests and reads at about 60 Hz; the engine raises events that a poll
  drains.
* **Hard**: four atomics and three locks without a common critical section;
  failed sends; a worker that dies; one-shot events with an epoch.
* **Correct when** an accepted snapshot shows the player after the last accepted
  transport, receipts settle in order and all of them, and requests neither pile
  up nor stop.

### The queue in the application (`app-gpui/app/state/app/queue_state.rs`, `app-gpui/app/queue.rs`, `app-gpui/components/home/queue/*`, `app-gpui/ui/phone.rs`, `app-gpui/components/playlists.rs`)

* **State**: the controller, one `expanded` flag per row, a second
  `selected_index`, three undo slots of which at most one is set, and
  `playback.current_queue_index`, a copy of the cursor for the rest of the UI.
* **Operations**: one per button, row and key of the library, the album queue,
  the flat queue, the playlist page, the phone queue and the transport.
* **Interaction**: each handler changes the queue, copies the cursor
  (`sync_queue_index`), and loads or stops. Desktop and phone layouts switch with
  the size of the window (`ui/misc.rs:107`), so both edit the same queue.
* **Hard**: `QueueState` dereferences to the controller, so a call can bypass the
  methods that keep rows and undo in step; there are five surfaces and only
  conventions between them.
* **Correct when** rows, undo, cursor copy and engine agree whatever the order of
  handlers.

### Playing through the queue (`app-gpui/ui/tick.rs`, `app-gpui/ui/playback.rs`, `app-gpui/ui/player_view.rs`, `sotf-player/src/player.rs`)

* **State**: `is_playing`, the position shown; in `Player`: `saved_config`,
  `restart_count`, one-shot flags.
* **Operations**: the tick (request, read, media keys, `handle_engine_state`,
  `handle_gapless_prequeue`), the keys, `load_and_play_source_at`,
  `switch_to_source_at`, `pause`, `resume`, `stop`, `queue_next`, `cancel_next`,
  `get_playback_state` (which also restarts a crashed engine).
* **Hard**: the engine moves on by itself; what the tick acts on is always a
  little old; a crash, an end of track and a skip can be under way together.
* **Correct when** the cursor ends up on the track that sounds, a stop is final, a
  queue left alone plays to its end, and a crash is followed by one restart of
  the right source.

### The server (`sotf-player/src/server/mpd_player_adapter.rs`, `server_state.rs`, `api.rs`, `stream.rs`, `media_index.rs`)

* **State**: queue, player and library behind a mutex each; atomic
  `playlist_version` and `library_version`; a broadcast channel of 64 events; the
  media source index with the library version of its last rebuild.
* **Operations**: MPD play, pause, stop, next, previous, add, delete, clear,
  status, playlist info; HTTP queue commands, state, album page and media source;
  the reload of the library.
* **Interaction**: a thread per connection. MPD methods hold all the locks they
  need; HTTP methods change the queue, let go, and take the player after that.
  What changed is broadcast after the locks are free.
* **Hard**: locks are taken in both orders; a command the player refuses returns
  early; two counters change apart from what they count; the database is read before
  the lock is taken, and reloads overlap; events leave in another order than the
  changes.
* **Correct when** every version is announced, what is cached under the current
  version has the albums in memory, and every command is answered.

### The remote screen (`app-gpui/app/remote/*`, `app-gpui/app/state/app/remote_state.rs`, `sotf-player/src/sotf_api_client.rs`)

* **State**: last state, queue and album page with their versions; the parts that
  are wished for; a failure count; a stream thread and a refresh worker with their
  channels.
* **Operations**: the timer handles events, takes the worker's results, starts
  the next refresh; the stream connects, sends the whole state, then events, then
  the whole state again when it fell behind; selecting a server starts over; a new
  token or a removed server lets go of the worker at work.
* **Hard**: events and answers arrive by two ways in any order, and both can fail.
* **Correct when** a wish survives failures and every worker but the one it was
  handed to, a page under the current version is the current one, and a client that
  lost nothing ends up showing what plays.

### Plugin graph and rack (`sotf-player/src/plugin_graph.rs`, `controllers/plugin/plugin_controller.rs`, `app-gpui/ui/player_view.rs`, `app-gpui/components/dialogs/player_view.rs`, `app-gpui/components/plugins/ui_graph/*`)

* **State**: nodes with settings, switches and channel counts, connections channel
  by channel; a draft of the graph and the live graph it was taken from; the
  channel conflict dialog.
* **Operations**: add, remove, move, toggle and clear on the rack, each a
  transaction that commits only a chain in which no plugin refuses its channels;
  free editing of the draft; apply and discard; playing a track, which clears
  suspensions, looks for conflicts, asks, suspends or removes, and resizes the
  matrix; the automatic advance, which suspends without asking.
* **Hard**: every change of a channel count is a rewiring of all that follows;
  the same edits are made on a chain and on a general graph; the dialog stays open
  while the engine goes on.
* **Correct when** the live graph could be applied at any time, no track is loaded
  into a chain that refuses its channels, a plugin sleeps only as long as a track needs it,
  and the rack behaves like a list.

### Plugin updates (`app-gpui/app/state/plugin.rs`, `app-gpui/ui/plugin.rs`)

* **State**: one `pending_plugin_update`, one `pending_ack` with the graph that was
  sent, `applying_original` of a routing that is being applied.
* **Operations**: an edit records its effect; the timer polls the acknowledgement,
  turns what became pending meanwhile into a rebuild, and sends; the worker runs
  commands in order.
* **Hard**: one slot for all edits; an acknowledgement of a graph that is no longer
  live; a rollback that meets newer drafts, loads and failures.
* **Correct when** a routing is never left pending and the engine ends up with what
  the rack shows.

### Parts that are not modelled

The full list is in `PROJECT.json` under `components`; section 7 says why.

## 2. Modules, state and actions

Indices are one-based and 0 stands for `None`. A track is a model value; an album
is the sequence of its tracks. What a row looks like, toasts, logging, listening
statistics, volume and seeking are left out.

**QueueOps.** `Controller` is `[items, selected, current]`, an item is
`[tracks, at]` with `at` the `current_track_index`. Each Rust method is one
operator from a controller to a controller. `Upcoming` lists `[item, track]`
positions as `upcoming_track_positions` does; `PeekNext` looks at the rest of the
album and at the next album by itself, as `peek_next_track` does, and shares nothing
with `NextTrack` or `Upcoming`. `StepBack` is `QueueItem::previous_track`: from an album
whose index was left past its end the step back may find no track there, and
`PreviousTrack` then goes on to the album before (`queue.rs:245-256`). `EnqueueNext` and `MoveUpcoming` split albums as
`split_off` does. `validate_album_has_files` is left out.

**QueueController.** One action per public method that the program calls, and the
selection (`Select`, from `app/navigation.rs`). `set_current_index` is called by the
tests only and left out; `fill_magic` adds albums one by one (`Add`). `undo` is the record the
caller holds (dropped by any other edit, as `QueueState` does with its slot), and
`before` is a history variable with the flat list from before the removal.

**TrackList.** A list, a position, and the list that an undo would bring back.
Edits name a block or a row. It says that edits leave the listener's track alone,
except the removal of the block that holds it. `ImplementsTrackList` maps
`list <- FlatTracks(ctrl)`, `pos <- FlatCursor(ctrl)`, `held <- before`.

**PlayerHandle.** Steps are as small as the shared state makes them observable:
counting and sending a transport are two steps under the lock
(`CountTransport`, `SendTransport`), the snapshot closure is four (`PollPlayer`,
`MergeEvents`, `PublishSnapshot`, `ReleaseRequest`), a tick is up to five
(`SwapRequested` to `TakeEvents`). Atomics are sequentially consistent here: the
code orders its accesses with acquire and release pairs through the channel and
the locks, and each flag has one meaning. `WorkerPanics` drops the receiver and
all commands; `EngineRaises` is the engine. Receipt `n` is settled when
`player.ran >= n`.

**QueueState.** One action per handler, each a single step: handlers run to
completion on the UI thread and their commands reach the player in order. Between
them only `TrackEnds` (the engine) and `Tick` come. The variable `surfaces`
chooses the screens in use. `Vec::splice` and `Vec::remove` panic past the end of the
rows. `EnqueueAlbumNext` and `MoveQueueItem` take that step too (`Panic`: the
application and its player are gone); it happens where a single file was played, with
one row too few (`app/queue.rs:23`). `RowsInStep` speaks only of interfaces in which
rows are shadowed, and rules the panic out there. Adding the selected album
(`AddAlbumToQueue`) does nothing when an item with its id is queued
(`app/queue.rs:46-52`); the album page appends whatever is queued (`AppendAlbum`).

**Playback.** One step per UI handler, three per tick (`TickRequest`, `TickRead`,
`TickHandle`, with media keys in between as in `player_view.rs:561-574`), one step
per command of the worker. The epoch of `PlayerHandle` becomes a simple rule:
a transport makes `shown` and `pending` unusable, and a poll is published only when
no transport is behind it. `raised` are the events the engine has not handed
over; `player` is `saved_config` and `restart_count`. The media keys for play and pause
act whether or not something plays (`MediaPlay`, `MediaPause`); the toggle is one or
the other. With the fault `stop` the engine may refuse to stop: `Player::stop` then
returns before it forgets the source (`player.rs:321`), and a load has already saved
its own (`player.rs:120`), while the engine goes on with what it plays (`Unstoppable`).

The source of the engine (`sotf_audio`) is not in this repository. The model takes
from its use that loading and stopping replace what it plays and what it has
prepared; `queue_next` replaces the prepared track and is ignored when no engine
runs; a prepared track follows when the current one ends; otherwise the end of
stream is raised and the engine is stopped. Whether an event raised before a stop
is still delivered after it is not known: `late_events` allows both.

**PlayerServer.** A connection goes from `Begin` through `TakeFirst` (a lock that
is kept while another is wanted) to the step under the last lock, and then, when it
has something to say, through one `Tell` per broadcast. A lock that is taken and let
go with nothing else held is part of the step it protects: nobody can see it.
`First` and `KeepsFirst` say for each command which lock comes first and whether it
is kept. HTTP commands are two steps, `HttpAdd` and its kin under the queue and
`UsePlayer` under the player; before, `LookUp` finds the album in the library or ends
the command. `status` and `current_song` of the HTTP state are two steps
(`ReadStatus`, `ReadSong`), since the queue's lock is free in between. A reload is three
steps, as `reload_library_from_database` holds no lock while it reads the database:
`ReadDatabase` numbers what was read, `Swap` puts it in under the lock, `Mark` counts
the version and announces it. Several reloads can be between these steps at once, in any order.
`library` and `index` keep, beside each version, the number of the reading whose albums
they hold (`copy`) and how often albums were swapped by then (`swap`). A command that the
player refuses (`Refuses`, fault `engine`) ends before its broadcast; reading the
database may fail (fault `database`). `told` and `unsaid` are history.

**RemoteView.** `Subscribe`, `SendState`, `SendNext` and `Disconnect` are the
stream; the stream and the refresh worker also read the server through connections
of their own (`Readers`), step by step like any other. `WorkerAsks` and `WorkerGets`
are one request each; `Tick` is the timer's whole turn (`Handled`, `Browsed`,
`Refreshed`, `Launches`). `PageStale` is the test that decides about a new page.
A worker that fails names what it was asked for, so that it is wished for again
(fault `fetch`); one whose thread dies (`panic`) does not, and the timer records a
failure without wishes (`Died`, `consts.rs:652-657`). `SelectServer` (`select`) starts
over; `SetToken` and `RemoveServer` (`reset`) let the worker go by
`reset_remote_cache_updater`, and its wishes with it; removing another server also
ends the event stream. `RemoveServer` is called from the server settings
(`components/settings/servers/misc.rs:1069`); nothing calls `set_remote_server_token`
at this commit, and `SetToken` is what it does. A stream that ends (`close`) connects
again without a word; one that breaks, cannot connect or is answered with an error
(`break`) puts an error frame on the wire first (`sotf_api_client.rs:335-346`,
`:373-375`), which ends the screen's listening.

**PluginGraph, PluginRack.** A graph is a record of nodes, channel counts and wires.
Rewiring functions follow the code wire by wire, since what they leave behind is the
question: `Recounted` passes channels down the chain, `Rewired` drops wires of
channels that are gone and draws straight ones. `Conflicts` is
`find_channel_conflicts` with its own pass over the chain. Actions of `PluginRack`
are the handlers; `EditDraft` allows both surfaces of the graph editor, of which only
the keyboard recounts after an edit. `Chain` is what the engine is given: a stage for
each plugin of the rack, with one that is off or suspended passing everything on
(`LeftOut`). `rack` repeats `Rack(live)` as a variable.

**RackList.** A list of plugins: one is added in front of the matrix; the user's own
are taken out, with the others in the order they were in (`Precedes`), or moved among
themselves; and only applying a routing replaces it.
`ImplementsRackList` maps `rack` to itself and `open <- draft # NoGraph`.

**PluginUpdates.** A graph is a value per slot: `Shape` for what only a rebuild
changes, the others for single parameters. `Poll` and `Send` are the two halves of
the timer's turn, and no handler runs in between (`Free`). `Run`, `Fail` and `Die`
are the worker. `Load` gives the engine a graph without the pending update.
`lost` (slots whose change was given up) and `sends` (commands since the routing was
applied) are history.

## 3. Runs

### Passing

| Run | Configuration | Question |
| --- | --- | --- |
| `queue` | `MCQueueController` | Do all orders of queue operations keep indices valid, `peek` and the upcoming list in agreement, edits exact and undo faithful, and is the queue of albums a flat list with a cursor? |
| `handle` | `MCPlayerHandle` | Two clones, worker and timer: coalescing, freshness, no event lost between polls, order of receipts, also when the worker dies at any point; receipts settle and reads come back. |
| `app` | `MCQueueState` | Three interfaces, desktop, phone and handheld (playlists and files): rows, selection, undo, engine and cursor agree, and the end of a track advances. |
| `play` | `MCPlayback` | Six settings from a queue left alone to all surfaces and faults at once: does the cursor end up on the track that sounds, is a stop final, is a restart faithful, does the queue finish? |
| `server` | `MCPlayerServer` | Three settings of up to three connections: versions under refused commands, caches under overlapping reloads, answers. |
| `remote` | `MCRemoteView` | Four settings of a screen that follows the server: overflow, broken, refused and ended streams, fetches that fail, workers that die or are let go, reloads. |
| `rack` | `MCPluginRack` | Rack edits, a routing draft, tracks of two and three channels and the conflict dialog in every order. |
| `updates` | `MCPluginUpdates` | Edits, loads, routings and one failure (an error or the end of the worker) in every order. |

What the properties say:

* `queue`: `TypeOK` includes that cursor and selection exist and no queued album is
  empty. `PeekIsFirstUpcoming`: what the engine is told to prepare is the first row
  the user sees. `UpcomingEditsExact`: from every reachable queue, every edit by flat
  row changes exactly that row of the flat list and never the playing track.
  `UndoRestores`: an undo after any navigation brings the old list back without
  moving the listener. `ImplementsTrackList`: refinement of the abstract list.
* `handle`: `OneRequestQueued`, `ReadsAreFresh`, `ReceiptsInOrder`, `EventsKept`: see
  section 6. `MergeEvents` follows `merge`: "ended" and its like are flags, absorbed by one
  that is set already, and the last error, the gapless transition and the stream's
  metadata have one slot each, in which a newer one replaces an older one. So an event
  in a slot may be handed out never, though the comment on the mailbox
  (`player_handle.rs:102`) says exactly once; `EventsKept` says that it is then
  superseded. `ReceiptsSettle`: an accepted transport is run. `ReadsResume`: once
  submissions pause, a read succeeds.
* `app`: `RowsInStep`: a selection that exists, and where rows are shadowed one per
  item and no cursor shown but the queue's. `UndoDiscardsNothing`: an undo on offer
  would undo the last edit and no other. `EditsKeepSync`: no handler parts the
  audible track from the cursor, but for two steps that leave the audio alone: the
  current album is removed while nothing plays, and a removed item is put back while
  nothing plays or when it was not current (see below).
  `QueueContinues`: a track that ends by itself is followed by the next.
* `play`: `InStep`: when nothing is under way the track that sounds is the one the
  queue shows. `RestartsFaithfully`: a crash restarts the source that was playing,
  and not twice. `StaysStopped`: after a stop no late event, read or not, starts
  anything; it speaks of the time until the cursor is shown again, which a tick that
  reads a transition does as well as the user (`tick.rs:760-762`). `QueueFinishes`: a
  queue left alone reaches its last track and stops.
* `server`: `VersionsAccounted`: every version the queue ever had was broadcast, is
  about to be, or belongs to a command the player refused. `IndexCurrent`: the media
  index, and every page that was answered, has under the current library version the
  albums in memory, unless a reload is between its swap and its mark. It does not say
  that these are the newest: which reading of the database stays depends on the order
  of the swaps (see below). `Answered`: every command is answered, unless a queue-first
  and a player-first command wait for each other; its mutant lets a move wait for the
  library with the queue held, while `add` holds the library and waits for the queue.
  That the circular wait itself is possible is seen in the model and named in the formula; no document of the
  repository excludes it, so no run claims it.
* `remote`: `PagesCurrent`: the same of what travels and what is shown.
  `PlaybackFresh`: when everything is delivered, a client that lost nothing shows
  what plays. `RequestsKept`: a wish for state or queue that comes while a worker is at
  work outlives that worker, whatever becomes of it; one the worker was asked for ends
  by its answer, by giving up, or with the worker when it is lost.
* `rack`: `LiveRoutable`: the live graph passes `validate_routing` in every reachable
  state. `LoadsFit`: the engine is never given a chain in which a plugin refuses the
  channels the chain was fitted to, and those are the loaded track's own, unless a
  dialog is answered after the queue went on (`Overtaken`).
  `SuspendsOnlyConflicts`: after a load exactly the plugins that would refuse those
  channels are suspended. `ImplementsRackList`: refinement of the list.
* `updates`: `ApplyPursued`: a routing being applied always has a rebuild due or a
  receipt out. `EngineFollows`: with nothing under way the engine runs what the rack
  shows, but for the slots in `lost`. `Settles`: once edits stop, nothing stays
  pending while the worker lives.

### Where a property stops, and why

Some properties have a condition because the code does not keep them beyond it and no
document says it does. Dropping the condition makes TLC show the behaviour.

* `Promised` (`InStep`). A gapless transition is reported once and without its place
  in the queue. A pause accepted before the report is read drops it with its epoch
  (`player_handle.rs:254`); a restart in the same batch hides it (`tick.rs:734-765`);
  the cursor advances by one whatever the engine moved to (`tick.rs:760-762`), so an
  edit of the flat queue at that moment parts them; a prepared track stays prepared
  when the next one no longer qualifies; a media key handled inside a tick is followed
  by decisions on the snapshot from before it (`player_view.rs:561-574`). So where all
  tracks have one layout (`Alike`) it is promised for starting, the transport keys and
  tracks that fail to load, and where no two tracks have the same (`Apart`), so that
  there are no gapless transitions, for every surface and fault; but an album that is
  removed while nothing plays is not unloaded, so removing albums is promised without
  pauses, skips and late events. Where only some tracks have one layout nothing is.
* `Shadowed` and `"phone"` (`app`). Playlists and files reach the controller through
  `DerefMut`, behind the rows; the phone empties an album before it takes its snapshot
  (`ui/phone.rs:1541`), and neither it nor a single file that is played
  (`app/queue.rs:23`) withdraws the undo that is on offer.
* `InOrder` (`PlaybackFresh`). Not after a lost event, a failed load or the end of a
  track (which the server does not notice, see below), and not with MPD add, delete
  and clear, which change the queue without the events that playback would need.
* `MatricesLast` (`LoadsFit`, `SuspendsOnlyConflicts`). `find_channel_conflicts` counts
  with the width a matrix has before it is fitted to the track, so a plugin behind a
  matrix may be suspended or let through wrongly (`plugin_graph.rs:1312`).
* `Overtaken` (`LoadsFit`). The buttons of the conflict dialog play the source it holds
  back (`components/dialogs/player_view.rs:1831`, `:1873`) by way of
  `play_track_at_with_mode`, which counts the channels of the queue's current track
  (`ui/player_view.rs:2090-2097`). When the engine went on to another track meanwhile,
  the chain is fitted to that one.
* `"stop" \notin Faults` (`InStep`, `RestartsFaithfully`, and the first half of
  `StaysStopped`). Where the engine refuses to stop, it goes on with a track the queue
  has left, a crash may restart the source whose load failed (`player.rs:120`), and
  after a refused stop the one that was to be stopped. `QueueFinishes` and the rest of
  `StaysStopped` hold with that fault too.
* `LeavesAudio` (`EditsKeepSync`). "If that removal replaced the actively playing item,
  return the restored source so the UI can keep the audio engine and queue selection in
  sync. A stopped queue stays stopped" (`app/queue.rs:237-239`). The code asks instead
  whether something plays at the moment of the undo (`app/queue.rs:241`): after the
  playing album was removed, the one that took its place was paused, and the removal is
  undone, the cursor is on the restored album and the engine still holds the other. The
  first sentence of the comment promises the sync there, the second may be read to
  allow it; the property leaves that case out, and it is a disagreement of code and
  comment that no run checks.
* `WorkerLost` (`RequestsKept`). What a worker was asked for goes with it when it dies
  or is let go: nothing asks again until an event or the page's test does.
* `lost` (`EngineFollows`). There is one pending update, so of two parameters edited
  between two ticks only the second is sent (`app/state/plugin.rs:1147`); the property
  covers stale acknowledgements, not this. A command
  that fails, a load without a worker, and a routing taken back after other commands
  leave their slots to chance as well.

### Violations

Each of these states what a comment of the code promises, and TLC shows a
behaviour of the code against it.

| Run | Promise | What happens |
| --- | --- | --- |
| `app_playlist` (`PlaylistContinues`) | the end of a track advances the queue (`tick.rs:75-79`) | a playlist started from its page stops after one track: the cursor copy was never set |
| `play_replay` (`NeverReplays`) | the *next* file is prepared (`tick.rs:791`) | one `queue_next` from before the transition arrives after it: the track follows itself |
| `play_restart` (`RestartPerTrack`) | one restart per track (`player.rs:19`) | the count is not reset by a gapless transition |
| `remote_queue` (`QueueFresh`) | a client that fell behind catches up (`stream.rs:208-209`) | the full state carries the new version, so the queue event still in the channel is skipped and the queue stays old |

### Other behaviour met on the way

No run is spent on these, but the models contain most of them.

Queue and playback:

* Removing the last album of the queue while it plays moves the cursor onto the
  previous album with the index that album kept (`queue.rs:143`); if a track was
  taken out of that album in the meantime the index is past its end and playback
  stops, although others are queued. After an earlier album is deleted the same index
  may be that of another track.
* `play_single_audio_file` adds an item behind the shadow of `expanded`
  (`app/queue.rs:23`): one row too few, and "Play next" on an album then panics
  (`queue_state.rs:93-94`).
* Undoing the removal of an album that was not playing puts back the cursor of
  that moment, which playback may have left, and reloads nothing (`app/queue.rs:247`).
* Previous on the first track clears `is_playing` although the music goes on, so
  the removal of the playing album reloads nothing until the next snapshot.
* A transition reported late makes a crash restart the wrong source.

Server and remote screen:

* `status` takes the player before the queue, `play`, `next` and `previous` the queue
  before the player (`mpd_player_adapter.rs:19`, `:160`): two connections can block
  each other and then everyone else.
* An MPD delete of an album that is not current changes the queue, bumps no version,
  sends no event and answers an error, although the version is "incremented on every
  queue mutation" (`server_state.rs:22`). `Delete` does it; no property states the rest. MPD clear and delete leave the player on what
  it plays.
* An HTTP command that the player refuses returns before its `QueueChanged`; the events of
  two requests can leave in another order than their versions; the cursor and the
  engine can end up with different requests.
* `sotf_server_event.rs:14` counts a jump among the changes of the queue, but
  `api_jump_queue_album` sends only `PlaybackChanged`.
* The server does not notice the end of a track.
* The reload of the library is not guarded by `library_scan_active`, which "prevents
  overlapping library scans from racing database reloads/events"
  (`server_state.rs:28-29`): a reload by request that read the database before a scan
  ended can swap its reading in after the scan's reload, and the older albums stay,
  under the newer version, until the next reload.
* After `LibraryChanged` the page is newer than the last state, so each tick asks for
  the page again until the next `PlaybackChanged` (`consts.rs:740`). A page that was
  under way when a wish for a newer one came clears that wish
  (`remote_state.rs:183`).
* `QueueChanged` is skipped when a fetched state with its version came first; a state
  the worker fetched earlier can replace a newer one from the stream.
* The event stream is not started again after an error, although
  `sotf_api_client.rs:312-313` says it reconnects.

Plugins:

* The button "Suspend incompatible and play" suspends and then calls `play_track`,
  which clears suspensions and opens the dialog again
  (`components/dialogs/player_view.rs:1814-1836`); Enter does what a comment there
  says must be done (`ui/render.rs:740-746`).
* "Remove incompatible" removes in one transaction per plugin; with two plugins that
  refuse the channels, each transaction is refused for the other one's sake and the
  dialog opens again.
* Cancelling leaves the live graph without its suspensions, in which unrelated edits
  are refused until the conflict is gone.
* Enter after the engine went on to another track suspends for the old one and plays
  it. A button plays the old one with the chain fitted to the new one.
* A graph that is not a chain keeps its channel counts (`update_channel_dependent_plugins`
  returns), and rewiring draws straight wires next to crossed ones.
* The graph editor can delete permanent nodes; the rack then adds behind the last.
* A rack edit that is refused after it was sent is silent: only routings are rolled
  back. A rack edit made while a routing is pending goes when that routing fails and a
  newer draft exists: the draft is kept and the live rack, edit and all, is replaced by
  the graph from before (`app/state/plugin.rs:1076-1083`). The comment above those lines
  says that edits made meanwhile are preserved. `Finished` does it; no property states it,
  because the promise fails and what is left of it is that branch itself.
* An acknowledgement of a graph that is no longer live records no success; when the
  rebuild that follows fails, the routing is taken back to a graph older than the one
  the engine runs (`ui/plugin.rs:343-349`).
* When the worker dies with an acknowledgement out, that acknowledgement never comes
  and every later update and routing waits for it.

## 4. Bounds and why they are enough

* `queue`: three tracks, an album of two, a single and a playlist that overlaps
  both, four queued tracks (`MaxTracks`). Splits need an album of two, merges and
  shifted indices a second and third item: all positions relative to the cursor
  (before, at, after; first, middle, last) occur. The same album can be queued twice.
  The proofs remove these bounds for types, peeking, undo and the edits by row.
* `app`: the same and a file from outside the library, three queued tracks. On the
  desktop the constraint `OneCopy` keeps the product of queue, undo snapshot, rows and
  engine small: no track is queued twice there (`queue` has such queues). The proofs
  remove these bounds for all five properties of `app`.
* `handle`: two submitters, three transports (`MaxTransports`), plain commands while at
  most one command waits (`MaxQueue`), a flag and a slot with two events each
  (`MaxEvents`). Races need two submitters; a stale snapshot needs two transports; the
  third makes order visible; a slot is overwritten by its second event. The proofs remove
  these bounds for the safety properties.
* `play`: an album of two and a single, or one single; with everything at once two
  singles. Each setting names its surfaces and faults, so that the product stays
  small while each race has its actors. `capacity` (3, or 2) holds back the UI when
  that many commands wait; a handler adds at most two, so up to four are in flight:
  enough for a skip behind a snapshot request behind another skip. The proofs remove
  these bounds for all but `QueueFinishes`.
* `server`: three connections and three commands in all; a deadlock needs two
  commands and a third to wait behind it, two edits in different order need a third
  to read in between, two reloads overlap beside a third reader. The proofs remove these
  bounds for `VersionsAccounted` and `IndexCurrent`.
* `remote`: one or two connections beside the screen's own and two or three commands;
  a broadcast channel of 64, as in the code, or of 1, so that it overflows;
  `MaxWire` frames on their way. A server is selected, a token set or a server removed
  only while none of the screen's own connections is being served (`Unserved`): an answer
  to a connection that was dropped reaches nobody. The proofs remove these bounds but
  `Unserved`.
* `rack`: two plugins of the user's, an upmixer and a matrix on the rack without a
  draft, where the user's plugins are turned off and on, and an upmixer with a draft of
  one edit, where the matrix is; tracks of two and three channels; one wire and one node
  the graph editor touches. A plugin of the user's that is turned off while a draft is
  open is left to the proofs. Two plugins are needed to move one
  over the other and to have one behind another's new width; the editor's edits are
  kept few because any graph at all can be drawn. Identities are symmetric. The proofs
  remove these bounds.
* `updates`: a shape and two parameters of two values, three edits or loads, one
  fault. Two parameters show the one that is replaced; a routing, an edit on top of it
  and a load between them are three. The proofs remove these bounds for the safety
  properties.

Deadlock is checked except in `server`, `remote` and `remote_queue`: there the
number of commands is bounded, so the system comes to an end, and the circular wait
is a deadlock of the code.

## 5. Fairness

* `PlayerHandle`: weak fairness of the worker (its loop is
  `while let Ok(command) = receiver.recv()` and commands return), of the timer, and
  of a submitter that holds the lock between counting and sending (straight-line
  code). None for users, engine events or panics. Properties are stated up to the
  death of the worker, after which the code promises errors only.
* `Playback`: weak fairness of timer and worker as above, and of music that plays
  on: its end gets near and comes. A track is assumed longer than the ten seconds
  of the pre-queueing window, and a tick and a command take milliseconds, so the
  UI has shown a track's beginning before its end is near (`BeginningShown`) and
  has had one turn to prepare the next (`engine.ready`). No fairness for the user.
* `PlayerServer`: strong fairness of every connection's next step. Threads run, and
  `parking_lot` mutexes hand a contended lock over from time to time (eventual
  fairness), so a thread that waits for a lock that keeps coming free gets it.
* `PluginUpdates`: weak fairness of `Poll`, of `Send` and of the worker (to run, fail
  or die). Whether commands succeed is left open, edits are bounded.
* The other modules have no liveness properties.

## 6. Proofs

All theorems are about `Spec` for every value of the constants, under the named
assumptions of the modules; TLC evaluates the assumptions in the runs.

### `PlayerHandleProofs`

Six theorems: `Invariant`, `TypeCorrect`, `Coalesced` (`OneRequestQueued`: the channel
never holds two snapshot requests), `Fresh` (`ReadsAreFresh`: an accepted snapshot
shows the player after the last accepted transport, and no older event comes with it),
`InOrder` (`ReceiptsInOrder`: transports run in the order of their receipts) and `Kept`
(`EventsKept`: an event is handed out once, in the order of its kind, and is lost only to
a transport that has run since or to a newer event in its slot). The assumptions are that the two null values are none of the values they stand beside and
that the bounds are natural numbers.

The properties are not inductive. `OneRequestQueued` alone does not rule out a
second request while the worker is inside the snapshot closure, and nothing in
`ReadsAreFresh` says what a snapshot's epoch has to do with the channel. The
inductive invariant is

    IInv == TypeOK /\ Accounting /\ Requests /\ Freshness

* `Accounting`: `requested` is the last receipt, plus one while the lock is held;
  `player.ran` is `completed`, plus one between a command and its completion; while
  the worker lives, the transports in the channel are exactly those between
  `player.ran` and `lastTransport`, in order (`Queues`).
* `Requests`: a queued request or a running snapshot closure implies that the flag
  is set and that the timer is not about to send another.
* `Freshness`: a published snapshot, and the one the timer holds, has an epoch of
  at most `completed` and shows the player after exactly that many transports; the
  pending events carry the epoch of their set, which is at most `completed`.

`Kept` has a part of its own beside it: events are numbered in the order the engine
raises them, and those that wait in the player, in the worker's hands and in the mailbox,
and those that were handed out, stand in this order slot by slot (`EventOrder`), so what
`Merged` overwrites is older than what it keeps.

Freshness of a read follows: an accepted epoch equals `requested`, is at most
`completed`, and `completed <= player.ran <= lastTransport <= requested`, so all are
equal and `Queues` leaves no transport in the channel. Lemmas about appending to
and taking from `Queues` come first, then one lemma per part of the invariant
with one step per action, then the temporal theorems.

### `PluginUpdatesProofs`

`TypeCorrect`, `Pursued` (`ApplyPursued`), `EngineRunsRack` (`EngineFollows`) and `Invariant`, for every set of slots and values
and any number of edits and faults. The assumption is that the null value is no graph
and no receipt. `ApplyPursued` is inductive beside `TypeOK`. `EngineFollows` is not inductive, because it speaks of
moments at which nothing is under way. The inductive invariant is

    IInv == TypeOK /\ ApplyPursued /\ Follows /\ CleanRollback

* `Follows`: for a slot that is neither pending nor lost, the last command in the
  channel that writes it writes what the rack shows, and if none does the engine runs
  it already. Two lemmas say that this survives a command that is appended
  (`FollowsAppend`) and the head that is run or fails (`FollowsTail`).
* `CleanRollback`: while a routing is applied that began in step, and at most one
  command was sent since, the engine still runs the original in every state from which
  a rollback can come: before anything is sent, while the one command waits, once its
  receipt says that it failed, and when the worker is gone.

A rollback with `sends <= 1` therefore restores `Follows` in every slot at once; any
other gives all slots up, which is where `lost` comes from.

### `RemoteViewProofs`

`ServerVersions` and `ScreenVersions` (`VersionsAccounted` of the server alone, and
with the remote screen connected), for every number of connections, every library,
every setting and every budget. The inductive invariant is

    IInv == Shape /\ Broadcasting /\ Accounted /\ Excused

`Shape` says what the record of a connection looks like, `Broadcasting` what a command
can still have to say and under which version (`MaySay`), `Accounted` and `Excused` are
the two halves of `VersionsAccounted`. Versions need `Broadcasting` because a version
moves from the counter into a connection's record, and from there into `told` or
`unsaid`, in steps that look only at that record. Each command is one lemma; the steps
of the screen leave all of it alone, but for those in which one of its own connections
is served, which are the server's steps.

`IndexAlwaysCurrent` (`IndexCurrent`, of the server alone), `PagesAlwaysCurrent`
(`PagesCurrent`) and `RequestsNeverLost` (`RequestsKept`, with the screen), for every
number of connections and every setting. They stand on `IInv` and on
three more:

* `Copies`: albums were swapped in as often as the version says, plus once for each
  reload between its swap and its mark (`Cardinality(Marking)`); and every index,
  answer, page and frame that carries a version was taken when albums had been swapped
  at least that often, and has the albums in memory if none were swapped since
  (`Remembers`, `Good`). So under the current version, with no reload in between, they
  are the albums in memory, whichever reading of the database those are. The count is
  needed because reloads overlap: two can have swapped before either marks, and in the
  other order than they read.
* `Screen`: the fields of the screen's record and of its worker's, that an idle worker
  was asked for nothing, and that the pages of both are taken as above.
* `Streams`: the events in the channel and the frames on the wire are of the kinds
  the server sends. Handling a frame keeps the screen's wishes because of this. That
  the oldest event can be dropped from a full channel needs the assumption that the
  capacity is not zero.

`RequestsKept` is an action property: each step of the screen is split into the
frame it handles, the page it asks for, the answers it takes and the worker it
launches, and each part keeps every wish or settles it (`Settled`). A worker that is let
go, or dies, is the only way for what it was asked for to go (`ResetKeeps`,
`WorkerKeeps`), and it takes nothing that was wished for meanwhile.

`ScreenTypeCorrect` (`TypeOK` of server and screen together), for the same constants. It
needs:

* `ServerTyped`: the types of the server, and that every album of its queue stays on one
  of its tracks (`OnTracks`), as no server command splits or empties an album. Only then
  does play, next or previous that comes back with a track load a track, and an answer
  show one. Every command is reduced to what it does to the queue (`QueueStep`: it
  navigates, edits under the next version, or is the MPD delete that goes unnoticed), by
  the lemmas about `QueueOps`; that the queue keeps its type follows.
* `ScreenTyped`: the types of the screen, and that no refresh runs once refreshing was
  given up. Without the latter a failure could be counted past the third.

`ScreenShowsPlayback` (`PlaybackFresh`, with the screen), for the same constants. It has
to hold through every state in which something is still on its way, so the invariant
(`Following`, where `PlaybackFresh` applies) says where the news of a change is:

* `ScreenSure`: what is shown is what plays, or the news that it is not is `Pending` (a
  command has still to tell it, or it is in the channel, on the wire or a wish for the
  state), or the running refresh was asked for the state, or refreshing was given up.
  `Answers` says the same of every answer the worker has or is being given. A refresh that
  finishes does not withdraw a wish that came after it began: this is what keeps an
  answer that was overtaken from being taken for the last word.
* `Room`: the events in the channel, those the commands under way have still to send and
  two for each command still to begin fit into twice the budget. So the channel never
  overflows, and the stream is never cut (`Linked`). The events still to send are counted
  as a set of tokens, at most two for each connection (`Tokens`), since the library has
  no theorem about sums.
* `Served`: a request of the screen's is that of a worker that runs and has not failed;
  `UsedOnly`: the commands under way are those of the setting.

That a change of what plays always announces itself (`ServeSays`) is shown command by
command: an album appended behind the cursor or removed elsewhere plays on
(`AddAlbumPlays`, `RemoveAlbumPlays` in `QueueLemmas`), and everything else has
`PlaybackChanged` among what it says. MPD's add, delete and clear do not, and are
excluded by the property.

### `QueueLemmas`, `QueueControllerProofs`

`TypeCorrect` (`TypeOK`), `PeekAlwaysFirst` (`PeekIsFirstUpcoming`),
`UndoAlwaysRestores` (`UndoRestores`), `UpcomingEditsAlwaysExact`
(`UpcomingEditsExact`) and `AlwaysATrackList` (`ImplementsTrackList`), for any tracks,
albums and playlists and any length of the queue. What the operations do to a queue is
proved once, in `QueueLemmas`, for this module, the application and the server; its
first part is about sequences alone.

* `TypeOK` is inductive: cursor and selection exist and no album is empty. Every
  operation of the queue is one lemma; it shows that the result is `Made` of albums,
  cursor and selection that fit together (`Fits`). The lemmas about operations that
  name rows of the upcoming list need that every row is behind the cursor and inside
  its album (`UpcomingType`).
* `PeekIsFirstUpcoming` follows from `TypeOK` alone: the first row of the flattened
  list is in the current album if there is a track left in it, and is the first track
  of the next album if there is not; `FlattenHead` says which list the first element of
  a flattened one comes from.
* `UndoRestores` needs `UndoInv`: a record that is held can be put back into the
  albums as they are, and doing so gives the list of before. Navigation changes
  neither the albums nor the record; every other action drops the record.
* `UpcomingEditsExact` follows from `TypeOK`. Beside the flat list of tracks stands the
  flat list of places (album, track); the upcoming rows are its end
  (`UpcomingIsEnd`), so the flat list is what was heard followed by what is upcoming
  (`FlatIsHeardAndUpcoming`), and a row has a known index in it (`RowPlace`). An edit
  that leaves the albums up to the cursor alone (`CursorKept`) leaves what was heard,
  and then whatever follows it in the new flat list is the new upcoming list (`DoesIt`).
  What is left is that taking a track, putting one in and splitting an album commute
  with flattening (`FlattenDropped`, `FlattenOneInserted`, `FlattenSplitInserted`).
* `ImplementsTrackList` needs `TypeOK` and `UndoInv`. Album i begins in the flat list
  where the albums before it end (`Begin`), so the abstract cursor is the beginning of
  the current album plus the place in it (`CursorIs`). Removing, inserting and moving
  albums shift these beginnings in a known way (`BeginRemoved`, `BeginInserted`,
  `MovedBegin`); each operation is one lemma that says what it does to flat list and
  cursor (`AddAlbumAppends`, `EnqueueNextSchedules`, `RemoveAlbumCuts`,
  `MoveItemMovesBlock`, `TakeUpcomingTakes`, `MoveUpcomingMoves`, `UndoPutsBack`, and
  those about navigation), in the words of one action of `TrackList`. `InitFlat` and
  `NextFlat` put them together: initial states map to initial states, steps to steps or
  stutters. That the undo puts back exactly the list `held` is `UndoInv`.

`FlattenSeq` is a recursive function over sequences. What is needed of it (its type,
its first element, that it goes through concatenation, and which part an index belongs
to) is shown by well-founded induction: the least place at which a partial result is
wrong cannot exist (`Least`, `FlattenType`, `FlattenConcat`, `FlattenPlace`).

### `QueueStateProofs`

`TypeCorrect` (`TypeOK`), `RowsAlwaysInStep` (`RowsInStep`), `UndoNeverDiscards`
(`UndoDiscardsNothing`), `QueueAlwaysContinues` (`QueueContinues`) and
`EditsAlwaysKeepSync` (`EditsKeepSync`), for any tracks, albums, playlists and files, any
length of the queue and any sets of surfaces that are in use together. None of them is
inductive: rows can be put back in step only from a snapshot that was in step, and
whether the end of a track advances depends on the copy of the cursor. The inductive
invariant is

    IInv == surfaces \in Interfaces /\ QueueFits /\ SlotFits /\ SoundFits /\ OfferFits

* `QueueFits`: the cursor is in the queue, the selection is in the list shown, and where
  rows are shadowed there is one per item. Albums are not empty (`Stocked`), except
  where the phone is in use: it can have an undo put back an album whose only track it
  took first, so there they are only items (`Item`).
* `SlotFits`: what the undo slot holds is a queue as above with as many rows as items,
  or the record of one track.
* `SoundFits`: where rows are shadowed the copy of the cursor is the cursor, but after a
  stop. `QueueContinues` follows: a track that ends by itself was not stopped.
* `OfferFits`: an undo on offer belongs to the flat list the queue still has, and one
  of a cleared queue to an empty queue.

There is one lemma per handler (`...Keeps`). `EditsKeepSync` speaks of states that are
in step and of a step that parts them; its lemmas (`...Syncs`, one per handler) take
`InSync` beside the invariant and show `SyncFits` after the step, or that the step
leaves the audio alone (`LeavesAudio`). They need to know which track plays after an operation
(`AddAlbumPlays`, `MoveItemPlays`, `RemoveAlbumPlays` and others in `QueueLemmas`), for
`RemoveAlbum` with its cursor before, on and behind the album that goes.

### `PlaybackProofs`

`TypeCorrect` (`TypeOK`), `InStepAlways` (`InStep`), `StopIsFinal` (`StaysStopped`) and
`RestartFollows` (`RestartsFaithfully`), for any tracks, any queues to start from and
any layouts, surfaces, faults and capacities. The assumption is that queues hold albums
that are not empty.

What the channel holds is summed up in three words: the last command of some kinds on
its way (`Final`), the kinds on their way (`Sent`), and the tracks to prepare behind the
last load or stop (`ToPrepare`). `Appended` and `Taken` say how they change, so nothing
after them looks into the sequence. Likewise every handler of the user is reduced to
one of six effects (`UserDoes`: it loads the current track, stops, halts, pauses or
resumes, edits behind the cursor, or drops a current album silently), and the end of a
tick to one of three (`HandleDoes`: it rests, advances the cursor, or goes on by a load).
The invariants are proved of the effects.

* `Base`: the types, and a cursor in place: every album up to it was left on one of its
  tracks.
* `Quiet` (`StopIsFinal`): with nothing current in the interface, no snapshot shows
  anything playing, and either a stop is the last transport on its way or the engine is
  off and has nothing to restart from. This needs an engine that can be stopped (`Calm`).
  What the tick does at its end does not: it asks for a load only where a track is
  current, so the second half of `StaysStopped` is shown from the types alone.
* `Follows` (`RestartFollows`): the saved source, or the transition raised but not yet
  handed over, is the track of the engine, and an engine that was restarted once is
  counted; again where the engine can be stopped (`Traced`).
* Where no two tracks have one layout (`InStepAlways`): nothing is ever prepared
  (`NoGaps`); the last load on its way is of the current track, and when none is, what
  sounds or would be restarted is the current track (`Destined`). `Ended` is for the
  removal of an album while the interface shows nothing playing, which loads nothing:
  every sign of an end, read or on its way, means that the engine is on its way to
  silence.
* Where all have one layout: the engine is at the cursor, or one ahead while a
  transition is raised, published or read (`Lag`, `Located`), and never in two of these
  places at once (`Once`). What is prepared or asked to be is the current track or the
  one after it, and only the latter during a lag (`Upnext`, `Prepared`). Near the end of
  a track nothing older is under way (`NearTheEnd`), so what is prepared there is the
  track after the current one, or the current one when it is the last, whose transition
  moves the cursor nowhere. That last case needs that an engine that had its turn
  without being given a next track has none, which needs `Quiet`: the interface does not
  show "stopped" over a playing engine. `Incoming` says that while a load or a stop is
  on its way everything read is of after it.

### `PluginRackProofs`

`RackTypeCorrect` (`TypeOK`), `RackRoutable` (`LiveRoutable`), `RackLoadsFit`
(`LoadsFit`), `RackSuspendsOnlyConflicts` (`SuspendsOnlyConflicts`) and `RackIsAList`
(`ImplementsRackList`): all that the run `rack` checks, for any finite set of plugins,
any tracks, any wires and nodes the editor touches and any number of edits. The
assumptions are that identities of plugins are none of the names of permanent and
special nodes, that the wide bus has more than two channels, that tracks have channels,
that what the editor draws are wires, and that `NoGraph` is no graph.

The inductive invariant is `RackInv`: the live graph is `Routed`, the rack screen shows
it, the draft is `Sound`, and the rest has its type. `Sound` is what every edit keeps,
the free ones of the graph editor included: `Graph`, and `Steady` (nothing leaves the
output, a plugin that passes channels on makes as many as it takes, and the replay gain
is one). `Routed` adds `ValidRouting`. It cannot ask for a chain: an applied routing need
not be one; the rack edits are then refused.

* The walks over a graph are recursive functions. `Iterated` says that such a recursion
  has a value at each place and that what every step keeps holds of all of them; it
  stands for the induction, and the lemmas about each walk give it the relation that is
  kept (`EmptiedUpTo`, `MovedUpTo`, `RemovedUpTo`, the flows).
* `try_linear_order` counts links and follows successors. `LinearPath` and `PathLinear`
  say that it finds an order exactly when the nodes are a path from `Input` to `Output`
  (`Path`), by counting links against nodes. From there on an edit is a statement about
  paths: one node out (`RemovedLinear`), two neighbours exchanged (`SwappedLinear`), one
  in (`InsertedIs`).
* `Updated` passes channels down the chain and redraws the wires. `Recounted` makes the
  counts of neighbours agree, `Rewired` then has exactly the straight wires, so every
  input is fed and nothing loops: a chain that was updated is `Routed` whatever it was
  before, and a routed graph that is not a chain stays as it is. That is `LiveRoutable`.
* What is refused depends only on which plugins that count channels are on and where
  they stand, as long as none follows a matrix. `Kin` says of two graphs that they agree
  on this. Everything that plays keeps it, hence `DialogAsks`: what the dialog lists is
  what the live rack, with all awake, refuses of the track it asks about, whatever
  happened behind it. `Settled` is what each way of loading leaves, and gives both
  `LoadsFit` and `SuspendsOnlyConflicts`. `LoadsItsOwn` goes through the ways of loading
  for the second half of `LoadsFit`.
* For `RackIsAList` each edit says what it makes of the rack: `InsertAt` for an added
  plugin (`AddedIs`), `Thinned` for those that remove (transitive, so it holds of a
  series of transactions some of which are refused), and `Slid` for a move, which is
  what a series of swaps amounts to (`SlidOn`) and the same as taking the plugin out and
  putting it in elsewhere (`SlidIs`). Playing, suspending and toggling keep the rack, by
  `Kin` and because they touch no wire (`SameWires`).

### Only model-checked

The liveness properties: `ReceiptsSettle`, `QueueFinishes`, `ReadsResume`, `Answered` and
`Settles`. Every other property of a passing run is stated by a theorem.

## 7. Not modelled

* **MPD protocol session** (`sotf-server/crates/sotf-mpd/src`): line reader, command
  lists, idle. Its commands enter `PlayerServer` as they reach the adapter.
* **Scan managers and federation**: background threads with progress and
  cancellation. They share the library with the rest only through the database and
  its reload, of which the reload is in `PlayerServer`.
* **Player configuration**: of `saved_config` only the source is modelled
  (`Playback`), of the plugins only what the engine was last given (`PluginUpdates`).
* **Repeat and shuffle**: off in `Playback`.
* **Terminal front end**: a second, single-threaded client of the same queue.
* **Listening tests**: a sequential session whose effects reach the engine as plugin
  updates.
* **Database, streaming services, DLNA and cast, TLS, measurement, equalisation**:
  I/O or numerical code. The command line tools, platform shells, media-key bindings
  and development tools keep no state of their own.

The map names the lines the definitions stand for. They are a small part of the
repository, most of which draws screens, processes signals and talks to devices and
services.
