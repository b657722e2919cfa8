# A TLA+ model of hekascreen

Hekascreen mirrors and controls Android devices. It pushes the scrcpy server to a
device with adb, accepts the sockets the device opens, decodes the video on the
Bevy main thread's behalf, and turns keyboard, mouse and script input into touch
events. A browser frontend drives it over HTTP and a WebSocket. The Rust program
is under `src/src`; paths below are relative to it unless they start with
`src/`, and module definitions name their lines in `PROJECT.json`, "map".

## 1. Inventory

### Threads and channels

| runs on | code | talks to |
|---|---|---|
| axum on a multi-threaded tokio runtime | `web/*` | command channel `d_tx` (unbounded), mask channel `m_tx` (unbounded), control broadcast `cs_tx` (1000) |
| connection server, a tokio runtime of its own | `scrcpy/controller.rs`, `scrcpy/connection.rs` | reads `d_rx`; `m_tx`; message channel `v_tx` (bounded 8); recycle channel (bounded 16) |
| Bevy main thread | `mask/*` | reads `m_rx` and `v_rx` every frame; gives frame buffers back; sends to `v_tx` itself when scripts run |
| background tasks of Bevy | `mask/mapping/*` | `cs_tx`, `v_tx` |

### Components

| component | state | operations | what is hard | what makes it correct |
|---|---|---|---|---|
| Device sessions (`web/device.rs`, `utils/share.rs`, `web/ws.rs`) | `CONTROLLED_DEVICES`, `CONNECTING_DEVICES`, `ACTIVE_PROCESSES`, the adb child of each session | control, decontrol, reconnect, watcher tasks, WebSocket cleanup | every lock is held for one statement; handlers are dropped at an await when the client leaves; adb fails | one entry per device, one reservation per device, no child out of reach, no stale kill handle, everything is reaped |
| Connection server (`scrcpy/controller.rs`, `scrcpy/connection.rs`) | command queue, the accept it waits for, token map, connections | connect main video / main control / sub control, shutdown main / sub | accept blocks the loop, tokens are keyed by role, sockets carry no session, tasks and mask wait for each other | what lives can be stopped; what is cancelled ends; the mask is told the truth, once |
| Video pipe (`scrcpy/connection.rs`, `mask/video.rs`) | two bounded channels, frame buffers, the image, the HUD | decode and try_send, drain and display, script messages | blocking sends in both directions between two parties, dropped frames, Close against queued frames | buffers are bounded, nobody blocks for ever, the HUD ends with its stream |
| Mask commands (`mask/mask_command.rs`) | window entity, pending resize, `MaskSize`, active mapping, mapping and cursor state | seven commands, each answered through a oneshot | connections overlap, spawns and despawns take effect later, a resize takes three frames, answers are unwrapped | one window while connected, of the size it was told; each command is answered once |
| Touch mappings (`mask/mapping/*`) | a map of entries per mapping kind, the active cast, `BlockDirectionPad`, the FPS configuration, background tasks, mapping and cursor state | 14 mapping kinds and the left click | tasks outlive the key that started them; modes end, and mapping files change, in the middle of a gesture; states change a frame later | whoever is down has somebody who will lift it; a blocking cast and the pads exclude each other, raw input and FPS too |
| Scripts (`mask/mapping/script*.rs`) | held-script timers, repeats | pressed, held, released scripts; repeat, wait | background scripts of one key overlap | repeats end with the mapping mode |
| Control stream (`scrcpy/control_msg.rs`, `control_writer`) | broadcast channel, the device size in the registry and in a watch channel | send, receive, scale, serialise, write; sizes reported by rotations and by the video | lag drops messages; the size has two sources and is stored by tasks that overtake each other; integer scaling | the device ends up with the pointers its senders have; a touch lands where it was meant |
| Mapping files (`web/mapping.rs`, `mask/mapping/config.rs`) | files, active mapping, its persisted name | create, update, rename, delete, duplicate, migrate, activate | handlers run in parallel and await the mask between a check and its use; the program stops anywhere | the active mapping is what its file says, and the persisted one |
| Configuration (`config.rs`, `web/config.rs`) | `CONFIG`, `config.json` | setters, load with migrations | changed under a lock, saved outside it | the file is the configuration |
| Decoding, adb client, HUD and labels, start-up, frontend, ffmpeg | little or none | | input and output | |

## 2. Plan

| step | modules | abstract specification or composition | theorems |
|---|---|---|---|
| 1 (done) | `DeviceSession` | | all seven safety properties |
| 2 (done) | `VideoPipe` | | type, bound on buffers, recycling never blocks, HUD |
| 3 (done) | `ConnectionServer`, `Session` | `Session` composes 1 and 3 and implements both | `SubStoppable`, `AnswerOwed` and types; both refinements |
| 4 (done) | `MappingState`, `Taps`, `Casts`, `Aims`, composed by `Touches` | | all five invariants and `ModesMeet` |
| 5 (done) | `MappingFiles`: mapping files, configuration, the commands of the main thread, restart | | type, the three consistency invariants, `RestartKeeps`, that queued commands are awaited |
| 6 (done) | `MaskWindow`: `handle_mask_command`, window entity, pending resize | | type, `WindowFollows`, `ShownAsTold`, that nobody who waits is forgotten |
| 7 (done) | `ControlStream`: lag of the broadcast channel, sources of the device size, scaling with its widths | | type, `DeviceFollows`, `ScaledRight` |
| 8 (done) | `MaskProtocol`, what connections and mask owe each other | abstract specification, implemented by `ConnectionServer` and by `MaskWindow` | both refinements |
| 9 (left) | Move messages of the touch mappings; key repeats of raw input, held-script timers; `PacketMerger`, metadata, text truncation as operators | reference definitions | truncation ends at a character |

## 3. Modules

### DeviceSession

One control, decontrol or reconnect request is an element of `Requests` and has a
program counter `pc`; a request draws one fresh random scid, so the request
stands for it. An action is what a task does between two points at which another
task can see or change shared state: each lock of `CONTROLLED_DEVICES`,
`CONNECTING_DEVICES` or `ACTIVE_PROCESSES` is one action.

| state | code |
|---|---|
| `controlled` | `CONTROLLED_DEVICES`, `utils/share.rs`: a vector only searched by device_id or scid, a set here |
| `connecting`, `unguard` | `CONNECTING_DEVICES`; the removal tasks `ConnectingGuard::drop` has spawned |
| `processes`, `killed` | `ACTIVE_PROCESSES`; the children whose kill receiver has resolved. A oneshot receiver resolves when its sender fires *and* when it is dropped |
| `child`, `watcher` | the adb shell process of a session and the task that waits for it |
| `open`, `doomed`, `ending` | `handle_socket` of `web/ws.rs`: not yet closed; copied entries to shut down; the one shut down and not yet removed |

Failures are actions: adb push or reverse fails, the child cannot be started or
exits, `listener.accept` fails, and `ClientGone`, the drop of a handler at an
await when its client disconnects. The sends of commands are steps without an
effect here; `Session` gives them one.

### ConnectionServer

`d_rx` is the command queue. A connect command is sent once per scid and kind, so
it stands for its token and its connection: `conn[c]` is where it stands,
`signal_map` the tokens stored (one per socket id: `main_video`, `main_control`,
`sub_control_<scid>`), `cancelled` those cancelled. `accepting` is the command
whose accept blocks the loop. `backlog` holds the sockets that devices have opened; accept
hands them out in that order, whoever asked. `m_rx` and `mask` are the changes
queued for the mask and what it shows. Registry, commands and dialing devices are
free within what the web server promises (a session is registered before its
first command; the video command precedes the control command; a device dials
after its commands).

### Session

Composition of the two. The web server's steps put their commands in `d_rx`;
`AcceptFails` removes the entry from the registry of `DeviceSession`; a device
dials while its child runs, with the video socket first when the request's flag
says so. It takes no guard from the module it sends to: that the commands are
ones `ConnectionServer` expects, and the failed accepts ones `DeviceSession`
expects, are `ImplementsServer` and `ImplementsWeb`, both checked, with the
registered scids of one refined by the registry of the other.

### MaskProtocol

The abstract specification of what a main control connection and the mask owe each other
(`connection.rs:291-321`, `mask_command.rs:224-293`), with no channel, socket, token or window
in it: a connection (`at`) tells the mask that it is there, is served once the mask has answered, tells it
again when it ends, and is away after that answer; the mask shows (`shown`) what the change it
answered last says. Both ends implement it (`ImplementsProtocol`), each with a refinement mapping of its own:

| | `at` | `shown` |
|---|---|---|
| `ConnectionServer` | the phase `conn[c]` of a main control connection: `connecting` is telling, `open` on, `leaving` parting, else away | `mask` |
| `MaskWindow` | the `stage` of the sender: `waiting` is telling, `on` on, `leaving` parting, `idle` away | `connected` |

So the mask that `ConnectionServer` is checked against, one action that answers a change, and the senders
that `MaskWindow` is checked against, which come back as often as they like, are the same abstraction
of the other end. Connections may overlap: the protocol says so, and the mask of a second one goes dark with
the end of the first.

### VideoPipe

`v` is the message channel (capacity `VCap`, 8 in `main.rs`), `recycle` the number
of buffers in the recycle channel (`RCap`, 16). A connection (`task`) reads its
metadata, sends `StreamInfo`, then takes a recycled buffer per frame and tries to
send it; on a full channel it gives the buffer back. The main thread (`bevy`)
drains the channel in each frame of its own, keeping the last frame in
`last_data_msg` (`last`), and then puts it in the place of the old `image`.
Scripts send their errors to the same channel: from the main thread with a
blocking send (`ClearError`, `ParseError`), or from a runtime thread
(`ScriptEnds`). Two abstractions: the size of a frame is left out, since the two
branches of `size_changed` move buffers alike, and script systems run before
`handle_video_msg` in a frame (Bevy may run them in parallel, which adds senders,
not consumers).

### MappingState, Taps, Casts, Aims and Touches

The Bevy systems of `mask/mapping`. `MappingState` holds what they share and what
happens to every mapping; `Taps` (`tap.rs`, `swipe.rs`, the left click), `Casts`
(`direction_pad.rs`, `cast_spell.rs`) and `Aims` (`fire.rs`, `cursor.rs`,
`observation.rs`, `raw_input.rs`) are the systems themselves; `Touches` composes them.

| state | code |
|---|---|
| `profile` | `ActiveMappingConfig`: which input actions are mapped, with pointer, release mode and `block_direction_pad` |
| `down`, `seen` | the input actions held, and those whose STARTED or COMPLETED event is in this frame; `EndFrame` clears the latter |
| `mode`, `nextMode`, `cursor`, `nextCursor` | `MappingState` and `CursorState` with their `NextState` |
| `screen`, `online` | the pointers the device was told are down; whether a control connection receives the broadcast |
| `task` | background tasks: the touches each has yet to send |
| `entry` | `ActiveRepeatTapMap`, `DirectionPadMap`, `ActiveObservation`, `ActiveFireMap`: the pointer of an action's entry |
| `cast`, `block`, `fps` | `ActiveCastSpell`, `BlockDirectionPad`, `ActiveCursorFpsConfig` |
| `missed`, `stray`, `cast.raced` | history, see below |

A handler that hears an event is one action, guarded by the run condition of its
system (`Runs`). When that does not hold the event is lost (`PressMissed`,
`ReleaseMissed`), which is where entries and pointers outlive their key. A system runs
once a frame, in any order with the others; the model lets any order happen, also
across systems Bevy happens to order. A mapping file may map several FPS keys: `handle_fps`
returns after the first that was pressed in the frame (`fire.rs:133`), and the press of another is lost (`FpsIgnored`).

The histories record faults the code really has, at the step that commits them, so
that the properties can say "but for these": `stray` is a pointer left down because
a click or a synchronous tap is released while nobody listens, a reload replaces the actions
under a held key, an entry is overwritten by one with another pointer or lifted with
the pointer of the new mapping (`direction_pad.rs:151`), leaving the FPS mode lifts
pointer 0 whatever entering it put down (`fire.rs:125`), or a fire key or a motion is handled in the frame
that leaves the FPS mode (`fire.rs:266`, `cursor.rs:183`). `missed` are actions whose release nobody
heard. `raced` is a cast that began while the task of a cancelled one was still to
free the direction pads (`cast_spell.rs:765`). A pointer that is put down again, or
lifted by anybody, is no stray any more.

Abstractions: Move messages and positions are left out, and with them when a gesture may end (the initial
durations). A multiple tap has two items. An action is of
one kind, and a synchronous tap is a kind of its own. A device connects
only when none is connected: with overlapping main connections the mask is told
"connect" twice, which changes nothing here. `LoadAndActivate` and the rebuild it
triggers, which Bevy runs at the end of the system, are one step.

### MappingFiles

The handlers of `web/mapping.rs`, each a walk through the steps of `pc`: `check`
(the `exists` tests), `validate`, `get`, `load` (a command to the main thread and its
answer), `read`, `create` (`File::create`, which truncates), `write`, `move`, `remove`, and `set`, `snapshot`,
`truncate`, `flush` (`LocalConfig::set_...` and `save`). The web server runs its
handlers on several threads, so any two steps of different requests interleave.

| state | code |
|---|---|
| `files` | the directory of mappings. A content is who wrote it; `Empty` and `Broken` are what a truncation and two overlapping writes leave |
| `at`, `data` | the file a handler has open, which follows a rename and is lost on a removal, and what it will write |
| `active`, `loaded` | `ActiveMappingConfig`: its name and what was loaded |
| `config`, `saved`, `snap` | `CONFIG`, `config.json`, and the clone a `save` in progress will write |
| `queue` | `m_rx`, as far as these handlers fill it |
| `stale`, `raced`, `mixed` | history: a change of the active file that nobody will load, two activations stored in the other order or one never stored, two snapshots saved in the other order |

A handler is a future that axum drops at an await when its client disconnects. When the answer
is there and the handler has not seen it, that is `ClientGone`: the step after the answer, and all that follow,
are never taken. An activation is then never stored (`mapping.rs:69`; `raced`), and an update or a rename has
changed the active file and never asks for the reload (`mapping.rs:450`, `:300`; `stale`). The
faults last until the next activation, or the next start.

`Restart` stops the program between any two steps, so also in the middle of a write, and starts it:
`main` loads and saves the configuration, `init` loads the active mapping or writes
`default.json` anew. It also stands for the panic of the main thread when a client
leaves while its command is queued, before the answer (`mask_command.rs:295-321` unwrap the send). What is lost
is the process, not the machine: a write that returned is on disk.
The start is one step, since no request is served before it. The two
`exists` tests of a renaming handler are one step.

### MaskWindow

`handle_mask_command` with the window, and the senders of the commands that touch it: main
control connections, the tasks of the video connections and of `cr_msg_handler`
(`Movers`), and web requests (`Clients`). `platform` chooses the `cfg(target_os)`
branches in `Init`; both are checked.

| state | code |
|---|---|
| `m_rx`, `stage` | the mask channel; where each sender stands, `waiting` while it awaits its oneshot, `gone` when its handler was dropped |
| `connected`, `entity`, `pending` | the three `Local`s of the system |
| `windows`, `spawns`, `despawns` | the primary windows and Bevy's deferred commands; `EndFrame` applies them when the channel is empty |
| `mask_size` | `MaskSize` |
| `crashed` | the panic of `mask_command.rs:222` when the client has gone |
| `leaked`, `told`, `blind` | history: windows whose entity a second connect replaced; a WinMove has been answered with a size since the connect, and before the window was there |

A frame is several steps: each command is one, and `EndFrame` needs an empty channel, as
`try_iter` runs until it is. Senders may therefore add commands within a frame, as
they do. Left out: positions, the level as a value, and a user who closes the window.

### ControlStream

The way of a touch from its sender to the devices.

| state | code |
|---|---|
| `held` | the pointers the senders have put down |
| `queue`, `lagged` | what each receiver of the broadcast channel has yet to take (capacity `Cap`, 1024 once tokio has rounded up the 1000 of `main.rs`), and whether its next `recv` returns `Lagged` |
| `phase` | a connection: not there, subscribed (the command loop does so before it accepts), open, its device gone, ended |
| `hand` | the message `control_writer` works on: it reads the size in the registry, and if there is none the last rotation, in two steps between which either can change |
| `device` | the pointers down on the device |
| `known`, `watch` | `device_size` in the registry; the watch channel from `control_reader` to `control_writer` |
| `busy`, `late` | the rotation `control_reader` stores and then shares; the tasks the video stream has spawned to store a size |
| `lost`, `told`, `raced` | history: pointers whose last touch the connection did not get; the size the device reported last; it did so before the one before was stored |

An i32 is a number that wraps at `Word`, a u16 one that is cut at `Half`: the product of a
coordinate and a size wraps as in a release build, the division truncates, and the size is
cast. Width and height are handled alike, together and in the same statements; the model
has one dimension. Messages other than touches are one value. Assumed of the device: the sizes it
reports are positive and below 2^31.

## 4. Runs

"pass" runs, with TLC's number of distinct states:

| run | instance | shows |
|---|---|---|
| `sessions` | 2 devices, 2 requests, 1 WebSocket, fair; 91 thousand | `ReservationExclusive`, `KillHandleOwned`, `HandleFresh`, `RegistryBacked`, `ChildWatched`, `ReservationReleased`, `KilledChildReaped` |
| `video` | 2 connections, `VCap` 2, `RCap` 7, 1 script, fair; 435 thousand | `BuffersBounded`, `HudEndsWithStream`, `StreamCloses` |
| `server` | 2 scids, at most 1 queued command and 3 sockets dialed, scids symmetric; 1.2 million | `SubStoppable`, `AnswerOwed`, `ImplementsProtocol` |
| `composition` | 1 device, 2 requests; 365 thousand | `ImplementsWeb`, `ImplementsServer` |
| `composition_live` | 1 device, 1 request, 1 WebSocket, fair; 10 thousand | `CancelledCloses` |
| `touches` | 16 input actions of every kind, 13 mapping files, 4 reloads, 2 background tasks, fair; 107 thousand | `DownOwned`, `EntryHeld`, `BlockOwned`, `CastBlocksPads`, `ScreenClears`, `ModesMeet` |
| `mapping_files` | 2 requests of any kind, 2 names, 1 restart, fair; 103 thousand | `ActiveFresh`, `ConfigFollows`, `SavedFollows`, `RestartKeeps`, `Answered` |
| `mask_window` | 2 main connections, 1 mover, 1 client, 2 sizes, 2 windows, fair; 155 thousand | `WindowFollows`, `ShownAsTold`, `AllAnswered`, `ImplementsProtocol` |
| `control_stream` | 1 connection, 2 pointers, 2 sizes, 2 reports, `Cap` 2, an i32 of 6 bits, a u16 of 3, pointers symmetric; 1.9 million | `DeviceFollows`, `ScaledRight` |

Each run but the two of `Session` also checks the type invariant of its module; those of the
parts of `Session` follow from the refinements.

Bounds and why they are enough. Two requests for two devices give two handlers
competing for a device, or one that decontrols or reconnects what the other controls, with
a second device to confuse it with; scids never come back, so longer runs repeat these
conflicts. The safety properties were also checked with three requests (1.8 million
states), and are proved for any number. `VCap` 2 lets the channel be empty, partly full and full with two
senders and the main thread; `RCap` 7 is exactly `BufferBound` there, and
`BuffersBounded` fails with a bound of one less. The modules of the two
parts of `Session` have no bound of their own. The constraint `Narrow` of `server` limits
how many commands are *queued at once* and how many sockets are dialed, not how many commands are sent, and the loop can
lag behind every other party all the same; `composition` has no bound on its queue. The constraint `Narrow` of `composition` lets one session at
most have video and keeps reconnects apart from video sessions. Deadlock checking
is off wherever all requests of the
instance can be finished, in `video` because of the real deadlock below, in `touches`
because a user may stop pressing keys, and in `mask_window` because a panic stops the
program.

In `touches` a mapping file holds the two or three kinds that can meet, with the
pointers the frontend gives them by default and one that differs: no state of
one kind is read by another except through pointers, modes, `block` and
the cast, and the thirteen files pair those, one of them two FPS keys with different pointers. Two background tasks can overlap on one
pointer, and a third would be a repetition of the two; a key that would spawn one more waits
(bound `Slots`). In `mapping_files` two requests give every race of two handlers on the same and
on different names; three names, and three requests with fewer kinds of handlers, were checked
aside and hold too. `Windows` 2 allows the overlap of two connects that leaks a
window; a third window would leak in the same way.

In `control_stream` connections share nothing but the messages sent, so one shows all; a
channel of two overflows while its receiver holds a third message, and the two pointers
overwrite each other's touches. Two reports can overtake each other. The middle size fits
both widths, the large one neither the product nor the u16.

"violation" runs. Each checks one statement of the code's comments or messages
and ends in a counterexample:

| run | statement | what happens |
|---|---|---|
| `watcher_kills` | `web/device.rs:333`, a child is killed on a kill signal | the watcher of an old child ends after a new child of the device is tracked and removes its sender; the drop kills the new child |
| `script_deadlock` | `scrcpy/connection.rs:505`, a full channel is an expected state | a script starts while the channel is full: the main thread waits for itself |
| `blocked_loop` | `scrcpy/controller.rs:143`, the loop receives commands to accept and shut down | adb does not start, nobody dials in, accept waits for ever and the shutdown behind it is not received |

Three more divergences are behaviours of the models that no run of their own shows:

- A handler delayed between the first check and the reservation finds the reservation
  dropped and the device registered; it starts a second child and replaces the first
  one's kill sender, although `web/device.rs:151` says the window is closed.
  A device still has one registry entry (`OneEntryPerDevice`) and its child can be killed (`KillHandleOwned`).
- A sub session with the video flag dials its video socket first, which is taken for
  its control connection (`web/device.rs:214`, `assets/locales/en-US.json:151`).
- A main shutdown that arrives between the two connect commands finds no control
  connection and leaves the video connection running (`scrcpy/controller.rs:297`).

Every property of a passing run has a mutant: a variant of one definition, next to
it in its module and marked "(variant)", which breaks the property.

## 5. Fairness

`DeviceSession`: weak fairness of each handler, watcher, removal task and cleanup:
the tokio runtime polls every ready task, and no such step waits for an outside
event. Requests, failures and exits of children are not fair.

`VideoPipe`: weak fairness of the main thread, which Bevy updates continuously;
strong fairness of the connections' own steps, since a blocked sender of a
crossbeam channel is woken when there is room and does not lose every race for
ever. Packets, closes and scripts are not fair.

`Session`: the same for handlers, loop, connection tasks and mask; and devices dial in
while their child runs, which makes the counterexample of `blocked_loop` stronger:
the loop is stuck although every device does its part.

`Touches`: the runtime polls the background tasks, the main thread ends its frames, and
`handle_direction_pad` runs in each of them. Keys, reloads and devices are not fair:
`ScreenClears` only speaks of what happens once they stop.

`MappingFiles`: weak fairness of each handler and of each answer of the main thread, which takes the queue
in order. Requests, clients that leave and restarts are not fair.

`MaskWindow`: weak fairness of the frame, since every sender calls `wakeup_bevy` after its send. No sender is fair.

`ControlStream` has safety properties only and assumes none.

## 6. Proofs

Every module but the parts of `Touches` has a `...Proofs` module; the theorems hold for every value of the constants.
The assumptions are those named in the modules: `None` is no request, no stream, no window, no size and no message;
capacities and widths are naturals, the channels of messages have room for one, the sizes a device reports fit an i32, the
video connections and the windows are finitely many, and the kinds of senders to the mask are disjoint.
`ConnectionServer` needs none.

`DeviceSession`. The type invariant is not inductive alone: `Base` adds `LifeOrder`,
which orders the lives of a request's parts: its watcher exists only once the
handler has answered, its guard's removal task only once the handler has left, its
child only from the spawn on. On top of `Base`:

- `EveryChildKillable` and `NoStaleHandle` from one invariant `Handles`, which
  joins `KillHandleOwned` and `HandleFresh`: neither is inductive without the
  other, since the sender a watcher removes may be another child's.
- `OneReservationPerDevice`: that `connecting` equals the holders' devices and that the holders
  differ in their devices are needed together, so that a removal frees nobody
  else's reservation.
- `OneEntryPerDevice` from the dedup of `add_device` alone, whatever the checks let
  through.
- `EveryEntryBacked` and `EveryChildWatched`, one step per action.

`VideoPipe`. `Base` is the type invariant with `Held`: where the main thread stands
in a frame tells whether it holds a frame to show and whether the image still has
the buffer that frame replaces.
`MemoryBounded` counts the owners of buffers: `DataAppend` and `DataTail` say how the
channel's share changes, `WorkingStep` the connections'. `BuffersBounded` is
inductive: only `Decode` can create a buffer, and only when the recycle channel is
empty, when the others can own less than the bound. `RecyclingNeverBlocks`, that the recycle channel always has room for
what its senders hold (`RecycleNeverBlocks`),
follows for `RCap >= BufferBound`, that is `VCap` + 3 + the number of connections
alive at once: with 8 and 16, up to 5. `HudCleared` uses `Announced`: the
diagnostics and every queued `StreamInfo` belong to a stream being read or whose
`Close` is queued behind.

`Touches` (`TouchesProofs`), for any mapping files, actions, switches and number of tasks;
the assumptions are those of `MappingState`: the left click touches pointer 0, and pad casts
have no OnPress mode.

- `PointersOwned`. Whoever lifts a pointer is a task, a cast, an entry, a held key or the FPS
  mode (`Owned`). `DownKept` states once what a step that sends touches has to show: what it puts down has an owner
  or is recorded as a stray, and what had one keeps one unless it is lifted or recorded. The proof is inductive with the
  shapes of the tasks' touches, in which every Down has its Up, and with `FpsOnce`: once an FPS key
  has turned the mode on, no other is handled in that frame, so no other pointer takes its place.
- `BlocksOwned` and `CastsBlock` need each other (`BlockInv`), with the fact that no task is about to free the
  pads during a blocking cast that is not `raced`: only a cancellation adds such a task, and it ends the cast.
- `EntriesHeld` and `ModesMeetOnce` need one step per action only.

`MappingFiles` (`MappingFilesProofs`), for any requests, names and number of restarts.
`ConfigIsActive` needs that a handler about to store has just activated its own
target unless another activation came in between or a client left (`raced`); `ConfigIsSaved` the same of
snapshots (`mixed`); `ActiveIsFresh` that the step that changes the active file is one of a handler
that will load it (`Reloading`), or `stale`, and that a handler which leaves that state without the load is a fault.
`RestartIsNoChange` follows from these three, also for a program stopped in the middle of its requests, but for the
three stops `Underway` names: between the change of the active file and its reload, an activation and its setter,
a setter and its save.
`CommandsAwaited`, that a queued command is one its handler waits for and its only one, is what `Answered` needs of safety.

`ConnectionServer` (`ConnectionServerProofs`), for any sessions.

- `EverySubStoppable` from `Tokens`: a connect command is in the queue at most once and only
  while its connection is `queued` (`CommandsOnce`), so the loop never accepts for a connection
  that lives; and the token of the connection being accepted stays in the map (`AcceptHolds`),
  because only the loop, which then waits, adds and removes tokens. Tokens are keyed by socket
  id: a sub connection's is its own, and no main session that comes or goes replaces it. Of main
  connections the same is false, see the divergences above.
- `OneAnswerOwed` and `MaskIsBacked` from `Told`: a main connection waits exactly while one
  change of its own is queued, every queued change is of a main connection (`ChangesOnce`) and is the
  one its sender waits for (`Fits`).
  The lemmas `Shifted` and what follows it say what taking the head of a queue leaves.
- `ProtocolKept`: every step is a step of `MaskProtocol` or a stutter. The step that matters is the
  mask's answer: by `Fits` it finds its connection in the phase the change was sent from. The end of
  a `select!` and the answer to its change are the only ways out of `open` and `leaving`.

`Session` (`SessionProofs`) implements its two parts: every step of it is a step or a stutter of each.

- `WebImplemented` transfers the theorems about `DeviceSession` to the composition. The web
  server's own steps are its steps by definition; what has to be shown is that `AcceptFails`
  removes the entry of a session that `DeviceSession` allows to disappear, so that its handler has
  sent a connect command by then.
- `ServerImplemented` maps the registry and the child processes to what `ConnectionServer`
  leaves free: a command is sent at most once and by a registered session, the video command
  before the control command, and a device dials after a command of its session, the video socket first.
- Both rest on `Linked`, which relates the two parts: a connection is not `none` only if its
  handler has reached the sending, a child only runs once a command of its session is out, and a socket
  is only dialed by a child (`Order`); whatever is queued or accepted has been issued (`Issued`).
  `CommandsBeforeSockets` states the order as a theorem of its own.

`MaskWindow` (`MaskWindowProofs`), for any senders, sizes, number of windows and both platforms.
On Linux, the windows that will be there after the frame are the remembered one and the leaked
ones (`Linux`); a window is only despawned in the frame of a connect if that connect comes later, which is
why a remembered window that was not spawned in this frame is the only one, and `single_mut` finds
it (`InvMoveUnseen`). Elsewhere, one window for ever, and a pending resize implies a connected
mask and, once resized, the size it was asked for (`Elsewhere`). `Room`: the bound on windows never stops a
queued connect.

`NobodyForgotten` (`Served`): those who wait for the mask, or have left without their answer, are just those with a
command in the channel or a resize pending, and each has one. It is what liveness needs of safety: `AllAnswered` fails only if
the frame stops taking commands. On it rests `ProtocolKept`, with `Owed` (`ChangesOwed`): a change in the channel is the one its sender
waits for. So when the head of the channel is a change, its answer moves just that connection;
everything else in the channel, and a resize that is answered frames later, is of senders that are no connection (`ProtocolOther`). `ShownIsBacked` follows from the protocol alone: only a connection whose last change was its
connect keeps the mask shown, and the first disconnect after that turns it off.

`ControlStream` (`ControlStreamProofs`), for any connections, pointers, sizes, widths and capacity.

- `DevicesFollow` is inductive as it stands, with the types and `Handed` (nothing is in hand without a
  connection). Its lemmas say what each step does to `WillBe`, what a pointer will be once all that
  waits is written: `WillBeSent`, the only one where something is lost, `WillBeTaken`, `WillBeScaled`,
  `WillBeWritten`.
- `TouchesScaled` from `Sized`: unless a report has overtaken another, what is outstanding is the last
  one alone, and once nothing is, the registry has it. The rest is arithmetic of the widths (`WrapSmall`,
  `DivBelow`, `NarrowSmall`), proved for every width.

Only model-checked: every liveness property (liveness under fairness is out of the
prover's reach). Only proved, by no run: `OneEntryPerDevice`, `MaskIsBacked`,
`NobodyForgotten`, `ChangesOwed`, `ShownIsBacked`, `CommandsAwaited`,
`CommandsBeforeSockets` and `RecyclingNeverBlocks`. That the theorems about `DeviceSession` and
`ConnectionServer` hold in `Session` is what the two refinements say; they are not restated there.

## 7. Not modelled, and why

- Stateless requests of `web/device.rs` (screenshot, key, pairing, display power):
  one adb call or one broadcast each.
- Content of what flows: packets, pixels; the device name in the registry. The decoder is ffmpeg.
- The statistics of the HUD. In the model a frame held in `last_data_msg` is shown after
  the `Close` of the same batch; the code then counts it after resetting the
  statistics (`mask/video.rs:74`, `:127`).
- A `Close` names no stream, so it clears whatever stream the HUD describes
  (`mask/video.rs:68`): `HudEndsWithStream` says that the HUD does not outlive a
  stream, not that a live stream is always described.
- Positions and Move messages of the touch mappings. The background task of a direction pad
  goes on to send Moves after a cast has lifted its pointer (`direction_pad.rs:201`), and fire,
  observation and cast triggers send them each frame.
- `auto_repeat.rs` and the scripts: the touches a script sends are its own; their repeats end
  in `clear_repeats_system`. The keys raw input forwards, with their repeat counts.
- The serialisation of control messages and the truncation of their text (`control_msg.rs`); scroll events,
  which `control_writer` scales as it does touches.
- A socket taken for another session's: `accept` hands out the backlog in order, and the model does so too.
  Nothing in the code promises more; every property of `ConnectionServer` is checked with sockets of the wrong session and kind.
- A user who closes the mask's window, and the migrations and value checks of `LocalConfig::load`.
- The adb client, labels, start-up, static files and the frontend keep no state of
  interest; ffmpeg is vendored.
