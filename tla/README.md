# TLA+ models of upmpdcli's core

These modules model the parts of upmpdcli that keep MPD and the UPnP/OpenHome view
of it in step:
- the MPD client `MPDCli` (`src/src/mpdcli.cxx`);
- the OpenHome Receiver (`src/src/ohreceiver.cxx`) and Volume
  (`src/src/ohvolume.cxx`, `src/upmpd/ohvolume.cxx`) services;
- the network fetch that feeds a buffer exchange
  (`src/src/mediaserver/cdplugins/netfetch.cpp`).

Each module is checked with TLC. `PROJECT.json` lists the runs, the mutants, the map
from every definition to the source lines it translates, the findings and the hazards.

## The system and how its parts interact

- **MPDCli** owns the one connection to MPD (`m_conn`).
  - Every command goes through `RETRY_CMD`. If it fails, `showError()` looks at the
    error. On `MPD_ERROR_CLOSED` it reopens the connection and the command is sent
    once more.
  - `updStatus()` is called by the event loop and after most commands. It reopens a
    missing connection and refreshes the status cache `m_stat`: queue version,
    volume, play state.
  - `insert()` and `insertAfterId()` keep a fast-path cache. `m_lastinsertid`,
    `m_lastinsertpos` and `m_lastinsertqvers` let a chain of inserts skip listing the
    queue.
  - `setVolume()` emulates mute by remembering `m_premutevolume`.
  - The transport calls (`play`, `stop`, `pause`, `seek`, `next`, the flags) are
    single `RETRY_CMD`s, `play` and `seek` with an `updStatus()`. `updStatus()`
    runs the `onplay`/`onpause`/`onstop` commands when the play state it reads
    differs from `m_stat.state`.
  - `saveState()` records `m_stat` and the queue. `restoreState()` clears the queue,
    reinserts every song, sets the flags and the volume, then plays, seeks and
    pauses as the saved state requires.
- **OHReceiver** runs a relay process, `sc2mpd`, for a Songcast sender.
  - In MPD mode it puts `http://localhost:<port>/Songcast.wav` into MPD's queue and
    plays it through MPDCli.
  - In ALSA mode the relay plays to the sound card directly.
  - On every publication pass, `makestate()` reconciles the session with MPD's state
    or with the relay's exit.
- **OHVolume** maps the OpenHome volume actions onto `MPDCli::setVolume`.
  - Its older version (`src/upmpd`) shows the event diffing every service uses.
    `getEventData()` diffs `makestate()` against `m_state`, the map last published.
  - The current version (`src/src`) also sends `Volume` at once after each volume
    action with `notifyEvent()`, which does not touch `m_state`.
- **NetFetch::databufToQ** is the producer of a `BufXChange<ABuffer*>`. For each
  chunk it reuses a recycled buffer, or allocates one, and `put()`s it for the
  consumer.

## Modules

| module | models | state | actions |
|---|---|---|---|
| `MpdConn` | connection and retry, `openconn`/`showError`/`RETRY_CMD`/`updStatus` reconnect | pure operators | `AllRetryPaths` (the ways through `RETRY_CMD`, with the breaks each takes), `RetryPaths` (those within a budget of breaks), `UpdStatusOutcomes` |
| `MPDCliQueue` | `insert`, `insertAfterId`, `deleteId`, `updStatus` on a shared MPD | MPD's queue, `qvers` and next id; `m_conn`, `m_stat.qvers`, `m_lastinsert*`; the worker's pc | one action per MPD round trip (`InsAdd`, `InsTag`, `InsStatus`, `IaiStatus`, `IaiScan`, `Del`), `Poll`, callers, and the environment (`Drop`, `ServerDown/Up`, `ExtAdd/ExtDelete`) |
| `OHReceiver` | the receiver service | `m_uri`, `m_metadata`, `m_active`, `m_cmd`, the relay processes, MPD's queue and state, `m_stat.state`, the state file | `Play`, `Stop`, `SetSender`, `Deactivate`, `Publish` (makestate), `RelayExit`, `MpdChange`, `Restart` |
| `ReceiverAbstract` | what the receiver promises: Stopped/Playing, only with a sender, stopped by a new sender | sender, transport | `Start`, `Halt`, `Retarget` |
| `MPDCliVolume` | `setVolume`/`getVolume`, the volume arbitration of `updStatus`, OHVolume's volume actions | `m_conn`, MPD's mixer, the external mixer, `m_stat.volume`, `m_cachedvolume`, `m_premutevolume` | `OHSetVolume`, `VolumeInc`, `VolumeDec`, `SetMute`, `Poll`, `OtherClient`, `MixerLost` |
| `OHVolumeService` | both OHVolume versions over `MPDCliVolume` (by `INSTANCE`): `makestate`/`getEventData` diffing, the current version's `notifyEvent`, and delivery | `MPDCliVolume`'s variables, `m_state`, subscribers, each subscriber's view | `SetVolume`, `VolumeInc`, `VolumeDec`, `SetMute`, `Poll`, `OtherClient`, `MixerLost`, `EventPass` (diff), `Subscribe` (all=true), `Unsubscribe` |
| `MPDCliPlayer` | the transport calls, `updStatus`'s play state and hooks, `saveState`/`restoreState` | MPD's queue, play state, position, elapsed time and flags; `m_conn`, `m_stat`; the hooks' effect (`amp`); the worker's pc and the snapshot | `Play`, `Stop`, `Pause`, `TogglePause`, `Seek`, `Next_`, `Previous`, `SetFlag`, `DeletePosRange`, `CurPos`, `Save`, `Restore` and one step per call inside it (`RInsert`, `RFlag`, `RVol`, `RPlay`, `RSeek`, `RPause`, `RVol2`), `Poll`, and the environment (`OtherClient`, `Drop`, `ServerDown/Up`) |
| `NetFetchQueue` | `databufToQ`, and `BufXChange` taken from the spec | buffers and their sizes, the exchange and recycle queues, producer pc | `DataBufToQ`, `Put`, `Take`, `Recycle`, `Terminate` |

`MCQueue`, `MCReceiver`, `MCVolume`, `MCVolumeService`, `MCPlayer` and `MCNetFetch`
set the constants for TLC.

### MPDCliQueue in more detail

- **Round trips and the environment.** The worker is a program counter, and one step
  is one round trip: one `RETRY_CMD` or one `updStatus`. Between two steps, the
  connection may break, MPD may go down and come back, and another MPD client may add
  or delete songs.
- **The connection.** It is `null`, `live`, `dead` (closed by the server) or `err`.
  `err` is a command refused with `MPD_ERROR_SERVER`. The code never calls
  `mpd_connection_clear_error`, so every later command fails until `updStatus`
  reopens.
- **Breaks inside a command.** `Lossy` lets a connection break while a command
  is under way, at most `MaxDrops` times in all. A break may fall after MPD
  executed the command and before its answer was read. `RETRY_CMD` cannot tell
  this apart from an earlier break, so it resends the command. The reopen in
  `showError` may fail too, which leaves `m_conn` null. `AllRetryPaths` lists
  every way through, each with the number of breaks it takes.
- **Tags.** With `HaveAddTagId`, `insert` sends the song's tags (`InsTag`). MPD
  refuses `addtagid` for a song that is not remote, which leaves the
  connection in error for `insert`'s `updStatus`.
- **Stale arguments.** `StaleArgs` lets callers pass ids and positions from an older
  view of the queue, as the playlist services do.

### OHReceiver in more detail

- **One action is one step.** Each UPnP action and each publication pass is atomic.
  The device serialises them, and inside `iPlay` the 15 s wait for `CONNECTED` is a
  blocking call.
- **MPD calls.** MPDCli calls may fail (`MpdFails`), and their inside is checked by
  `MPDCliQueue`. The insert of the receiver's entry (`insertAfterId(m_httpuri,
  0)`) takes its outcomes from `MpdConn` (`AddOutcomes`). A lost answer can
  make it add the entry twice, or return -1 after adding it. `iPlay` then goes
  to `iStop`, which deletes every receiver entry `urlMap()` shows.
- **`m_cmd`.** `m_cmd` is `NoCmd` (null), `IdleCmd` (an `ExecCmd` without a child),
  or the pid of its child.
- **Relay processes.** A process is `unborn`, `running`, `exited` (not yet waited
  for) or `reaped`.
- **`Stop`.** The UPnP Stop action calls `iStop()` and then selects the Playlist
  source, which calls `setActive(false)` and a second `iStop()`. The model uses one
  `iStop` whose deletes may each fail, which covers both sweeps.
- **`Publish(read)`.** `read` says whether the status refresh before `makestate()`
  succeeded. When it did not, `makestate` judges MPD by the cached `m_stat.state`.
- **State file and restart.** `conf` is the receiver state file. `SetSender`
  writes the settings to it when they change (`WriteSenderToConf`), if a state
  file is configured (`HaveConf`). There are two separate `set()` calls, uri
  then metadata. With `ConfFails` either may fail, and the code only logs it.
  - `Restart` is upmpdcli exiting and being started again. `ExecCmd`'s destructor
    reaps the relay, and MPD keeps its queue, which may include the receiver's
    entry.
  - The new `OHReceiver` is inactive and has no relay. It reads the sender back
    from the file (`SenderFromConf`).

### OHVolumeService in more detail

- **Composition.** The volume actions are `MPDCliVolume`'s, taken by `INSTANCE`, so
  the published Volume is `getvolume()` over the real arbitration of `updStatus`.
- **`Immediate`.** `TRUE` selects the current service: each volume action also sets
  every subscriber's Volume to the new `getvolume()`, and `m_state` is left alone.
- **Event passes.** `EventPass` is the device loop's `getEventData(false)`; the
  loop and the subscription machinery are not in the repository and follow the
  spec.
- **The device.** Both versions reach MPDCli through a device class that is not
  in the repository: `UpMpd` for the current one, and `UpMpdRenderCtl`
  (`setvolume_i`, `getvolume_i`, `setmute_i`) for the older one. From the spec,
  both call `MPDCli::setVolume` and `getVolume`. `DevVolume` names that read.

### MPDCliVolume in more detail

- **The connection.** `conn` is `m_conn`: `live`, `err` or `null`.
  - MPD refuses `set_volume` while it has no usable mixer (`mpdVol = -1`). The
    error stays on the connection, so every later volume command fails.
  - With `MpdFails`, a command's connection may break while MPD cannot be
    reached. The reopen then fails, and `m_conn` is null.
  - `Poll` (`updStatus`) reopens either one. From `err` it reads nothing that
    round; from `null` it reopens and reads.
- **Mute.** A failed mute still sets `m_premutevolume`, and a failed unmute still
  clears it and stores the restored value in `m_stat.volume`, as the code
  does.

### MPDCliPlayer in more detail

- **MPD.** MPD's answer to each command (`MpdPlay`, `MpdSeek`, `MpdAdd`, ...) is
  an operator giving its new state and whether MPD accepts it. A refused command
  leaves the connection in error, as in `MPDCliQueue`.
- **`restoreState`.** Its pc has one step per MPDCli call, in the code's order, so
  a dropped connection, MPD stopping or another client can come between them.
  `mpd_run_set_volume(m_conn, ...)` is called without `ok()`. With `m_conn` null
  the model goes to `crashed`.
- **Current and next song.** After a status read with a current song,
  `updStatus` runs `statSong` on it and on the song at `songpos + 1`. Past the
  end of the queue MPD answers `playlistinfo` with an empty list, so the
  connection is left as it was. These look-ups change no state the model keeps.
- **`mapSong`.** `saveState` records the queue through `getQueueData`, which
  maps every song with `mapSong` (lines 425-442). A URI that does not look like
  a transport URI (`^[[:alpha:]]+://.+`) is taken for a local file and made
  into `http://127.0.0.1/<uri>` (`MapSong`, `FakeUrl`). `restoreState`
  re-inserts the recorded URI. `LocalSongs` says which songs are local files.
  `orig` is a history variable: MPD's queue when the last `saveState`
  succeeded.
- **Volume in `restoreState`.** With internal volume control,
  `mpd_run_set_volume(m_conn, ...)` is sent without `RETRY_CMD`. MPD without a
  mixer (`Mixer = FALSE`) refuses it. The error stays on the connection, so
  `play`, `seek` and `pause` fail after it.
- **Constructor.** `Init` is the constructor, lines 41-67. `StartUp` says
  whether MPD may be up or down when MPDCli is built.
  - MPD up: the connection opens, the configuration is read (`configured`), and
    `updStatus` runs. Its hook sees `MPDS_UNK`.
  - MPD down: `openconn` fails and the constructor returns without reading the
    hooks or `externalvolumecontrol`. The spec leaves it to the callers to see
    the missing connection (`isConnected()`) and build a new MPDCli. The runs
    build MPDCli with MPD up.
- **Hooks.** `amp` is what the `onplay`/`onpause`/`onstop` commands drive (an
  amplifier, typically): on after `onplay`, off after the others, off at start.
- **Abstractions.** Elapsed time does not advance by itself. Two of the four flags
  are used, since the four are set by identical calls. The tags that `insert()`
  sends, and the volume itself, are left out (`MPDCliVolume` has the volume).
- **History variables.** `touched` says whether another client, a drop or a
  restart came after the last `saveState`. `res` is what the last `saveState`
  (`saved`/`unsaved`) or `restoreState` (`true`/`false`) returned.

## Runs

Passing runs:

| run | checks | shows |
|---|---|---|
| `queue_reliable` | `FastPathSound` | With no breaks and no other client (MPD may still refuse tags), `insertAfterId`'s fast path always puts the song right after the id it was given. |
| `queue_faults` | `TypeOK`, `StatusCatchesUp` | With a break or lost answer, an MPD restart, another MPD client and stale arguments, the periodic `updStatus` always gets back to a live connection and a current `qvers`. |
| `receiver` | `NoOrphanRelay`, `StopReconciled`, `ImplementsAbstract` | In both modes (`m_pm` is chosen at start), with MPD failures, duplicated inserts, failing state-file writes, relay exits, other clients and one restart of upmpdcli: no relay outlives its session, an external stop tears an MPD-mode session down, and the service refines `ReceiverAbstract`. |
| `volume_events` | `TypeOK`, `PublishedVolumeInRange`, `ViewsConverge` | The older OHVolume, with out-of-range inputs, refused or lost commands, another client and a disappearing mixer: Volume stays in 0..100, and a subscriber that may lapse and resubscribe eventually settles on the device's volume. |
| `player` | `TypeOK`, `RestoreReproduces`, `AmpFollowsMpd` | Among transport calls, another client, a dropped connection and an MPD restart, with internal volume control on an MPD with a mixer and URL songs: a `restoreState` that returns true after an undisturbed `saveState` reproduces queue, flags, play state, position and elapsed time; and, unless the process crashed, the hook last run always ends up matching MPD's play state. Deadlock is not checked: the crash of `restore_crash` really stops the process. |
| `netfetch` | `ChunksFit` | A recycled buffer never receives a chunk larger than itself. |

Violation runs. Each one is a finding in `PROJECT.json`:

| run | property | what the code does |
|---|---|---|
| `retry_duplicates` | `OneSongPerInsert` | `RETRY_CMD` resends an add whose answer was lost, so one `insert` adds the song twice. |
| `fastpath_race` | `FastPathSound` | Another client adds a song at the head between `insert()`'s add and its `updStatus` (line 726). The recorded `qvers` covers that edit, so the next `insertAfterId(lastid)` takes the fast path and puts the new song before `lastid`. |
| `receiver_relay_gone` | `RelayGoneEventuallyStopped` | In ALSA mode an exited relay is replaced by a fresh non-null `ExecCmd`, so "Playing" is published for ever. |
| `mute_roundtrip` | `MuteRoundTrip` | Mute at 100, then set 42: the volume is 42 and `m_premutevolume` is still 100. The next mute is a no-op, and the unmute restores 100, not the 42 heard before it. |
| `volume_event_stale` | `ViewsConverge` | The current OHVolume. A subscriber hears VolumeDec's 99 through `notifyEvent`; `m_state` still says 100. Unmuting and another client bring the volume back to 100, so the next diff finds nothing, and the subscriber keeps 99. |
| `restore_crash` | `RestoreNoNullConn` | MPD stops while `restoreState` sets the flags. The flag's `RETRY_CMD` fails to reopen and leaves `m_conn` null, and the unchecked `mpd_run_set_volume(m_conn, ...)` at line 380 dereferences it. |

More disagreements came up while modelling. They are listed as hazards but have
no run of their own, because the number of runs is kept to twelve:
- `restoreState` sends `mpd_run_set_volume` without `RETRY_CMD` and ignores its
  result (`mpdcli.cxx:379`). An MPD without a mixer refuses it. The error stays
  on the connection, so `play` fails and `restoreState` returns true with MPD
  stopped. `player.cfg` with `Mixer = FALSE`, `MaxDrops = 0` and `MaxEnv = 0`
  finds `RestoreReproduces` violated.
- `saveState` records songs through `mapSong`, which makes a local file path
  into `http://127.0.0.1/<path>` (`mpdcli.cxx:438`). `restoreState` re-inserts
  that URL, so a restored queue of local files holds URLs MPD cannot play.
  `player.cfg` with `LocalSongs = {s1}`, `MaxDrops = 0` and `MaxEnv = 0` finds
  `RestoreReproduces` violated.
- A deleteId of an id that is no longer in the queue (a caller's stale view, with
  no network failure) is refused and leaves the connection in error. `updStatus`
  then fails, and `insertAfterId`, which ignores that, compares against a stale
  `qvers` and inserts at a wrong place (`mpdcli.cxx:740`). `queue_reliable.cfg`
  with `StaleArgs = TRUE` finds `FastPathSound` violated.
- A connection lost during `restoreState` (MPD's idle timeout is enough) makes
  `seek()`'s `updStatus()` reopen and return false (`mpdcli.cxx:387`). The seek is
  skipped and `restoreState` still returns true. With `Drop` not counted in
  `touched`, `player` finds `RestoreReproduces` violated with elapsed time 0
  instead of the saved 30.
- A new subscription's `getEventData(all)` overwrites `m_state`
  (`src/upmpd/ohvolume.cxx:101`), so an existing subscriber never hears the change
  it folded in. `volume_events.cfg` with `Subscribers = {c1, c2}`,
  `MpdFails = FALSE` and `MaxCalls = 2` finds `ViewsConverge` violated.
- `updStatus` takes `atoi()` of the external volume helper's output without
  clamping (`mpdcli.cxx:208`). With `External = TRUE` and a helper printing raw
  mixer values (`MCHelperRaw`), `PublishedVolumeInRange` finds this.

Every property of a passing run has a mutant in `PROJECT.json`: a plausible bug in
the mapped code that TLC catches with that run's configuration.

## Bounds

- **Queue.**
  - Two songs at the start, at most 4 ids, and 2 to 4 calls.
  - One or two broken connections.
  - These are enough for a call to be interrupted at each of its round trips, for
    a retry after a lost answer, and for an insert followed by an `insertAfterId`
    on the fast path.
  - `queue_faults` allows one break and two calls, with another client. Larger
    bounds exceed the 5-minute budget, and most of that space is the
    external client's edits.
- **Receiver.** Three relay pids, four actions and one restart: enough for play,
  a failed replay, relay exit and another play, and for a restart during any of
  them.
- **Volume.**
  - Levels 0 and 100, and inputs -5, 42 and 101, reach both clamps and
    `VolumeInc` at 100.
  - Four actions reach mute, set, mute, unmute.
- **Event diffing.** One subscriber, which may lapse and come back, three calls and
  one change by another client: enough to reach a volume that returns to its
  diffed value. Two subscribers break `ViewsConverge` (see above).
- **Player.** Two songs, two flags, elapsed times 0 and 30, three calls (a save, a
  restore and one more), one change by another client, one drop or restart. A
  restore of a playing or paused state with a seek, a drop at each of its steps
  and every hook transition are reached. `Mixer` and `LocalSongs` are set to the
  values under which the code can restore; the other values are the
  disagreements above.
- **Fetch.** Chunks of 1000 and 5000 bytes against the 4096 floor: a buffer
  allocated for a small chunk comes back for a large one.

## Fairness

- **`MPDCliQueue`.**
  - A call the worker has started runs to its end (`WF` on `Worker`), because
    MPDCli calls are synchronous.
  - The event loop calls `updStatus` periodically (`WF` on `Poll`).
  - The environment gets no fairness. Breaks are bounded, so they stop.
- **`OHReceiver`.** A publication pass with a successful status refresh keeps
  happening: `WF` on `Publish(TRUE)`. `StatusCatchesUp` checks that the status
  refresh recovers.
- **`OHVolumeService`.** The device loop keeps making event passes and MPDCli keeps
  refreshing the status (`WF` on `EventPass` and `Poll`).
- **`MPDCliPlayer`.** A started `restoreState` runs to its end (`WF` on `Worker`),
  the event loop keeps polling when the worker is idle (`WF` on `Poll`), and a
  stopped MPD is started again by its service manager (`WF` on `ServerUp`).
- **`NetFetchQueue`.** No fairness: its one property is an invariant.

## What is not modelled

- **`OHRadio`** (`ohradio.hxx`): only a declaration is in the repository.
- **`MediaServer` and the Tidal plugin**: no behaviour in scope.
- **Code outside the repository, modelled from the spec and marked `spec_modelled`:**
  - `BufXChange`;
  - the curl transfer;
  - `UpMpd::setvolume/setmute/getvolume` and the older `UpMpdRenderCtl::setvolume_i/getvolume_i/setmute_i`;
  - `diffmaps`;
  - the UPnP device's event delivery.
- **`updStatus`'s other effects:** the track counter, song metadata and audio
  format. They feed displayed values only.
- **Formatting of published values.** Two slips in `src/upmpd/ohvolume.cxx` are
  noted but not modelled:
  - `st["VolumeLimit"] = 100` assigns the character 'd';
  - the misspelt key `VolumeMilliDbPerSteps`.
- **Not modelled:** `statId`, which nothing in the repository calls; the tags `send_tag_data` adds after an insert; the `onstart` command of
  `play()`, which no state follows.
- **State file writes.** `ConfSimple`, which writes the receiver state file, is
  not in the repository. The two `set()` calls (`ohreceiver.cxx:84-87`) may each
  fail (`ConfFails`), which leaves the new uri with the old metadata, or the
  reverse, for the next start. The code logs this and goes on, so no property
  claims the sender survives a restart. It is listed as a hazard.
- **`checkForCommand`**, which the constructor runs to set `m_have_addtagid`, is
  a constant of `MPDCliQueue` (`HaveAddTagId`). Both values are checked.
- **Not modelled here:** the `-1` that `databufToQ` returns as a `size_t`. Its
  reader, the curl callback, is not in the repository.
