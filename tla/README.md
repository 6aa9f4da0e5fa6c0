# A verification of HybridP2P

HybridP2P is a hybrid CDN: a file is fetched from peers through Bitswap first
and from an ordinary CDN over HTTPS when that fails. This directory holds TLA+
models of its core, the TLC runs that check them on small instances, and proofs
about them that TLAPS checks for all instances. Paths below are relative to
`src/`.

## The system

| part | state | operations | talks to |
|---|---|---|---|
| hybrid downloader, `pkg/client/downloader.go` | metadata, received blocks, output file, `UsingFallback`, metrics collector | `DownloadFile`: find peers, connect, receive blocks, reassemble, fall back, verify | tracker client, DHT, Bitswap, HTTP fallback, metrics file, daemon (progress channel) |
| HTTP fallback, `pkg/client/fallback.go` | job channel, error channel, output file, byte count | one connection, or a pool of range workers with retries | CDN |
| gate, `pkg/daemon/gate.go` | `paused`, one channel | `Wait`, `Pause`, `Resume` | goroutines of `handleSeed` and `runDownload`, tracker socket |
| control plane, `pkg/tracker/control.go`, `cli.go`, `pkg/daemon/tracker_ws.go` | settings, map of connections; per daemon two gates and a rate limit | console commands, registration, broadcast, application, reconnection | tracker console, daemons |
| tracker store, `pkg/tracker/store.go`, `handler.go` | MySQL tables, two Redis caches | register, announce, get peers, cleanup | clients over HTTP |
| seeding, `pkg/client/seeder.go`, `pkg/daemon/seeding_state.go`, `pkg/storage/filestore.go` | seeded files, CID index, block files, state file | seed, unseed, restore, watch, announce | tracker, DHT, block store, metrics file |
| daemon downloads, `pkg/daemon/server.go` | map of downloads; status, lock and context of each | start, replace, list, run | downloader, gate, progress stream |
| progress stream, `pkg/daemon/server.go`, `client.go`, `cmd/cli/daemon_integration.go` | progress channel, websocket clients, two locks; per command line two channels | report, broadcast, watch, show | downloader, daemon downloads, command line |
| metrics file, `pkg/metrics/metrics.go` | entries, last request number | next number, add, upsert, clear | downloader, seeding, control plane |
| daemon process, `pkg/daemon/manager.go`, `pidfile.go`, `service.go`, `cmd/cli/commands_daemon.go` | PID file, processes, the API's port | start, stop, restart, health check | command line |
| rate limiting, `pkg/storage/ratelimited.go`, `pkg/tracker/server.go` | token bucket; Redis counter per minute | get a block, set the bandwidth; admit a request | Bitswap server, tracker |

What is hard about it: the goroutines of the daemon share maps, channels and
gates; the tracker's handlers share two stores that are not updated together;
daemons and tracker restart separately; peers, the CDN, Redis and the sockets
answer late, in part or not at all. The hazards, each at its line and with the
properties that cover it, are listed in `PROJECT.json`. These have no property and
are listed only here:

- `control.go:145`, a write to a daemon that does not read has no deadline and holds
  up the console (the same form is checked in `ProgressStream`);
- `control.go:53`, a registration sends only restrictions (see "What the runs
  refute");
- `seeder.go:154`, removing a file deletes the index entries of chunks it shares
  with another one; the index only feeds the counters of served blocks;
- `seeder.go:237`, `announceAll` holds the read lock for up to 10 s per file, in which
  no file can be added or removed: `SeederAnnouncements` has it, no property judges it;
- `server.go:977`, a flush of the seeding metrics may write counters it read before
  an unseed over the final ones;
- `server.go:996`, a file that has changed while the daemon was down is restored
  under its old entry: `SeedSurvives` claims nothing of it;
- `manager.go:49`, a health check that takes longer than two seconds makes a start
  spawn a second daemon, which takes over the PID file.

Seven of the hazards in the list have no property either, because the code does
nothing against them and there is no weaker claim to make; each has a note. Five of
them happen in a model: a panic of the download, daemons that stay paused after a
restart of the tracker, a broken block that counts as present, a watcher that acts on
an old copy, a report sent on a closed channel. Two do not: messages of a replaced
download, and a command line that is suspended.

## Modules

### The download: `HybridDownload`, `VerifiedDelivery`, `TransferBodies`

`HybridDownload` is one call of `DownloadFile`. `pc` is the place in the call:
`discover` (`findPeers`), `connect` (`connectToPeers`), `request` (`GetBlocks`),
`receive` (the loop at lines 240-318), `reassemble`, `fallback` and `http`
(`downloadHTTP`), `verify`, and the outcomes. `received` is the key set of
`receivedBlocks`, `collector` the counters of `MetricsCollector`, `entries` what
`AddMetrics` appended. A chunk content stands for its bytes, its hash and its
CID; sizes count chunks. The environment chooses the tracker's answer, the peers
found and reached, the order and the end of the blocks, the disk's refusals,
what the CDN serves and when the context is cancelled. `unmeasured` is history: the
size of what the CDN delivered could not be read (`HTTPUnmeasured`,
`downloader.go:370-371`), so that no HTTP chunk was counted.

`VerifiedDelivery` is what the call promises: one switch from peers to HTTP,
success only over the requested bytes, an outcome that is final. The property
`DeliversVerified` is that `HybridDownload` implements it. A panic counts as a
failed call there: the tracker accepts a record without chunk count and chunk
size (`handler.go:42-45`), and `downloader.go:381` divides by the chunk size.

`TransferBodies` says what the fallback may leave in the output file. It is used
twice: `HybridDownload` assumes it of a transfer, and `HTTPFallback` is checked
to keep to it, so that the coarse step of the one is justified by the other.

### The fallback: `HTTPFallback`

`DownloadFile` of the fallback with its workers. `nextJob` is the head of the
`jobs` channel (filled and closed before the workers start), `errs` the number
of errors buffered in `errChan`, `worker[w]` what worker `w` is doing with which
chunk on which attempt. The CDN may honour ranges or not, and serve a range in
full, in part, from the whole file, or not at all. The announced chunk count and
size need not agree, since the tracker compares neither with the other
(`handler.go:40-47`): a chunk beyond the size is fetched from beyond it and lengthens
the file.

### The gates: `Gate`, `BroadcastGate`

A channel is a number, `closed` the closed ones. `Wait` is two steps, since the
code reads the channel under the mutex and selects on it outside. `BroadcastGate`
is the abstract gate: a call is held while the gate is closed, and opening it
releases all the calls it holds, for good.

### The control plane: `ControlPlane`

The console's commands (change the state, copy the connections, write to each),
registration (enter the map, copy the settings, send those of the copy that
restrict, one by one), the daemon's reader, broken connections, restarts of either
side. `wire[d]` is what was written to a connection and not read yet. A setting is
a pause switch or the bandwidth; `Limits[s]` are its restricting values. `Control`
is put before the names that `TrackerStore` has too, so that one module can prove
about both.

### The tracker store: `TrackerStore`

MySQL's tables (`files`, `peers` with `lastSeen`, `peerFiles`), Redis's two
caches, and requests that go from call to call. A transaction is one step, as is
a Redis call; every Redis call may fail silently and every request may end
between two calls. Time passes in ticks: cached lists of peers and requests have
a limited life, `last_seen` grows, and cleanup deletes what is older than
`CleanupAfter`.

### Seeding: `Seeding`

Three records of what is seeded: `seeding` (the seeder's map), `state` (the
seeding state in memory, from hash to path) and `saved` (`seeding.json`), over
the block store `blocks`. A job is a seed request or the goroutine that restores
an entry; it goes from `load` (hash the file) over `store` (block by block) to
`record` (`AddSeeding`), or to `drop` when a restoration fails. A call of
`unseedFile`, by a user or by the watcher, takes the file off the seeder and then
off the state. Files change, disks and saves fail, and the daemon crashes at any
step; a block whose write was cut short is `broken` and counts as present, as in
`FileBlockstore.Has`. `stopped`, `quiet`, `kept` and `dropped` are history: what was
unseeded while nobody seeded it, what was recorded and neither changed nor unseeded
since, and the entries of such files that a failed restoration has deleted.

### The seeder's announcements: `SeederAnnouncements`

Extends `TrackerStore` with one of its clients. `seeding` is the key set of
`seedingFiles`; a file that is added is announced once by a goroutine (`added`),
and `announceAll` announces what is left of its `round`, holding `seedingMu`,
which is why files are added and removed only between rounds. An announcement is
the tracker's `Announce` with one hash, or it is lost. A tick is the 10 s after
which an announcement gives up, so a round takes up to a tick for each file
(`left`), and a goroutine that announces an added file up to one (`late`). Two
intervals and a tick for each file must fit into the tracker's window
(`AnnounceAssumption`): with the code's 12 and 30 ticks (2 and 5 minutes) that is so
for up to five files.

### The daemon's downloads: `DaemonDownloads`

Extends `Gate`: a download is named by the caller of the gate that its goroutine
is. `entry` is `downloads[hash]` for one hash; `req[d]` is how far `handleDownload`
is (the look-up and the insertion are two critical sections), `run[d]` how far
`runDownload` is, `status[d]` what is shown. Two locks are held across steps: the
map's, by a request that looks an entry up and by a listing, and a download's
own, by a `runDownload` that has succeeded. A call of `DownloadFile` is one step.
`raced` is history: two requests were between look-up and insertion.

### The progress stream: `ProgressStream`

One download from the moment it has passed the gate, and the command lines that
follow it. Three goroutines of the daemon (`runDownload`, `monitorProgress`,
`broadcastProgress`) share the channel (`queue` counts its reports, `shut`), the
download's lock and the broadcasts; `todo[g]` is whom broadcaster `g` has left to
write to, which is also its hold on `wsClientsMu`, and `writer` has `wsWriteMu`. A
command line is the reader of `StreamProgress` and the select of
`downloadViaDaemon`, with a channel of progress and one of errors between them;
`cli[w]` ends as what the user was told. Connections are bounded and may break.

The channel is closed after two sleeps of half a second (`server.go:786-810`), and
nothing else orders that after the last report of `monitorProgress`, which may be
late: it then sends on a closed channel, and the daemon is gone (`Panic`). No
property claims that it does not happen.

Two simplifications. The second that the final report may wait for room is one
step (`SendFinal`), with the report in the channel or not. The status is read
without its lock (`server.go:840`); a torn read gives a text that is none of the
statuses, which the command line treats as progress, and so adds nothing to a read
before or after the write.

### The metrics file: `MetricsFile`

`mem` is the database in memory, `disk` the file, `tmp` the temporary file while
somebody (`saver`) is inside `save`. A change of memory and its save are separate
critical sections. `era` counts the clears and so names the sequence of a request
number; `cleared` and `gone` are history. Crashes happen between any two steps;
saves fail at the write or at the rename.

### The daemon's process: `DaemonProcess`

`proc[p]` is the state of each process (booting, with the port, without it,
stopping), `file` the content of the PID file, `linked` who has it open for
writing. A command is a walk over `IsRunning`, `Start` and `Stop`, whose file
operations are single steps, so that commands overlap at each of them. A
process that finds the port taken lives on without an API, since
`DaemonService.Start` only logs that error. A process that has the port answers
health checks in time, and PIDs are not used again.

Two histories say for whom the properties do not speak. `overlapped`: commands
overlapped. `strays`: processes that no command answers for, since their start gave
up on them before they answered (`NotStarted`, `manager.go:117-118`), could not
create or write the PID file (`CannotName`, 94-107), or was interrupted, since their
stop was interrupted, or since they were spawned while such a process lived. Of all
other processes the properties speak, whatever boots, hangs or crashes.

## Runs

| run | instance | what it shows |
|---|---|---|
| `hybrid_download` | two chunk contents, files of up to two chunks (the empty one and one with a repeated chunk among them), records that fit, lie or are empty, two peers | the promise, the metrics entry, termination, the inductive invariant (24,834 states) |
| `http_fallback` | three workers, three attempts, up to three chunks; a chunk count that fits, is missing, or goes beyond the size | no deadlock, no job lost or fetched twice, `TransferBodies`, termination |
| `control_plane` | two daemons, one switch, three commands, one broken connection, one restart | no pause is lost, and restrictions arrive, over a changing set of connections |
| `tracker_store` | two requests, one hash with two records, one peer | no ghost peers; a stale record and a stale list of peers leave the cache |
| `seeder_announcements` | one daemon, two files, rounds every two ticks and a window of seven | the last announced file stays listed over a missed round, a removed one does not (543,156 states) |
| `second_file_unlists_first` | the same daemon and files | two files seeded, one listed; a violation, see below |
| `seeding` | two seed requests, one user, the watcher, one file of one chunk that may vanish, one crash | blocks before seeds; unseeds last; recorded files survive unless their restoration fails; deleted ones leave; queued seeds end (313,380 states) |
| `daemon_downloads` | two requests for one hash, three pauses | refinement of `BroadcastGate` in its surroundings, nobody stranded; the map lists what runs, what is shown is true; downloads end, requests are answered |
| `progress_stream` | two command lines, all capacities one | no client lost under a broadcast, every verdict has its cause, the download ends unless the daemon panics (268,933 states) |
| `completion_untold` | one command line, capacities of two and one | a completion that the user is not told; a violation, see below |
| `daemon_process` | two users, two processes | while no commands overlap, and but for strays: the PID file names the daemon that lives, and nothing lives after a stop that says so; every command returns (155,892 states) |
| `metrics_file` | two downloads, one file, two who clear, two clears | numbers repeat only across a clear; what was saved survives; what was cleared stays away; the file only becomes what memory is (2,684,482 states) |

Why the bounds are enough. A download is a straight line with a few branches;
two chunks tell a repeated chunk from two different ones and a short file from a
whole one, and two peers tell "some" from "all". Three workers and up to three
jobs let a worker fail while another holds a job and a third has none left. In the control
plane every race is between one registration and one command; three commands let
a pause, a resume and another pause meet it. A limit of
the bandwidth is a switch here (limited or not). In the store every race is between
two requests and at most one expiry; `LiveWindow = 1`, `RequestTTL = 1`,
`PeerTTL = 1` and `CleanupAfter = 2` are the smallest times that keep the relation
the code's minutes have (5 + 1/2 + 1 <= 10 + 1).
The seeder runs with the smallest times that keep the relation of the code's (two
intervals of 2 and two ticks for two files are less than 7; the code has 12, 12, two
and 30); two files are enough for one to replace the other. In `seeding` the races
are between two jobs, a call and the watcher over the same file; one crash meets
every step of them. Changed contents, shared chunks and more crashes are covered by
the proofs.

Among the daemon's downloads the races are between two requests for one hash, and
three pauses let a download be two channels behind the gate. In the progress
stream capacities of one make every channel and connection fill up, and two
command lines are enough for one to hold up the other. Two users are enough for
commands to overlap, and two processes for one to be in the other's way; three
processes have been checked as well, for the inductive invariant (1,971,007 states).
Two downloads and two who clear let a save come between a change and its save, and a
clear between a number and its entry. The proofs cover any number of each.

`CHECK_DEADLOCK FALSE` is given where the system may stop: a download or a
transfer that has ended, a console whose bounded number of commands is used up,
a store nobody uses, a progress stream that has ended, metrics that nobody changes
any more.

## Fairness

The liveness runs assume weak fairness of the steps a goroutine takes by itself:
every call has a deadline in the code (30 s for a tracker request, a DHT lookup, a dial
or an HTTP request, `noProgressWindow` between blocks) or ends when the
scheduler runs it. Nothing is assumed of the environment: peers may never send a
block, the operator need not type, clients need not come, a connection may break
at any time. Cache entries are assumed to expire, as Redis does for keys with a
TTL. In `seeding` the jobs, the calls, the watcher's ticker and the restoration go on;
nobody need seed, unseed or resume. In `daemon_downloads` goroutines go on and
`DownloadFile` returns (`Termination` of `HybridDownload`), as do the broadcasts at
the end of a download, which no write deadline enforces (`server.go:790-806`); strong fairness is
assumed of the two steps that take the map's lock for writing, since a
`sync.RWMutex` does not let readers pass a waiting writer for ever. In
`progress_stream` whoever waits for `wsWriteMu` gets it, timers fire, and a command
line that runs takes what it is sent; it may exit or break instead, but one that is
suspended is outside `StreamCloses`. In
`daemon_process` only commands go on: nothing is assumed of the daemon's processes,
so `CommandsReturn` holds of a daemon that hangs.

## What the runs refute

- `second_file_unlists_first`: `commands.go:318` sends users with several files to
  the daemon. Its seeder announces one file per request
  (`pkg/client/tracker.go:91`) and the tracker replaces the peer's files by those
  of the request (`store.go:263`): the second file takes the first off the list.
- `completion_untold`: `commands.go:621` says that downloads are seeded
  automatically unless the user declines. The command line seeds when it receives
  a progress message with status "complete". `runDownload` holds the download's lock
  until half a second after it has put the final report into the channel
  (`server.go:753-788`), so the reporter, which needs that lock, cannot broadcast
  it before `runDownload` broadcasts the completion (799), and then the two race.
  The completion ends the stream (`client.go:216`), and
  `downloadViaDaemon` returns without a word and without seeding.

The models show more that the repository's texts neither promise nor exclude, and
that no run refutes:

- a file that came from peers and fails its verification is reported as failed
  without asking the CDN (`downloader.go:135-146`);
- a record without chunk size makes the download panic (`downloader.go:381`);
- `RegisterDaemon` reads the settings, lets go of the mutex and sends them later:
  an older limit of the bandwidth may reach a daemon after a newer one; and it
  sends only what is restricted, so a daemon that was offline during a resume
  stays paused (`control.go:49-62`);
- a file from the CDN that `os.Stat` fails on is delivered all the same, and its
  metrics entry says that peers delivered it (`downloader.go:370-371`);
- with six or more files whose announcements all time out, two rounds and the
  intervals between them take as long as the window, so a file may leave the list
  before the second round in vain has ended
  (`seeder.go:236-249`, outside `AnnounceAssumption`);
- a restoration that fails, by one failed read or write or after five minutes,
  deletes the entry of its file for good, although nobody touched the file
  (`server.go:996-1001`);
- a reporter that is late by half a second makes the daemon panic
  (`server.go:808-810`, `downloader.go:567-581`);
- a daemon that boots for longer than ten seconds lives on although its start has
  failed: until it answers, a stop says that no daemon runs, and another start spawns
  a second one and gives it the PID file (`manager.go:34-54, 109-118`,
  `commands_daemon.go:87-90`); so does one whose PID could not be written;
- two requests for one hash that overlap leave a download running without an entry,
  on the same output path (`server.go:444-518`);
- commands that overlap may leave a daemon without a PID file
  (`manager.go:34-130`).

## Proofs

Theorems hold for all values of the constants, under the named assumptions of
the modules (`ConstantsAssumption`, `PoolAssumption`, `MaxPausesAssumption`,
`SettingsAssumption`, `AbsentAssumption`, `TimesAssumption`, `AnnounceAssumption`,
`SeedingAssumption`, `NoneAssumption`, `CapacityAssumption`, `WorkersAssumption`,
`ProcessAssumption`). They ask for finite, distinct or non-empty sets, except for three:
`TimesAssumption` and `AnnounceAssumption` relate times as the code's constants are
related, the latter for up to five files, and `SettingsAssumption` splits the values
of a setting. Every safety property that a run checks is the statement of a
theorem here.

- `HybridDownloadProofs`: `DownloadInv` is inductive. `EntryMatchesTransfer` alone
  is not: that an entry says "http" exactly when the CDN delivered a file whose size
  could be read needs the phase
  (`PhaseInv`), what the receive loop holds when it ends (`ReceivedInv`) and what
  the collector counted (`CollectorInv`). From it follow `RepeatedChunks`,
  `TruthfulEntries` and `DeliveryImplemented`, the refinement of
  `VerifiedDelivery`, one step of the abstract call for each step of the code.
- `HTTPFallbackProofs`: none of the three properties is inductive. What adds up
  (`CountInv`): the errors in the channel and the workers that have not returned are
  no more than the workers, so that every report has room; and the chunks
  downloaded, the errors and the chunks in workers' hands (`HandInv`) are the jobs
  taken from the queue. `PhaseInv` ties the workers to main's place: when none is
  left and there is no error, the queue is empty, so every chunk is downloaded
  (`NilIsComplete`). `BodyInv` says which of the bodies the file can hold in each
  place, which gives `TransferKeepsToBodies`.
- `TrackerProofs`, the store: `StoreInv` is inductive. `NoGhostPeers` alone is not: a
  list enters the cache with the age of the request that selected it, so the
  invariant bounds the age of every selected and every cached peer by the time
  since. Cleanup cannot delete such a peer because of `TimesAssumption`, the
  relation between the window of `GetPeers`, the lives of requests and lists, and
  the age at which `CleanupStalePeers` deletes.
- `TrackerProofs`, the announcements: every step of the seeder is a step of the
  store or leaves it alone (`AnnouncementsImplementStore`), so the types of the store
  carry over. `SeederInv` bounds the age of the seeder's row from above, by the
  rounds missed, the ticks since the last one and those a round under way may still
  take, and that of its row for a removed file from below, by the ticks since it was
  removed. That two intervals and a tick for each file fit into the window
  (`AnnounceAssumption`) makes the first bound less than the window:
  `HeardStaysListed`. The second gives `GivenUpLeavesList`.
- `TrackerProofs`, the control plane: `PausedMeansPaused` speaks of daemons that have
  been told everything; `CarriedInv` says where a restriction is until then. It is
  with the daemon, or on the wire, or the present broadcast has yet to reach the
  daemon, or the registration has yet to send it from its copy; and nothing
  behind it frees the daemon, because a registration sends no freeing message and a
  console that frees changes the state first. It needs the daemon to be in the map
  before its registration copies the settings (`control.go:43-51`).
- `DaemonDownloadsProofs`, the gate: `GateInv` (every dropped channel is closed; the
  current one is closed exactly while the gate is open) is inductive and gives
  `NoneStranded` and the refinement of `BroadcastGate`.
- `DaemonDownloadsProofs`, the downloads: every step of theirs is a step of the gate
  or leaves it alone (`DownloadsUseGate`), so the theorems of the gate carry over.
  `RunningIsListed` needs `FreshInv` (a download whose request is not answered is
  nowhere) and `LookInv` (without a race at most one request has looked, and found
  nothing left).
- `SeedingProofs`: `SeedingInv` says what jobs and calls have in hand. On top of it
  `StoredBeforeSeeded`, `UnseedHolds` and `SeedSurvives` are inductive one by one.
  `UnseedHolds` needs `QuietInv`: an unseed is two steps, and a job that has the file
  in hand between them, or after them, would bring it back.
- `ProgressStreamProofs`: `WriteToRegistered` needs to know that a broadcaster has
  clients left only while it broadcasts; `VerdictHasCause` is
  inductive only with the trail of a verdict: what is in a connection, in a
  command line's two channels and in the reader's end has a cause.
- `MetricsFileProofs`: the numbers in memory and in the file are bounded by the last
  one of the same sequence, and those of the running downloads too; a crash falls
  back to a last number that no saved entry exceeds, and the downloads that held
  later ones are gone. `SavedSurvives` and `ClearHolds` need what a
  save under way has in the temporary file. `SavesAreWhole` proves the action property
  `SavesWhole` from the same invariant.
- `DaemonProcessProofs`: `Orderly` says of the one command under way where the
  process that is no stray stands. There is at most one, and it is alone; the file
  names it, or the command has it in hand; it serves unless the command still starts
  or stops it; and none is left where the command has found none. It needs `PidInv`
  (a command that starts or stops has a PID). `RunningNamed` and `StoppedGone` follow.

Liveness (`Termination`, `Returns`, `OpenGateAdmits`, `RestrictionArrives`,
`StaleRecordExpires`, `StalePeersExpire`, `DeletedFilesLeave`, `SeedsEnd`,
`DownloadsEnd`, `RequestsAnswered`, `StreamCloses`, `CommandsReturn`) is only
model-checked: ENABLED and fairness are beyond the prover. So are the two
violations, which need a counterexample and not a proof.

## Not modelled

- Setting up libp2p, the DHT and Bitswap (the downloader's view of them is
  modelled); hole punching and relays, which nothing calls.
- Chunking and hashing, pure functions over bytes; configuration, prompts, logging,
  formatting, the benchmark.
- Rate limiting: a choice of a limiter under one lock and calls of a library's token
  bucket; what is left is the arithmetic of rates in real time. The order in which
  limits reach a daemon is in `ControlPlane`.
- Of the tracker store: relay servers and statistics, which nothing above depends on.
- Of seeding: the CID index and the counters of served blocks, which only feed the
  metrics; what a metrics entry says is left out of `MetricsFile` too.
- Of the daemon's downloads: two downloads with one hash whose messages reach each
  other's followers, since the filter is the hash (`server.go:873`); the daemon's
  own end.
- Of the daemon's process: `EnsureRunning` and `GetStatus`, Windows, the installation
  as a service, health checks that time out at a live server, zombies, PIDs that
  are used again.

## Order of the modules

The most important behaviour first, each module with what it stands on:
`HybridDownload` (over `VerifiedDelivery` and `TransferBodies`), `HTTPFallback`,
`Gate` (over `BroadcastGate`), `ControlPlane`, `TrackerStore`, `Seeding`,
`SeederAnnouncements` (over `TrackerStore`), `DaemonDownloads` (over `Gate`),
`ProgressStream`, `MetricsFile`, `DaemonProcess`. The proofs of a module that
another one extends are kept with those of the other: the gate's with the
downloads', the store's with the announcements' and the control plane's. What
could still be proved: an abstract specification of the operator's settings that
`ControlPlane` implements.
