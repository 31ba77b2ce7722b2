# Verification of livetv-server

TLA+ models of livetv-server, the TLC configurations that check them and the
theorems TLAPS proves about them.  The reference of every definition is the
source: `PROJECT.json` maps each one to the lines it stands for.

- [The system](#the-system): components, their state, how they interact, what is hard
- [The modules](#the-modules): which module models what, and how
- [The runs](#the-runs): what TLC checks, the bounds, the fairness
- [The proofs](#the-proofs): what holds for all values of the constants, and why
- [Where code and text disagree](#where-code-and-text-disagree)
- [What is not modelled](#what-is-not-modelled)
- [The plan](#the-plan)

To repeat: `tlc -config X.cfg MCModule.tla` for a run, `tlapm XProofs.tla` for a
proof module.

## The system

The container turns room numbers of live platforms (Huya, Douyu, Douyin, YY)
and a tested list of IPTV addresses into one playlist.  A Go process answers
players; Python scripts, run at start and by cron, keep the files it reads;
`entry.sh` starts everything and restarts what ends.

| Component | State it keeps | Operations | What makes it correct |
|---|---|---|---|
| Resolver (`cache.go`, `resolve.go`, `resolvePlayback`) | a TTL cache and a flight group per platform | resolve, fresh resolve, cancel | one page fetch per room at a time; every request answered, never with an address beyond its lifetime nor, for a fresh request, from before it; a newer address never overwritten by an older one |
| FLV resumption (`flvStreamWriter`) | per connection: offset, last timestamps, key frame seen; across them: resume point | pump a tag, reconnect | timestamps the player gets increase; sound and picture stay in step |
| Playback session (`ServeHTTP`, `openAndServe`) | attempt, counters, prefetch slot and goroutine | resolve, open, pump, back off, prefetch | one response per request, bounded retries, no address used twice or too late, nothing survives the player |
| HLS (`handleHLS`, `startFFmpeg`, `hlsWatchdog`) | `hlsState`, `hlsStarting`, one directory per channel | request, start, join a start, reap, restart | one ffmpeg per directory, all of them known to the watchdog, judged by their own files, reaped only when idle |
| Python stream proxy (`docker/stream-proxy.py`) | `hls_state`, the directories it shares with the Go service | the same for the older port | no request waits for an entry that is not there; no `KeyError` ends the watchdog; every ffmpeg is watched (it is not) |
| Health check and whitelist (`health.go`, `m3u.go`) | snapshot file, running flag, last run | check, publish, trigger, filter a playlist | one check at a time; a snapshot is one check's whole and honest result; only recent failures are hidden |
| Channel synchronisation (`docker/sync_channels.py`) | `channels.json`, its lock | fetch directories, publish | the file is always whole and large enough; no old result overwrites a newer one |
| IPTV filter (`docker/filter_iptv.py`) | per channel: position and successes; a thread pool | rounds of probes | each channel gets its share or has tried everything; "nothing passed" means everything failed |
| IPTV publication (`filter_iptv.py`, `bridge_iptv.sh`, `sync_iptv_from_nas.sh`) | the snapshot `.iptv-result.m3u`, its lock | publish, fall back, copy from the NAS | what is published is filtered, large enough and never older |
| Room pages (`resolve.go`) | none beyond one request | ask the pages and interfaces of a platform, try again, choose a line | a live room is found whichever way it is named; the best stream that works is taken |
| Logo cache (`logo.go`) | a file per logo, a flight group | look, download, send | one download, and only whole files sent |
| Prewarming (`m3u.go`) | a flag and a date per platform | start a pass, resolve, end it | one pass at a time, and it ends |
| Python resolver (`docker/allinone.py`), guard loop of `entry.sh` | a cache; pid files | | see [What is not modelled](#what-is-not-modelled) |

How they meet: a player's session asks the resolver, the health check asks it
for fresh addresses, HLS starts ask it too.  The health check reads the
catalogue the synchronisation replaces, and playlists read the catalogue, the
health check's snapshot and the published IPTV list.  Goroutines of one process
share maps under mutexes; processes share files replaced by rename, with file
locks among runs of the same script.

What is hard here, line by line, is the list `hazards` of `PROJECT.json`.  Its
themes: work done outside a lock between two looks at the same map (flights,
starts of ffmpeg, the watchdogs); goroutines that outlive who started them
(prefetch, cancelled viewers, restarts); minutes-long runs that overlap and end
in another order than they began (health check, synchronisation, bridge);
processes that die between two steps of writing a file; 32-bit timestamps and 0
as "none"; last-good files that must survive every partial failure.

## The modules

Each module `X` comes with `MCX` (its instance for TLC) and, where something is
proved, `XProofs`.  What the code does under one mutex is one action, and so is
what it does in memory between two blocking calls; a fetch, a probe, a file
operation or a look at a shared file is an action of its own.  Definitions
named like another with a suffix (`DoAlone`, `EnterUnlocked`, `BumpNever`...)
are plausible mistakes: put in the place of the real definition, each breaks the
property it was written for, and nothing else uses them.

### Resolver and AddressService

A member of `Goroutines` is one goroutine running `resolve(rid)`; its `pc` walks
through the function: `delete` (`delCacheFor`, fresh requests only), `get`, `do`,
`recheck` (the second look inside the flight), `fetch` (the page, which may fail,
and `ttlCache.set` with its sweep), `close` (the channel of the flight), `forget`
(the removal from the map), `return`.  `close` and `forget` are two steps, as in the
code, so a late caller can find a closed call.  A viewer may leave at any moment
(`Cancel`): its goroutine goes on.  An address is what its users depend on:
whether it is one, when its fetch began, when it was signed.  `Merged`,
`SuccessTTL`, `FailureTTL` and `Outcomes` are all that tells platforms apart.
The clock moves only while everybody fetches, waits or is idle: steps in memory
take no time at its grain.

`AddressService` is the abstract specification: each request is answered once,
with an address that was within its lifetime when the request was made and, for
a fresh request, is not older than it.  No cache, no flight.  `ImplementsService`
says that `Resolver` implements it under the mapping of `Service`: a request is
answered when its goroutine is about to return; one `Answer` serves a leader's
waiters together when the flight is closed.

### FlvResume

`Pump(kind, ts)` is one round of `flvStreamWriter.pump` that forwards a tag,
`Connect` and `Disconnect` are what `openAndServe` does between connections.
Timestamps are modulo `Modulus` (2^32 in the code), 0 means "none yet" as in the
code.  A tag is its kind and timestamp; tags that are dropped change nothing, and
only whole tags reach the player, so a connection cut inside a tag is one that
ended before it.  `sent`, `last` and `regular` are history.

### PlaybackSession

`ServeHTTP` on the FLV path, `openAndServe` with its two attempts, the failure and
reconnection counts, the prefetch goroutine (`prefetching`, `pfAsk`,
`prefetched`), and the player leaving.  The resolver is what `Resolver` proves of
it: `Answers` gives a failure, a new address, a cached one within its lifetime, or
the one another resolution of the session has just been given.  Addresses are
numbered so that using one twice shows.  An address lives in the cache for
`CacheTTL`, and a prefetched one in the slot for `TTL`, as `playbackTTL` says: for Douyin
the code has 60 s and 30 s (`resolve.go:624`, `stream_session.go:61`).  `OpenFail` is a
connection that cannot be had and is tried again; `BadRequest` is an address no
request can be made of, which ends the stream at once (`proxy.go:474`).

### Hls

A worker is a goroutine in `handleHLS` (a viewer) or in the `startFFmpeg` that the
watchdog spawned (a restarter).  Each critical section of `hlsMu` is one action;
the resolution, the clearing of the directory and the launch lie between them.
`Publish` is the deferred function.  `Pass` is one pass of the watchdog under
`hlsMu`.  ffmpeg is external: it writes segments and the playlist, or exits, at
any time.  Ages stop counting one tick beyond the limit they are compared with,
so the clock needs no bound.  `Tick` waits for workers about to publish: that
takes only the mutex.

### PyHls

The older service does the same with `hls_lock` held for single accesses only,
so judging, killing, removing the entry and deleting the directory are separate
steps of the watchdog, and starting is a chain of steps nothing marks as under
way.  The watchdog looks at the playlist in two steps, `Look` (`os.path.exists`) and
`Stat` (`os.path.getmtime`), under the lock, which does not protect the file.  Nothing
catches an exception in it: `Raise` leaves it at the exception's name for good,
and the model lets `getmtime`, `open` and `Popen` fail where they can.

### HlsServices

`entry.sh` starts both services, each on its port, and gives both the same HLS root
(`HLS_ROOT`, `entry.sh:167`; `HLSRoot` in `config.go`), in which both name a channel's
directory `platform_rid`.  `HlsServices` runs `Hls` and `PyHls` over one directory per
channel: `list`, the playlist's age as `PyHls` sees it, is a function of `dir`, the
directory as `Hls` sees it, and a file of the older service is one that no process
of `Hls` wrote.  Each service removes the other's files when it starts a channel or
reaps it, and judges its own ffmpeg by whichever playlist is there.  So `OwnFiles`
holds for a container whose port 19091 is not asked for the same room over HLS; the
rest of what the two promise does not depend on files, and is proved for both
together.

### Whitelist

`Checkers` run `runHealthCheck` (enter by compare-and-swap, read the catalogue,
resolve and pull room by room, write, rename, release), `Requests` run
`maybeTriggerHealth` and the playlists, whose `aliveAgeSec` reads the snapshot
(`ReadSnapshot`) and then the catalogue (`Age`). `Sync` replaces the catalogue as
`CatalogSync` guarantees (`CatalogueOnlyReplaced`): by another non-empty one.
`Crash` ends the process anywhere and keeps the files. A written temporary file may
be left torn.

### CatalogSync

Runs of `sync_channels.py` that may overlap: the lock, the first page of each Huya
directory, its other pages in any order (the thread pool) with failures and the
four-fifths rule, Douyu page after page, the size check, the write and the
replacement.  `Alarm` is `SIGALRM`, `Crash` the container.

### IptvFilter, IptvPublish and IptvBridge

`IptvFilter` is `verify_channel_candidates` and `verify_entries`: `Build` takes the
next line of each channel that needs one, `Submit` and `Probed` are the thread
pool, `Collect` judges the round.  `IptvPublish` models what surrounds it: the
bridge's lock, the fallback, the floor, the atomic write, kills; and the NAS
script, which takes no lock and writes the same file.  In it the probe keeps any
subset of the candidates (`Verify`).  A bridge keeps the text it has read, and both of
its filterings work on that text (`Candidates` in `Verify` and in `Fallback`).

`IptvBridge` is both: it instantiates `IptvFilter` in place of `Verify`, for the
bridge that holds the lock, from the text that bridge has read to the channels
that passed.  Everything else of `IptvPublish` goes on beside the rounds.
`BridgeImplements` proves that `BridgeSpec` implements `IptvPublish!Spec`: the
rounds are stuttering steps, `Judge` is a `Verify`.

### LogoCache, RoomPages, Prewarm and AioServer

`LogoCache` is `handleLogo` with the flight group of `cache.go`: the look at the
file before the flight and inside it, the source, the response, the temporary
file, the rename, closing and forgetting the flight, the last look; each may
fail where the code can.  `RoomPages` is what a resolver of `resolve.go` does when
nothing is cached.  A request fails, for whatever reason, or is answered; what the
model keeps is the order of the requests, what ends the search, and Huya's choice.  A
Douyu preview is tried twice, but only after a failure: an answer without an address
(`error` 0 and empty `rtmp` fields, `resolve.go:532`), the short cut for 742017 on a page
whose show is a day old, and an offline room are final (`PreviewEnds`), and the first
of these can meet a live room too.  Then comes the alias number.  In Huya's choice
`InOrder` is the stable sort of the lines, by insertion, `FirstUsable` takes the first
that can be signed and `Ratio` picks the rate.  `lost` is history: the requests that
failed, and the answers without an address (`denied`) that a live room was given.
`Prewarm` is `maybePrewarmPlatform`: the candidates, the flag, the date, the
workers.

`AioServer` composes the three as the handler of port 35455 does, in one process:
a list starts prewarming, logos and rooms are answered beside it, and a crash
ends them all and keeps only the logo files.

## The runs

Nine runs must pass, three must find the violation their finding describes.

| Run | Instance | What it shows |
|---|---|---|
| `Resolver_rooms` | 2 goroutines (1 with a viewer), 2 rooms, cache limit 1 | `OneFetchPerRoom`; `NoRollback`; `NoEarlyLoss` (the sweep takes nothing live); `ImplementsService`, safety and liveness |
| `FlvResume_sessions` | 3 connections of 3 tags, modulus 400 | `VideoAdvances`: from the first reconnection on video never repeats or goes back; `AudioAdvancesInConnection`; `InStep`: sound and picture are shifted by the same amount |
| `FlvResume_audio` | 2 connections, timestamps 0, 40 and 150 | violation: sound more than 60 ms ahead of the picture goes back across a reconnection, far from the end of the range |
| `PlaybackSession_session` | up to 4 connections, 2 failures in a row | `OneResponse`, `GivesUp`, `ConsumedOnce`, `ConnectsInTime`, `LeavingEndsAll` |
| `Hls_channel` | 1 channel, 2 viewers, 1 restarter, 2 processes | `SingleWriter`, `NoOrphan`, `OwnFiles`, `JoinerHasStarter`, `NoEarlyReap`, `StuckIsReplaced` |
| `HlsServices_shared` | 1 channel; of each service 1 request and 1 process; 1 restarter | `OldTypeOK`, with it that no handler waits for an entry that is not there; `OldNoKeyError`: the `KeyError` a handler can meet cannot end the watchdog |
| `PyHls_orphan` | 1 key, 2 handlers, 3 processes | violation: an ffmpeg that no entry names |
| `Whitelist_checks` | 2 rooms, 2 checkers, 1 request | `OneCheck`, `HonestSnapshot`, `OnlyRecentFailuresHidden`, `NoSnapshotRegress` |
| `CatalogSync_runs` | 2 runs, 2 directories of up to 5 pages, 2 rooms | `LastGood`, `NoOldResult`, `LockFreed` |
| `IptvBridge_writers` | 6 lines of 3 channels, 3 addresses, 4 lists, 2 bridges, 2 threads, 1 NAS script | `ShareOrExhausted`; `PublishedPassed`: what is published passed in this very run, or everything was tried and failed; `EnoughByBridge`, `NothingRejectedByBridge`, `NoOldList` |
| `AioServer_routes` | 2 logo requests, 1 room request, 1 platform with 2 workers; pages of up to two lines | `NoSecondDownload`, `SentWhole`, `LiveRoomFound`, `BestStream`, `OnePassAtATime`, `PassEnds` |
| `IptvPublish_count` | 2 bridges, 1 NAS script, 3 channels, no probe | violation: too small a list is published |

`Hls_channel` and `PlaybackSession_session` also check `TypeOK`.  The
other type invariants are part of the invariants that are proved.

### Bounds, and why they are enough

- *Resolver*: two goroutines are a leader and a joiner, a fresh and a plain
  request, or a reader and a writer of one entry; two rooms in a cache with limit 1
  make the sweep run on every second room.  The clock has three values: successes
  live one tick, failures none, so both expire within the run.  The other
  platforms, more goroutines and other lifetimes are covered by the proofs, where
  `Platform` is any function.
- *FlvResume*: a modulus of 400 and timestamps below, around and beyond the 60 ms of
  the resumption and at the end of the range reach every branch of the offset
  computation, wrap included; the third connection shows what a fruitless second
  one leaves.
- *PlaybackSession*: the code's 600 reconnections and 3 failures become 3 and 2: one
  more connection than the limit of failures, and both limits are reached.  An
  address lives two ticks of four in the cache and one in the slot, so that one
  outlives the other.
- *Hls*: one channel, since channels share only the mutex and the pass, and two
  viewers and a restarter, so that a start can be joined, overtaken by a restart
  or both.  Two process identifiers are reused once nothing refers to them.
- *HlsServices*: a request of each service and both watchdogs meet on the channel; all
  limits are 0 ticks, so each is passed by one.  `OldTypeOK` and `OldNoKeyError` are
  about a handler and the watchdog of the older service, which the one process makes
  wait for each other; more of either is what the proofs cover.
- *PyHls*: two handlers and the watchdog are the three threads that can meet on a
  key.
- *Whitelist*: two rooms, so that a catalogue can change with a room staying; two
  checkers, so that they can overlap; ages up to two ticks.
- *CatalogSync*: directories of five pages are the smallest where the four-fifths
  rule accepts a missing page.
- *IptvBridge*: one channel with more lines than the limit of two, which lists an
  address twice, one that shares an address with it in the second round, and one
  that is rejected; a floor of two, and lists (`Offers`) below it, below it only after
  filtering, and above it before and after.  The first round has two addresses for its
  two threads, so that their probes end in either order; the theorems are for any.
- *AioServer*: two requests for one logo are a leader and a joiner, or two leaders
  one after the other.  Pages have no line, or two out of five that differ in each
  sort key and in being usable, or the older fields; the rates are all subsets of
  four.  Both workers of a pass are busy at once, and the list has a group above its
  limit (1), an empty room number, and more rooms than a pass takes (2).  The gap of
  five minutes is one tick: a pass can take longer than it.

Symmetry is used for model values in runs without liveness only.  Deadlock is
checked except for `FlvResume` and `PlaybackSession`, whose one session ends.

### Fairness

- `Resolver`: weak fairness of each goroutine's next step.  The Go scheduler runs
  what can run, and a fetch ends because its HTTP client has the timeout
  `TIMEOUT_S`.  Requests, cancellations and the clock are not fair.
- `PlaybackSession`: of the handler (resolutions and connection attempts have
  timeouts, `select` wakes on the context), of the prefetch goroutine, and of the end
  of the upstream once the player has gone (its request carries the context).  A
  stream whose player stays may go on for ever.
- `Hls`: of each worker's steps (the wait loops have a deadline of 30 s), of the
  ticker's pass and of the clock.  Nothing is assumed of ffmpeg.
- `AioServer`: of a prewarming pass; its resolutions end because every request of
  `resolve.go` has a timeout, and its workers are goroutines that wait for nothing
  else.  Players, logos and lists are not fair.
- `CatalogSync`: of a run that holds the lock: the alarm bounds what the network may
  take.  `LockFreed` therefore says that every way out of a run leads to the lock's
  release; that a run takes its next step is assumed of it with or without the alarm, and
  the kernel would also release the lock of a process that has ended.

## The proofs

Every theorem is for all values of the constants that satisfy the `ASSUME` of the
module, any number of goroutines, rooms, runs or processes included.

*Resolver* (`ResolverProofs`).  The safety properties are not inductive: that a
room has one fetch depends on which calls are in the map.  `IInv` adds
`FlightInv` (calls in the map and leaders between `recheck` and `forget`
correspond one to one, and a call is closed exactly while its leader is at
`forget`), `DateInv` (dates of entries and answers are consistent with the
lifetimes), `MomentInv` (who has just found the room missing can only be handed an
address signed in this very moment, since time stands still between the look and
the flight) and `FetchOrder` (no entry of a merged room began after the fetch
under way).  From it: `OneFetch`, `WaitersAreLed` (no lost wake-up), `Staleness`,
`Freshness`, `GoodAddressesStay`, `NewestStays`.

The safety half of the refinement is `ImplementsServiceSafely`.  It needs one more
invariant, `PastInv` (an answer was signed after its fetch began and before now).
A step is `Silent` for a goroutine when it changes nothing `AddressService` sees of
it, which is every step before the return; `AnswerStep` turns the goroutines that
reach the return together, a leader alone or the waiters of a flight, into one
`Answer`.  The fairness of `AddressService` is left to TLC.

*FlvResume*.  `Anchored` says that writer and `openAndServe` always know the last
video timestamp the player got; with it `VideoNeverGoesBack` is arithmetic on
each step.  It holds for every range; what it excepts, 0 and the last value of
the range, the theorem states.  `Aligned` adds that a regular connection has shifted
the last tag by exactly the writer's offset, from which `StaysInStep` and
`AudioKeepsAdvancing` follow.

*PlaybackSession*.  `WrittenInv` says what `clientWrote` stands for at each point
of the code, `BarrenInv` how `consecFail` counts fruitless connections; from them
`OneStatusLine`, `OneFLVHeader`, `RetryIsClean`, `BoundedFailures`.  `AddressInv` says
that the prefetch slot bears the date its address expires (`Dated`) and, unless a
resolution was shared, that this address is neither in use nor used before
(`Fresh`); from it `ConsumedOnceHolds` and `ConnectsInTimeHolds`.  With
`CountInv`, which bounds the counters, `TypeCorrect`.

*Hls* and *HlsServices*. `IInv` says that `hlsStarting` names exactly the workers
between its insertion and the deferred publication, that a channel being started is
not in the map, that a worker holds no process before its launch, and that a launch
finds the directory empty. From it `OneWriter`, `NothingOrphaned`, `FilesAreItsOwn`,
`NoWakeUpIsLost`, for any number of channels and requests. `LastInv` adds that a
process in the map was asked for no longer ago than its channel (`Fresh`), that it
is the process of one channel only, and that one about to be published is unknown to
the map and has age 0, since the clock stands still there; from it
`NoEarlyReapHolds`.

`IInv` is `Core /\ Files`, and no step needs `Files` to keep `Core`: that is how each
lemma about a step is stated (`Kept`).  So the older service, which changes nothing
but the directories (and only their contents, for which `Core` has types), leaves
`Core` and `LastInv` alone, and `OneWriterOfItsOwn`, `NothingOrphanedByOld`,
`NoWakeUpIsLostByOld` and `NoEarlyReapByOld` hold of both services together.
For the older one, `OldTypeCorrect` needs that who is about to store an entry holds a
process (`HasProcess`), and `OldMeetsNoKeyError` that the entry the watchdog has
stored is there when it reads it again (`StoredStays`): only the watchdog removes
entries, and it is elsewhere.  `BothServices` is the inductive invariant.

*Whitelist*.  `Locked` says that the flag is up exactly while one check is between
its entry and its end.  `Honest` says of the snapshot and of a whole temporary file
that every room they leave out has failed since their date, `Tested` the same of
the rooms a check has gone through so far, and `Younger` that a check under way will
not publish anything older than the snapshot in place.  From them
`OneCheckHolds`, `HonestSnapshotHolds`, `RecentFailuresOnly` and
`NoSnapshotRegressHolds`, through crashes and torn temporary files.

*CatalogSync* and *IptvPublish*. The lock covers the run from its first read to its
replacement, so nobody else publishes in between (`NotSuperseded`); what reaches the
write has passed the size check (`EnoughToWrite`, `Filtered`). From these: last-good
is kept, no old result is published, and what a bridge publishes is filtered and
large enough even beside the NAS script. `CatalogueOnlyReplaced` justifies how
`Whitelist` sees the synchronisation: whatever a step of `CatalogSync` does, the
rooms of Douyu a reader of `channels.json` finds (`DouyuCatalog`) stay or become
another catalogue that is not empty, which is `Whitelist`'s action `Sync`. That the
*file* is always large enough is proved for deployments without that script
(`EnoughWithoutNas`): with it, `IptvPublish_count` refutes it.

*IptvBridge*.  `FilterInv` says that the lines a channel has taken are its first
ones, as many as its position counts; that each taken line is good, of the
round at hand, or among the failures counted; and that good lines and those of the
round stay within the limit.  That the next line exists (`OneMore`) is a fact about
finite sets of numbers.  At the end, no channel is hungry, hence
`ShareOrExhaustedHolds`; and without a good line every line was taken and failed.
`BridgeInv` ties the filter to the bridge with the lock: new when it begins, about
the text it has read, and equal to what it writes (`PublishedPassedHolds`).  With
`BridgeImplements` the theorems about `IptvPublish` hold of `BridgeSpec`
(`BridgePublishes`).

*AioServer*.  For logos, `LogosSafe`: calls in the map and the handlers that lead
them correspond one to one, no file is ever partial, and who was told that a file
is there finds it.  For prewarming, the flag is up while anything of a pass is
left.  For rooms, what each step of a resolution implies about the requests that
failed.  From them `NoSecondDownloadHolds`, `SentWholeHolds`,
`OnePassAtATimeHolds`, `LiveRoomFoundHolds`.

`BestStreamHolds` rests on what `InOrder` computes for any lines: a sequence of
the same lines (`Range`) in which none is before an earlier one (`Sorted`).  The
library's induction theorems cannot be used, so the induction is by least
counterexample: the set of the numbers of lines for which a fact fails has a least
element if it has any (`LeastElement`, from `WFMin`), and that is neither 0 nor one
more than a number for which the fact holds.  This is done twice: for the existence
of the recursive function (`SortsExists`) and for what it is (`InOrderIs`).  `InsertKeeps`
is the step.  The first usable line of such a sequence is one that no usable line
is before (`FirstIsBest`), since `Before` is a strict weak order (`BeforeOrders`).

Only model-checked: liveness (`LeavingEndsAll`, `StuckIsReplaced`, `LockFreed`,
`PassEnds`, and the fairness of `AddressService`: fairness and `ENABLED` are beyond
the prover).  What `PyHls` promises of its ffmpeg, `EveryFfmpegIsWatched`, is refuted.

## Where code and text disagree

Found by a run:

- `IptvPublish_count`: `grep -c ... || echo 0` yields two lines when nothing matches,
  the comparison fails as a number, and a NAS file without a channel line replaces
  the snapshot (`sync_iptv_from_nas.sh:49`).
- `FlvResume_audio`: a new connection resumes from the last *video* timestamp, so
  sound that was 60 ms or more ahead of it repeats or goes back (`proxy.go:581`): in the
  trace sound is at 150 and the picture at 40, and the next connection begins at 100.
- `PyHls_orphan`: two first requests at once start two ffmpeg in one directory and
  the first one is forgotten (`stream-proxy.py:108`).

Met while modelling, without a run of their own:

- A fresh request that meets a flight already under way is answered by it:
  the address is signed after the request (`Freshness`), but its page fetch may
  have begun before it, while `health.go:130` says it forces a new resolution.
- The first tag of a resumed connection is moved to 60 ms after the last one, the
  comment `proxy.go:266` says 200 ms.
- A prefetch and a reconnection that share one flight leave the address in use in
  the prefetch slot, and the next reconnection takes it again, although
  `proxy.go:406` speaks of a new one.  `ConsumedOnce` therefore excludes sharing.
- The Go watchdog restarts a dead or stuck ffmpeg with a new idle time, so a broken
  channel nobody watches is restarted for ever, although `proxy.go:816` promises
  reaping after 300 s.  `StuckIsReplaced` speaks of each process, not of the channel.
- Both HLS services remove each other's files, and judge their own ffmpeg by the
  other's, when a room is asked for on both ports (`HlsServices`).  No text says that
  they may; none says that they do not.
- `stream-proxy.py:130` and `:132` look at a playlist that a request which starts the
  channel anew may remove between the two: the `OSError` ends the watchdog, and with
  it every reaping and restart (`Stat`).
- The NAS script publishes what it fetched without the filter or the lock, although
  `docs/configuration.md:319` says the blocklist is applied before publication.

- `stream_session.go` says that a shared resolution is limited by `TIMEOUT_S`; one of
  Douyu may make five requests, each with that timeout (`RoomPages`: page, two tries,
  alias page, and again).
- `resolve.go:3` speaks of a 1:1 port of `allinone.py`, but for a Douyu room given by its
  number no page has been read before the first preview, so the short cut for dead
  rooms (742017 and a show of a day ago) is never taken there.

## What is not modelled

- What pages contain and how addresses are signed: regular expressions, MD5 and
  base64 over one request's data.  A fetch succeeds or fails; `RoomPages` tells apart the
  answers that change what is asked next.
- The text of playlists, routes, status pages, configuration parsing.
- The Python resolver's cache and the guard loop of `entry.sh`: see the plan.
- Stream configuration that changes on a resumed connection and is dropped
  (`proxy.go:331`): tags are modelled by kind and timestamp, not by what they decode to.
- A restarted ffmpeg's new idle time as a promise about channels (`proxy.go:861`): the
  code makes none it keeps, see above.
- The end of the Go process beside its running ffmpeg children (`main.go:200`).
- The FLV pass-through of `stream-proxy.py`: one curl per request, no shared state.
- Single lines of an IPTV channel that `reject_reason` refuses while others of the channel
  pass (`filter_iptv.py:145`): the model has the lines it lets pass, and a channel is in
  `Rejected` when none does.  Likewise a NAS list has one line a channel: the script
  counts lines, so a short list with many lines a channel would pass its count
  (`sync_iptv_from_nas.sh:49`); its run is about a list without any.
- `verify_streams` off and `urls_per_channel` 0 (`filter_iptv.py:313`), which
  `bridge_iptv.sh` passes only when its environment says so: `Limit` is positive.
- A write of the IPTV list that would tear the list in place: `atomic_write` writes to a
  file of its own, so `Write` changes nothing a reader sees, and `EnoughByBridge` speaks of
  what `Replace` puts there.
- `iptv-api`, nginx and packaging; tests, workflows and measuring tools.

## The plan

Order of work: first the resolver, which everything else asks; then the player's
session and its timestamps; then the processes and the files; then their proofs,
the compositions `IptvBridge` and `AioServer`, and the refinements.  All of that is
done.  What is left:

1. `PyCache`: the Python resolver's cache, where an older fetch can overwrite a
   newer address (`allinone.py:66`); `Supervisor`: guard loop, pid files, restarts.
2. A run of `Whitelist` over `CatalogSync` instead of its action `Sync`, which is
   what `CatalogueOnlyReplaced` proves of the latter.
