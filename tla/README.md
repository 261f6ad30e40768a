# Auralis in TLA+

TLA+ modules of the parts of Auralis whose correctness rests on the order things
happen in, TLC configurations that check them on small instances, and TLAPS proofs of
what should hold for every instance. Paths below are relative to `src/server/src`
unless they begin with `src/`.

## 1. The system

Auralis is one Fastify backend (`src/server`, one Node process over better-sqlite3), a
React PWA (`src/web`), an Android app (`src/android`), an API schema (`src/schema`), and
build tools (`src/design-codegen`, `src/scripts`). The server talks to Audiobookshelf,
Jellyfin, Prowlarr, qBittorrent and a music extractor over HTTP or as child processes.

Since the server is one process and SQLite calls are synchronous, code between two
`await`s is atomic. What interleaves is: route handlers and jobs at their awaits, the
upstreams' own progress, answers that come after a time limit, and restarts.

| Component | State | Operations | Interacts with | Hard | Correct when |
|---|---|---|---|---|---|
| Request machine `requests/machine.ts` | none (pure) | `next`, routes of four media | asked by job and routes before every save | routes skip statuses | no move outside a route |
| Advance job `requests/job.ts`, `jobs/schedule.ts` | the row it read, across awaits; an in-memory turn per medium | a run over every working request; steps search, start, poll, import; retry, choose, cancel | store, steps, people's taps | stale rows, lost answers, limits, restarts | no attempt is failed by an older one; no download is lost or left; a run ends |
| Turns and client `job.ts` inTurn/limited, `requests/books/download.ts` | calls asked for; torrents with a tag per key | start, cancel, poll | qBittorrent (external) | a call past its limit still lands | a cancel drops only its own |
| Stall and hold clocks `job.ts` | `progressAt`, `heldSince`, `updatedAt` of a row | poll, hold, retry | client's progress, outages | outage against stall, late runs | a stall is real, a hold is whole, a dead download fails |
| Request store `store/requests.ts`, `store/claims.ts`, triggers of `store/migrations.ts` | rows with versions, people, catalogue ids, arrivals, claims | create or join, save by version, arrive, cancel | routes and job | rows that cannot be read, merges | nobody loses a place; ids find what they should; arrivals are claimed |
| Request routes `routes/requests.ts` | none | ask, cancel, retry, choose | store, job | limit checked before merging | the limit holds |
| Book steps `requests/books/*` | files on disk | search, pick, place, import | job, index | a crash between two links | an import can be repeated |
| Stream cache `music/streamCache.ts` | files, bitmaps, held bytes, fetches under way | prepare, open, pin, chunk reads, eviction | player, extractor | shared fetches, aborts, room made before a write | the cap holds; a set bit has its bytes |
| Extractor and update `music/*.ts` | versions on disk, the one in use | check, swap, roll back | canary | a swap while calls run | the version in use works |
| Queue engine `queues/engine.ts` | none (pure, one session to the next) | Next, Back, switch, put next, add, play now, digest, style | called by every tap | walks over replays, two queues, digests' queues put aside | nothing waiting is lost; Forward undoes Back; a replay is no play |
| Queue sessions, autoplay `queues/sessions.ts`, `store/listening.ts` | a session with a revision; the device's current play; picks | taps, plans, reports with seeks, autoplay across awaits | engine, open plays, upstreams | late reports, plans and picks that come after a tap | each entry is recorded once; picks follow what plays; a play left behind changes nothing |
| Playing `routes/play.ts`, `routes/openPlays.ts`, `store/heldProgress.ts` | open plays, a turn per device, a household's place | plan, report, close, sweep | upstreams, sessions | two plans at once, reports alongside each other, closes that come late | one play to a device; listening within its time; the newest place stays |
| Library index `libraryIndex/*` | a row and a mark per item | passes over both upstreams, single imports | requests, search | a source that fails, pages that shift, an import alongside | what is there keeps its row; a mark is never newer than it |
| Sign-in `auth/*`, `store/signIn.ts`, `store/sessions.ts` | one-time states, sessions, attempts | start, callback, exchange | OIDC provider | a state used twice, limits | each state is used once |
| Upstream reach `upstream/*` | what is known of each upstream | mark reached or not | every adapter | answers out of order | a stale answer does not win |
| Lists, lyrics, search, feed, secrets, adapters, schema | tables, or nothing | see `PROJECT.json` | | little interleaves | |
| Web player, Android | player state, caches | play, sync | sessions | reconnects | agrees with its session |

`PROJECT.json` lists every component with its status, and every hazard with its line
and the properties that watch it.

How the parts meet: a request's import stores its item in the index and arrives, which
makes claims; a tap changes a session through the engine and saves it at its next
revision; a plan is opened in its device's turn (open plays) and then changes the session
(queue plays), as do the reports of the play it opened; each change works autoplay out
again.

## 2. The modules

| Module | Models | Its state in the code |
|---|---|---|
| `RequestMachine` | `machine.ts`: `ROUTES`, `movesFrom`, `onRoute`, `next` as `Allowed` and `NextState` | none |
| `DownloadTurns` | `inTurn`, `limited`, `books/download.ts` over qBittorrent | `turn`: the promise chain of a medium; `late`: calls past `limited`'s limit; `torrents`: the client's torrents by info hash with the tag each carries |
| `RequestLifecycle` | abstract: a request is made at `requested` and moves only by events its route takes; a restart may lose rows it cannot read | `states`, `restarts` |
| `RequestJob` (extends `DownloadTurns`) | `job.ts` with the saves of `store/requests.ts` and what a person does in `routes/requests.ts` | `rows`: table `requests`; `job`: where `advanceRequests` awaits and the row it holds; `unreadable`: what the rows of `requests` hold that no longer parse; `asked`, `left`: history of keys asked to be dropped, and of those left to the client with their row; `crashes` |
| `DownloadClock` (extends `RequestMachine`) | `download`, `stallClock`, `stalled`, `recordHeld`, `markHeld`, `clearHeld` for one request | `row` with its times as ages; `client`; three history clocks |
| `RequestPeople` | `store/requests.ts`, triggers, `claims.ts`, create and cancel routes | `rows` with people, `before` (who was made first), `liveKeys`/`arrived` (`request_keys`, `arrived_keys`), `claims`, `index` |
| `StreamCache` | `music/streamCache.ts` | `rows` and `used`: table `stream_cache` and its order by `last_used`; `files` on disk; `clients`: where each `open` awaits; `flights`; `writes`: what `keep` awaits (their sum is `writing`, `current` is the comparison of `forgotten`); `changed` |
| `QueueEngine` | `queues/engine.ts`: pure operators, one per button, with the folds of the community modules | none |
| `QueueTaps` (extends it) | every tap of `routes/sessions.ts` and `routes/lists.ts` on one device's session | `s`: the row of `store/listening.ts`; `lists`: the digests there are |
| `QueuePlays` (extends it) | plans, reports and autoplay of `queues/sessions.ts` with the taps that meet them | `s`; `loading`: plans whose chapters are awaited; `play`: the device's current play with what its reports recorded; `runs`: autoplay runs under way |
| `OpenPlays` | `routes/openPlays.ts` with `routes/play.ts`, `store/heldProgress.ts` | `held`; `turns`: the promise chain of a device; `flight`: reports awaiting an upstream; `sweeping`; `row`: `held_progress`; `counted`: what the upstream keeps; `lost`, `listened`: history |
| `LibraryIndex` | `libraryIndex/job.ts`, `libraryIndex/store.ts` | `rows`, `sync`: tables `index_items`, `index_sync`; `pass`: where `runIndex` awaits; `importing`; the upstreams' `listed`, `shelf`, `content` |
| `RequestJobProofs`, `DownloadClockProofs`, `RequestPeopleProofs`, `StreamCacheProofs`, `OpenPlaysProofs`, `QueueTapsProofs`, `QueuePlaysProofs`, `LibraryIndexProofs` | the proofs | |
| `MC…` | constants and symmetries of the runs | |

`RequestJob`, `DownloadClock` and `RequestPeople` each keep what one question needs:
the interleaving of job and taps; the times; the tables. What one leaves out another
has: in `RequestJob` a clock may have run out or not at any look, in `DownloadClock`
there is one request and no tap but a retry, and in `RequestPeople` the job's steps are
only what they are to people. In the same way `QueueTaps` has every tap and no plan or
autoplay, `QueuePlays` the plans, reports and runs with the taps that meet them, and
`OpenPlays` how plans take turns and what reports and closes leave behind.

**The job.** It runs over every working request and awaits each in turn: `BeginRun` lists
them, `PassOver`, `BeginSearching`, `IndexAnswers` are turns with no await, `Ask…` is the
code up to an await and `…Answers`, `…Throws`, `…Ends` what follows it. The row read is
`job.snap`; a save names its version and loses to a newer one (`SaveIfCurrent`);
`recordThrown` compares the status alone (`RecordThrown`). Taps are one action each up to
their await: `RetryRequest`, `Join`, `ChooseRelease`, `ChooseAnother`, `CancelRequest`,
and `PersonDropEnds` for what follows a drop. A call in turn reads the client
(`TurnReads`), then writes (`TurnWrites`), and may be given up at any point
(`Unanswered`), from where it may go on in `late`.

**Rows that cannot be read.** A restart may be one on another version's schema, and any rows
may then fail to parse (`Crash`). Nothing moves or lists such a row again. An ask that shares
an id with some deletes them (`GiveWay`): their people are put on the request asked for
(`Asking`), and "any download it had is left to its client" (store/requests.ts:185), which
`left` remembers. Which ids match is `RequestPeople`'s question; here any may. A row that has
arrived is not found by its ids (the trigger takes them out of `request_keys`).

**Versions and keys.** The code counts saves. Only the job compares versions, with the
one it read, so three stand-ins tell apart the one read, the present one and the next. A
save of any row but the job's needs none. Keys are UUIDs in the code: a new key is any
that nothing names any more, the least of them, since keys are told apart and nothing
else. So are the ids of requests: in `RequestPeople` a reused id is a new request, so its
item, and the claims on it, are new with it.

**The stream cache.** An `open` runs to its first await (`Open`), and again at each
chunk (`Pull`); `Named`, `ReadAnswers` and `ReadFails` follow its awaits, and happen
with the client gone too. `fetchChunk` and `keep` are one fetch for all who wait:
`FetchKeeps` and `FetchServes` end with `makeRoom`'s answer, and a write then opens its
file (`WriteOpens`) and lands or fails. A write follows the file it opened, so one
removed meanwhile takes its bytes along (`linked`). A client counts as playing one step
longer than the code has it once it has its last chunk, which only lets more happen.

**The queues.** A tap reads the session, changes it by engine operators and writes it
whole with nothing awaited, so it is one action. What the code calls in the same handler
is in the same action: `Stored` cuts the history to `HISTORY_KEPT`; a saved queue that
holds what is played comes back whole (`PlayedNow`). A plan is opened in its device's turn
(`OpenPlay`), then reads its book's chapters, and only then changes the session
(`Loaded`); a report lands on, jumps on or goes back (`Report`) as `sessions.ts` compares
its ref with the plan's. A run of autoplay names the revision it read (`fresh`); past it,
its picks are refused and it tries once more. An entry is its ref: entry ids and times are
left out, a position is the ref it was taken in.

**Plays held.** A plan waits for the turns of its device, looks what the device holds
(`PlanLooks`), closes each across an await (`PlanCloses`), and holds its own
(`PlanHolds`); closes of `closeHeld` take the same turns (`TurnEnds`). A report is taken
before its upstream answers (`Report`). Whatever is thrown takes back what no newer report has
replaced: where the upstream was not reached or refused (`Failed`), and also where it counted
the report and its answer was lost or came too late (`AnswerLost`). A household play tells only Auralis's own row, at once.

**The index job.** A pass awaits the list of libraries, each page, each stale item and
each question whether an unseen item is gone; every one of these is an action that
answers or fails (`UpstreamFails`). An item is read in one action and stored in another,
for an import's writes may come between them; storing and marking are two transactions,
which `Crash(TRUE)` parts.

## 3. The runs

| Run | Instance | Shows |
|---|---|---|
| `RequestJobTaps` | one book request, two people, three releases, torrents added and removed by hand, every call inside its limit | `NothingLeft`, `AutoStartsCapped`, `OneDropPerDownload`, `DropsOnlyItsOwn`: whatever two people tap while the job works, no download is left that nothing names, none is dropped twice, and no cancel deletes what a person added or what goes by a key a request counts on; the job starts no more releases by itself than its cap |
| `RequestJobCrash` | two restarts, after which rows may be unreadable, one call past its limit, cancels refused | `KeepsWhatFits`, `SnapshotCurrent`, `ResultIsOfRelease`, `NamedOrDropped`: what a row keeps fits where it stands, the row the job waits on has not moved, and every download can be named, was asked to be dropped, or is of a row that could not be read |
| `RequestJobLate` (a violation) | two requests of one release, one call past its limit | `DropsOnlyItsOwn` fails: the comment of `inTurn` does not hold of a cancel past its limit (see below) |
| `RequestJobFair` | fair, calls may hang | `RunEnds`, and `FollowsLifecycle`: the job and taps implement `RequestLifecycle` |
| `DownloadClock` | stall 3 ticks, hold 2, looks up to 4 apart, fair | `StallIsReal`, `HoldIsWhole`, `DeadEndsFailed` |
| `RequestPeopleTables` | three requests, two people, two catalogue ids, rows that turn unreadable | `FoundByItsKeys`, `ArrivedIsClaimed`, `ClaimedByThoseOnIt`, `PlacesAreKept` |
| `StreamCacheRows` | two tracks, two formats, room for two chunks, two clients, two writes | `CapHolds`, `BitHasBytes`, `RowStays`, `NoStrayFile`, `BytesAreCounted`: writes, evictions, changes, opens and leaves in any order keep rows, files and the cap together |
| `StreamCacheFair` | one track of two chunks of unequal length, two clients, two writes, fair | `ClientsAnswered` |
| `QueueTaps` | an album of two tracks, an episode, a digest whose rows change and which may be deleted; both queue styles | `PositionIsItsItems`, `DigestsAtHome`, `WalkIsPlays`, `ForwardUndoesBack`, `NextRecordsOnce`, `NothingLost` |
| `QueuePlays` | a book of two chapters and an episode, which autoplay may pick; one plan loading, two autoplay runs | `PicksCurrent`, `PlayIsCurrent`, `RecordedOnce`, `SeekKeepsPlan`, `HistoryOnlyGrows` |
| `OpenPlays` | two devices, two plays, two reports, own account or household, an answer lost | `OneHeldPerDevice`, `ListenedInTime`, `KeepsNewest` |
| `LibraryIndex` | a show and a book on one shelf, an album in each of two music libraries, pages of one, two events, fair | `WhatIsThereStays`, `MarkedWasRead`, `SourceMirrored` |

Each property has a mutant in `PROJECT.json`: a plausible bug of the code under which
the run finds the property violated. The mutants stand in the modules beside what they
change, each named for it (`StallClock_NoOutage` beside `StallClock`).

**Where the code and its comment part.** `inTurn` (job.ts:167) says a cancel still on its
way can never drop a download started after it was asked for. That holds while every call
is inside its limit (`RequestJobTaps`, and for any requests and keys the theorem
`OnlyItsOwnDropped`). A cancel past its limit is given up but not stopped; its delete goes by the hash
it read before, and takes the torrent that another start added since under another key
(`RequestJobLate`, 28 steps). It takes a `REQUEST_STEP_TIMEOUT_SECONDS` below what the two
calls of a cancel may last (15 s each; the default is 120 s, the least 1 s), or a client
that carries out late a delete nobody waits for any more.

**Abstract specification.** `RequestLifecycle` says what a person may count on: a request
is made at `requested`, moves only by events its route takes, and ends by being cancelled or
by a restart that cannot read it. `RequestJob` implements it with the mapping `states` of its
rows that can be read and `crashes` for `restarts` (`FollowsLifecycle`), so the refusal in `apply`
(job.ts:128), which would throw after a step's work was done upstream, is never reached.

**What the code does at its edges.** Met while modelling, each the reason for a bound or
a premise above, and each in the hazards of `PROJECT.json` at its line:

- A start that passes its time limit is not stopped (`limited` rejects, the call goes
  on), so a drop by its key may find nothing, answer, and the start then adds a torrent
  nothing names (job.ts:218). `NothingLeft` is checked with every call inside its limit;
  what is always true is `NamedOrDropped`: somebody asked for it to be dropped.
- A request whose release resolves to a torrent that is there already follows it by a key of
  its own, which tags nothing (books/download.ts:97-98). Its own cancel leaves the torrent;
  but a cancel of the request that started it deletes what the follower counts on by its hash.
  `DropsOnlyItsOwn` is about keys, and says nothing of a follower.
- "Any download it had is left to its client" (store/requests.ts:185): the download of a row
  that could not be read is named by nothing once an ask has replaced the row, and nobody was
  asked to drop it: the last case of `NamedOrDropped`. `NothingLeft` is checked with no restart.
- A poll that finds a queued request's torrent already whole moves it to `downloading`
  with its old clock (job.ts:254), while the save ends the hold. If a check in the client
  then takes back bytes, the download fails as stalled at once. `StallIsReal` is checked
  with no check that loses bytes.
- A held read that comes up short takes the length it read for from the row the track has
  by then (streamCache.ts:439). If the track was forgotten and made again in another size
  meanwhile, `bytes` no longer counts the set chunks. `CapHolds` and `BytesAreCounted` are
  checked with chunks of one length, and proved while no such read is of a chunk of another
  length (`ReadsTell`).
- A play becomes its session's current item outside its device's turn (sessions.ts:461),
  after its chapters were read. With two plans loading, a book that waits for chapters
  becomes current after the plan that superseded it: `PlayIsCurrent` fails with
  `Ids = {p1, p2}`, and holds with one plan loading at a time.
- A report that throws is taken back, "not taken upstream" (openPlays.ts:173). An upstream
  that counted it and whose answer was lost, or came past its limit, counts the same listening
  again with the next report: more than "the time since the last report taken", to which
  `report` bounds it (openPlays.ts:146). `ListenedInTime` allows what was so taken back,
  `lost`, once more.
- Where reports of one play overlap, an older one that throws after a newer was taken leaves
  everything at the newer (openPlays.ts:175), and nothing is taken back.
- A digest played again is rebuilt from its rows, and what was added to its queue by hand
  goes with the old one: the exception in `NothingLost`.
- `HistoryOnlyGrows` and `WalkIsPlays` name what `HISTORY_KEPT` pushed out as an exception.
- A crash between a pass's two transactions (libraryIndex/job.ts:174 and 176), while an
  import stored the same item in between its reading and its storing, leaves a mark newer
  than its row until the answer is no longer trusted: the exception in `MarkedWasRead`.
- Rows of an Audiobookshelf library that is no longer listed stay for good, and so do all
  of Jellyfin's once it lists no music library: the exceptions in `Mirrored`.

**Bounds.** `MaxTurn` 1–2: calls in turn when a person asks for one more. Two is the
least with a drop behind another's call, and what holds up the third holds up the
second. `MaxLate` 0–1: one call past its limit is enough for every reordering with the
calls in turn. `RequestJobTaps` has none, as `NothingLeft` and `DropsOnlyItsOwn` need (see
above). `MaxCrashes` 2: a restart keeps the rows only, which are in any state a
restart may find; what the first leaves unreadable an ask may replace before the second. `Keys`
5, or 8 with rows that cannot be read: more than the rows, calls and torrents of the
instance can name at once (TLC would otherwise stop at `NewKey`, which the runs do not).
`RequestJobCrash` has a view, `ByKeysInUse`: keys are only told apart, so each is told by where
it is used first; and of `asked`, `left` and the unreadable rows only what is about a key still
in use. A key out of use comes back as a new one alone, and what was noted of it is then
forgotten, so two states of one view have the same steps and properties, but for an unreadable
row without such a key: that one changes who is on a request only, and there is one person.
`MaxAutoStarts` 1 where the code has its own number: the cap is met and then tried.
`Cap` (ages) is past both limits, so ages not told apart are all past every comparison.
`MaxGap` above the stall limit allows a look a limit late; `DeadEndsFailed` is about
those behaviours whose looks come closer than the limit from some point on, as the code's
timers (30 s against 15 min) keep them unless many steps hang.

`Clients` and `Writers` 2 in the cache: one client in a fetch, and one that joins or
leaves it or whose read goes on after it left; two writes are the least that share what
room there is, or land on one chunk. `CapBytes` holds two chunks, so that room has to be
made for the third, a write under way counted.

`Kept` 2, `MaxEntries` 3, `MaxPlays` 2 in the queues: two plays are the least that Back
can go through twice; three entries are
one current, one in the walk and one waiting, or one in each of two queues and one put
aside; every button meets every other over them. A third play, which pushes the first out of
the history, takes longer than a run should (it passes on `QueueTaps`, in five minutes);
that the properties of `QueueTaps` survive it is what the theorems show, for histories and
queues of any length. `Runs` 2: one run refused while the one
after it is under way.

`OpenPlays`: two plays are the least with one opened while another closes, two devices
those of an item left on one and gone on with on the other; two reports of a play in
flight are answered in either order; `MaxNow` 2 with `Idle` 0 and `Slack` 1 has plays
swept and reports claiming more than there was time for; `MaxLost` 1 is one answer lost,
whose listening is counted again. Its clock and plays run out, so
the run has no deadlock check. `LibraryIndex`: pages of one with two items shift at any
deletion; two events are a deletion and a crash, an edit and a failure, or two of either,
in any order, and beside them a source of either kind may be down for good.

**Fairness.** `RequestJob`: weak fairness of the job's actions and of `PersonDropEnds`;
`scheduleJob`'s timer brings the next run, and `limited`'s timeout answers any call that
does not, so nothing is assumed of the client, of people or of an upstream.
`DownloadClock`: weak fairness of time and of the job's look, the same timer. A client
that is away for ever is `HoldRunsOut`; `DeadEndsFailed` is about one that answers.
`StreamCache`: weak fairness of a fetch's end (`CHUNK_TIMEOUT_MS` ends an ask that does
not answer) and of a write's (the disk answers or fails); nothing of the clients.
`LibraryIndex`: weak fairness of a run's steps, started by the same kind of timer, and of
an import's store. Each step may be a failure; what makes `SourceMirrored` come true is
that a source not down fails only as often as `MaxEvents` allows, and nothing at all is
assumed of one that is down, nor is the other's mirroring made to wait for it.

## 4. The proofs

`RequestJobProofs` proves for any finite or infinite sets of ids, people, releases and
keys, any number of late calls and restarts, and each medium with a download;
`DownloadClockProofs` for any limits, any size and any gap between looks;
`RequestPeopleProofs` for any requests, people and catalogue ids; `StreamCacheProofs`
for any finite sets of tracks, chunks and writes and any formats, lengths, cap and clients;
`OpenPlaysProofs` for any
devices, plays, claims, slack and idle time; `QueueTapsProofs` for any things played, any
digests and rows of theirs, and any number of plays kept from two on; `QueuePlaysProofs` for any
things with entries, any picks, and any plans and runs at once; `LibraryIndexProofs` for any finite
set of libraries and items, and any page size and trust. The bounds of the runs are parameters of
the theorems, so they hold however large those are.

| Theorem | Property |
|---|---|
| `RequestJobProofs.Invariant`, `Typed` | `IInv` and `LostFits`, `TypeOK` |
| `RequestJobProofs.KeepsFitting` | `KeepsWhatFits` |
| `RequestJobProofs.SnapshotStays` | `SnapshotCurrent` |
| `RequestJobProofs.ResultOfRelease` | `ResultIsOfRelease` |
| `RequestJobProofs.StartsCapped` | `AutoStartsCapped` |
| `RequestJobProofs.Refines` | `FollowsLifecycle` |
| `RequestJobProofs.KeysAreOwn` | `KeyInv` |
| `RequestJobProofs.OneDrop` | `OneDropPerDownload` |
| `RequestJobProofs.NamesOrDrops` | `NamedOrDropped` |
| `RequestJobProofs.OnlyItsOwnDropped` (if no call passes its limit) | `DropsOnlyItsOwn` |
| `RequestJobProofs.NothingIsLeft` (if no call passes its limit, no cancel is refused and the server stays up) | `NothingLeft` |
| `DownloadClockProofs.Invariant` | `IInv` |
| `DownloadClockProofs.StallsAreReal` (if no check takes bytes back) | `StallIsReal` |
| `DownloadClockProofs.HoldsAreWhole` | `HoldIsWhole` |
| `RequestPeopleProofs.Invariant` | `IInv` |
| `RequestPeopleProofs.KeysFind` | `FoundByItsKeys` |
| `RequestPeopleProofs.ArrivalsClaimed` | `ArrivedIsClaimed` |
| `RequestPeopleProofs.ClaimsOfThoseOnIt` | `ClaimedByThoseOnIt` |
| `RequestPeopleProofs.NobodyLosesPlace` | `PlacesAreKept` |
| `StreamCacheProofs.Invariant`, `WaitersAreListed` | `IInv`, its `FlightsAwaited` |
| `StreamCacheProofs.RowsAreKept` | `RowStays` |
| `StreamCacheProofs.BitsHaveBytes` | `BitHasBytes` |
| `StreamCacheProofs.FilesAreCounted` (if no write fails) | `NoStrayFile` |
| `StreamCacheProofs.CountsAgree` (while `ReadsTell`) | `BytesAreCounted` |
| `StreamCacheProofs.CapIsKept` (while `ReadsTell`) | `CapHolds` |
| `StreamCacheProofs.CapIsKeptOfOneSize` (if `SameLengths`) | `BytesAreCounted`, `CapHolds` |
| `OpenPlaysProofs.Invariant` | `IInv` |
| `OpenPlaysProofs.HoldsAtMostOne` | `OneHeldPerDevice` |
| `OpenPlaysProofs.NewestPlaceKept` | `KeepsNewest` |
| `OpenPlaysProofs.ListeningInTime` | `ListenedInTime` |
| `QueueTapsProofs.Invariance` | `IInv` |
| `QueueTapsProofs.PositionsAtHome` | `PositionIsItsItems` |
| `QueueTapsProofs.DigestsKept` | `DigestsAtHome` |
| `QueueTapsProofs.WalksArePlays` | `WalkIsPlays` |
| `QueueTapsProofs.ForwardComesBack` | `ForwardUndoesBack` |
| `QueueTapsProofs.NextRecords` | `NextRecordsOnce` |
| `QueueTapsProofs.NothingIsLost` | `NothingLost` |
| `QueuePlaysProofs.Invariant` | `IInv` |
| `QueuePlaysProofs.PicksAreCurrent` | `PicksCurrent` |
| `QueuePlaysProofs.HistoryGrows` | `HistoryOnlyGrows` |
| `QueuePlaysProofs.PlayInvariant` (with one plan loading at a time) | `IInv`, `PlayInv` |
| `QueuePlaysProofs.PlayIsOfItem` (with one plan loading at a time) | `PlayIsCurrent` |
| `QueuePlaysProofs.ReportsRecordOnce` (with one plan loading at a time) | `RecordedOnce` |
| `LibraryIndexProofs.Invariant` | `IInv` |
| `LibraryIndexProofs.NothingThereGoes` | `WhatIsThereStays` |
| `LibraryIndexProofs.MarksFollowRows` | `MarkedWasRead` |

Assumptions: `TurnConstants`, `JobConstants`, `ClockConstants`, `PeopleConstants`,
`CacheConstants`, `OpenPlaysConstants`, `EngineConstants`, `TapConstants`, `PlayConstants`, `IndexConstants`, the `RowsAreSomething` of
`RequestJob`, `RequestPeople` and `LibraryIndex`, `RecordsAreSomething` and
`StatesAreSomething`, which say that numbers are numbers,
that `None` and `ByHand` are none of the values they are told from (rows, statuses, queues, plans,
the number of a play or a report, what a drop names), that there are three
versions to tell apart, that something played has entries, that a book's chapters are no other thing's, that a history keeps two plays at
least, as many as one tap records (the server keeps 500), and that a library is of one upstream.
In `QueuePlaysProofs`, where no set holds all entries and plans, that `None` is none of them is the
premise `NoneIsApart` of the theorems that need it.

*The job.* `SnapshotCurrent` is what the rest needs and is not inductive alone: a tap that
moved the job's row would break it. The machine takes a person's events only from `failed`
and `needsChoice` (`PersonsEvents`), and the job waits for an answer only on rows
`searching`, `queued`, `downloading` or `importing` (`JobWaits`), so no tap moves that row
(`PersonsSave`): it can only gain or lose people, or go. Hence what the job saves is made
of a row that fits (`MyRowIsSnap`), a start whose row is not current belongs to a request
that is gone, and an import's result is of the release still on the row. `RowFits` adds to
`KeepsWhatFits` what its steps use (a failed row names a working step, a result is of its
release, the cap), and `NamedCalls` that a start names its release.

*The refinement.* `Refines` maps each row to its status. What a step saves is an event
applied to the row it read, or that row with a key or a handle more; with `SnapshotCurrent`
the row it read is the present one, so each step is a move the lifecycle allows, a request
made or gone, or none. A step that saves nothing and every step of the client leave all
statuses alone. A restart is the lifecycle's: the rows it can read stand where they stood, the
others are lost (`CrashFollows`).

*Keys and drops.* `KeyInv` says whose each key is. `OwnKeys`: no two requests have one, for a
new key is one that nothing names. `DropsUnnamed`: what a cancel in turn is to drop is
nobody's any more, for every tap saves its row without the key before it asks. `Alone`: the
job has one call in turn at most and no key is dropped twice by people, which is
`OneDropPerDownload`. `JobsCalls` and `StartsKey` tie a start in turn to the request the job
waits for, so that the key of a start whose request is gone is known to nobody else.
`Accounted` is `NamedOrDropped` with what is still on its way: the key of a torrent and that
of a start in turn or late (`InUse`) is named by a row, or let go (`LetGo`): asked to
be dropped, or of a row that could not be read. A start
is asked for by a key its row names; a row gives a key up only as a drop of it is asked
(`StepNames`), or takes it along as it turns unreadable (`CrashAccounts`); what was let go stays
so until the key is new again (`StepLetsGo`), and a write puts only its own call's key on a
torrent. `LostFits` is the type of what is known of such rows.

*What a cancel deletes.* A cancel reads and then deletes. `OwnFound` says that, with no call
past its limit, only the first call in turn has read, and that what a cancel has found still
carries the key it was to drop, or is gone: the client's only other steps are a person's. A
key a cancel is to drop is nobody's (`DropsUnnamed`), so nobody counts on the key of what it
deletes. That is all it says: one who follows the torrent by its hash has another key.

*What is left.* `NamedOrDropped` leaves three ways for a download to stay: its drop never runs,
finds nothing, or finds only part. `DropInv` closes them. A key asked to be dropped and still
in use has its drop in turn, behind every start of that key, for the tap asks after the job
did and the client answers in that order; so what the drop finds is all there is, and
a key is in use for one hash only. No row names such a key. A call past its limit, a refused
cancel and a crash between a row's deletion and its drop each break one of these, and
`RequestJobLate` and the hazards show them: hence the theorem's premises, the bounds of
`RequestJobTaps`.

*The clocks.* Neither `progressAt` nor `heldSince` is what happened: a look knows of a rise
only once it looks, and of an outage only by the hold it left. So the row's clock is
compared with two histories, each with the exception the next look mends: the bytes stood
as long as the clock says, or more were counted since (`StillSince`); no outage came since,
or the row is on hold (`SeenSince`). `LooksSave` ties the time since the last look to the
row's last save, so that a look that comes a limit late is seen to; `FoundIsThere` is what
a check that takes bytes back would break, and `StallIsReal` with it, hence the premise.
`HeldNoLonger` is the hold's own.

*The request tables.* `FoundByItsKeys` and `ArrivedIsClaimed` are inductive but for one
thing: an ask joins the oldest readable match, and an oldest must exist. `MadeInTurn` says
that of any requests there are one was made first. It holds for any number of them, with no
induction: what is made last comes after all the others, and what goes takes its place in
the order with it. An ask that finds none to join has then replaced every match, so every
id it brought is free for the new request.

*The stream cache.* `RowStays` needs that nothing takes the row of a track that is played.
Eviction and `release` look at players, so what could break it is a fetch that outlives or
forgets its waiters: `FlightsAwaited` says that those who wait on a fetch are its waiters
and of its format, hence its track has players and its row stays (`FlightStands`). A write
outlives its row: `CurrentFits` says that one whose track was not forgotten meanwhile is of
the row there is, and has written into the file at its path; `LinkedHasFile` that such a
file is there. With them what lands is in the file by the time its bit is set. `SharedFlies`
lets the end of a write settle the one fetch it was begun for, and no later one of the same
chunk. `NoStrayFile` is inductive by these, but for a write that fails after its track was
evicted, hence the premise.

*The cap.* `CapHolds` bounds two sums, and is inductive by itself as long as no row counts
less than nothing: what is forgotten then makes room. That a count is a natural number is
what `BytesAreCounted` gives, a sum itself, so the two go together. A landing write moves
its bytes from one sum to the other (`LandsFits`); it must be of the row's format for the
count, which `CurrentFits` says. A new write fits since `Fits` summed what is left once the
evicted have gone (`BeginFits`). Every other step lets rows and writes go, or a row hold
less (`LighterFits`). The premise `ReadsTell` is there for the one step that is not the
row's own: the failed read of a client that left. It always holds where a track's formats
are of one size (`SameLengths`), which is the run's case. What is used of
sums (`SumByAny` and its kin, in `OpenPlaysProofs` too) comes from the
definition of the community modules: an induction over the subsets of a finite set, as a
search for its smallest counterexample (`SmallestSubset`).

*Plays held.* `OneHeldPerDevice` says nothing of who is about to hold. `LooksInTurn` does:
only the first turn of a device has looked at what it holds, and from then on the device
holds no more than that turn is yet to close, since nothing else may come to be held
before the turn ends. `OpenedOnce` keeps a play from being opened by two turns, and
`WaitsForOpened` keeps a late close or report from making one of a play never opened.
`KeepsNewest` needs `PlaceIsOfPlay`: a place kept is of a play there was, and no newer than
now, so the next listening is the newest. `OneHeldPerDevice` counts a set; `HoldsOne` is the
same without counting, which the steps keep.

*Listening in time.* What an upstream counts says nothing of the reports it has yet to
answer, which count when it does: `Granted` adds them. The play's own clock bounds it: no
more was granted than there was time for up to `lastReportAt`, and `ahead` past it (`Due`),
since a report moves that clock by as much as it grants (`Allowed`). A report taken back puts
the clock back, and only if no newer one was taken. Where its answer was lost it was counted
all the same: the invariant is of `Once`, what is counted less what was so taken back
(`lost`), which such a step leaves as a failure does. So a report on its way carries a bound
too: `before`, what was granted as it was taken, was due by the clock it goes back to, and
what was granted since is its own listening, as long as it is the newest. Of two on their
way, the newer may go back to the older (`g.lastSeq = f.seq`), whose own going back is then
next; `ReportsInOrder` says that numbers tell reports apart and which was taken after which,
failures and reports sent again between them included. `before` is no variable of the
model: `TimeInv` asks only that there is one (`\E before`), each step finds the next.

*The queues.* `IInv` says what a session is (`Session`), and not only of what plays: each
queue, put aside or not, holds items of its owner (`ItemOf`), each at its own position and
replays of plays there were; what is current is in no walk; the user's line has its walk's
entries first, in order. Each operator of the engine makes a session of a session, so a tap
does, whatever it calls in turn. Three things make that so. A seq an item names stays one:
a play is recorded after the last and the oldest is pushed out first, so what is said of a
history's plays is so of the next (`GoesOn`). A queue may be put aside, and an item start
anew, because the walk has ended by then and no entry of any queue has a place in it
(`WalkEnded`, `Unwalking`). And an owner's queue comes back only from what is saved of it,
which goes as it does (`Others`, `SwapSpoken`), so owners stay apart and living. What is
selected from a line, `Only`, is counted by places, as a filter keeps them (`OnlyKept`).
`ForwardUndoesBack` is no step but two operators, one after the other: what Back leaves goes
first in its queue at a place below every other (`SteppedIs`, `LowestIs`), so Next finds that
queue's head to be the walk's next (`WalkNextIs`); Back made a replay current, which Next
clears and records nothing of; and what lands is the item parked, its position and what it
followed with it. `NextRecordsOnce` counts: what two lines put together hold of a ref is what
each held (`OftenJoined`), an entry put in or taken from the front is one more or less
(`OftenPut`, `OftenTail`), and each operator Next calls moves one from a sum to another
(`RecordedCounts`, `RetiredCounts`, `LandCounts`, `PlayCounts`).

`NothingLost` is carried from operator to operator (`Carries`, `CarriesOn`): a ref that waited
before one waits after it, or is among the plays the operator recorded. Two are the most a tap
records: the item it ends, and what Back first left in the queue a new play goes into
(`EndWalkCarries`). So with two plays kept (`EngineConstants`; the server keeps 500) none of
them is pushed out as it is stored (`StoredCarries`). It takes one more invariant,
`ContextsKept`: an album's context is in the music queue of Spotify's style only, so a play
that drops a context drops an empty one. A digest's play and its deletion have lemmas of their
own (`EnterDigestLeaves`, `DeletedLeaves`): what was in no queue they rebuild or let go waits
on.

*Plays and picks.* A plan steps on, a report steps along what a plan has left, with as many
steps as there are entries between: a fold, and what it does is said of every number of
steps. A fold over a line is a function over the subsets of its places (`FoldExists`,
`FoldsAgree`), and a smallest set of places for which something fails shows that it never does
(`ByGreatest`). What it carries is `From`: a session whose plays go on from those there were. A
report drops a play again only where its own step recorded one, so the play it drops is the
last and none that was stored (`PassEntryIs`), which is `HistoryOnlyGrows`. `PicksCurrent`
needs `AsRead`: a run that is still on the session's revision follows what the queues are on.
A save outdates every run and begins one, and a run refused works them out once more, on the
session there is then; so if none is under way, the last to keep its picks was fresh.
`PlayIsCurrent` and `RecordedOnce` rest on `PlayInv`: while a plan loads, the play it opened is
the device's and not answered; with none loading, the session plays an entry of the play's item;
and since its answer the play has noted, under its ref, the seq of every play recorded. A tap
that changes what plays leaves no play; a plan answered begins to note at the session's next
seq; a report that saves steps onto the entry it reports (`ReportIs`), and a step that records
either notes what it recorded or drops it again. So of two plays recorded since with one ref
both seqs are the one noted, and they are the same play (`SeqsApart`). Both theorems have the
premise `OnePlan`, without which `PlayIsCurrent` fails (section 3).

*The index.* A row goes for one of two reasons. An unseen one goes when its upstream, asked,
has it no more, which holds in the very step. One outside the libraries a Jellyfin pass
listed goes with no question asked; that nothing there is on a shelf needs `PassCovers`
(the pass listed all that are still listed, for libraries only go) and `UnlistedIsEmpty`. A
mark is written with the marker the page listed, a row with what was read later:
`ListedBefore` says the first is never the newer, whatever edits come between; and
`UnknownUnread` covers a show stored without its feed's order.

TLC checked each `IInv` (and `TimeInv`) on the instances first; a proof then has one lemma for each
action, one lemma joins them, and each theorem follows from `Invariant`.

*Only model-checked.* `SeekKeepsPlan` of `QueuePlays`: it compares what every number of steps
leads to before a report and after it, through autoplay's picks, which depend on the plays a
report drops; no invariant carries that from step to step.
Out of the prover's reach are the liveness properties (`RunEnds`, `DeadEndsFailed`, `ClientsAnswered`, `SourceMirrored`).

## 5. Not modelled

Everything listed `not_modelled` in `PROJECT.json`, with the reason. Within the modelled
parts:

- **Requests**: how releases are matched and ranked (a search may answer any), names, paths
  and files of an import (it may name its item, wait or fail; the links of one import are
  taken as one), notices to clients, view formatting, the job of a song (its route is in
  `RequestMachine`), podcasts (their route has no steps registered), an add by hand in
  the client between a cancel's read of a torrent and its delete, which the code cannot tell,
  and a restart on the newer schema again, after which rows parse once more.
- **Stream cache**: hosts and redirects of a stream, a track that changes its size under one
  itag (its two sizes would share a file).
- **Queues**: `putQueue` (a drag or a removal, which writes the entries a client names), an add
  at the default placement (it comes to one of `next`, `end` and `now`, but as `now` brings back
  no saved queue), several saved queues of which one has finished its item and another has not
  (`finished` is one choice for all of them), an autoplay run that throws (it is logged and leaves
  the picks as they were, sessions.ts:5; an upstream's failure is a run with no pick),
  marks sent to Audiobookshelf when an episode of a digest ends, entry ids and times, which
  track or episode autoplay picks, and the restart of the server, after which a session is
  as stored and its play is gone.
- **Playing**: what a plan is made of, bookmarks, books of one entry, the close of every
  play as the server stops.
- **Index**: the two answers an album's row is made of (its own from the page, its tracks from
  a second call; here one answer gives both), a crash between an import's storing and its
  marking (job.ts:151 and 152), a library that comes back in the middle of a pass (here
  libraries only go), windows of pages per run, the jitter of a mark's age, an album that moves
  from one library to another, and what a row holds beside the version it was read at.
