# TLA+ models of the Unora population tracker

The tracker logs a headless client in to a Dark Ages game server once an hour,
asks for the list of players online, logs out, and stores the counts in an
SQLite file that a GitHub workflow commits and a static page draws. This
directory holds its formal models: TLA+ modules that follow the Python code,
TLC configurations that check them on small instances, and proofs that TLAPS
checks for every value of the constants.

Paths such as `client.py:277` are under `src/src/population_tracker/`.
`PROJECT.json` maps every definition to the lines it models and lists the runs,
the mutants, the hazards, the findings and the theorems.

    tlc -workers 2 -config client_faults.cfg MCClient.tla
    tlapm ClientProofs.tla

## The system

| part | state it keeps | operations | talks to |
|---|---|---|---|
| client (`client.py`) | `_state`, `_writer`, `_crypto`, `_sequence`, `_requested`, the future `_result`, a read task and a request task | `fetch`, `_read_loop`, ten handlers, `_follow_redirect`, `_request_world_list`, `_logout`, `_close` | lobby, login and world servers, one TCP connection after the other |
| protocol (`protocol.py`) | the receive buffer | `parse_frames`, `build_frame`, one parser or builder per packet | called by the client |
| crypto (`crypto.py`) | seed, key, salt table | `client_encrypt`, `client_decrypt`, the same two of the server, which opcodes are encrypted and with which key | called by the client, made anew on `ConnectionInfo` and on every redirect |
| storage (`storage.py`) | table `population` in an SQLite file | open with two migrations, `record`; `PopulationSample.from_world_list` | the file, which earlier versions and other processes may have written |
| main (`__main__.py`) | none of its own | resolve version, fetch, record, exit status | all of the above |
| version resolver (`version_resolver.py`) | a JSON cache from DLL hash to version | read manifest, look up, download, scan, save | patch server over HTTP |
| export (`export.py`) | none | read all rows, roll old days up, write JSON | the SQLite file |
| workflow (`.github/workflows/population.yml`) | branch `main` with the database | guard, record, export, commit a root commit, force push with lease | runs main and export |
| trigger (`tools/trigger-population.sh`) | an attempt counter | dispatch the workflow, retry with backoff | GitHub |
| tables, developer tools, dashboard | constants; none; none | generated tables; manual checks of the cipher; a static page | - |

What is hard about them:

* **client.** Three asyncio tasks share one object. The task in `fetch` waits
  for a future with a timer and can be cancelled by Ctrl-C; the read loop
  follows redirects by closing one socket and opening another while it is
  suspended; the list request sleeps for two seconds and then writes to
  whatever connection there is. The cipher and the sequence number change on a
  redirect, and the cipher alone on `ConnectionInfo`. The client is correct
  when each packet is under the cipher its server expects and in sequence, the
  password and the list request are sent once, every heartbeat is answered,
  the future is settled once, one socket is open at a time, the logout is sent
  and the socket closed however the run ends, and the run does end.
* **storage.** Python's sqlite3 opens no transaction before DDL, so a migration
  is several commits, between which the process may be killed or another
  process may do the same migration. It is correct when no row is lost or
  changed, each run that ends well leaves one row, and any earlier file can be
  brought up to date.
* **main.** Some exceptions become a row of NULLs and others end the process.
  It is correct when the exit status, the row and the verdict of `fetch` agree
  and the character is offline before the database is touched.
* **protocol, crypto.** TCP cuts the stream anywhere and the lengths in it may
  be wrong; both random values of a packet are split over its last bytes. They
  are correct when the handlers get what the server sent, each frame as soon as
  it is there, and the server what the client said.
* **version resolver.** The manifest and the download are two requests between
  which the patch server may change; whatever fails must end in the fallback.
* **sample and export.** The server counts and mostly lists the tracker, in
  whatever case; rows hold nulls of failed runs and of columns that did not yet
  exist; the day of the cutoff is partly raw and partly averaged, and the
  cutoff moves. They are correct when a row tells who else was online, the
  published file has every row once, and a settled day stays as it is.
* **workflow.** A guard read before the sample is taken, a push that must not
  overwrite another, a kill after five minutes, a dispatch that is repeated.

`hazards` in `PROJECT.json` lists these one by one, each at its line, with the
property that watches it or the reason why none does yet.

## The modules

    Fetch      <- (refined by)  Client    : ClientInv, ClientProofs, PromiseProofs,
                                            MCClient
    Ledger     <- (refined by)  Store     : StoreProofs, MCStore
    Tracker    =  main + Store + Fetch    : TrackerProofs, MCTracker
    VersionResolver                       : ResolverProofs
    Workflow                              : WorkflowProofs
    Cipher  <-  Framing  \                : CipherProofs
    Sample  <-  Export   -  DataPath      : DataProofs, MCData

**Client** is `client.py`. An action is what one task does between two points
where asyncio may switch to another. The variables and the code:

| variables | code |
|---|---|
| `main`, `outcome`, `stop`, `grace` | where `fetch` is suspended, what it returns or raises, who cancelled the wait, and whether the reader is still in the same turn of the event loop |
| `result` | `self._result` |
| `reader`, `target` | the read task: `reading`, or inside `_follow_redirect` (`closing`, `opening`), and where that leads |
| `requester` | `self._request_task` |
| `state`, `writer`, `crypto`, `sequence`, `requested` | the attributes of those names |
| `link`, `inbox`, `wire`, `got`, `asked` | the sockets, what is on its way to the client, all it ever wrote, and what the servers have handled and sent |

The actions `FetchStart` to `Finish` are `fetch`, `_logout` and `_close`;
`Handle...`, `IgnoreFrame`, `ReadBadFrame` and `ReadClosed` are `_read_loop`
with one dispatch; `HandleRedirect`, `OldSocketClosed`, `RedirectConnected` and
`RedirectRefused` are `_follow_redirect`, cut at its two awaits;
`RequestWorldList` is the end of the two-second sleep. A body is an opcode and
the cipher it is under. A cipher is the connection whose seed and key it has (0
for a new `Crypto()`) and whether its salts come from the default name or from
the redirect's. The bytes of a packet in the clear, and unknown opcodes
(`OTHER`), carry nothing. A malformed body or frame raises ValueError, which
`_read_loop` hands to `fetch`, or an exception it does not catch (`Crashes`:
zlib.error, IndexError, a division by the length of an empty key). Servers are
external: they answer as the code and `tests/test_integration.py` use them, or
refuse, cut, reset, reject, send garbage, fall silent, or hand the client on to
another world, as far as the constant `Env` allows. A server that resets a
connection may take what was on its way with it. A timer or Ctrl-C that fires
in the turn of the loop in which the reader was already made ready lets it run
once more (`grace`).

**Fetch** is the abstract promise of one `fetch`: lobby, login, world in that
order, no place twice but for worlds, and a verdict that leaves no connection
behind, except a crash of the read loop. `KeepsPromise` checks that Client
implements it under the mapping at the end of Client.

**Store** is `storage.py`, one process per run and one action per SQL statement
that can be separated from the next by a kill or by another process: `CREATE
TABLE IF NOT EXISTS`, the check for NOT NULL columns, `CREATE TABLE
population_new` (autocommitted), the copy with DROP and RENAME and its commit,
the check for `active`, `ALTER TABLE`, the INSERT and its commit. `db` is the
committed file, `work` the file as the open transaction sees it, `holder` the
run with the write lock. A file is the constraints of its table, whether it has
the column `active`, whether `population_new` is there, and its rows. A row
keeps which run made it and whether its counts are NULL. SQLite's locking,
journal and autocommit are external. A commit may fail (`CommitFails`), and the
exception then leaves the run without its transaction, as a kill does.

**Ledger** is what the file promises its readers: rows are appended, at most
one for each run, and never changed. `KeepsLedger` checks that Store implements
it when runs do not overlap. When they do, it does not: a process that read
`needs_rebuild` before another process had finished the same migration rebuilds
the table again and drops the values of `active`, `TotalsKept` and `ActiveKept`
are what still holds: no row and no total is lost, and `active` only to the
second of two rebuilds.

**Tracker** is `__main__.py`: it EXTENDS Store, takes the abstract Fetch for
the client, and adds the stages of `main`, the exceptions `_run` catches, the
sample they become, Ctrl-C and the exit status. Argument parsing is data.

**VersionResolver** is `version_resolver.py` and `_resolve_version`: `at[r]` is
where run `r` is suspended (`manifest`, `lookup`, `download`, `save`, `write`),
`listed`, `cache`, `dll` and `answer` are its locals `dll_hash`, `cache`, the
downloaded build and the version, and `file` is the JSON cache. A build of the
client stands for its hash and its version. The patch server publishes the next
build at any moment. Runs share the file: `write_text` truncates it in one step
and writes it in the next, and a text cut short or mixed reads as an empty
cache, as `_read_cache` has it. `Clear` are the builds that `_scan_version` can
tell the version of. Versions only go up: a patch server that took a build back
would make an entry filed between two requests report the withdrawn version,
for as long as the entry is in the cache.

**Workflow** is `population.yml` with `tools/trigger-population.sh`. `main` and
`head` are the branch, `tree` and `lease` the job's checkout and its
`origin/main`, `step` the next step of the job. A tree is the edits of people,
the rows of the database (hour, and whether it has counts) and the rows that
`population.json` was made from. `Guard` is the inline script, `Push` the root
commit with `--force-with-lease`; a job that fails or is killed loses what it
has not pushed. GitHub, which keeps one job running and one pending, the hour,
and people, who push edits on top of main, are external; the tracker inside
`Record` is Tracker's row. The dispatch of the script is accepted, refused, or
accepted without the script learning of it.

**DataPath** is the way of the data from the server's bytes to
`population.json`. It EXTENDS four modules that have no state:

* **Cipher** is `crypto.py`, both sides of it, byte by byte. `ByteXor`, the key,
  the salt table, the salt pool and the digest are constants, so that MD5 and
  the generated table stay outside.
* **Framing** is `parse_frames` and `build_frame` with the reader of the
  country list and the heartbeat, over sequences of bytes. Each parser returns
  what it raised besides what it read: a frame that claims to be shorter than
  its header makes `parse_frames` take its opcode or sequence number from the
  next frame, or raise IndexError when that is not there yet, so what happens
  depends on how the stream was cut.
* **Sample** is `PopulationSample`: the class, the status and the name of each
  entry, the exclusion of the tracker, `failed`.
* **Export** is `export.py`: the order, the cutoff, the mean of a day and its
  rounding (halves to even), null.

`wire`, `buffer` and `list` are the bytes on their way, `buffer` of
`_read_loop` and the future; `handled` and `said` what reached a handler and
what was written; `rows` and `json` the table and the published file, and
`seen` who was online, which only the properties use. `Ask` is the request with
the server's answer, `Read` one turn of `_read_loop`, the `Record...` actions
and `DieWithoutRow` how `_run` ends, and `ExportJson` an export at any time.
Time goes in steps no longer than a run, `StepsPerDay` to a day, so a step has
one row at most; an hour is as many steps as one likes, and may have a row of a
failed run and one of its retry. The server precedes the list with a packet
nobody handles and a heartbeat, and may break the signature of the list, cut
the list short, or send a frame of length 0 or 1 before it or zeros after it.
Client has the same reader with a frame as the unit and everything around it;
DataPath has the inside of a frame.

## What is checked

| run | instance | shows |
|---|---|---|
| `client_faults` | one world, every fault, timer and Ctrl-C | `TypeOK`, `ServerCanRead`, `ClientCanRead`, `OneConnection`, `GracefulLogout`, `NoSocketLeft`, `SettledOnce`, the refinement `KeepsPromise`, and `Terminates` |
| `client_worlds` | two worlds, two heartbeats or ticks, timer; servers that answer, an explicit `--server-id` and perhaps an empty table, no name in the lobby's redirect | `AskedOnce`, `LoginOnce`, `BeatsAnswered`, `SequenceInStep`, `ListArrives` |
| `client_logout` | only the timer | finding 1 |
| `store_overlap` | three runs at once, four kinds of file, one kill or failed commit | `StoreTypeOK`, `RecordedOnce`, `TotalsKept`, `ActiveKept` |
| `store_killed` | an old file, two runs, one kill | finding 2 |
| `tracker_runs` | two runs in turn, four kinds of file, two kills or failed commits, Ctrl-C | `TrackerTypeOK`, `ExitTellsRecorded`, `RowTellsVerdict`, `OfflineBeforeStore`, `NamedFailureRecorded`; of the store `SchemaReady`, the refinement `KeepsLedger`, `UpgradeWorks` |
| `tracker_escapes` | one run | finding 3 |
| `resolver` | three runs, three builds (one unclear), one kill or write cut short | `ResolverTypeOK`, `AnswerWasLive`, `CacheNotStale` |
| `resolver_raises` | one run, one build | finding 4 |
| `workflow` | three hours, two manual pushes, three rows, two attempts of the script | `WorkflowTypeOK`, `OneSampleAnHour`, `SkippedHourIsSampled`, `DashboardCurrent`, `PushesKept`, `DispatchRuns` |
| `data` | two runs in four steps of time after an empty or an old table, one fault, reads of 1 or 5 bytes or everything | `DataTypeOK`, `FramesAsSent`, `SampleCountsOthers`, `DashboardShowsRows`, `SettledDayKept` |
| `data_null` | two runs in four steps of time, no fault | finding 5 |

Every property of a passing run has a mutant: a definition of the model changed
the way a bug in that code would change it (the operators marked `mutant`), with
which TLC finds the property violated under the same configuration.

**Bounds.** `MaxConns` is how far redirects can lead: 3 is lobby, login and
world, 4 adds a second world, which is the first at which `_requested`, the
state and the sleeping request outlive a world connection. `MaxAsked` bounds
the heartbeats of a run; with two, answers can be swapped, lost or doubled.
`SeqMod` is 2 instead of 256 so that the sequence byte wraps on the login
connection already. `MaxKills` is how many processes die or fail to commit; the
second one does so in the file that the first left behind. In `store_overlap`,
three runs are enough for two to race and a third to find what they left. Each
connection gets at most one redirect at a time and one malformed packet at a
time: after either the reader is gone. In `resolver`, three builds let one be
published before, between and after the two requests of a run, and of three
runs two can race on the file that the third reads. In `workflow`, three rows
let a failed sample be retried in its hour and the next hour be sampled too,
two pushes let one land before and one after a checkout, and two attempts are
one retry. In `data`, bytes are all 256, with the default key and the first
salt table; reads of one byte cut the stream everywhere, and those of five let
a fault be met with more or less of what follows it. A day has two steps of
time and `--recent-days` is one day, so that four steps are enough for a day to
be recent, cut by the cutoff, and settled; the old table has a row from before
the column `active`, and with two runs a day can have two, one or no values.
Three worlds suffice for `Counter`, since members are counted one by one:
nobody, the tracker in the middle of two others, and a class and a status that
count differently. Everything else is unbounded, and finite by itself.

**Fairness.** `Scheduling` of Client is weak fairness of each task: the event
loop runs what is ready, and the operating system ends an attempt to connect.
`Fairness` adds that a timer that is due fires; nothing is assumed of the
servers there. `CooperativeSpec`, for `ListArrives` alone, assumes instead that
the servers answer, and of the timer nothing: the list must come without its
help, unless the timer comes first or a world hands the client on. The first
connection is made outside `wait_for` (`client.py:90`), so `--timeout` does not
bound it and `Terminates` leans on the operating system for it.
`TrackerFairSpec` says that a process goes on until it is killed; of the fetch
inside Tracker, that it ends is what `Terminates` shows. `WorkflowFairSpec`
says that GitHub starts a job that can start and ends one at `timeout-minutes`;
that a step ever ends by itself is not assumed. Deadlock is checked in
`workflow` and `data`, which go on for ever, and in no other run, because all
the others stop: the fetch is over, the runs have ended. That none stops early
is `Terminates`, `UpgradeWorks` and `NamedFailureRecorded`; of `resolver`,
which has no fairness, it is not claimed.

## What is proved

`ClientProofs` proves, for any number of connections, of heartbeats, any size of
the sequence byte and any environment:

* `TypeCorrect`: `Spec => []TypeOK`
* `ServerAlwaysReads`: `Spec => []ServerCanRead`
* `SequenceAlwaysInStep`: `Spec => []SequenceInStep`
* `OneConnectionAtATime`: `Spec => []OneConnection`
* `FutureSettledOnce`: `Spec => SettledOnce`

The assumptions are those Client names on its constants: at least three
connections, a positive modulus, a set of known faults. None of these
properties is inductive alone. `ServerCanRead` speaks of packets already
written; to know that the next one is right, the client's cipher must be that
of its connection, which in the lobby is true only from `ConnectionInfo` on.
That in turn needs that no table arrives before (`LobbyFresh`), that the
state, which picks the salts on a redirect, follows the connection (`Tasks`),
and which packets there can be on a connection at all (`Placed`). The sequence
number needs the same, and that `Accept` comes first and before anything is
written in the lobby (`Numbers`). `ClientInv` states these parts and their
conjunction `Inductive`, which is proved inductive, so no run repeats it
(`InductiveHolds`). The proof has one
lemma per action; `QuietStep`, `ReadStep`, `WriteStep` and `ServerStep` say
once what preserves the invariant when nothing is written, a frame is read, a
packet is written and frames arrive, and the lemmas for the actions apply them.

`PromiseProofs` builds on it, under the same assumptions:

* `PromiseKept`: `Spec => KeepsPromise`, that Client implements Fetch
* `NoSocketEverLeft`, `ListAskedOnce`, `LoginSentOnce`, `ClientAlwaysReads` and
  `AlwaysGraceful`: `Spec => []...` of `NoSocketLeft`, `AskedOnce`, `LoginOnce`,
  `ClientCanRead` and `GracefulLogout`
* `BeatsAlwaysAnswered`: `Spec => []BeatsAnswered`

Each adds to `Inductive` what it needs and no more. That every step of Client is
a step of Fetch or a stutter rests on `PromiseInv`: the connections ever opened
are always the first n, which is what makes the number of them, and the kind of
the last, the `reached` and `place` of Fetch (`Visited`); `main` has its verdict
when the wait is over, and a list only from a world (`Decided`); the socket is
given up before `fetch` ends (`Left`). For the list request, `OnceInv` says that
there is none before the requester has slept and at most one after; the login
is the third packet to the login server and no other. For the reader,
`FramesInv` says that until `ConnectionInfo` nothing encrypted is on its way;
after it, every frame is under the cipher of its connection. For the logout,
`ExitInv` says that nobody writes after `_logout`: the reader is reaped, and the
requester no longer asleep, before `main` comes to it. For the
heartbeats, a new connection owes nothing, and the reader trades the first
challenge that is owed for the next answer, whatever the requester writes in
between; `Among` and `Place` count them instead of selecting them.

`StoreProofs` proves, for any number of runs, overlapping or not, any number of
kills and failed commits and any file of an earlier version,
`StoreTypeCorrect`, `AlwaysRecordedOnce` (`StoreSpec => []...`),
`TotalsAlwaysKept` and `ActiveAlwaysKept` (`StoreSpec => TotalsKept`,
`ActiveKept`). The run that holds the lock knows what it will commit
(`Pending`), the database as it is, rebuilt or with one row more, because
nobody else can write in the meantime; and no write but an INSERT makes or
unmakes a row of a run (`Recorded`). For `active`, a table with NOT NULL has
nothing under it, which stays so because a run inserts only when the table is
nullable (`SchemaInv`). The assumptions are those of Store on its constants:
the files of `Legacy` hold no row of a run that is still to come, and none at
all without a table (`OldRowsAssumption`).

`StoreProofs` also proves, of runs that do not overlap, `SchemaAlwaysReady` and
`LedgerKept`, that Store implements Ledger. Both need that what a run has read
of the schema is still true when it acts on it (`StillTrue`), which overlapping
runs break, as a rebuild may then undo the column another run has just added;
hence `ASSUME ~Overlap`. They also need `StrictAssumption`: a table that still
declares NOT NULL has nothing under `active`. The code assumes it too: the
rebuild copies the columns it names (`storage.py:121`), and `active` is not
among them, because the column is younger than the constraint's removal.

`TrackerProofs` proves, under the assumptions of Tracker and Store,
`TrackerTypeCorrect`, `ExitAlwaysTellsRecorded`, `RowAlwaysTellsVerdict` and
`AlwaysOfflineBeforeStore`. Every step of `main` is a step of the store or leaves
it alone, so the invariant of StoreProofs carries over; `InMain` adds how far the
store of a run can be at each stage, and that its sample is what its own fetch
made of it, since no other run can have touched the fetch in the meantime.

`ResolverProofs` proves, for any number of runs and of builds, any set of clear
builds and any number of losses, `ResolverTypeCorrect`, `AnswerAlwaysWasLive`
and `CacheAlwaysNotStale` (`ResolverSpec => []...`). A cache entry may be newer
than its hash, and only because of `CacheNotStale` can an answer from it be
related to the run: its hash is of a build that was live since the run began,
its version of that build or a later one. The invariant `InOrder` carries
that order, since <= listed <= dll <= live, from step to step of a run.

`WorkflowProofs` proves, for any number of hours, edits, rows and attempts,
`WorkflowTypeCorrect`, `HourSampledOnce`, `SkippedHourAlwaysSampled`,
`DashboardAlwaysCurrent` and `PushesAlwaysKept`. The invariant behind them,
`TreeInStep`, says what the working tree has to do with main at each step: the
rows are main's and then extend them, since no other job runs; the edits are
main's exactly if the lease still holds; and a job about to record has no
sample of the current hour, which stays true when the hour turns because no row
is of a later hour (`Past`).

`CipherProofs` proves of Cipher, for any key, salt table, salt pool and any
operation on bytes that undoes itself:

* `TransformInvolution`: the transform is its own inverse, as `crypto.py:127`
  says, since the mask of a position does not depend on the byte there;
* `ClientReadsServer`: `client_decrypt` of what `server_encrypt` wrote is the
  body, for any body, opcode, sequence number and random values;
* `ServerReadsClient`: the same of `client_encrypt` and `server_decrypt`, whatever
  the digest is.

They rest on a key that is not empty, which the code does not check of the
server's, on the random values fitting two bytes and one (`Halves`), which is
how the key survives the trip, and on each side dropping as many bytes as the
other added. The abstract cipher of Client, where a packet is readable exactly
by who has the same seed and key, leans on them.

`DataProofs` proves of DataPath, for any names, worlds, chunks, random values
and faults, any table at first use, any length of the day and any
`--recent-days`:

* `DataTypeCorrect`: `DataSpec => []DataTypeOK`
* `FramesAlwaysAsSent`: `DataSpec => []FramesAsSent`
* `SamplesAlwaysCountOthers`: `DataSpec => []SampleCountsOthers`
* `DashboardAlwaysShowsRows`: `DataSpec => []DashboardShowsRows`
* `SettledDaysKept`: `DataSpec => SettledDayKept`

The hypothesis `DigestIsBytes` says that MD5 gives bytes. The other assumptions
are those the modules name on their constants: rows of an earlier version are
in order and of earlier times, the tracker has a name and is the only one
online under it, and the lengths of names and packets fit one byte and two. The
invariant `DataInv` has two parts. `Typed` is finer than `DataTypeOK`, since
the type of a value read from the wire is what every parser makes of any bytes
at all (`ParseLoop`, `EntryLoop`, `DecryptType`). `Kept` says that the table
ascends and the file is what an export of its first rows gave at its time, with
every later row of that time or after. From it, what the file shows is a
property of `ExportSamples` alone (`ExportShows`): the k-th element of a finite
set of numbers is where sorting puts it (`NthExists`), a sum is as many cells
as the rows have (`CellSize`) and `round` moves a mean by half at most
(`MeanRounds`). A settled day keeps its point because later rows, at or after
the time of the earlier export, are not of it, and the days before stay the
rows of the same places (`SettledKept`).

`FramesAlwaysAsSent` adds the invariant `Sent`: while a read is awaited, what
the server sends is a stream of pieces, of which `j` are parsed, `arrived` bytes
have come, `buffer` is what of them is left and `handled` is what the first `j`
pieces are for the handlers (`Flows`). A piece is `Sound` when a part of it
makes `parse_frames` wait, and all of it is a frame with the opcode and, once
decrypted, the body that was sent, or raises, or waits although it is no frame
(trailing zeros). `PiecesSound` shows it of everything the server may send: for
a packet because the length in its header and its cipher are undone
(`PieceSound`), and of each fault by itself, with what the next piece begins
with, which a frame of length 0 takes its opcode from. The turns of one
`parse_frames` then take pieces until none is left that a handler waits for
(`ParsedPieces`), and the handlers take what fits them in order, and nothing
after the list (`DispatchedPieces`). That `handled` is what is due follows from
where each piece ends (`DueBegins`, `DueAll`).

`SamplesAlwaysCountOthers` adds `Witnessed` on top of `Sent`: every row of a
time when someone was seen tells of them, all that the server says of a list in
a run is its whole body or the body without its last byte (`Offers`), and the
list a run ends with was read from a frame that a handler got (`FoundIn`). By
`Sent` that frame is one the server sent. Where each entry of a body begins is
known from the lengths of the names before it (`Laid`), so the turns of
`parse_world_list` take the members one by one (`TurnsReach`): the whole body
gives the count and the members as they were shown (`WholeRead`), and a body
without its last byte raises, whatever its length (`CutRead`), so no row comes
of it. The entries left after dropping the tracker's name match the others one
to one, by the identity when the list names everyone and by `Nth` when it
leaves the tracker out (`ListPairs`), hence the counts (`PairedTells`). A new
row disturbs none of this, as it is of a time without a row
(`WitnessedAppend`).

The loops of these modules are functions on 0 .. n, because tlapm has no
backend for RECURSIVE operators. The induction theorems of the library take a
predicate and cannot be used, but that a set of numbers has a least element
(`Least`, from well-foundedness of < on Nat) can, and gives what a loop does
for every number of turns.

Only model-checked: the liveness properties, since the prover has no rules for
fairness. The type invariants, every other safety property that a passing run
checks, and the two refinements are proved.

## Where the code and its documents disagree

1. `_handle_redirect` sets the state to WORLD (`client.py:277`) before the
   world connection exists. If the wait is cancelled in the same turn of the
   event loop, `_logout`, guarded by the state, writes the exit request to the
   login server, although it is there "so the server removes the character
   from the world" (`client.py:174`). Run `client_logout`.
2. The migration that drops NOT NULL creates `population_new`
   (`storage.py:126`) in a commit of its own. A process killed before the rest
   is committed leaves it, and every later open raises. Run `store_killed`.
3. `_run` catches OSError, TimeoutError and RuntimeError (`__main__.py:76`).
   A ValueError, which a malformed packet or an empty server table hands to
   `fetch`, ends the process without the row that `README.md:34-36` promises
   for every run that cannot read the list. Run `tracker_escapes`.
4. A reply of the patch server that is cut short, or a manifest that is JSON of
   another shape, raises out of `resolve_client_version` (only OSError and
   ValueError are caught, `version_resolver.py:69`) and ends the run before the
   login, where `version_resolver.py:20` says that every failure path returns
   None. Run `resolver_raises`.
5. The point of the day that the cutoff divides (`export.py:68`) is made of its
   older rows alone. It is null when those failed, although a later sample of
   that day did not, where `export.py:11` says "null only if every sample that
   day failed"; it is whole again one day later. Run `data_null`.
   `DashboardShowsRows` excepts this case and no other: a point is null only if
   every row of its day is null or too recent to be in it.

Behaviour the models have and no document denies: an exception other than
OSError and ValueError in a handler or in `parse_frames` kills the read loop,
`fetch` waits for its timer and then leaves without logout or close; a list
request whose delay ends while the client moves between two worlds is dropped
and never repeated (`ListArrives` excepts hand-overs); a bad signature loses
the frames before it in the same chunk; Ctrl-C while the row is written gives
exit status 130 with a row; of two processes that open an old file at once, the
slower one, which computed `needs_rebuild` (`storage.py:116`) before the other
had migrated, rebuilds the table again, and the rows lose their `active`
(`ActiveKept` allows this and nothing else).

About the data: a list that has arrived whole is lost if bytes that are no
frame follow it in the same chunk, and kept if they come in the next. A frame
of length 0 is skipped without a word or raises IndexError, as the stream is
cut. A day with rows from before the column `active` can have a mean of
`active` above the mean of `total`, since the two are means over different
rows.

## Plan

Done, in this order: the client, which has the concurrency, with Fetch; the
store with Ledger; main, which composes them; the version resolver; the
workflow with its trigger; the data path with Cipher, Framing, Sample and
Export. Left:

1. **Elapsed time** for the client: what `--timeout` bounds and what it does
   not.
2. The bodies of the login packets, if a property is found that they can break.

## Not modelled

Formatting, logging and the wording of log lines; the bodies of the login
packets other than what decides which cipher or table entry is meant; MD5 and
CRC-16; names that are not ASCII; the JSON text; argument parsing; the generated tables and their generator, the developer tools and the
dashboard, which have no state of the program's own. Whether the game server
keeps a character whose connection is cut in the world is the server's affair.
