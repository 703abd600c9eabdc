# deepseek-lens: a TLA+ verification project

`deepseek-lens` is a local proxy in front of an LLM API. It forwards calls
untouched, captures a copy of each, and stores, prices, groups and analyses the
copies off the hot path. This directory models the parts of it whose
correctness depends on order, on concurrency and on what happens when a step
fails, checks them with TLC on small instances, and proves the central
invariants for every instance with TLAPS. Paths below are relative to the
repository; every definition is tied to its lines in `PROJECT.json` ("map").

## 1. The system

| Component | State it keeps | Operations | Interacts with | What makes it correct |
|---|---|---|---|---|
| sink (`internal/sink`) | a buffered channel, `accepted`, `dropped` | `Submit`, `Calls`, `Stats` | every proxied call sends, one consumer receives | never blocks; drops only when full; counts what it did |
| consumer (`internal/consumer`) | current batch, quiet timer, `processed`, `failed` | `Run`, `drainRemaining`, `flushBatch`, `prepareCall`, `insertBatch`, `finishCall` | sink, session resolver, price loader, analyzers, store | every accepted call is stored once or counted failed; one fault costs one call; a lone call does not wait for the next; shutdown drains and returns |
| proxy (`internal/proxy`) | per-call capture buffers | tee, `submit`, error handler | sink | stores at most the cap, never alters the stream, submits once |
| session (`internal/session`) | rows of `sessions` | `Resolve`, `RecordCall`; the purge's `reconcileSession` | consumer, store | totals equal the session's rows |
| store (`internal/store/store.go`) | SQLite file, one writer connection | inserts, queries, purge | everything | all-or-nothing writes; purge leaves nothing of a request |
| archiver (`internal/store/archiver.go`) | `body_archive` markers, one file per UTC day | archive, collect, restore, hydrate | maintenance goroutine, CLI, purge, readers | a body is always readable from one side; moves copy first, drop last |
| serve (`internal/cli/serve.go`) | listeners, contexts, maintenance goroutine | start, 24 h pass, stop | all of the above | stop order; store closed before the state file goes |
| state file (`internal/cli/statefile.go`) | `serve.state.json` | exclusive create, takeover, rewrite after bind, removal by owner | `lens shutdown`, `restart`, `reload` | file gone implies store closed; the bind winner owns it |
| prices (`internal/pricing`, `api/prices.go`) | price file, cached table | load, save, `Compute`, `IsPeak` | consumer, dashboard, CLI | no update lost, absent cost never becomes zero, peak hours exact |
| usage parser (`internal/parse/sse.go`) | carry buffer, usage so far | `Feed`, `Finish`, head/tail splice | proxy, consumer | counts exactly the events kept whole, for any writes, cap and end |
| replay (`internal/replay`, `api.replay`) | none of its own | snapshot, send, poll | proxy handler, store | the row reported is the row of this send |
| broker (`api/broker.go`) | set of subscriber channels | subscribe, publish, drop | publishing store, SSE handlers | never blocks the writer, closes each channel once |
| live configuration (`api/livecfg.go`) | retention and hot days | apply, read | maintenance goroutine | the pair never contradicts itself, an answered reload is in force, and the next one finds every change |
| store queries (`store.go`) | none | lists, counts, statistics, purge previews | read routes, commands | pages partition what the count says; the statistics agree with each other |
| read routes, report commands, dashboard, analyzers | none | parse, print, pure rules | store | straight-line code |

The hot path ends at `Sink.Submit`. Behind it one goroutine (the consumer) and
the maintenance goroutine write to the store through one connection; other
`lens` processes (`archive run`, `archive restore`, `purge`, `prices --set`,
`restart`) write to the same files without any lock but SQLite's. The hard
behaviours are therefore: Go's unordered `select` against cancellation,
partial failure of a grouped write, two counters that are bumped apart from
what they count, work that spans a hot database and day files no transaction
covers, and processes that do not know of each other. `PROJECT.json`
("hazards") lists each at its line with the properties aimed at it, and
"components" lists every part with its status.

## 2. Modules

| Module | Role |
|---|---|
| `Capture` | sink, consumer loop, both insert paths, shutdown |
| `CaptureLog` | what `Capture` promises: an ordered log with refusal and loss |
| `Archive` | archiver, collector, restore, purge, hydrating read |
| `BodyStore` | what `Archive` promises: bodies move copy first, drop last |
| `Sessions` | session resolution, the flush's inserts, warnings, running totals, purges |
| `Queries` | the store's filters, pages, counts and statistics as functions of the tables |
| `ServeState` | the state file: serve processes, `lens shutdown`, `lens restart` |
| `LiveView` | publishing store, broker, SSE handlers |
| `Replay` | replay route and command, the consumer's insert, purges |
| `Reload` | reload route, boot and live configuration |
| `Pricing` | peak calendar, cost of a call, rounding |
| `PriceFile` | price file, its writers, the loader (extends `Pricing`) |
| `Sse` | tee, bounded buffer, SSE parser, splice of head and tail |
| `CaptureProofs`, `ArchiveProofs`, `ServeProofs` (state file and reloads), `LiveViewProofs`, `ReplayProofs`, `SessionsProofs`, `PriceFileProofs`, `SseProofs` | theorems |
| `MCCapture`, `MCArchive`, `MCSessions`, `MCServeState`, `MCPrices`, `MCSse` | instances |
| `MCDashboard` | composition of `LiveView`, `Replay`, `Reload`, `PriceFile`, `Sse` and `Sessions` |

`Sessions` uses `Queries` for what a purge selects and rebuilds, so the same
definitions are checked as queries and as part of a transaction. `PriceFile`
prices calls through `Pricing` with the table the loader answered.

### Capture

One action is what the consumer goroutine or one producer does between two
points where another can run: a `select` case, one `prepareCall`, one
transaction, one `finishCall` write. State to code: `queue` is `Sink.ch`,
`sink` and `stats` the atomic counters, `uncounted` the producers past the
send and before the increment, `batch` and `timer` the locals of `Run`,
`prepared`, `pend`, `todo` the position inside `flushBatch`, `rows` the
`requests` table in id order, `warned` and `folded` what `finishCall` wrote,
`cancelled` the run context, `final` and `expired` the shutdown context.
`stage` is a history variable that no guard of the consumer reads.

Abstractions:

- A call is a model value. Whether `prepareCall` panics, whether the store
  refuses its row, and whether it has warnings are constants (`Panics`,
  `BadRows`, `Warned`); a store fault that any statement may meet is `Fault`,
  bounded by `MaxFaults`.
- A failed statement wrote nothing. A commit that took effect and still
  reported an error (a crash inside SQLite's commit) is left out.
- `DrainMayStop` is `TRUE`: the 100 ms idle timer can fire as a call arrives,
  and `select` may prefer it. So the drain may stop early, more often than in
  the code. The hard deadline needs no action of its own: the calls are finitely
  many.
- After `Run` has returned, producers still send: `serve` shuts the proxy
  server down at the same time. Such calls stay in the channel.

### Archive

Each job is a program counter: `"serve"` is one maintenance pass (purge by
retention, archive loop, collector), `"run"` and `"restore"` the two archive
commands, `"purge"` the purge route or command, and `read` one `GetRequest`.
An action is one transaction, one query, or one operation on a day file.
`hot` is the body columns of the row (or its absence), `marker` the number of
`body_archive` rows of a request, `bodies` and `file` the day files, `held` and
`days` what a job has selected and has yet to visit, `gc` the collector's
`known` set and current file, `todo` and `cur` the restore's selection.
`before` is the hot boundary an archive loop computed when it began; `clock` is
the boundary as of now, which `Age` moves.

Abstractions:

- `Interrupt` stops any job before any step: a crash, a cancelled context, or a
  store error. What was committed stays. At most `MaxInterrupts` happen.
  A power loss that takes back a commit (`synchronous=NORMAL`) is not modelled.
- `writeDay` is one action: its transaction is on one file, and no other job
  reads a row before it is committed. Directory order and map order are
  arbitrary choices.
- Opening a day file that is absent leaves an empty file without the table
  (`"bare"`), on which every statement fails; `Opened` and `HasTable`.
- The restore's window takes every request. A purge selects by one of the
  `Cutoffs` or `Unpriced`.
- Every pass has hot days above zero. With zero the code skips the collector
  together with the archiver, so what an interrupted purge leaves in the day
  files stays while archival is off; `PurgedBodyCollected` is about an
  installation where it is on.
- `Overlap` says whether `lens archive run` may run during a maintenance pass.
  Nothing in the code prevents it. The passing runs and the theorems assume it
  does not; `archive_race` shows what happens when it does.

### Sessions

One action is one transaction or query of the consumer, or a whole purge
transaction. `seen` is the memo of `flushBatch`, `pend` and `cursor` its
position, `rows`, `warnings`, `sessions` the three tables. `log` is a history of
what the flushes did and `skewed` names the sessions whose totals the code lets
drift: a fold or the write of warnings failed, or a purge took a row of the session
while a call of it waited between insert and fold. `TotalsMatchRows` is stated
for all others. A later rebuild takes a session out of `skewed` again, but only if
there is a session to rebuild (`reconcileSession` updates and does not insert, so
one whose folds all failed stays away) and no call of it is still waiting. Both
conditions came out of the proof: without the one, two failed folds, without the
other, two purges around one fold refute the property.

- A call is one of a few kinds (`MCKinds`): with and without header, prefix,
  tokens, cost, warnings, error, replay link.
- A client's header never looks like a minted id, and eight hexadecimal digits
  tell two prefixes apart. Two sessions of one prefix opened in one millisecond do
  share an id: ids are minted from `now`, whose unit is the clock's.
- Token columns are one number. The severity of a warning is folded into its kind.

### Queries

Pure operators: each takes the tables and a filter and returns what the query
may answer on one snapshot. SQLite owes nothing beyond `ORDER BY`, so a list is
a set of sequences, and `PagesPartition` asks that each id is on exactly one page,
whichever sequence each page was cut from. The order of text ids is any fixed one
(`TextOrder`).
Consistency between two queries with a write in between is not claimed by the
code and not stated.

### ServeState

Each serve process is a program counter over system calls: exclusive create,
encode, read, truncate, two binds, truncate and rewrite, the two servers'
shutdown, join, close, look, remove; a command is one more (`cmd`). A process may be
killed between any two steps, and the ports it held are free again.

`current` and `intact` are history. `current` holds whoever has looked at the file
as it is now; acting on a look that is out of date makes `intact` false for good. Between reading the
owner and removing or truncating the path the code cannot help that: two
starts that find one dead owner, or a removal that meets a takeover, may leave
a file that names nobody or somebody else. So `WinnerOwnsFile` and
`FileGoneStoreClosed` promise what they say *until* that has happened, and the
bind remains the only arbiter after it. `CleanExitLeavesNoFile` needs no such condition.

- The empty file that a crash between create and encode leaves makes every later
  start and command give up. That is modelled (`Nobody`); recovery is not
  stated, because the code has none.
- Windows' process calls are taken as their Unix counterparts; pids are not reused.

### LiveView, Replay, Reload

`LiveView` separates a commit from publishing it, so clients come, stall and go
between the two. `Replay` polls for the newest row of its original; `by` and
`rivals` are history that says whose row it is and when the route cannot tell:
when a second replay of the same original is under way, and when the row it saw
before the send is purged while it waits (an older replay stored out of order
comes up then). A clock that is set back can cost the reply its row, but does
not give it a wrong one.
`Reload` keeps the boot configuration that two calls may write at once, without a lock;
`busy` records that calls overlapped. Whatever overlaps, the live pair stays
valid, because it is applied under a lock; that it is also the last one loaded
is stated for calls that do not overlap.

Left out: the edit language of a replay (only whether it applies), the
comparison the command prints, parsing of configuration layers, and all settings
but the two live ones and one that needs a restart.

### Pricing, PriceFile

Rates are whole multiples of `1/Den` micro-dollars, a stand-in for the code's exact
rationals; `Compute` rounds once, at the end. Amounts are unbounded, whereas
the code returns an `int64` and a rate may be any finite number: an overflow is possible
in the code and outside this model. An instant is an hour.

A writer's `Save` is three steps (read and check, temporary file, rename), an
editor writes in place, and the loader's stat and read are two. `versions` is the
whole history of the file. The size of a file is the set of fields each
model has in it, so that an edit can keep the size, as it can in the code.
`EditsSurvive` is stated until two edits overlap (`raced`): there is no lock, and the
later rename wins. `LoaderServesTheFile` excepts a file that changed within its
time and size (`Masked`).

### Sse

A stream is a sequence of symbols (CR, LF, text, the two halves of a payload),
cut by any sequence of writes, by any cap, and by any end. `Text` gives the symbol
at each place of the stream. Feed's loop is `Drain`: as many rounds of `TakeEvent`
as there are symbols, which is enough because a round that finds an event shortens
what is carried and one that finds none changes nothing. `SseAssumption` bounds
what a body may be: caps are positive (`config.Validate` refuses others), one
body has one kind of line end, and JSON has a payload. An event that straddles the
cap is lost even when head and tail together hold all of it; the property
counts the events that one side holds whole. A compressed body has a head that
is decoded as far as it goes, and no tail.

## 3. Runs

| Run | Instance | Shows |
|---|---|---|
| `capture` | 4 calls, channel 2, batch 2, one panic, one bad row, two with warnings, 1 fault | accounting, containment, timer, limit, refinement of `CaptureLog` |
| `capture_live` | 3 calls, weak fairness of the consumer | accepted calls settle, a cancelled `Run` returns |
| `capture_shutdown` | 3 calls, no fault needed | **violated**: a cancellation during a flush loses the batch |
| `archive` | 3 requests on 2 days, batch 2, all jobs, 1 interruption, no overlap | no body lost, hidden or marked twice; refinement of `BodyStore` |
| `archive_live` | one serve, 1 interruption, time passes | leftovers of a purge are collected, old bodies are archived |
| `archive_race` | serve and run overlapping | **violated**: the collector deletes the only copy |
| `archive_purge` | serve and a purge beside it | **violated**: a purged body stays archived for good |
| `sessions` | 3 calls of 4 kinds, flushes of 2, clock 0..2, 2 purges, 1 fault | totals against rows, grouping against history, foreign keys |
| `sessions_purge` | 1 purge, no fault | **violated**: a purged call is counted in its session |
| `state` | 2 serve processes, 2 kills, 1 command, file absent or left by a dead server | ownership, absence means closed, clean exit, every stop ends |
| `dashboard` | six parts, one at a time (`part`) | feed, replay, reload, price file and costs, usage, lists and statistics |
| `prices_stale` | 1 hand edit, 2 writers | **violated**: a missed edit costs more than one call |

Bounds. With a channel and a batch of two, four calls reach a full channel, a
forced flush, a quiet flush, a flush that mixes a good row with a bad one, and
a drain that goes past the batch limit; a fifth call repeats them. Three
requests with two on one day give a batch over two days, a day of which one row
goes and one stays, and a second batch; a fourth repeats them. One interruption
at every point is enough to leave each intermediate state behind, and the jobs
that run after it then meet it.

Three calls in flushes of two give a memo hit, a lookup in a table that lacks
the flush's own calls, and a second flush that finds the first one's session;
a clock of three values has a call inside, on and past the gap of one. Of two purges
one can take a call's row before its fold and the other rebuild the session then. Two serve
processes are the smallest number that races for the file, and with a file left
by a dead third and a command there are four parties; that nothing new comes
with more processes is proved, not assumed. In `dashboard` the six parts share no
variable, so the state space is the sum of theirs and not the product: two clients with
buffers of two (a third event overflows), two replays of two originals, two
reloads and two edits of the configuration, two writers and an editor of the
price file, streams of up to four events at every cap from 1 to 20 symbols, and
every table that three calls over two instants and a purge can build, so that two
entries of a list share their time.

Fairness. `Capture!FairSpec` has weak fairness of the consumer's steps and of
nothing else: the goroutine is scheduled, and its timers fire. No call, no
cancellation and no fault has to happen. `Archive!FairSpec` adds weak fairness
of time, of the start of a pass (the 24 h ticker, and `serve` is started
again after a crash), and of each job's own steps. `ServeState!FairSpec` has
weak fairness of each process's own steps: a server waits for nothing but its
own grace periods, which have deadlines. The dashboard's replay route is weakly
fair because each wait in it ends by itself: the upstream call by the caller's
timeout, the poll by its deadline.

### What the violated runs show

- `capture_shutdown`. `Run` passes its own context to every flush except the
  last. If the context is cancelled during a flush, or is already cancelled
  when `select` picks the full batch or the timer instead of `ctx.Done()`, the
  grouped insert and each single-row retry fail on the cancelled context, and a
  whole batch is counted failed with a healthy store and the two seconds unspent.
- `archive_race`. The collector reads the day's markers, then deletes. The
  run's day file is committed before that read and its hot commit falls
  between read and delete: the markers now point to rows, or a file, that are gone.
- `archive_purge`. The archiver marks what it selected, although a purge has
  deleted it since. The marker keeps the day row alive, and as the request is
  gone no later purge selects it.

- `sessions_purge`. The insert and the fold of a flush are two transactions. A
  purge between them deletes the row, rebuilds or removes its session, and the
  fold then adds the call to that session, which has no row for it.
- `prices_stale`. The loader compares time and size with what it read. Two
  writes of the same size within one time stamp are one to it, at this call and at
  every later one, until the file is written again.

In each case the code contradicts a comment or a plan of the repository, quoted
in `PROJECT.json` ("findings").

## 4. Proofs

`CaptureProofs` proves, for any calls, capacity, batch size and faults (from
`CaptureAssumption` alone):

- `TypeCorrect`: `[]TypeOK`.
- `Conservation`: `[]EveryCallInOnePlace`. By itself the invariant is not
  inductive: that a flush only starts with an empty `pend` and `todo`, that
  `rows` is a phase with something pending, that the cursor is at zero while
  `Run` waits, are needed to know where a call is at each hand-over. `FlushPhases`
  (cursor, `pend` and `todo` in each phase of a flush) says so, and `IInv` is `TypeOK /\ FlushPhases /\ EveryCallInOnePlace`. The
  proof has one step per action and rests on a few lemmas about sequences
  (what `Append`, `Tail` and concatenation do to range and injectivity).
- `TimerAlwaysGuards` and `BatchAlwaysWithinLimit`: `[]TimerGuardsBatch`,
  `[]BatchWithinLimit`, from types and the flush phases.
- `CaptureImplementsLog`: `Spec => ImplementsLog`. The log's queue is what is
  pending, then the unprepared part of the batch, then the channel (`Waiting`).
  There is one lemma per kind of step. A send appends to it; a transaction moves
  its front into the table; a panic or a refused row removes one element, which
  is where the log must say which one; every other step cuts the sequence at
  another place and leaves it as it is. `IInv` says where the cuts are.
- `FaultsContained`: `[]OneFaultCostsOneCall`. It needs `ShutdownCancelled` (the
  drain and the final flush only run cancelled), and that each step either
  settles no call as failed, or one, which was to blame or has met a fault.
- `StatsAlwaysAddUp`: `[]StatsAddUp`. That property speaks of the moments when
  `Run` waits; `StatsExact` ties the counters to the stages of the calls at every
  step, and `Conservation` counts the stages by where the calls are.
- `RowsAlwaysFinished`: `[]EveryRowFinished`. `OwedRows` says it of the middle of
  a flush: the finished rows are those of the table that are not in `todo`, and
  the head of `todo` may have its warnings and not its fold.

`ArchiveProofs` proves, for any requests, days, batch limit, jobs, cutoffs and
interruptions (from `ArchiveAssumption`), under the hypothesis `~Overlap`:

- `NoBodyIsLost`: `[]BodyNeverLost`; `NoSecondMarker`: `[]OneMarker`;
  `ArchiveTypeCorrect`: `[]TypeOK`.
- `ArchiveImplementsBodyStore`: `Spec => CopyFirstDropLast`. No step changes a
  hot row and a day row at once (`OneSideAtATime`), so with a copy before and
  after the step, both must exist on one side of it.

`BodyNeverLost` is far from inductive. `IInv` adds what each job may rely on
between two of its transactions, and one lemma per action (`Keeps...`) shows
that every other job respects it:

- `Batches`: what an archive loop selected has no marker, is not NULL, and is
  in the day files of the days it has written; else the hot commit would drop
  the only copy. The restore and the purge respect it because the one touches
  marked requests only, the other day rows of deleted requests (`Purges`).
- `Restores`: what a restore still has to do is marked at most once until it
  unmarks it, and the day row goes only after the hot row has its body.
- `Sweeps`: the collector holds every marker of the day it is on. This is where
  `Alone` (one archive loop at a time, which `Archivers` makes hold of phases)
  is needed: a hot commit between the collector's two steps breaks it, and that
  is the counterexample of `archive_race`.
- `OneMarker`, without which unmarking and purging would not be the inverse of
  marking.

`NoReadComesBackEmpty` (`[]ReadsHydrate`, same hypothesis) adds `ReadStands`: from
the row on, a read that found NULL knows of a restore that has put the body back
since, and `IInv` then says that the marker it finds and the day file it opens
still belong to the request unless that was purged.

`ServeProofs` proves, for any number of processes and kills (from
`ServeStateAssumption`): `TypeCorrect`, `ServerIsNamed` (`[]WinnerOwnsFile`),
`GoneMeansClosed` (`[]FileGoneStoreClosed`), `CleanExitRemoves`
(`[]CleanExitLeavesNoFile`). None is inductive alone. `Inv` adds

- `PortsHeld`, `StoreHeld`: what each process holds at each step of its start
  and stop. Two processes cannot both be at `rewrite` because both would hold
  the dashboard port.
- `LooksHold`, `CommandLookHolds`: what a look at the file said is still so while
  nobody has changed it (`current`). A removal or takeover that acts on
  a look that holds cannot hit a server's file.
- `NamedWrote`, `WinnerServed`, `WinnerKept`: who the file names has written it,
  and while the last winner's store is open the file names it or is being
  rewritten by a process that holds both ports.

`LiveViewProofs` proves, for any clients, buffer size and rows (from
`LiveAssumption`), `FeedIsUnbroken` (`[]FeedHasNoGap`) and `ChannelsCloseOnce`
(`[]ClosedOnce`). `Feeds` says of every client whose handler runs that what it
was sent, followed by what waits in its channel, is a piece of the feed
(`IsPiece`: element by element, which is inductive where `SubSeq` is not), and
all of it while it is subscribed. The lemmas about pieces say that appending to
the feed keeps them, appending to both extends them, and forwarding moves an
event within them.

`FeedTellsCommits` (`[]EventsFollowCommits`) needs besides that warnings are
committed only for rows that are (`Told`): else they could be told before the row.

`ReplayProofs` proves, for any route calls, originals, sink and clock (from
`ReplayAssumption`), `ReplaysLeaveOneRow` (`[]OneRowPerReplay`) and
`RepliesNameTheirRow` (`[]ReplyNamesItsReplay`). The first from `RowInv`: no two
places, of the sink and the table together, hold a call of one replay, and a
replay whose call is in one of them has got past its guards. In the second, the
case that needs the property's last exception takes three route calls, one more
than the run has, so here the proof says more than the run. It rests on `Inv`,
which adds

- `HaveNewest`: the order of the list has a newest row in every set of rows, so
  the query answers one (`NewestIsNewest`), and `IdsGrow`: ids are new.
- `CallsAreOurs`, `RivalsKnown`: a call in the sink or the store was sent by a
  route call for that original, and two calls on their way for the same original
  know of each other.
- `RowsKnown`: from the snapshot to the reply, a row of the original is the
  call's own, a rival's, or `Hidden` behind the row of the snapshot as long as
  that is there. A row that becomes newest meanwhile is none of the hidden ones.

`ServeProofs` also proves `ReloadsTakeEffect` (`[]ReloadTakesEffect`) for any calls and
configuration files. The property speaks of the moments when no call is under
way; `StageReached` says which of the live and boot settings a lone call has
written at each of its steps, and `LoadedValid` that what it is about to apply has
passed `Validate`, which is all that is left when calls overlap.

`SessionsProofs` proves, for any kinds of call, batch size, gap and any number of
calls, purges and faults (from `SessionsAssumption`):

- `SessionsTyped`: `[]TypeOK`. That ids suffice for the calls of the run
  (`IdsSuffice`) and that each call of a flush has at most one makes this more
  than a matter of shape.
- `SessionsReferencesIntact`: `[]ReferencesIntact`, from types: each insert looks up
  what it refers to in its own transaction, and a purge takes warnings and links
  with the rows.
- `SessionsKeysApart`: `[]KeysApart`. `Keyed` says of rows, calls on their way, memo
  and sessions table that each session id is of the key it is used under; the
  lookup by prefix answers a session with that prefix column and no header.
- `SessionsTotalsMatch`: `[]TotalsMatchRows`. `Ledger` says of every session that may
  not drift that its columns are `SessionTotals` of its settled rows (`Matching`),
  and of the calls that are not settled what a fold needs to find: each has a row of its own
  with the call's data (`OwnRows`, `RowKinds`), or a purge has taken the row and the
  session may drift (`GoneSkewed`), and it has no warnings before its turn and as many as
  the fold will count at its turn (`Unwarned`, `WarnedRight`). `TotalsOfMore` is the
  heart: `Merge` with one call's `Contribution` is `SessionTotals` of one more row. The
  sums are folds over sets; what a fold does with one more element (`SumAdds`) is
  proved from the fold's definition, with the smallest counterexample in place of an
  induction theorem (`LeastOf`).
- `SessionsGroupedByGap`: `[]GroupedByGap`. The property compares each logged call
  with all logged before it, but `Resolve` sees only the sessions table and the
  memo. `History` bridges the two. `FoldsCount`: a folded row that is still there
  bounds the last time of its session from below, which a purge keeps as it
  rebuilds from the rows that are left. `LastKnown`: that last time is some
  call's, so a session found within the gap has such a call. `Placed`: every call
  of a flush was placed by one of three grounds, that a call before it in the
  flush is in the same session, that the log has one within the gap, or that
  neither has any, and the ground stands until the call is logged, whatever
  purges do in between. `RowsKnown`, `RowsMatch` and `FlushLogged` tie rows, log
  and flush together.

- `SessionsPagesPartition`: `[]PagesPartition`, for pages of any size, not only the
  run's three. In any sequence that respects the keys, an entry stands behind as many
  entries as come before it by the keys (`Rank`). The keys, id last, are a total order
  because ids are unique (in `Listed` for warnings, by construction for rows and
  sessions), so every sequence gives every entry the same place, and the place divided
  by the page's size is the one page that serves it.
- `SessionsReportsAgree`: `[]ReportsAgree`, for every window with any bounds. A sum over
  groups is the sum over the rows, whatever labels them; counts are sums of ones; the
  row at the nearest rank has at least that many rows no longer and fewer that are
  shorter. That an unpriced row has no cost is `SessionsAssumption`'s.

`SessionsAssumption` says of a kind of call that a cost source of "unpriced", or
none, comes without a cost, because `prepareCall` takes both from one result of
`pricing.Compute` and leaves both NULL without one.

`PriceFileProofs` proves, from `DenAssumption`, that the code's UTC keying
of the peak calendar is Beijing's (`UtcAndBeijingAgree`: every window lies in one
UTC day that is Beijing's day too) and that the rounding is to the nearest
(`RoundingIsNearest`); and, from `PriceInputs` (what an edit and a line may hold),
for any writers, edits, editors and clock: `RoundTrip` (`Load` of what `Encode`
writes is the table, models without rates included), `EditsAlwaysSurvive`,
`LoaderAlwaysServes` and `CostAlwaysHonest`. `PriceInv` adds `WritersReady` (until an edit
overlaps, a waiting table is the file's with one edit) and `LoaderReady` (stamp and table
the loader holds come from one version that is at or before its last look).

`SseProofs` proves, from `SseAssumption`, for any responses, caps, tail length and
writes, `UsageAlwaysExact` (`[]UsageExact`), and for any bytes at all
`ChunksDontMatter`. The first has three parts.

- The tee. `Teed` says that after any writes head and tail are the two ends of
  what has come: the first `cap` symbols, and the last `TailCap` of those past them.
- The parser. All it is fed (the head, or head, blank line and tail) is one fixed
  text, and positions are counted in that. `Reads` says that after any number of rounds it has
  passed some first part of the text, carries the rest of what it was fed, and
  knows what the part passed tells (`Told`): the newest count of each type among the
  whole payloads before the first error, and how many payloads began. This needs
  one payload in each event (`Block`), so the text has to keep payloads apart by blank
  lines (`WellFormed`). Pieces of a stream do (`TextPiece`), for each of the three line ends
  and wherever they are cut, and the two line feeds of `Splice` keep the torn end of the
  head from the torn beginning of the tail (`SplicedWellFormed`); without them
  the invariant fails where the mutant of the run does.
- The comparison. The payloads that are whole in that text are, one to one and in
  order, the events that head or tail kept (`Matches`), so the newest and the number
  agree; up to two payloads began and are torn, one at each cut (`TornAt`).

`ChunksDontMatter` does without a well-formed text, as bytes behind an event change
neither where it ends (`FirstStays`: the four-symbol and two-symbol blank lines
cannot overlap in a way that a cut would show) nor what it tells (`TakeGrown`);
`DrainGrown` carries that through all rounds. Both replace induction over the
bytes by a fact about one set of numbers (`Climb`).

Only model-checked:

- All liveness (`AcceptedCallSettles`, `RunReturns`, `PurgedBodyCollected`,
  `OldBodyArchived`, `StopLeadsToExit`, `ReplyAlwaysComes`), because fairness needs `ENABLED`.
- The properties of the runs that expect a violation, which are false.

## 5. Plan

Done, in this order: `Capture` and `Archive` with their abstract specifications,
because losing a captured call and losing a body are the two failures the
repository's documents call unacceptable; then `Sessions`, `ServeState`, the
parts behind the dashboard, and the pure algorithms with their references.

Left:

1. A pass of the maintenance goroutine composed with `Reload`, to track the pair
   of settings it read.

A restore that is interrupted between its last two steps leaves a marker that
makes every later restore over it end in an error. No body is lost, which is
checked; that a restore makes progress is not stated, because the code does not
promise it.

## 6. Not modelled

- Request metadata (`parse/meta.go`), header redaction, forwarding and
  decompression are library calls or straight-line functions with no state
  between calls. `Sessions` takes the prefix they compute as given.
- The analyzers are predicates over one call; the models keep that they may
  raise warnings and may panic.
- The report commands and the browser code only read and render. The read routes
  add parameter parsing to `Queries`.
- Configuration sources (flags, environment, file syntax) are layers in `Reload`;
  their syntax is not modelled. Neither is the syntax of the price file.
- SQLite and the file system are taken at their word: a transaction is atomic,
  an exclusive create is exclusive, a rename replaces. What survives a power loss
  under `synchronous=NORMAL` is theirs to say.
- The workflows and git hooks are not part of the running program.
