# Verification of namebench

namebench measures DNS resolvers from the user's own machine. A Go program serves
a page on a loopback port; the page submits a benchmark, polls its progress, may
cancel it, renders the result, and keeps the program alive while it is open. These
modules model the program's concurrent core on both sides, the page's and the
server's, and the computations from the measurements to the report; TLC checks them
on small instances, and TLAPS proves every safety property that the passing runs check for
all values of the parameters.

Contents: the system and its hard parts; the modules; how state and actions
correspond to the code; what the runs check and within which bounds; fairness;
what is proved and how; where the code departs from its documents; what is only
model-checked and what is not modelled; the plan.

## 1. Inventory

| Component | Source | State | Operations | What makes it correct |
|---|---|---|---|---|
| DNS queue | `dnsqueue/dnsqueue.go` | two buffered channels, 8 workers | `StartQueue`, `AddWithContext`, `SendCompletionSignal`, `startWorker`, `SendQuery` | no result lost or duplicated, no send that blocks, no worker left behind |
| Benchmark pass | `ui/ui.go` `benchmarkServerPass` | queued, latencies, failures | queue all hosts, collect as many results, give up on cancel | success only with all results; nothing of it runs on into the next pass |
| Benchmark jobs | `ui/jobs.go` | run slot, registry, per job: status, progress, finish time, context | `/submit`, `/progress`, `/cancel`, cleanup, `HasRunningJobs`, `CancelAllBenchmarkJobs`, the run goroutine | one run at a time, final verdicts, exact progress, the slot always comes back, a cancel stops new work |
| Measurement, integrity | `ui/ui.go` | local to the run | cold pass, warm pass, three probes, statistics, score | the order of the parts and their cancellation points; the arithmetic |
| Runtime | `server_runtime.go`, `namebench.go` | sessions, `hadUISession`, `noSessionSince`, `lastActivity`, `shuttingDown`, `shutdownDone` | session open, ping, close; `monitorIdle`; `requestShutdown`; `waitForShutdown` | ends soon after the last page, never without a reason, always when asked |
| Instance guard | `instance.go`, `namebench.go` | `instance.lock`, `instance.json` | acquire, `WriteState`, `Release`, read | one instance; a second launch opens the first |
| Page: run, poll, cancel | `ui/static/index.js` | `currentJobId`, `currentResult`, `benchmarkRunning`, timers, the controls | run, poll, cancel, DNSSEC check, shut down, consent | reports what the server completed, starts nothing without consent, never polls for ever, offers the right buttons |
| Page: report, charts, export | `ui/static/index.js` | the elements it writes | metrics, cards, banner, table, charts, diagnostics, log, CSV, JSON | all views tell the same; what is exported can be read back |
| Page: layout | `ui/static/index.js`, `index.css` | `--setup-width`, its copy in local storage, drags | load, drag, keys, resize | both columns have room, no drag is left behind |
| Ranking | `ui/ui.go`, `ui/jobs.go` | none | statistics, score, `classifyResolverIntegrity`, sort, ranks, `selectWinner` | a hijacking resolver never wins while another answers |
| Resolver selection | `ui/ui.go`, `ui/system_resolvers.go` | none | normalise, merge, deduplicate, cut at 32 | no duplicate, no private address, manual entries first |
| History | `history/` | temporary copies | copy, query, filter, `Uniq`, `Random` | copies are removed, the choice is without repetition |
| Metadata | `ui/resolver_metadata.go` | a cache | two lookups, merge, cache | a failure is not remembered as an answer |
| DNSSEC check, HTTP decoding, Bootstrap, build | see `PROJECT.json` | none | - | - |

How they interact. `/submit` starts the run goroutine of a job; it calls
`benchmarkSingleServerWithContext` per resolver, which runs two passes (each with
a queue and workers of its own) and the probes, and reports every finished query
through a callback to `advanceProgress`. `/cancel` and the shutdown cancel the
job's context, which the run, the passes and the dialing of a query look at, and
nothing else does. The monitor of the runtime asks the job registry whether a run
is active before it ends the program. Session requests of a page reach the runtime
through callbacks. `main` holds the instance guard around all of it. The page is
single-threaded, but every `await` lets clicks and other coroutines in.

Hard behaviours: handlers, goroutines and workers interleave freely; the monitor
checks and then acts; a cancel can hit any point of a run; requests of a page that
is being left overtake each other or get lost; answers reach the page after it has
turned to something else; crashes leave a file behind; a full channel would block
for ever; resolvers that answer nothing have averages of zero. The list with source lines is in `PROJECT.json`
(`hazards`).

## 2. The modules

| Module | What it is |
|---|---|
| `ServerPass` | one pass: the caller, the workers and their channels |
| `PassContract` | what a pass promises its caller; `ServerPass` implements it |
| `MCServerPass` | the instance TLC checks |
| `ServerPassProofs` | theorems about `ServerPass` |
| `BenchmarkJobs` | the job API and the run goroutine; a pass appears as `PassContract` describes it |
| `RunContract` | what the API promises the page; `BenchmarkJobs` implements it |
| `BenchmarkJobsProofs` | theorems about `BenchmarkJobs` |
| `AppRuntime` | sessions, monitor, shutdown, and the end of `main` |
| `MCAppRuntime` | `AppRuntime` with history variables, for properties that look back |
| `AppRuntimeProofs` | theorems about both |
| `InstanceGuard`, `MCInstanceGuard` | launches, lock, state file, crashes |
| `InstanceGuardProofs` | theorems about `InstanceGuard` |
| `Page` | the coroutines and controls of the page; the job API appears as `RunContract` describes it |
| `MCPage` | `Page` with what went wrong between page and server, and a bound on it |
| `PageProofs` | theorems about `Page` and `MCPage` |
| `Ranking` | from the measurements to the response of the job |
| `Report` | from the response to every view and export of it |
| `PageText` | the conversions of the page that something else must understand: CSV, paths, progress, the list of resolvers |
| `RunData` | the selection of resolvers, the browser history, the metadata cache |
| `RunReport` | composes these four: the two steps rank and render over any measurements, any input of the other operators, and the properties |
| `MCReport` | the small sets of inputs TLC takes |
| `DataProofs` | lemmas about folds, searches, sorting, rounding, and the operators of the four modules |
| `ReportProofs` | theorems about `RunReport` |
| `Layout`, `LayoutProofs` | the divider between the columns, and theorems about it |

The composition is by contract. `ServerPass` is checked to implement `PassContract`
(no start under a canceled context; success exactly with all results, even if a
cancel comes in between; an abort only under a canceled context; it always
returns). `BenchmarkJobs` contains those very steps (`Enter`, `PassProgress`,
`PassDone`, `PassAborted`) in place of workers and channels. `AppRuntime` in turn
relies on `OneActiveRun` and represents the one run that can be active. `Page` is
composed with the job API through `RunContract`, whose actions `Start`, `Run` and
`End` are the server's steps in it, plus the run slot, which comes back only after
the verdict is visible. `Report` extends `Ranking`: what is rendered is what the
server computed.

### Correspondence to the code

`ServerPass`. `requests` and `results` are the channels of a `Queue`; a request is
the index of its host, `Exit` stands for `exit: true`. `pc` walks through
`benchmarkServerPass`: `check` is the test of `ctx.Err()` at the head of the queueing
loop, `add` the channel send, `collect` the `select`, `signal` the deferred
`SendCompletionSignal`. When both branches of the `select` are ready either may be
taken, as in Go: `CollectResult` and `CollectCanceled` are both enabled. A worker's
`dial`/`udp`/`redial`/`tcp` are the two `ExchangeContext` calls of `SendQuery`. The
DNS library is external: it is taken to look at the context when it dials and not
during the exchange, which ends with an answer, an error or the 4 s timeout.
Latencies are dropped; `successes` and `failures` are how the code sorts a result.

`BenchmarkJobs`. `slot` is `activeBenchmarkJobs`, `registry` the keys of
`benchmarkJobs`. A submission is two steps, `Reserve` (the compare-and-swap) and
`Publish` (the store and the `go` statement), since handlers and the monitor can run
between them. `finished` keeps of the finish time what `isExpired` tells apart: zero,
recent, older than the retention. `Kept` is the registry after
`cleanupExpiredBenchmarkJobs`, which every handler that looks a job up runs first.
`pc[j]` walks through `run`, `benchmarkSingleServerWithContext` and
`checkResolverIntegrity`; every place where the code looks at the context is a step.
Not every place where the code could: `Complete` has no guard on the context because
the code has none. The deferred release of the slot is a step of its own, `Unwind`.

`AppRuntime`. `seen`, `hadSession`, `quiet`, `idleFor` are `uiSessions`,
`hadUISession`, `noSessionSince` and `lastActivity`, as ages instead of times.
`wire` holds the session requests under way; they are served in any order, or never.
`monitor` walks through one turn of `monitorIdle`, one step per critical section.
`stop` is how far `requestShutdown` and `main` are. `beforeunload` and `pagehide`
both close the session, so `Leave` happens twice, and a page can ping in between.

`InstanceGuard`. `lock` is the holder of the file lock, `file` the content of
`instance.json`. A denied launch reads the file in a step of its own. `Truncate`
and `Write` are the two halves of `os.WriteFile`; either may fail, which the code
logs and ignores. `Crash` stands for a crash, a kill, or `log.Fatalf`.

`Page`. `current`, `result`, `running` are `currentJobId`, `currentResult` and
`benchmarkRunning`; `enabled` are the buttons that are not disabled; `shown`,
`cards`, `diagnosed` say which job the parts of the report belong to. `run[r]` is
where the r-th `runBenchmark` is: awaiting the submission, awaiting a poll, or in the
700 ms between polls. An action is everything between two awaits, with the `catch`
and the `finally` that run in the same stretch. `answer` is what an answer under way
says: it is written when the server serves the request and read when the coroutine
takes it, so a verdict can change in between. As in the code, an answer to a poll is
used without asking whether the job is still current, and the `finally` of
`runBenchmark` and of `cancelBenchmark` reset the controls of whichever run there is.
`Lose` is a request that fails, or whose answer is not 200 or cannot be read.

`Ranking`, `Report`, `PageText`, `RunData` are operators named for the functions they
translate. Numbers are whole multiples of what the program keeps: `round2` makes a
hundredth of a millisecond the unit (`Ms` of them are a millisecond), and rounding is
modelled where it happens. The jitter is an integer square root. A text that is only
shown is the tuple of what is filled into it; a text that is parsed again is a sequence
of characters. `Random` is the set of all its outcomes. What a lookup, a copy of a
history or a probe does is an input with every way it can fail.

`Layout`. `setup` is `--setup-width`, `stored` its entry in local storage, `drags` the
pointers whose `pointerdown` added listeners. The window changes in one step and the
resize event is handled in another. The listeners do not ask whose event they get: while
there is a drag the divider follows every pointer that is captured or over it, a hovering
one included (`PointerMove`), and the first release it sees ends all drags. The divider
sees a release if the pointer is captured or goes up on it (`PointerUp`); the end of the
drags gives up all captures, so a second pointer may go up elsewhere unseen.

Each definition's lines are in `PROJECT.json` (`map`). Definitions marked `Mutant`
in a comment are not part of the model: they are plausible mistakes, one for every
checked property, and with the mistake in place of the definition it belongs to
the property fails.

## 3. The runs

| Run | Bounds | Shows |
|---|---|---|
| `server_pass` | 2 workers, 3 hosts, capacity 5 | `NeverBlocked`, `ExactlyOnce`, `PassIsolation`; `PassReturns`, `WorkersExit`; `ImplementsContract` |
| `benchmark_jobs` | 2 jobs, 2 resolvers, 2 hosts, 2 probes | `OneActiveRun`, `ActiveJobIsRegistered`, `ProgressAccounted`, `VerdictIsFinal`, `CancelStopsNewWork`; `SlotReleased`; `ImplementsContract` |
| `cancel_any_time` | 1 job, 1 resolver, 1 host, 2 probes | divergence 1: `CancelAnyTime` fails |
| `app_runtime` | 2 tabs; grace 1, stale 2, idle 5 check intervals; explored until the shutdown cancels the jobs | `QuietClock`, `QuitIsJustified`, `LeavesInTime` |
| `app_runtime_live` | 1 tab; grace 1, stale 1, idle 3 | `ShutdownEnds`, `EndsWhenAbandoned` |
| `instance_guard` | 4 launches | `SingleInstance`, `FileKeepsServer`, `OnlyCrashesMislead` |
| `relaunch` | 3 launches | divergence 2: `RelaunchOpensRunning` fails |
| `page` | 2 submissions, 1 cancel request under way, 2 troubles (other clicks and failed requests together); 769,197 states | `TypeOK`, `ReportIsGenuine`, `ButtonsAtRest`, `OnlyMishapsMislead`; `ConsentGiven`; `RunReturns` |
| `cancel_while_watched` | 2 submissions, 1 cancel request, 1 trouble; while there is no shutdown and nothing has gone wrong (`Undisturbed`) | divergence 3: `CancelWhileWatched` fails |
| `report` | up to 2 resolvers with all outcomes and 3 with selected ones; texts of 3 characters; lists of 3 entries of which 2 resolvers are kept; 2 browser profiles; 2 metadata runs; 142,379 states | `SafeWinner`, `ViewsAgree`, `DiagnosticsAddUp`, `BarsFaithful`; `SelectionSound`, `HistoryRead`, `MetadataExplained`; `CsvRoundTrips`, `PageAndServerAgree`, `ProgressTells` |
| `fastest_card` | as `report`, with shorter texts and runs | divergence 4: `FastestAnswered` fails |
| `layout` | windows of 1000, 1200, 1600 pixels, 2 pointers, 3 positions; 62,007 states | `FitsWindow`, `DragsEnd` |

The type invariants of `ServerPass`, `BenchmarkJobs`, `AppRuntime`, `InstanceGuard` and
`Layout` are proved (section 5) and have no run.

Why these bounds. `server_pass`: the hosts outnumber the workers, so requests wait
while workers are busy, and the capacity is the smallest one that the assumption
allows (the code's 65535 exceeds its 2000 hosts and 8 workers by far). Workers are
interchangeable to the caller, but the run checks liveness and uses no symmetry.
`benchmark_jobs`: two of everything, so that every loop is entered, repeated and
left; a second job can reserve, poll, clean up and cancel around the first.
`app_runtime`: with two tabs one can be closed, pruned or late while the other is
open. The limits keep their order (8 s, 75 s and 10 min in the code, checked every
5 s), and the idle timeout lies beyond the deadline of `LeavesInTime`, so that it
cannot stand in for the session rule. The run does not go on behind the states in
which the shutdown has canceled the jobs (`UntilCanceled`): the rest of the shutdown
is explored by `app_runtime_live`.
The tabs are a symmetry set: no liveness is checked there. `instance_guard`: one
launch that crashes, its successor, and two that are denied. Ages saturate at
their limits; beyond them no comparison of the code changes.
`page`: a first run can be canceled, lost or late while a second one is submitted,
refused or watched. Two troubles are enough for the pairs that matter (a cancel and a
lost answer, a shutdown that fails after a click on the check); clicks on Start and the
steps of the server are not counted.
`report`: the servers differ in their port, in whether that port is shown, and in the
order in which Go and `localeCompare` sort them. The latencies are absent, small, or
large enough that a small one has a bar of less than 2 percent; the probes take every
outcome that the classification tells apart, in every order. Progress is tried for
every number of steps of two short runs, and for the last steps of one long enough for
the rounded percentage to reach 100 early (`ManyQueries`).
`cancel_while_watched`: without a shutdown and without a request that is lost or late the
only thing that can take the button away is another run of the page, which is the case in
question.
`layout`: one window with one column, two with two columns and different room;
positions left of, between and right of all limits.

Deadlock checking is on for `server_pass` (its only idle end, all goroutines gone,
is the action `Done`) and off elsewhere: when a program has exited, or all the
launches are over, the system really stops.

`CancelStopsNewWork` allows what is under way to end: the last probe of a resolver
may still be answered and its result added. `LeavesInTime` has the deadline
`Stale + 1 + Grace`, which is tight: a ping that overtakes nothing and arrives after
the close creates a session nobody closes, which has to grow stale before the grace
period starts. `QuitIsJustified` tells what the monitor saw from what came since:
its checks and the shutdown are not atomic, and the property says exactly what may
be lost in between, a job stored since the check of the jobs, or a request served
since the last check. `OnlyMishapsMislead` is of the same kind: it lists every way the
page can lose sight of a run that goes on (a late answer, a late cancel, no answer),
and says that there is no other. `ProgressTells` allows a full bar before the last
query where rounding causes it, which takes a run of at least 20000 queries.

## 4. Fairness

- `ServerPass`: weak fairness of the caller and of each worker. The Go scheduler
  runs every goroutine that can run, and each exchange has a timeout. None for
  `Cancel`: it is the user's.
- `BenchmarkJobs`: weak fairness of `Publish` (a handler that has taken the slot goes
  on) and of each run goroutine. That a pass in progress goes on is what
  `PassReturns` shows of `ServerPass`. None for requests and none for time.
- `AppRuntime`: weak fairness of the ticker, of the monitor, of a run in progress
  (`SlotReleased`), and of the shutdown's steps (`server.Shutdown` has five seconds,
  then `Close`). None for pages: a request may be lost, and `EndsWhenAbandoned` is
  about pages that are gone whichever of their last requests arrive.
- `InstanceGuard` and `Layout`: no liveness is checked.
- `Page`: weak fairness of the server's run (`SlotReleased`) and of the coroutines
  taken together: as long as the server listens its answers arrive, afterwards
  requests fail, and timers fire. None for clicks, for requests that get lost, and for
  the answers to a cancel, a check or a shutdown.

## 5. What is proved

All theorems hold for every value of the constants that satisfies the named
assumptions (`PassAssumption`, `CapacityAssumption`, `JobsAssumption`,
`GuardAssumption`, `RuntimeAssumption`, `PageAssumption`, `MsAssumption`,
`LayoutAssumption`, `RunDataAssumption`, `AbsentAssumption`, `CharAssumption`,
`InputsAssumption`, `TextsAssumption`), which TLC evaluates on every instance. The last
two say what may be measured and what may be written: sequences of any length over the
types of the inputs, not the sets a run takes. There are two things the code grants
and an input must have: a report has a server at least (which `SelectionSound` says of
the selection), and a table has a line and every line a cell (the header of `buildCsv`).

`ServerPassProofs`: `TypeCorrect`, `SendsNeverBlock`, `PassesAreIsolated`,
`EachExactlyOnce`, `ImplementsContractSafely`. None of these follows from its own statement alone. The invariant is

    PassInv == TypeOK /\ CallerStage /\ Balance /\ BusyWithHost

`Balance` is the heart: the request channel holds hosts first and exit requests
last, the exits still in it are those sent minus the workers that have exited, and
hosts waiting + busy workers + results waiting + results collected = hosts queued.
`CallerStage` ties the counters to where the caller is. Room in the channels
follows by adding up: what is in `requests` is at most the hosts queued plus the
exits sent, what is in `results` plus what the workers will still send is at most
the hosts queued, and `CapacityAssumption` bounds both. Isolation follows because
on success the collected term equals the sum, which leaves zero for the others.
The proof has a lemma per action that moves something between the terms
(`AddQueryBalance`, `SendExitBalance`, `ReceiveBalance`, `DeliverBalance`,
`CollectResultBalance`), on the lemma that says how the two groups of workers
change when one worker moves. `Balance` counts places; that each host has a place of
its own (`ExactlyOnce`) needs the order of the requests too, which `Places` adds: the
hosts received are those up to some number, those waiting the ones after it, one by
one, and no two places hold the same host. With as many hosts received as places,
they are all there. The refinement needs the invariant twice: a result is
never collected beyond the last, and a pass that returns has an outcome its counters
justify.

`BenchmarkJobsProofs`: `TypeCorrect`, `OneActiveRunHolds`,
`ActiveJobsStayRegistered`, `ProgressIsAccounted`, `VerdictsAreFinal`,
`CancellationStopsWork`, `ImplementsContractSafely`. The invariant is
`ControlInv /\ ProgressInv`. The first ties the slot, the status, the finish time and
the registry to where the goroutine is (a status of queued or running belongs to a
goroutine before its verdict, which has no finish time and so cannot expire); the
second says that the steps counted are a function of resolver, phase and position in
the phase. Progress is arithmetic with products of parameters; the products are named
and kept closed, so that the provers see linear terms only. The refinement maps every
step to a step of `RunContract` or to a stutter.

`InstanceGuardProofs`: `TypeCorrect`, `OneInstance`, `FileIsStable`,
`MisledByCrashOnly`. The invariant `GuardInv` says who may hold the lock
(`LockIsHeld`: exactly the program between its lock and its release), whose URL the
file may contain (`FileIsKnown`: one that holds the lock or has crashed) and that the
file is gone before the lock is dropped (`FileIsRemoved`), which is what makes
`FileIsKnown` survive a clean end.

`AppRuntimeProofs`: `TypeCorrect`, `ClockIsRight`, `QuitsForAReason`,
`LeavesByTheDeadline`. The clock of the empty session list is inductive with the types
(`ClockInv`). The decision of the monitor needs to know what it has seen and what it
may have missed (`DecisionInv`: a job that became active since the check of the jobs is
remembered). The deadline is an argument about time (`OnTime` in `TimeInv`): while
nothing comes from a page, a session is at least as old as the intervals since the page
left, so the prune after `Stale + 1` of them leaves none; from then on the clock of the
empty list runs along, and in the last interval the monitor does not get past its check.

`PageProofs`: `TypeCorrect`, `ReportsAreGenuine`, `ButtonsRestCorrectly`,
`ConsentIsGiven`, `MishapsMislead`. The invariant says that Start is enabled exactly when
nothing runs and the box is checked, that a running page has a `runBenchmark` under way
(whose `finally` will reset it), that the pings stop only for a shutdown, and that an
answer that says completed stays true. The steps are grouped by what they leave alone
first, so that each part of the invariant has few cases. `MishapsMislead` is about
`MCPage`, with its history variable, and needs two more parts: unless a poll was late, a
status line that speaks of a run under way belongs to a coroutine that is under way
(`MessageInv`), and a run that goes on uncanceled is watched by its own `runBenchmark`,
is being submitted, or is about to be canceled by a shutdown, unless there was a mishap
(`WatchedInv`). They use each action of the page for
what it does to a few variables only, so the bound on troubles plays no part.

`DataProofs` and `ReportProofs` prove all ten properties of run `report`, for any number
of servers, probes, hosts, profiles, lookups, characters and queries: `WinnerIsSafe`,
`AllViewsAgree`, `DiagnosticsAreRight`, `BarsAreFaithful`, `SelectionIsSound`,
`HistoryIsRead`, `MetadataIsExplained`, `CsvIsRead`, `PageAndServerAlwaysAgree`,
`ProgressIsTold`. The invariant of the specification is simple (`ReportInv`: the response
is a function of what was measured and the view of the response); the work is in what
the operators compute.

- Loops are folds. A fold of the community modules is a recursive function on the sets
  that are left of 1..n; `Iteration` constructs that function, and `IterationPlaces`
  turns it into a sequence acc[0], ..., acc[n] in which acc[k] is one step from
  acc[k - 1]. Each fold has a lemma that applies this to its step
  (`PieceSteps`, `ServerSteps`, `UniqSteps`, `ExternalSteps`, `CellSteps`, `LineSteps`,
  `EnrichSteps`, `ReadSteps`), and an invariant of the loop, proved along
  0..n (`InductionTo`).
- Sorting is the choice of a sequence in order. That a finite set with a strict total
  order has one, with every element once, is `SortedIs`; `RankingIs` says what follows for the
  results: in order of score, then name, each once. With `WinnerIsFirstEligible` the
  winner has the best score of its kind.
- Rounding: quotients by a variable are beyond the provers, so `Quotient` and its
  consequences say what a quotient leaves. On them rest `PercentileInRange`,
  `BarsCompare` (bars compare as their values do, rounded, widened and all) and
  `FullBarIsAlmostDone`. `RootIs` shows that the recursive function for the square
  root of the jitter is the integer square root.
- `DiagnosticsAreRight`: one redirected probe decides whatever its place
  (`HijackedByOneProbe`); otherwise the counts are those of a set of positions, which
  reversing maps one to one (`OrderDoesNotMatter`). The four statuses partition the rows
  (`FourParts`).
- `CsvIsRead` follows a reader through the text, and goes both ways. `ReadsBoth` lets a
  text be read in parts; a quoted cell is read back character by character with its quotes
  doubled, a carriage return in it included (`QuotedIs`), and a plain one without
  carriage returns changes no state (`PlainIs`); so a cell and a line each leave the
  reader where the next one starts (`CellAfter`, `LineReadOn`, `TextReadOn`). A carriage
  return in a plain cell ends the row in the middle of the cell (`CellSpoils`), and a row
  that was once read wrong stays so, whatever follows: the text is read back
  exactly if there is no such cell (`CsvIs`).
- `PageAndServerAlwaysAgree`: `main` makes the base path with one slash at each end
  (`RawBasePathIs`) and neither the server (`ServerBasePathIs`) nor the page
  (`BasePathIs`) changes it; the endpoint loses its slashes in `apiPath`, and what
  `StripPrefix` leaves of the request begins with the slash the prefix had given up
  (`MuxPathIs`). The texts between the separators are folds on both sides (`PieceSteps`),
  with one separator more at the server, a carriage return, which a list from a textarea
  does not have; so the pieces are the same (`SamePieces`), and as many of them are not
  blank, unless the list contains a character that only one side takes for white
  space (`EntriesAreTokens`).
- `SelectionIsSound`: what is merged are the entries that were named, each once, and
  each of the lists is the beginning of the next (`MergedServers`), so a cut takes away
  from the end (`CutIs`).
- `HistoryIsRead` and `MetadataIsExplained` are about loops that fail half-way: what the
  loop over the profiles has copied and read so far (`FamilyIs`), and a cache that only
  grows and agrees with every row written from it (`EnrichedIs`).

Two more facts about operators are worth a theorem: `WinnerIsFirstEligible` holds of any
list of results, sorted or not, and `AnsweringBeatsSilent` says that a resolver that
answered anything is ranked before a dead one whatever its penalties.

`LayoutProofs`: `TypeCorrect`, `WidthFits`, `DragsDoEnd`. A drag captures its pointer, so
the release of that pointer is seen wherever it happens and ends the drag; hence the
pointer of every drag is still down. Whom the divider follows is not part of it. A page with listeners has a
width that fits its window unless a resize is pending; one that was loaded narrow has no
listeners and keeps a width that fits the widest narrow window, and every window with
two columns has room for that (`BoundsGrow`).

With TLC only: the liveness properties (`PassReturns`, `WorkersExit`, `SlotReleased`,
`ShutdownEnds`, `EndsWhenAbandoned`, `RunReturns`, the fairness part of both
`ImplementsContract`). They need ENABLED and induction over well-founded progress, which
are out of the prover's reach. Every invariant and every action property of a run is
stated by a theorem. What the proofs do not say: that the operators agree with the
library functions they stand for (`Math.round`, `sort.Slice`, the regular expressions),
and that a reader of CSV is the one written down in `PageText`: RFC 4180, and a single
carriage return or line feed ends a row as CR LF does, which the export relies on, as it
joins its rows with line feeds.

## 6. Where code and documents differ

1. `cancel_any_time`. README.md:95: "Cancel the run at any time". The context is not
   looked at after the last resolver's last probe: a cancel during that probe's
   exchange, the ranking or the metadata lookups is accepted, and the run still ends
   as completed (`jobs.go:174-201`).
2. `relaunch`. RELEASE_NOTES_v0.2.5.md:15: "re-launching opens the already running
   app". After a crash `instance.json` names the dead program until the next one has
   taken the lock, listens and writes; a launch in between opens the dead URL.
3. `cancel_while_watched`. README.md:95 again. The `finally` of `runBenchmark`
   (`index.js:1000-1005`) disables the cancel button without asking whose run it is. The
   trace: a poll of the first run is answered and its `pollBenchmark` sleeps for 700 ms.
   Meanwhile the run is canceled, which offers Start again, and a second run is submitted
   and accepted. The timer wakes the first `pollBenchmark`, which ends, and the `finally`
   of its `runBenchmark` takes the cancel button away while the page polls the second run.
4. `fastest_card`. RELEASE_NOTES_v0.2.5.md:25: "summary cards for recommended, fastest
   cold, ...". A resolver without answers has an average of 0 and wins the lowest
   average (`index.js:335`): the card names it with 0.00 ms.

Noticed in reading, without a run of their own:

- README.md:105 says to disable both checkboxes "to test only manually entered servers".
  The resolvers of the machine have a box of their own that is checked by default
  (`templates/index.html:61`), and they are merged in (`SelectResolvers`).
- README.md:117 says that without valid history records the API "returns warnings and
  empty results". The code falls back to built-in domains, so its branch for no
  hostnames (`jobs.go:134`) is not reached (`HistoryRead`: there is always a hostname).
- The warning about ignored entries also counts entries that are only repeated
  (`ignored` in `SelectResolvers`).
- `escapeCsv` puts a cell with a quote, a comma or a line feed in quotes, but not one with
  only a carriage return (`index.js:735`). Programs that take a carriage return for a
  line break read such a cell as two rows; `CsvRoundTrips` says that this is the only
  case. The rows are joined with LF (`index.js:789`), RFC 4180 has CR LF.
- `trim` of the page and `TrimSpace` of the server differ in U+FEFF and U+0085, and only
  the server separates entries at a carriage return (`ui.go:861`): the number of entries
  shown may be off for a list with the first two (`PageAndServerAgree` excepts them).
- During a drag the divider also follows a pointer that merely hovers over it, because
  `onPointerMove` does not look at `pointerId` (`index.js:227`).
- A click on Cancel before the submission is answered does nothing and leaves no trace
  (`index.js:1009`): the run goes on.
- A row of known metadata always has a country, "--" at least, so the tag of the
  organisation alone is never shown (`FormatResolverTag`).

## 7. Not modelled

- DNS and HTTP libraries, SQLite, the public suffix list, the file lock and the
  operating system are external and appear only through what the code does with them.
- Request decoding and the token check are stateless. Of the HTTP side only the base
  path and the job API are modelled.
- The DNSSEC check itself is one query per resolver and one comparison.
- The page: wording, colours, elements, `getConfigPayload`, whether the log panel is
  open. The CSV columns `resolver_ip`, `as_name` and `integrity_detail` are copied
  fields; the latency buckets of the response are read by nothing.
- `bootstrap.js` is third-party code that `index.html` does not load; build scripts and
  the helpers that start processes have no state.
- The idle timeout is taken to be on (`-idle_timeout 0` switches the monitor off). A
  panic of the Go program is a `Crash` of `InstanceGuard` and nothing finer; a crash
  between the copy and the removal of a history file is not modelled.
- Spellings of IP addresses, whether a hostname is external, and the answers of RIPE
  and RDAP are inputs, already parsed.

## 8. Plan

Done: both sides of the job API with the contract between them, the runtime, the guard,
the report, the run's inputs and the layout, with eight proof modules.

Left, in order of use:

1. When the `finally` of `runBenchmark` asks whose run it is, `CancelWhileWatched`
   should hold, and join run `page` and `PageProofs`.
2. The log panel and `getConfigPayload`, when a property is about them.
3. The idle timeout switched off, as a parameter of `AppRuntime`.
