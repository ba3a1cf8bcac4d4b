# localx-llama, modelled and proved in TLA+

This directory is the verification project of localx-llama, the Rust workspace
that LocalX programs share: it finds and configures a local llama.cpp server,
runs it behind a proxy that takes the model's reasoning out of its answers,
runs commands under a host's guard, and judges and scores what the models did.

The modules are translated from the source. `PROJECT.json` names, for each
definition, the lines it stands for.

## 1. The system

Three crates, under `src/crates/`. A consumer (an editor, a launcher, a
benchmark) links them as libraries; there is no daemon of their own.

| Part | Files | State it keeps | Operations |
|---|---|---|---|
| Cancel signal | eval-core `check.rs` 240-290 | a flag and a `Notify` | `cancel`, `is_cancelled`, `cancelled` |
| Output capture | eval-core `check.rs` 625-717 | the kept bytes, whether some were dropped, a reading task | `start`, `finish`, `take`, `bound` |
| Command execution | eval-core `check.rs` 487-621 | one child process, its tree, a guard, two captures | `execute` |
| Check and fix | eval-core `check.rs` 393-484, 695-703 | none between calls | `run`, `maybe_fix`, `run_command`, `outcome` |
| Thinking filter | runtime `nothink.rs` | held text, inside a span or not, pending event, open blocks | `strip_think`, `push`, `finish`, `transform_event`, request transforms |
| Proxy | runtime `proxy.rs` | the stage of each request, the phase of each stream | `proxy_handler`, `authorized`, `build_response`, `collect_stream`, `sse_think_stream` |
| Bounded tool runs | runtime `tool.rs`, `help.rs` | one child, two reading threads, a deadline | `run_tool`, `drain`, `read_help_output` |
| Server and proxy lifecycle | runtime `server.rs`, `health.rs`, `net.rs`, `spawn.rs`, `probe.rs` | none; decides over observations of ports and processes | `plan_proxy_lifecycle`, `wait_for_ready`, `wait_for_port`, `spawn_detached` |
| Downloads | runtime `download.rs` | none | `check_download_pin`, `select_cpu_asset`, `cuda_major_order`, `build_stamp_is_stale` |
| Fit | runtime `fit.rs`, core `fit.rs` | none | `run_fit_params`, `fit_params_args`, `parse_fit_output` |
| Configuration | core `config.rs` | the assembled map | `assemble_config`, `set_setting` |
| Models and quants | core `model.rs`, `quant.rs` | none | `validate_model_def`, `resolve_context_key`, `quant_candidates`, `select_quant`, `shard_files_from_primary` |
| Launch arguments | core `args.rs`, `capabilities.rs` | none | `build_llama_server_args`, `from_help`, `load_flags` |
| Launcher contract, VRAM | core `launcher.rs`, `vram.rs` | none | `assert_compatible`, `resolve_vram` |
| Tuner | core `tuner.rs` | none; reads saved profiles | `Overrides::to_launch_params` |
| Uplift identity | eval-core `uplift.rs` | none; result files and a receipt on disk | `pair`, `mismatches` |
| Judging and scoring | eval-core `judge.rs`, `ablation.rs`, `grade.rs`, `gate.rs`, `scorecard.rs`, `verify.rs`, `discipline.rs` | the judge's cache; the scorecard | `score_offline_gated`, `blind`, `resolve_preference`, `cohens_kappa`, `resolve_verify_command`, `grade`, `from_signals`, `rank`, `attribute` |

How they interact.

* `CheckRunner::run` awaits `execute` for the check, and once more for the fixer
  and for the re-run. `execute` asks the host's `CommandGate`, which may refuse
  or hand back a `CommandProcessGuard` that owns the process tree. It spawns the
  child, starts a `Captured` on each pipe, and waits in a `select!` for the exit,
  the timeout or the `CancelSignal`, which any other task may raise.
* The children, and what they fork, run by themselves and share only the pipes
  with the runner.
* `proxy_handler` checks the key and the size, transforms the request, forwards
  it, and either collects the answer or streams it through one `SseThinkFilter`, which pushes the text of each event through one
  `ThinkStripper`. Client, proxy and server are joined by byte streams only.
* `read_help_output` and `run_fit_params` call `run_tool`, which talks to its
  reading threads over channels.
* A benchmark runs a gate of checks, runs the command that `verify.rs` names,
  has its output graded, puts both on a scorecard and ranks the cards; beside it
  a judge model is asked, through a cache, what it thinks of the change.
* Before it fetches a build the application assembles the configuration and asks
  `download.rs` whether the stamp is stale, which asset to take and whether the
  bytes may be installed.
* The planners in core and runtime are pure; the application observes the world,
  asks them, and acts.
* A launch passes through most of core: a quant is selected from a listing, the
  definition is validated, the help of the server that will run is read, the
  arguments are built, the fitter is asked about those arguments, they are built
  again with its answer, and the tuner may store and later replay them.
* An uplift run joins two programs by files: a requester waits for an identity,
  a producer leaves a result file per arm, and a receipt joins two files.

### What is hard here

* **Interleavings.** `cancel()` stores and then notifies while `cancelled()`
  registers and then checks; the reading tasks of a capture run beside the
  runner that polls and aborts them; three events race in one `select!`.
* **Abandonment.** The caller may drop the future of `execute` at any await.
  Then only `Drop` code runs.
* **Processes that outlive their parent.** They hold pipes open, so "the child
  exited", "its pipes closed" and "its tree is gone" are three different facts.
* **Order of reap, kill, wait and confirm.** A process id names the tree only
  while its root was not waited for.
* **Text cut anywhere.** A tag, a character, an event or a span may be split
  over any number of chunks, and the connection may break in the middle of each.
* **Time.** Ceilings of five seconds, a grace after the exit, a deadline shared
  by two waits.
* **Verdicts about verdicts.** A fixer, a cut output, a run of no test, a judge
  that answers in prose or not at all: a wrong conclusion looks like a right one.
* **Stale observations.** A listener, a server, the help of a build, a result
  file: each is looked at first and acted upon later.
* **Steps that must agree.** The arguments, the fitter's view of them and the
  replay of a tuning are computed by different code from the same choices.

### What makes each part correct

* *Cancel signal:* no wake-up is lost, every waiter of a raised signal resolves.
* *Capture:* what is kept is a prefix, every loss is marked, a flooding process
  is never blocked.
* *Execution:* it ends, `Confirmed` is only said of a tree that is gone, the
  legacy reap has its place in the order, `NotStarted` means nothing ran, the
  tree of an abandoned run ends.
* *Check and fix:* the verdict is that of the last check, nothing starts after a
  cancel, two commands overlap in a directory only after an `Unverified` cleanup.
* *Filter and proxy:* streaming shows what stripping the whole text would show,
  in the right block, in well-formed events; what is held is bounded; a broken
  connection is an error for the client and never an end.
* *Requests and buffered answers:* what is forwarded asks for the same; what is
  answered is the upstream's, whole, or says that there is none.
* *Tool runs:* they end, they leave no tool, output is not lost for no reason.
* *Lifecycle:* a foreign listener is never killed; a dead upstream is noticed
  before a proxy is reused.
* *Lifecycle, waiting:* a server that was ready before the last look at it began
  and answers that look is not given up (one that becomes ready while the last look
  is under way may be), and a session settles once the world keeps still.
* *Launch:* what is chosen can be loaded and is what was asked for; the build
  that runs knows every flag; one party places the model; one engine speculates;
  the fitter is asked about the launch its answer is used for; a replay runs what
  was measured. Extra arguments stand last and may override all of it.
* *Grading:* a task counts as solved only if it exited 0, no test failed and some
  test ran, except where Go or Gradle say that none did in words the grader does
  not look for; a clean flag is of a check that last exited 0; no card outranks
  one that is as good in every signal; a feature that alone owns its signal reads
  as inert only if it changed nothing.
* *Judging:* a score is given only of a judge that ranks the fixtures; a
  preference is for the solution and not its place; agreement is beyond chance.
* *Installing:* what is installed has the bytes of its pin, is for the machine's
  architecture and is not fetched twice; what the user set is what counts.
* *Uplift:* a receipt that is accepted joins the two results of the current
  request, and a run that was requested and done is not refused.

## 2. The plan

In order, the most important behaviour first. A module that is written is in
**bold**; each theorem module EXTENDS the module it is about.

1. **CancelSignal**, **CancelSignalProofs**.
2. **Captured** (one stream).
3. **CheckExecute** composes two streams and the cancel flag;
   **CheckExecuteProofs**, about both.
4. **ExecutePromise**, the abstract specification of `execute`;
   **ExecuteRefinement** maps CheckExecute to it.
5. **CheckRun** composes `run` with ExecutePromise in place of `execute`.
6. **ThinkScan** (operators), **ThinkStripper** (state machine).
7. **SseFilter** (operators) and **ProxyStream** (state machine);
   **RequestTransform** (operators) and **Proxy**, which composes them into a
   request from its arrival to its answer; **ProxyStreamProofs**, about both and
   about the stripper in them.
8. **ToolRun**, **ToolRunProofs**.
9. **ServerLifecycle**: start, wait, observe, plan and act against a changing
   world; **ServerLifecycleProofs**.
10. **QuantSelect**, **LaunchArgs** and **FitArgs** (operators), composed by
    **Launch** (state machine); **LaunchProofs**. **Lists** holds the one operator
    on sequences that both the proxy and the launch need.
11. **Uplift**, the requests, result files and receipts of uplift runs.
12. **Scoring** (operators) and **Judging** (the judge behind its cache), composed
    with CheckRun and Uplift by **Evaluation**; **EvaluationProofs**.
13. **Install**: configuration and downloads under an application that crashes;
    **InstallProofs**.
14. Not written: CheckTiming (`elapsed`, the hook ceilings and the grace, added up)
    and the thresholds of `vram.rs`.

Abstract specifications worth stating: ExecutePromise (done), and `StripThink`
as the reference of the streaming stripper (done, as an invariant over histories
because the stripper emits early).

Every safety invariant that a run checks is also a theorem (section 5). What is
left to prove would need new statements: that `RepliesAreRead` holds of every
reply, which is an induction over `first_json_object`, and that a launch whose
inputs are valid is built and not refused.

## 3. The modules

Each module opens with a comment that says what it models. A "Mutant of X"
definition is X with a plausible bug; `PROJECT.json` pairs it with the property
that must then fail. It is not part of the specification.

### CancelSignal

`cancelled` is the `AtomicBool`; `calls` counts `notify_waiters` and stands for
`Notify`, which wakes exactly the futures created before the call. `cancel()` is
two steps, `Store` and `NotifyWaiters`, in the order of `CancelOrder`;
`cancelled()` is `Register` (create the future), `Check` (read the flag) and
`Await`/`Wake`, in a loop. Any number of cancellers and waiters.

### Captured

One `Captured` per stream: `buffer` is the bytes kept and the flag, `task` the
reading task, `finish` the progress and answer of `finish(grace)`, `taken` the
text of the result. `Read` takes any part of what is in the pipe; `Keep` is the
arithmetic at `CAPTURE_LIMIT`. `finish` polls `is_finished`
(`FinishClosed`), and once its grace is over aborts the task (`FinishExpired`,
`FinishAbort`), which lands later (`AbortLands`). `Bound` is `bound()` with its
marker. Bytes are counted, because the buffer only appends in reading order.

### CheckExecute

The whole of `execute`, one action per statement between two awaits. `pc` names
the await: the gate, the `select!`, `request_stop`, the legacy `reap`, `wait`,
`confirm_stopped`, the two `finish` calls, the late `reap`. Beside the runner run
the processes (they fork, inherit pipe ends, write, close, exit), the two reading
tasks, the host (it lands kills and terminates owned trees) and the canceller.
`Abandon` drops the future at any await: the guard's `Drop` and `kill_on_drop`
then act. `reaps` is a history of the calls of `gate.reap`.

The host is held to the contracts of `CommandGate` and `CommandProcessGuard`:
`Confirm` answers `Confirmed` only of an empty tree, and `Drop` asks for
termination. What the theorems say of `Confirmed` is therefore that the runner
neither invents it nor passes it on at the wrong time.

### ExecutePromise, ExecuteRefinement

What a caller of `execute` relies on: ask, start at most once, answer or be
abandoned; `Confirmed` only when nothing runs, `Cancelled` only when cancelled.
`ExecuteRefinement` maps the variables (`phase` from `pc` and `handle`, `live`
from `alive`), and the promise is a PROPERTY of CheckExecute, its progress
condition included.

### CheckRun

`run`, `maybe_fix` and `run_command` over ExecutePromise, so up to three
commands in sequence, with what an unverified earlier command leaves behind.
`Fold` is how `run_command` turns a result into an outcome, `AfterCheck` and
`AfterFix` the decisions in between.

### ThinkScan, ThinkStripper

`ThinkScan` holds the operators: `StripThink` is `strip_think`; `Scan` is one
turn of the loop of `ThinkStripper::push` (close a span, give it up, keep it,
open one, release the safe prefix); `HoldbackStart` the cut at a character
boundary. Texts are sequences of characters, some of them two bytes wide.
`ThinkStripper` is the state machine: `Feed`, then `Iterate` per turn, and
`Finish`. Two histories, the text fed since the last bailout and what
`StripThink` makes of the texts before it, give the reference to compare with.

### SseFilter, ProxyStream, RequestTransform, Proxy

`SseFilter` holds the operators of `SseThinkFilter`: `TransformEvent` opens the
block, releases the tail, rewrites the text and closes the block, in that order;
`FilterPush` does it to all complete events, `FilterFinish` flushes. An event is
a record of what `transform_event` distinguishes, so JSON and framing are not
represented. `ProxyStream` is `sse_think_stream` between a server (external, one
dialect per answer, blocks in sequence, starts that may be missing), a transport
that cuts, ends or breaks, and a client that reads on.

`RequestTransform` is `transform_request` with `merge_system_messages`, and
`strip_think_json_response` with its substitute for an empty text. A content is
the texts of its blocks. `Proxy` is the router and `proxy_handler`: `Health`,
`Handle` (key, size, transforms, headers), `ForwardFails`, and then either
`Collect` or the stream. `stage` is where the call is; the upstream may be
unreachable, break off in a body, or stream whatever it was asked.

### Scoring, Judging, Evaluation

`Scoring` holds the operators: which command verifies a workspace
(`ResolveVerifyCommand`), how many tests its output tells of (`CountTests`) and
whether that is a solved task (`Grade`), the flags of a card (`FromSignals`), the
composite and the order of cards (`CompositeScore`, `Outranks`, `Rank`) and the
attribution of an ablation. Scores are fractions. `Judging` has one variable of
the code, the cache, and two histories of what the judge meant; replies are
sequences of braces and of what stands between them, which is what
`first_json_object` looks at. `Evaluation` composes them with CheckRun and Uplift: `Running`,
`NextCheck` and `CloseGate` are the gate, `Verify` the test run and its grade,
`Report` the card; `Ablate`, `Consult` and `RunUplift` are what a host may do instead. The
tools that print (`Printed`) are external: they print what grade.rs and its tests
know of them, and of a Go package or a Gradle project without tests either that
(`Told`: `[no test files]`, `:test NO-SOURCE`) or what the grader does not know
(`Untold`: `ok pkg [no tests to run]`, a task that is UP-TO-DATE, a subproject's
`:app:test NO-SOURCE`). `truth` and `proved` remember what really ran.

### Install

`AssembleConfig` and `SetSetting` are config.rs; `SelectCpuAsset`,
`CudaMajorOrder`, `BuildStampIsStale` and `CheckDownloadPin` are download.rs. The
application around them is not in the repository: it is the simplest one that
calls them in the order their comments give (is it stale, which asset, may it be
installed), it may crash between any two steps, and settings and releases change
under it.

### ToolRun

`run_tool` with a clock. The caller polls, sleeps, gives up or sees the exit,
and waits for the two reading threads in turn, with what was left of the limit
computed once. Ticks pass only while the caller waits, and only when no reading
thread could send: scheduling takes no time, so what is lost is lost for a
reason in the code.

### ServerLifecycle

A session brings its server up and settles what to do with the proxy port.
`wait_for_ready` runs against a clock, and a look is as many steps as
`health_status` has calls that block: `Connect` (up to `CONNECT`) and one `Read`
(up to `READ`), after which `LookEnds` judges the answer first and the deadline
second, and `Nap` sleeps. Time passes inside each of them (`TimePasses`), the server
may load meanwhile, and its answer (`ServerAnswers`) tells of the moment at which
it answers; it may be cut short or come too late to be read. `LookAtListener` and
`LookAtUpstream` are `health` and `is_port_listening`; the plan is
`PlanProxyLifecycle`, made of `ClassifyProxyTarget` and `PlanProxyAction`. `Act`
and `StartProxy` are the application doing as it is told. Between any two steps
other programs take or leave the port, servers load, crash and restart, and a
proxy may not report its target. `seen` is what the session saw, `moved` and
`died` tell whether that is still so.

### QuantSelect, LaunchArgs, FitArgs, Launch

Three modules of operators, one per group of files, and the state machine that
calls them in the order of a launch. `QuantSelect` groups a listing into quants,
drops incomplete sets and auxiliary models, and selects. A file is its name cut
into segments, its shard and its size; where the code sorts, an operator names
the order instead (`InShardOrder`, the middle place of `DefaultIndex`).
`LaunchArgs` is `build_llama_server_args`: arguments are tokens, an option is a
sequence of length zero or one, and spellings that differ in case are told apart.
`Vector` is the vector as the code writes it, group after group (`ServerArgs`,
`Placement`, `LoadArgs` and so on), and `BuildArgs` says which error comes first.
`FitArgs` is what the fitter gets to see (`FitParamsArgs`, which reads token by
token: `Token` says what one does after the one before), how its answer is
read, and which flags a build's help lists. `Launch` records a request, builds,
asks the fitter, builds again, stores the overrides and replays them on a build
that may be another one by then.

How a number is written (`Decimal`), what a word is in lower case (`Lower`) and
which words are flags (`Flags`) are constants: the run gives them their values,
and the proofs use of them only what `WordsAssumption` and `FlagsAssumption` say.

### Uplift

`expected` is the identity the requester waits for, `files` the result files on
disk, which outlive the request they were made for, and `receipt` what `pair`
made of the last two. `Disagreements` and `Pair` are `pair`, `Mismatches` is
`mismatches`. A request may be replaced at any time, any two files may be
joined in either order, and a task set may be renamed.

## 4. The runs

| Run | Question | Bounds |
|---|---|---|
| `cancel_signal` | Is a wake-up ever lost between `cancel` and `cancelled`? | 2 cancellers, 2 waiters |
| `capture` | Is a loss ever unmarked, or a writer blocked? | 1 stream, 2 writers, 5 bytes, 3 kept, 2 shown |
| `execute_safety` | Are cleanup, reaps and capture reported truly? | child and 1 descendant, 2 bytes on stdout, 1 kept |
| `execute_promise` | Does execute keep its promise, and does a run end with what it started? | child and 1 descendant, silent |
| `think_stripper` | Is streaming the same as stripping the whole? | texts up to 8 characters of 4, chunks up to 3, bailout 4 bytes |
| `proxy` | Is the request what was asked, and the answer complete, well formed and honestly ended? | 5 events, 2 blocks, 4 texts, 2 events in flight; 4 configurations, requests of 3 shapes with 2 system messages, buffered answers of 4 texts |
| `tool_run` | Does a tool run end, and what may it lose? | limit 5, poll 2 |
| `server_lifecycle` | Is a session routed to what it saw, and does it settle? | 2 targets, timeout 4, connect 1, read 2, nap 1, 3 moves of the world |
| `launch` | Do the steps from a request to the running vector agree? | requests that differ from a plain one in one group of inputs, 4 builds, 6 answers of the fitter, sets of up to 3 shards |
| `evaluation` | Does every conclusion, from verdict to rank and receipt, follow from what really ran and was said? | gate of 2 checks, 9 workspaces, suites of up to 2 binaries, empty ones told of or not, 3 rivals; 2 fixtures, 2 solutions, 2 seeds; uplift runs with 2 bindings, 3 task sets, 2 configurations, 2 models, 2 requests, 3 files |
| `untested_solved` | Is a run of no test ever graded as solved? It is. | as `evaluation` |
| `install` | Is what is installed vetted, of the right architecture and fetched once? | 2 releases of up to 5 assets, 3 machines, 2 pins |

Every run is of the module and configuration below; the `MC` modules only give
the constants their values. The comment above each property states it in full.

| Run | Module | Properties |
|---|---|---|
| `cancel_signal` | `CancelSignal` | `NoLostWakeup`, `CancelledResolves` |
| `capture` | `MCCaptured` | `CaptureIsTrue`, `FloodDrains` |
| `execute_safety` | `MCCheckExecute` | `ReportIsTrue`, `ReapDiscipline` |
| `execute_promise` | `MCExecuteRefinement` | `Implements`, `ExecuteEnds`, `NothingOutlives` |
| `think_stripper` | `MCThinkStripper` | `StreamIsStrip`, `HeldIsBounded` |
| `tool_run` | `ToolRun` | `RunIsContained`, `LostOnlyToHelper`, `RunEnds` |
| `server_lifecycle` | `ServerLifecycle` | `RoutedIsServed`, `ReadyBeforeLastLookIsSeen`, `ForeignSurvives`, `SessionSettles` |
| `launch` | `MCLaunch` | `LaunchIsTheRequest`, `VectorIsCoherent`, `FitIsUsed`, `ReplayIsFaithful` |
| `proxy` | `MCProxy` | `BlockShowsItsText`, `LifecycleHolds`, `DropIsNoEnd`, `RequestKeepsItsMeaning`, `BufferedAnswerIsTrue`, `ClientLearns` |
| `evaluation` | `MCEvaluation` | `VerdictIsLastCheck`, `OverlapIsUnverified`, `GradeIsTrue`, `CleanMeansRan`, `RankIsFair`, `AttributionIsSound`, `GatedScoreIsEarned`, `VerdictIsOfContent`, `KappaIsChanceCorrected`, `OnlyTheRequested`, `NothingStartsOnceCancelled` |
| `untested_solved` | `MCEvaluation`, `MCEvaluationUntested.cfg` | `SolvedMeansTested`, which must fail |
| `install` | `MCInstall` | `InstallIsTrue` |

Why the bounds are enough. Two of each actor give every pairwise interleaving.
In the capture runs the three limits (sent, kept, shown) differ, so each
boundary is crossed and hit exactly. The tags of the filter runs have two and
three characters and share their first, as `<think>` and `</think>` do; eight
characters hold a span with text around it and an unclosed second one, and the
bailout of four bytes lies above the closing tag as it does in the code. Five
events are a start, two texts, a stop and one of the next block, or a whole
OpenAI answer with its terminator; the proxy's bailout of eight bytes is met by
some of these answers and not by others. A limit of five and a poll of two put the
deadline between two looks. Three moves of the world are one between each look
and the step that relies on it, or a crash and a restart with one more. The
launch inputs are every combination within a group of fields that the code reads
together (cache types, speculation, placement, load flags, context, template,
quant); fields of different groups are read by different statements, and the
proofs of section 5 are of requests that differ in any of them. Two checks
have the second one start after every end of the first; two binaries are one
that passes before one that fails, or runs nothing, and the other way about. A look
of up to three ticks and a sleep of one against a timeout of four let a server become
ready before, within and after the last look, on either side of the deadline. The
three rivals differ from the card in the gate, in the quality and in neither. Two
seeds are one that swaps and one that does not. The first release has two CUDA
builds, a CPU build with and one without a token for x64, and an ARM twin listed
first, so that each way to choose is taken. Three
result files are a whole pair and one left over from another request.

Places where the text and the code disagree, noticed while modelling (the models
follow the code):

* `nothink.rs:75` says that the bailout does not interact with split tags; line
  150 looks at the length only, so a bailout in the middle of a closing tag shows
  its first half.
* `check.rs:160` says of `reap` that it stops what a timed-out or cancelled
  command started, before the kill; line 602 also calls it after a normal exit
  that left a pipe open, with the pid of a child that was waited for.
* `check.rs:116` says of `fixed` "Whether a fixer ran and the check was re-run";
  line 433 sets it also when either was refused or cancelled.
* `tool.rs:23` says that the output is returned once the tool exits; line 53
  drops it when a helper holds the stream.
* `model.rs:252` says of a parser name that a typo fails at load; a name that
  differs only in case passes there and fails when the arguments are built.
* `args.rs:253` says that 0 and false mean "not passed"; `n_cpu_moe: Some(0)` and
  `flash_attn`, `mlock: Some(false)` override the model.
* `uplift.rs:50` says that a task set's name is never matched on; `pair` (line
  186) compares whole task sets, name included. `RequestedIsAccepted` is
  therefore stated for two results that name their task set alike.
* `nothink.rs` gives a text that is empty after filtering its substitute block by
  block; its comment (line 19) speaks of a turn, so a turn of a thought
  and an answer keeps a placeholder beside the answer.
* `merge_system_messages` leaves system messages in their place when none has a
  text, and writes an Anthropic `system` field into a body of the OpenAI shape.
* `verify.rs` chooses `pytest` and `mvn -q test`, whose summaries `grade.rs` does
  not read: such a task is never solved.
* `grade.rs:4` says that "a compile-with-zero-tests must never score as solved".
  Line 83 counts Go's `ok pkg [no tests to run]` as tests, and line 88 does not know
  a Gradle task that is UP-TO-DATE or a subproject's `:app:test NO-SOURCE`: such runs
  are solved. `SolvedMeansTested` says what the comment says and the run
  `untested_solved` shows it violated; `GradeIsTrue` names these outputs as its
  exception. The other way about, a Gradle build whose root project has no tests
  is never solved, whatever its subprojects ran.
* `fit.rs:119` knows a placement on no layer of the GPU (0) and on every one (-1);
  `args.rs:402` takes either as "not given", so such an answer is launched with the
  model's own count, with every layer or by the server, and 0 is never kept.
  `PlacementIsKept` says so.
* `server.rs:136` compares the clock after a look that may take 5.5 seconds, so a
  server that becomes ready within the timeout but during that look may be given up.
* `judge.rs:56` says that a block's `judge_model` may be `cached`; no code writes
  that.
* `select_quant` chooses sets of any number of shards; `shard_files_from_primary`
  (`quant.rs:254`) expands the first name of at most 1024 of them, and of a
  larger set it names the first file alone. `SelectionIsLoadable` is stated up to
  that number.
* `model.rs:185` reads a request for `default` or a blank one as the context named
  by the empty string, so a catalog context with such a name cannot be asked for.
* `config.rs` says that Models and CommandAliases come only from the catalog; when
  the catalog has none, those of a lower layer stand.
* `cuda_major_order` explains itself with builds above the driver's major, and
  tries the highest first when the driver's own is missing.

### Fairness

* CancelSignal: a thread that began `cancel()` finishes it; a woken task runs.
  Nothing makes anybody call `cancel`.
* Captured: a reading task with something to read, or at the end of its stream,
  is scheduled. No process has to write or to close.
* CheckExecute: the runner's future is polled and its armed timers fire; a kill
  that was sent lands; a host asked to terminate a tree does; a reap that was
  called returns, because the code awaits it without a deadline. No process is
  assumed to exit, no gate to answer and no reading task to run.
* Proxy: the handler is scheduled and the client goes on reading, which is what
  polls the stream. The upstream may stop sending for ever; nothing is claimed of
  the proxy then.
* ToolRun: the caller's and the reading threads run and time passes. The tool and
  its helper owe nothing.
* ServerLifecycle: the session runs, and time passes in its blocking calls and its
  sleeps. No server has to load or to answer and nobody has to leave the port.
* ThinkStripper, Evaluation, Launch and Install state safety only.

`CHECK_DEADLOCK FALSE` is set where the system comes to its end: a run, a
stream or a text that is over has no further step.

## 5. What is proved

By TLAPS, for every value of the constants under the named assumptions of the
modules.

* **CancelSignalProofs** `CancelNoLostWakeup`. The invariant says of each waiter
  what its count of notifications tells, and of each canceller how far it is;
  without the second part a waiter past its check could have missed both.
* **CheckExecuteProofs**, on one stream: `CaptureKeepsThePrefix`,
  `CaptureLosesNothingSilently`, and `CaptureIsAlwaysTrue` of both. `CaptureIInv`
  adds to the property that an end of stream is only seen by a reader that has
  read all (`EofIsComplete`), that only a stream reported open is aborted, and
  that a taken text does not change.
* **CheckExecuteProofs**, on an execution: `ExecuteTypeCorrect`,
  `ExecuteReapDiscipline`, `ExecuteConfirmedMeansGone`,
  `ExecuteNotStartedMeansNothingRan`, `ExecuteCompleteOrMarked`, and
  `ExecuteReportIsTrue` of the last three. `IInv` says for each place of the future
  who holds the child, what the end and the cleanup can be, and which reap has
  happened (`HandleByStage`, `EndByStage`, `CleanupByStage`, `ReapsByStage`);
  each property follows from the place where the future is, and none is
  inductive alone. Assumption: the process set is the child and its descendants.
* **CheckExecuteProofs** `ExecuteKeepsItsPromise`: what `execute` does, seen
  through the mapping of ExecuteRefinement, starts as ExecutePromise does and each
  step is a step of it or changes nothing a caller sees. One lemma per action of
  the runner; `RefineInv` adds to `IInv` that an end is recorded before its place
  is left and that `Cancelled` is only recorded of a raised signal (`EndIsKnown`).
* **EvaluationProofs**, on the gate: `EvaluationVerdictIsLastCheck`,
  `EvaluationOverlapIsUnverified`, `EvaluationNothingStartsOnceCancelled`, for a
  gate of any length. What still runs of a command that was answered for was left
  unverified (`LeftIsUnverified`), and a fixer works only after a check that ran
  and failed (`FixerIsCalledFor`). On the card: `EvaluationCleanMeansRan`, under
  `GateAssumption`: the checks have different names, by the convention. The
  outcomes are those of the gate in its order (`OutcomesAreTrue`).
* **EvaluationProofs**, on the card: `EvaluationGradeIsTrue`, with the exceptions
  that the property names (`HasUntold`, `HasSkipped`). What the summary
  lines add up to is what the suites printed; the sum, a recursive function, is
  taken apart by induction over prefixes. `RunsAssumption`: a
  workspace is a set of known markers, a suite counts its tests. `EvaluationRankIsFair`, for any card and
  rivals: comparing fractions by their cross products is a weak order
  (`Outranks`), and the place of a card counts those that outrank it; `ReportIInv`
  says that what is reported is a card. `CardsAssumption`: the
  numbers on a card are counts, and a gold patch that is there has lines. `EvaluationAttributionIsSound`: the rows are those of the features
  taken out so far (`AblationInv`).
* **EvaluationProofs**, on the judge: `EvaluationGatedScoreIsEarned`,
  `EvaluationVerdictIsOfContent`. Under each prompt the cache holds the last reply
  that was meant for it (`CacheIsMeant`), and a prompt for a score is never one
  for a preference. Assumption of the two theorems: a reply is read as it is
  meant (`RepliesAreRead`), which is about `first_json_object` and stays with the
  run. `EvaluationKappaIsChanceCorrected`, for any verdicts of two judges and any
  finite set of labels: the chance term is a sum over the labels (`SumOver`), and
  by induction over the parts of their set it counts the pairs that agree.
* **EvaluationProofs**, on uplift: `UpliftAcceptedIsRequested`,
  `UpliftRequestedIsAccepted`, `UpliftOnlyTheRequested` of both. The
  invariant says that a receipt joins two results still on disk (`ReceiptKnown`);
  lemmas about `Pair` and `Mismatches` do the rest. Assumption: a task set is a
  record of its three fields.
* **InstallProofs** `InstallAlwaysTrue`, through crashes and changes of settings
  and releases. `InstallInv`: what is installed was vetted, is for the machine's
  architecture and is what its stamp says (`BuiltIsTrue`), what is left to try is
  for it as well and is an end of what was to be tried (`JobFits`), as long as pins were required each one is of
  the true bytes (`PinsAreTrue`), and what is there is not fetched again
  (`NothingTwice`). `ReleasesAssumption`: the names of assets tell their
  architecture. That a build also runs is not claimed: where the driver's own
  CUDA major is missing, a higher one is among those tried.
* **ProxyStreamProofs**, on the filter of one text, for any two tags, limits and chunks.
  `StripperHeldIsBounded` rests on lemmas about the operators: `find` returns a
  place in the text, what is cut there is a text, the held tail is small, and the
  tail of a text without a tag has no tag. `StripperStreamIsStrip`: at any moment
  what was shown and what `strip_think` makes of what is held, given the mode, is
  what it makes of everything fed (`Sees`, `Shows`, `StreamInv`). The heart is that a
  tag found in a prefix is the first one of the whole text, and that a held tail
  is long enough for every tag that could still be completed. `StripThink` is a recursive
  function over texts; its equations, and inductions along the text, are
  proved from the least number at which a statement would fail.
* **ProxyStreamProofs**, on how an answer ends: `StreamDropIsNoEnd`; the phase
  knows how the upstream ended (`EndKnown`). `ProxyDropIsNoEnd` carries it to the
  whole proxy: until an answer streams nobody has told the client anything
  (`StageKnown`).
* **ProxyStreamProofs**, on what an answer shows: `StreamLifecycleHolds` and
  `StreamBlockShowsItsText`, and the same of the whole proxy
  (`ProxyLifecycleHolds`, `ProxyBlockShowsItsText`), by one
  invariant, `DeliveryInv`. Of the server it says that each event sent may follow those
  before it (`Proper`, by `Follows` and `InOrder`), that its block is the last
  (`BlockIsLast`) and that texts come block after block (`SentInOrder`). Of the
  filter it says that what arrived and what was shown agree (`Conveys`): event by
  event (`Carries`), and, for each block, that what was shown and what the
  stripper holds of it make `strip_think` of its text (`Renders`). The second
  needs the first, since a tail is released into the block it came from, and both
  need the server's order: a block with text ends before the next one has any.
  The property speaks of blocks up to `THINK_BAILOUT` bytes; a longer one
  may be given up, and is then two texts, as `StripperStreamIsStrip` says of the stripper alone.
  `StreamAssumption`: the texts sent are texts, and blocks are numbered.
* **ProxyStreamProofs**, on buffered answers: `ProxyBufferedAnswerIsTrue`. What
  was collected is an answer of the upstream, and what the call asks is settled
  before (`AnswerInv`). `SubstituteAssumption`: the text put for an empty one is
  not blank; `AnswersAssumption`: an answer is its raw text or the
  blocks in it.
* **ProxyStreamProofs**, on requests: `ProxyRequestKeepsItsMeaning`, for messages
  of any number, roles and texts (`ForwardInv`, `RequestsAssumption`). Lemmas say
  what taking the members of a set out of a sequence, joining and flattening do to
  one another: the text that is not a separator is the same before and after, in the same
  order.
* **LaunchProofs** `LaunchIsCoherent`, `LaunchIsFitted`,
  `ReplayRunsWhatWasMeasured`, for any definition, call, builds and answers of the
  fitter; all three from one invariant (`LaunchInvariant`). It says of each place of a launch
  which parameters the next vector is built of: those of the call, but for the
  spelling of the load flags, the right to place the model, the layers and the
  experts (`Ready`, `Answered`, `Again`); that the vector at hand is `Vector` of
  such parameters (`ThisVector`); and what the fitter's question has of the vector
  it was asked about (`Seen`). None of the properties is inductive: they speak of
  two vectors, and only what both were built of relates them. The vector is
  then cut into ten groups. None ends with a flag that would take its value from
  the next, so what follows a flag (`Values`) is what its own group says, and a
  property of the vector is one of a few groups. What `fit_params_args` keeps of a
  vector is proved by induction along it (`FitSees`): every flag the fitter knows
  is followed by its value, so the reader never takes a flag for one.
* **LaunchProofs** `LaunchHonoursTheRequest`, for any listing. What was chosen is
  what `SelectQuant` answers of the listing (`ChoiceInv`); the rest are lemmas
  about the operators. Increasing places of as many files as places leave one
  order, that of the shards (`IncreasingStays`, `ShardsInOrder`); of sizes that
  are all known there is one in the middle (`MiddleExists`), because no two
  have as many before them; a key is matched by itself or by its only twin
  (`KeyIsMatched`); and a context that is named is its own reading
  (`ContextIsHonoured`).
* The assumptions of LaunchProofs are those of Launch and its parts.
  `RequestsAssumption` gives the fields of a request their types, as serde and
  the Rust types do; a file name has a segment; values do not look like flags;
  and the extra arguments of a call or a model give every flag its value. They may
  repeat or override anything: the code appends them verbatim and the last flag
  wins. The theorems therefore speak of what the launch writes itself (`Own`) and
  say that the extra arguments follow it as given (`EndsInExtras`); of the whole
  vector they speak where the code looks at the extra arguments itself, for what
  places a model. `BuildsAssumption`: a build accepts what its help lists, and one
  that does not list `--load-mode` accepts the two old flags.
  `AnswersAssumption`: an answer is finite and its numbers can be written.
  `WordsAssumption`, `FlagsAssumption`: numbers and the words that the code
  writes as values are no flags, its flags are. `KeysAssumption`: the keys are
  sorted into a sequence without repetition. The run evaluates each of them.
* **ToolRunProofs** `ToolRunOverrun`, `ToolRunLeavesNoTool`, `ToolRunIsContained`
  of both, `ToolRunLosesOnlyToHelper`: `ClockKnown` bounds the clock in each phase, and
  `WaitKnown` says that a wait that took time was for a stream a helper held.
* **ServerLifecycleProofs** `LifecycleRoutedIsServed`,
  `LifecycleReadyBeforeLastLookIsSeen`, `LifecycleForeignSurvives`. `SeenStillHolds`
  says that what the session saw is still so unless the world moved, `ClockKnown`
  where the clock is in each place of the wait, and `AnswerWasTrue` that a server
  that is ready after a look that found it loading or gone became so during it. For the third, a teardown is only
  ever planned for a listener that answered as a proxy.

The type invariants are part of these inductive invariants, so the runs do not
check them again.

Inductions are spelled out. The library's induction theorems take an operator as
a parameter and cannot be cited, so each one starts from a set: the numbers at
which a statement fails have a least member (`LeastOf`), and a set that holds the
empty sequence, or set, and is closed under appending, or adding, holds all of
them (`AllNumbers`, `AllSequences`, `AllParts`). Each theorem module states the
few of these that it needs.

Only model-checked:

* every liveness property (`CancelledResolves`, `FloodDrains`, `ExecuteEnds`,
  `NothingOutlives`, `RunEnds`, `SessionSettles`, `ClientLearns`) and the progress
  condition inside `Implements`: fairness and ENABLED are beyond the prover.
  What `Implements` says of safety is `ExecuteKeepsItsPromise`;
* `RepliesAreRead`, the assumption of two theorems above.

## 6. What is not modelled

* In the lifecycle: how a process is found, killed and spawned, argument lists,
  and GPU queries. In a launch: how names are cut into segments, how help and
  logs are cut into words, and all but one of the sampler parameters. In an
  uplift run: how digests are computed; two values with one digest are one value.
* Clock values (`elapsed`, which starts before the gate is asked, so that an
  interactive approval counts as run time; the sum of graces): timers may fire
  whenever armed.
* `EnvPolicy` and the spawn attributes: they shape the child, not the protocol.
* JSON, SSE framing and HTTP: what a line or a body means is an input. Of the
  proxy: the headers of an answer, how a content type is read (whether an answer
  streams is the upstream's choice), `/health` by another method than GET, and
  the binding of the listener in `serve_proxy_on`.
* In judging and scoring: `gate.rs` and `discipline.rs` (tables and rates with no
  state), the scans of a diff's text, collisions of the cache's hash, the rounding
  of scores, `mean_std` and `count_tests_generic`. One cache per judge is assumed:
  the key is the prompt alone, so a cache kept for another judge model answers
  for the wrong one, and the choice of cache is the host's.
* In downloads: the digest itself, ASCII case, and everything the application does
  with files.
* The launcher contract and `vram.rs`: a version check and ladders of thresholds,
  single comparisons that their unit tests state.
* Everything marked `not_modelled` in `PROJECT.json`.
