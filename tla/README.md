# TLA+ models of devops-pipeline

devops-pipeline is a Telegram bot and a worker that runs LLM agents, with a
sandbox for generated code, an Obsidian vault of notes that is searched through
Qdrant and published as a web site, and a git working copy they all write to.
This directory holds models of the parts of it whose steps interleave, fail or
are repeated, the TLC runs that check them, and proofs about each of them: the
worker, the bot in front of it, the autopilot with its sandbox, the approval pipeline,
the gateway, the notes of the vault, their export with the lists of `/notes`, and the
git operations.

The model of a part is a translation of its Python code, coroutine step by
coroutine step. Paths below are relative to the root of the repository.
According to `README.md:3-8` the bot and the worker are now started only with
the profile `legacy-bot`; the code is complete and this is the code modelled.

## 1. Inventory

### Processes and what they share

| process | code | state in memory | state that survives it |
|---|---|---|---|
| bot | `app/main.py`, `app/bot/` | `_state.running`, `notifier._pending`, `_pending*` tokens of `/commit`, `/push`, `/pocrun`, `/notes` sessions | reports of the audit; the messages in the chat |
| worker | `app/worker/`, `app/agent/`, `app/pipeline/`, `app/tools/`, `app/rag/` | `_queue`, `_semaphore`, spawned jobs, Qdrant client and its down window | the `tasks` table, files of the vault and of PoCs, the working copy |
| pocsandbox | `app/pocsandbox/` | the request being served; the backlog of its socket | docker containers |
| Qdrant, Telegram, origin | external | | points, messages, branches |

- The bot posts commands to the worker (`POST /run`, `/git/...`,
  `/vault/...`, `/poc/autopilot`); the worker posts `/notify` and
  `/worker-result` back, waits for the answer, and does not repeat the call.
- python-telegram-bot hands updates to handlers one at a time. A handler that
  awaits the worker therefore holds up every other command and button, the
  approval button included. The HTTP endpoints of the bot and the task of an
  audit run next to that on the same event loop.
- The worker is one event loop with handlers, the worker loop and jobs;
  synchronous tools run in threads. `asyncio` switches only at an `await`, so
  an action of a model is what runs between two of them, and one file, docker or
  git command where a thread or a subprocess does the work.
- The sandbox is a single-threaded HTTP server: the second request waits in the
  backlog of the socket while its client's clock runs.

### Components, and what makes each correct

| component | operations | what is hard | what makes it correct |
|---|---|---|---|
| worker server and task store | accept, queue, run, store, report; crash, restart | handlers, loop and jobs interleave at each await; permits, queue limit; any call raises; memory lost and table kept | permits are conserved, the queue holds each accepted request once, rows exist before jobs update them, results are stored before they are reported, accepted requests settle |
| bot front end | commands that post tasks, `/notify`, `/worker-result`, offers | a call times out after it worked; the message is sent twice or not at all; either process dies | what was answered, delivered and offered agrees with the table |
| PoC autopilot | confirm; build, fix, build, ..., evaluate | timeouts of waiting requests, a loop with failures anywhere | executions are bounded per confirmation, the report matches the last build, the loop ends |
| pocsandbox | config, check, build, pull, run, remove | crash between `docker run` and the clean-up, connections that outlive their client | containers are removed, or a counted fault left them |
| approval pipeline | `/run`, scan, ask, wait, report | taps, timeouts, raising sends and the waiter in any order | no report without an approval of its own; verdict and message agree; the flag falls; runs end |
| vault export | remove, read flags, copy, manifest, index | flags change meanwhile, aliases collide, an export is cut short | published notes arrive, others leave, others' articles yield to a note only, the manifest is what the vault has there |
| `/notes` | list, toggle, close, apply | lists grow old, a tap rewrites a whole note in a thread that outlives its request, Obsidian saves the same files | a note has the text that was saved and the flag that was saved or answered last |
| git operations | commit, push, publish with previews and tokens | the bot gives up while the worker goes on; a command is killed after 20 s; the developer uses the same working copy | one tap one commit, origin only grows, "ok" means pushed, publishing commits the site only |
| vault notes and index | save, search, reindex, map of content | threads on one file name, outages with a down window, batches that fail half-way | older notes are kept, the index agrees with the files, a note is hidden for a known reason only |
| gateway and planner | decompose, run the parts, retrieve, route, loop of tools | an exception at any await, in the middle of a plan | parts run in order and once, all of them are reported or none; every task ends |
| LLM runtime | choose a back end, probe, call | one health cache for overlapping jobs, vLLM that comes and goes | a choice rests on what vLLM was less than a TTL ago; the fallback serves what it can |
| self check, metrics, configuration, clock, CLI, scripts, evaluations | read-only or one-shot | none | not modelled |
| deployment, monitoring, site content, vendored code | | | not modelled |

`PROJECT.json` lists the same components with their sources and, under
`hazards`, each place where something hard to test can go wrong, with the
properties about it.

## 2. Modules

| module | models | extends or instantiates | instance |
|---|---|---|---|
| `TaskAdmission` | abstract: what `POST /run` promises | | |
| `Worker` | `app/worker/server.py`, `store.py`, `_notify` | `TaskAdmission`, by a refinement mapping | `MCWorker`; behind its bot in `MCBotDelivery` |
| `WorkerProofs` | theorems about the slots and the table of `Worker`, and that it implements `TaskAdmission` | `Worker` | |
| `BotDelivery` | `app/bot/server.py`, `_dispatch_to_worker`, its commands | `Worker` | `MCBotDelivery` |
| `BotProofs` | theorems about `BotDelivery` | `BotDelivery`, `WorkerProofs` | |
| `PocSandbox` | `app/pocsandbox/server.py` | | |
| `PocAutopilot` | `app/pipeline/poc_pipeline.py`, `pocrun_cmd.py` | `PocSandbox` | `MCPocAutopilot` |
| `PocProofs` | theorems about the two | `PocAutopilot` | |
| `ApprovalPipeline` | `notifier.py`, `runner.py`, `pipeline_cmd.py` | | `MCApprovalPipeline` |
| `ApprovalProofs` | theorems about `ApprovalPipeline` | `ApprovalPipeline` | |
| `VaultExport` | `scripts/publish_vault.py` | | `MCVaultExport` |
| `NotesPublish` | `notes_cmd.py`, `set_publish` and the lists of `publish_ops.py` | `VaultExport` | `MCNotesPublish` |
| `NotesProofs` | theorems about the two | `NotesPublish` | |
| `GitPublish` | `git_ops.py`, `publish_ops.apply`, `git_cmd.py` | | `MCGitPublish` |
| `GitProofs` | theorems about `GitPublish` | `GitPublish` | |
| `VaultNotes` | `obsidian.py`, `vault_index.py`, `moc.py`, `/vault/reindex` | | `MCVaultNotes` |
| `VaultNotesProofs` | theorems about `VaultNotes` | `VaultNotes` | |
| `LlmRuntime` | the choice of a back end in `app/agent/runtime.py` | | |
| `PlanRun` | abstract: what `run_task` and `run_plan_task` promise | | |
| `Gateway` | `app/agent/graph.py`, the tool loops of `runtime.py` | `LlmRuntime` | `MCGateway`, which also refines `PlanRun` |
| `GatewayProofs` | theorems about `LlmRuntime` and `Gateway` | `Gateway` | |

Conventions. A definition whose comment begins with "Mutant of" is a plausible
bug in the definition after it; no specification uses it, `PROJECT.json` names
the property that notices it. Failures are counted in `faults` (or a variable of
that kind), which occurs in guards only to bound the model and in properties to
say "unless something failed". Names of actions are those of the functions where
one action is one function.

### Worker

A request is a `POST /run`. `pc[r]` says where its handler and then its job
stands; `HandleRun` is `_handle_run` up to the INSERT it awaits, `PutNowait` the
rest of it, `Acquire` and `GetJob` the two awaits of `_worker_loop`, and
`SetRunning`, `NotifyStart`, `RunAgent`, `SetDone`, `Report`, `StoreSummary` the
awaits of `_process_task` in their order. `Raise` is an exception that leaves
`_process_task`: the `finally` of `_run_and_release` gives the permit back.
`_notify` and `_report_result` catch `aiohttp.ClientError`; the `TimeoutError` of
their own total timeout is no such error, so `NotifyStart` and `Report` may
`Raise`. `Crash` loses all but the table, `Restart` is `main()`.

`PhaseOf` maps `pc` to the phases of `TaskAdmission`: at most `MaxConcurrent`
run, at most `QueueSize` wait, "busy" only if that many wait, and every waiting
request is started. The map hides the queue, the permits, the loop and the table.
A `create()` that raises may have committed before it did: the row then stays `pending`
for a request that was answered with an error.

### BotDelivery

`BotDelivery` extends `Worker` and joins each of its steps with what the bot has
done for it: `Notified` and `Reported` are `NotifyStart` and `Report` with the
outcome that the handler of the bot produced; `CallBot` is the arrival of the
POST. A send to Telegram delivers or not, and raises or not, independently:
`SendMarkdown`, then `SendPlain`. The handler goes on when the worker has stopped
waiting (aiohttp does not cancel it), so that the chat may get a result that the
worker takes for lost, but (`SentIsDelivered`) not the other way round. Every step of
`Worker` is taken here too, so that the run of `BotDelivery` checks the worker's own
properties as well; that the composition implements `Worker` is `WorkerImplemented` in
section 4. A `ClientError` of the POST of a command after the worker has accepted it comes
from a crash of the worker only; a reset of the connection between two live processes is not
modelled (`ReplyTo`).

### PocSandbox and PocAutopilot

`PocSandbox` steps through `run_poc` one docker command at a time; `backlog` is
the socket. `PocAutopilot` is the graph: `BuildNode`, `AfterBuild`, `FixNode`,
`Measure`, `WriteReport`, each checked against the recursion limit. The timeouts
inside the sandbox add up to 500 s, less than the 600 s of the client, which is why
`CallTimesOut` needs a request that had to wait. `code[s]` is the version of the
sources of a slug; a fix may change it. `meddled[a]` is a history: the other confirmations
of the slug that have edited its directory since the last build of `a` read it. An exception
that ends one connection of the sandbox and not the sidecar (a client that is gone while the
answer is written) is left out; it would look like `CallTimesOut` or a crash to the caller.
The replacement of `_` by `-` in the name of the container is not modelled: no property
compares the names of two slugs.

A token of `/pocrun` is redeemed once (`Redeem`). The handler of the tap waits
for the autopilot, `(N+1)*900+300` s at most, and then lets the next tap in while
the first autopilot goes on in the worker: that is how two autopilots meet, also in one
directory, as nothing keeps the same slug from being confirmed twice.

### ApprovalPipeline

`updates` and `handler` are the dispatcher, `stage[p]` the task of a pipeline,
`pending`, `approved`, `verdict` the state of `notifier.py`, `shown` and `taps` what
the user sees and does. `TimeOut` and `TimedOut` are two steps because
`request_approval` awaits a message between giving up and forgetting the request;
a tap that falls in between is accepted by the callback and must not count: a report needs
that `request_approval` returned the approval (`verdict`), not only that it was tapped.

### VaultExport, NotesPublish, GitPublish

`VaultExport` is `export()` file operation by file operation; `CutShort` ends it
anywhere. Its own specification toggles flags in one step; `NotesPublish` extends it
and puts in place of that step what the code does: a list in a session (`rows`), a tap
(`Toggle`) that asks for the opposite of what the list shows, however old it is, and a
thread of the worker that reads the note (`ReadNote`), opens and thereby empties it
(`OpenNote`) and writes it (`WriteNote`). The bot waits for one tap at a time;
`GiveUp` is its time-out, after which the thread goes on beside the next tap, and
`SetPublishFails` and `WorkerStops` end threads anywhere. An empty note has no flag,
so that an export that reads it passes it over. `left` is what a user knows of a
note; it becomes `Disturbed` when the outcome is a matter of timing, and
`NoteAsLeft` is about all other notes. That the bot gives up waiting for an export after 90 s
or dies meanwhile (`notes_cmd.py:104`) is not modelled, so that exports do not overlap. A copy
(`Copy`) is one step: an export may stop between two files and not within one. `Copy` puts
there the note as such, not a version of its text.

`GitPublish` has the index, the branches, origin and the tracking refs as
state, and one action per git command; in it the export is one step that copies the
version of the published notes into the site area, or fails and leaves it alone. An export
that fails half-way is the business of `VaultExport`; the properties of `GitPublish` about
contents hold only as long as nothing failed.

### VaultNotes

A save is three steps on the file (choose a name, open, write) and two on the index
(`GetClient`, `AddNote`). Nothing removes notes, so the loop over suffixes ends as if
its last look had been the only one. A reindexing lists, reads file by file, upserts
in batches of which some may arrive, and then, in a thread of its own, builds the map of
content: `ListMap` looks for the files again, `Scan` reads them one by one (one that cannot be
read is passed over), `OpenMap` cuts the map that was there and `FillMap` writes what the scan
has found, which is the notes with a tag of the area (`Tagged`) only. Another reindexing may
scan earlier and write later, and its map then stands; `Overtaken` is that case. There is one
area in the model; the dashboard is read by nobody and is left out. `SearchFails`,
`GetClient` and the upserts open the down window of 30 s; `WindowEnds` is its end.
The digest calls `vault_save` on the event loop, so that digests exclude each other.

### LlmRuntime and Gateway

`LlmRuntime` has the global `_vllm_health_cache` and the jobs that use it. Time is
relative: `cache.age` is the age of the stamp in the entry, which is that of the start
of the probe, and `upAgo` and `badAgo` tell how long ago vLLM was last up, and last
down or not answering. Ages stop at `TTL`. `StartProbe`, `ProbeAnswered` and
`StoreHealth` are three steps, so that probes of several jobs overlap and the one that
is stored last wins, whichever began first. `AsksForVllm` joins the two calls of
`_vllm_available` in `select_backend`: when the first one said no and there is no key,
the second finds its answer in the cache (that the entry expires between the two calls is
left out).

`Gateway` is one coroutine per job: `at[j]` is the await it has reached. `Plan`,
`NextPart`, `Retrieve`, `RouteNode`, `RunAgent` are the functions; `runtime.chat` and
`run_agent` choose a back end and then call it, and there is no second choice when the
call fails (`CallRaises`). `Raise` is an exception on its way to `_process_task`.
The tools that one message of a model asks for are one step, since `execute()`
turns their errors into text. `calm[j]` is a history: vLLM has been up, or down, for
a TTL before the job began and stays so, and nothing fails of itself.

`MCGateway` maps `at` to the status of `PlanRun`; routes, back ends, caches, turns and
the clock are hidden. In `Worker` all of this is the one step `RunAgent` with any
outcome.

## 3. Runs

`MaxFaults = 1` means one fault of any kind at any point. With a second fault the
state spaces grow about tenfold; the properties are about the effect of a fault on what
runs beside it, for which one suffices, and the invariants proved in section 4 hold for
any number of them unless they say otherwise.

| run | instance | checks |
|---|---|---|
| `WorkerNotify` | 2 requests, 1 slot | finding: a slow notification ends the job |
| `BotDelivery` | a `/poc` and a `/task` with ids of their own, 1 slot, queue of 1, 1 fault on either side (544,861 states) | slots, rows, reports of the worker; delivery, replies, offers; the promise; refinement of `TaskAdmission` with its fairness |
| `PocAutopilot` | 2 confirmations of one slug, 1 iteration, 1 fault (1,076,889 states) | executions, recursion limit, report, left-over containers, end |
| `PocExecutions` | the same, no fault | finding: more executions than one confirmation authorises |
| `Approval` | 2 `/run`, 2 taps each, 1 fault (624,517 states) | approval gate, message, `_pending`, flag, end |
| `ApprovalTwice` | 2 `/run`, no fault | finding: two pipelines at once |
| `NotesPublish` | 2 notes with one public path, 2 lists, 3 taps, 1 edit in Obsidian, another publisher at the path of the notes, 1 failure or time-out; lists are symmetric (4,014,751 states) | notes stay as they were left, published notes arrive, others leave, the manifest is the inventory of the notes on the site |
| `VaultExportCut` | 1 note | finding: a copy nobody owns |
| `Git` | a commit, a push, a publication, 2 branches, 2 edits, 1 staging, 1 checkout, 1 failure, 1 timeout | commits, contents of a publication, its answer, end |
| `GitRetry` | 2 publications, 1 failure | finding: "ok" without a push |
| `Gateway` | a plan and a single task, every setting of key and endpoint, plans of 1 and 2 parts (3 listed, 2 allowed), 2 turns, TTL of 2 ticks, probes of 1, 1 fault; vLLM comes and goes freely | age of a choice, fallback, refinement of `PlanRun` with its fairness |
| `VaultNotes` | 2 tagged saves with one title, each a digest or a tool, 2 reindexings, 1 fault, symmetric (2,093,381 states) | names, empty files, index, search, map beside another reindexing |

Why the bounds are enough for the questions: two requests contend for the only slot and
the only place of the queue, and a queue of 1 is full, empty, and both within
three steps. The run has ids of their own for its commands, as the bot has; what the worker
does with an id that is posted twice, with more slots and with more requests, rests on the
theorems of `WorkerProofs`, which make no assumption about ids. Two pipelines,
autopilots or reindexings show every overlap of two; two taps contain "tap twice" and "tap both"; the third tap of `NotesPublish` comes from a
list that the first two have made old; a TTL of two ticks lets a probe begin before,
end after, or fall into the window of another. What needs more of a kind (a third rival,
two crashes in one export) is not covered by the runs.

Deadlock checking is off: each system may stop when all its bounded inputs are
used up.

### Fairness

- Worker: weak fairness of the loop, of the handlers and of each job, since an
  event loop runs every coroutine that can go on and every await in them has a
  timeout or is local; of `Restart` because of `restart: unless-stopped` in
  `docker-compose.yml`. Requests, crashes and faults have none.
- `TaskAdmission` asks strong fairness of `Start`: slots come and go. The
  worker provides it, since the loop holds a permit while it waits.
- Bot: its HTTP handlers, its replies, its restart.
- Autopilot: the loop of the sidecar (each docker command has a timeout) and the
  nodes of a graph. Approval: dispatcher and pipeline tasks; taps have none.
- Git: the handlers of the worker (each git command is killed after 20 s).
- Gateway: every await of a job is a call with a timeout of its own, or local. vLLM and
  the clock have no fairness.
- `NotesPublish` and `VaultNotes` state safety only.

## 4. Proofs

All theorems hold for any finite set of requests, jobs, slugs or pipelines and any
values of the bounds. Each module has the same plan: one lemma per step says what the
step may do to the variables that matter (its shape), the inductive invariants are
preserved by every shape, and the properties follow. So most lemmas after the first do
not look at the actions any more.

`WorkerProofs`:

- `TypeCorrect`: `Spec => []TypeOK`.
- `SlotsConserved`: `Spec => []SlotConservation`. `SlotInv` adds to it that a dead
  process runs nothing: a crash drops the jobs and the permits together, and the restart
  begins with all of them. The lemmas count: a step that moves one request in or
  out of `Active` changes `Cardinality(Running)` by one.
- `AtMostMaxConcurrent`: from it, `Spec => []ConcurrencyBound`.
- `RequestsRecorded`, `ReportsStored`, `StrandedRows`, `OwnersOnly`: `RowsInv` says which
  rows a request at each stage may have. "Stored before reported" keeps its premise, that
  no other request with that `task_id` was started, in the inductive invariant: another job
  with the same id puts the row back to `running`.
- `AdmissionImplemented`: `Spec => Admission!Safety`. `QueueInv` says that the queue holds
  exactly the requests that are `queued`, each once, so that "`QueueSize` requests wait" and
  "the queue is full" are the same; then each step of `Worker` is a step of
  `TaskAdmission` or a stutter.

`BotProofs`:

- `WorkerImplemented`: `DeliverySpec => Spec`. Every step of the two processes is a step
  of `Worker` or leaves it alone, so that everything proved of `Worker` holds behind the
  bot; its types and `RowsInv` are used below.
  `DeliveryAdmits` is one consequence: the two processes together keep the promises of
  `TaskAdmission` about safety.
- `SentDelivered`: `DeliverySpec => []SentIsDelivered`, under the assumption `OwnTaskIds`
  that no two commands share an id (`uuid4` in `_dispatch_to_worker`; the run has it too).
  Without it a second job with the same id would put the row back to `running` below a
  delivered result. A handler the worker no longer waits for may still deliver: its
  inductive invariant says of each POST of a result, whoever waits for it, that the row is final.
- `FailureIsSilent`: `DeliverySpec => []FailureMeansNothing`. `SilenceInv` follows the POST of
  a command: while it is out its request is at most created, once it was cut or declined
  nothing about it is in the chat or on its way there, and nothing moves it any more.

`PocProofs`:

- `AutopilotTypeCorrect`: types, carried by `ServesInv`, that the server serves
  somebody exactly while `run_poc` is under way.
- `ExecutionsLimited`: `Spec => []ExecutionsBounded`, the N + 1 of finding 3. `LineInv`: a confirmation has at most one
  request at the sandbox, in the backlog or served. `CallsInv`: executions and the one that is
  still due are at most one more than the iteration the graph is in.
- `RecursionLimitSuffices`: the steps of the graph are at most twice the iteration and two.
- `LeftoversBounded`: from `OwedInv`, that containers no teardown is going to remove any
  more are no more than crashes and failed removals.
- `ReportsMatch`: `Spec => []ReportMatchesBuild`, the report is about the last build or
  `meddled` names another confirmation that edited the directory since. Nothing is assumed of
  who shares a slug. `VersionsInv`: what was built is the present version of the sources
  as long as nobody has meddled and the run itself has not gone on to a fix.

`ApprovalProofs`:

- `ApprovalTypeCorrect`: `Spec => []TypeOK`.
- `ReportsApproved`: `Spec => []ReportOnlyIfApproved`, from `GateInv`: what waits
  in the dispatcher and what a request has recorded was tapped on the message of that
  request; and from `AnsweredInv`: a pipeline that executes has the verdict "approve",
  which only the waiter that was woken in time returns (`OnlyWakeExecutes`).
- `FlagFalls` is inductive; `PendingCleared` needs that a pipeline with a verdict is
  behind `request_approval` for good (`RequestInv`); `MessageSaysVerdict` needs both and
  `ShownInv`, that the handler of the decision will edit the message or has done so.

`GatewayProofs`, from `ProbeTimeout < TTL` and the assumptions on plans and turns:

- `GatewayTypeCorrect`: types of both modules.
- `ChoicesRecent`: `Spec => []ChoiceRecent`, from `HealthInv`: whatever a cache
  entry or the answer of a probe says of vLLM was so no longer ago than its age. The
  entry is as old as the start of its probe, so that a slow probe cannot make it younger.
- `CalmServed`: `Spec => CalmTasksServed`. `CalmInv`: while a job is calm, vLLM stays up, or
  away for a TTL, so that by `HealthInv` no entry or answer contradicts it, and
  the back end that the job was given answers unless there is none.
- `PlanRunImplemented`: initial states are those of `PlanRun` and each step is one of its
  steps or a stutter, from `JobsInv`, that results and parts agree with the place in the plan.

`VaultNotesProofs`, from `MarksAssumption`, that the marks of a missing and of an empty
file are no saves:

- `BlanksExplained` is part of `FilesInv`: which save has which name, and what a file at
  that name can be at each of its steps.
- `OlderKept`: `Spec => []OlderNotesKept`. That a chosen name was free needs that the loop
  over suffixes ends: `NameIsFree` is the pigeonhole principle, no more names of a title
  are taken than saves that have chosen one. `NamesInv` remembers of each save what was
  written before it chose.
- `IndexIsCurrent` and `HiddenNotesExplained` follow from one inductive
  invariant, `IndexInv`: a reindexing has read a file once, before or after it had its
  text, and what one that is past its last batch has read is in the index for good.
- `MissingNotesExplained`: `Spec => []MissingExplained`, for any number of reindexings whose
  scans and writes interleave freely: a map that was completed lists what its own scan has
  found until another one opens it, and the scan of a reindexing comes after what it indexed,
  so that it finds the text that was indexed or one of another save with that name.

`GitProofs`, for any requests, branches and bounds:

- `OneCommit`: `Spec => []OneTapOneCommit`. `TapInv`: a token is that of an offer nobody has
  answered, a request that has not reached `git commit` has no commit, and one that has
  is in one place of one branch only, also when the command was killed after its work.
- `PublishesOnlySite` and `CalmPublishArrives` are about the calm (nothing failed, timed
  out, or was staged or checked out by hand), without which both are false (finding 5 and
  `commit_paths` below). In it at most one request is at work. `CalmRest`: the
  index agrees with HEAD outside the site unless a commit is next. `CalmSite` follows the
  version of the site: what was exported is in the files, then the index, HEAD and
  origin, and differs between two of these only while a publication is
  between the steps that pass it on; this also covers a publication that finds nothing to
  commit. Two lemmas about `IsPrefix` say that origin's branch stays a part of the local one.

`NotesProofs`, from the assumption that what a path may hold besides a note is no note:

- `ExportInv` is inductive for both specifications: each step of `VaultExport` and of
  `NotesPublish` has one of five shapes (a flag changes, nothing of the export changes, a
  foreign article appears, the export ends, one of its own steps), and the rest looks at
  these only. Its parts: what was published all along is chosen once it has been looked at
  (`AlwaysChosen`); what has been copied stays (`CopiedLies`); what is chosen was
  published at some moment (`ChosenEver`); and, before anything fails, the site holds the
  notes of the manifest, less those removed, plus those copied (`CleanSite`).
- `NotesArrive`, `NotesLeave`, `ManifestKept`: the three properties of `NotesPublish` about
  the export; `ExportKeepsItsWord` says the first two of `VaultExport` alone, for any number of
  flags, failures and exports cut short. `ForeignLosses` says when an article of another
  publisher is lost: this is no promise of the code but the extent to which one is broken (see
  section 5).
- `NoteLeftAlone`: `NotesSpec => []NoteAsLeft`. `LeftInv`: as long as a note is undisturbed the
  bot waits for the only thread that works on it, and the text it has read, emptied or
  written back is the one that was left (`Progress`).

All invariants the runs check and all their action properties are theorems now. Only
model-checked are liveness (`AutopilotEnds`, `EveryRunEnds`, `ConfirmedEnds`, `PromiseKept`)
and the fairness in the two refinements (`ImplementsAdmission`, `ImplementsPlanRun`, whose
safety part is proved), which are beyond the proof system, and so is what recursive functions
compute.

## 5. Findings

Each run that expects a violation shows a disagreement between the code and what a
comment, a message or a document of the repository says; `PROJECT.json` quotes it.

1. `WorkerNotify`: "the job goes on when the notification fails"
   (`app/agent/runtime.py:27`); a `TimeoutError` ends it, its row stays `running` and no
   result is sent.
2. `ApprovalTwice`: "a pipeline is already running" (`pipeline_cmd.py:19`); the flag is
   set one task switch later than it is looked at.
3. `PocExecutions`: "one confirmation authorises at most N isolated executions"
   (`app/config.py:89`, also `README.md:235`, `278`, `284` and the message of
   `pocrun_cmd.py:91`); `max_iterations` counts the fixes (`poc_pipeline.py:138`) and the
   first build comes on top, so that N + 1 are executed. `ExecutionsBounded` is the bound that
   does hold.
4. `VaultExportCut`: "a note that is not published is never committed"
   (`site/README.md:27`); copies of an export that was cut short are in no manifest.
5. `GitRetry`: publishing again after a failed push answers "ok" and pushes nothing.

Seen while modelling, visible in the models, and without a run of their own:

- A slug can be confirmed twice, and two autopilots then edit, build and report in one
  directory (`pocrun_cmd.py:120`); the report of one may mix its build with the sources of the
  other. `ReportMatchesBuild` names that case and excludes every other.
- `_call_sandbox` (`poc_pipeline.py:61`) normalises client errors; the
  `TimeoutError` of a request that waited in the backlog ends the autopilot.
- `_dispatch_to_worker` (`app/bot/commands/__init__.py:80`) does not catch the
  `TimeoutError` either: the task runs and the user hears nothing.
- A tap made in time may wait in the dispatcher until the request has timed out.
- `_send` repeats a message after any `TelegramError`, also one after delivery.
- An empty result is refused by the bot (400) and so never shown.
- `copy2` in `publish_vault.py:123` overwrites an article of another publisher at the
  path of a note, although `site/README.md:39` and the comments at `publish_vault.py:11` and
  `108` say that articles of others are preserved; after an export that was cut short one may
  also be removed, when it took a path that the old manifest still lists. No run states the
  promise; `ForeignLosses` says in which cases only it is broken.
- Two reindexings that overlap write one map, and the older scan may be written last: a note
  that `/reindex` has indexed and answered ok for is then missing from it (`moc.py:92`, `106`).
  `MissingExplained` says that this, a file the scan could not read, and a second save under
  the same name are the only reasons.
- `commit_paths` (`git_ops.py:127`) commits what an earlier `git add -A` left staged.
- The branch shown by the preview of a push is not the one pushed if HEAD moved
  (`git_cmd.py:183`); a push to a URL does not move `refs/remotes/origin`
  (`git_ops.py:165`), so that the next preview offers the same commits.
- Two tool threads may choose one file name, and the second note replaces the first
  (`obsidian.py:90`).
- A note that was saved while the index was away is not found while the index
  answers with anything else, although "the keyword search goes on"
  (`obsidian.py:97`); `HiddenExplained` says exactly when.
- An exception in one part of a plan ends `run_plan_task` (`graph.py:347`): the results of
  earlier parts are lost, and `all(o.ok ...)` (`graph.py:354`) never sees a failed part.
- `_plan` falls back to the original task for a reply that is no JSON; a reply whose
  `"tasks"` is no list raises a `TypeError` instead (`graph.py:323`).
- After vLLM was chosen a call that fails is not repeated with Claude. Claude's loop has
  a substitute for an empty text, vLLM's has none, and the bot refuses an empty result.
- `ROUTE_TOTAL` counts the preferred back end, not the chosen one (`graph.py:262`).
- A `set_publish` that is stopped between opening and writing leaves an empty note, and
  one that the bot has given up may undo a later edit or tap (`publish_ops.py:119`).
- The number of notes that `/notes` asks to confirm is that of its list, the
  export takes all that are published by then (`notes_cmd.py:162`).
- A reindexing that reads a note before it is written may put the empty text in
  the index over the full one; `IndexCurrent` excludes exactly that.

## 6. Plan

Done, in this order: `Worker`, `TaskAdmission`, `WorkerProofs`, `PocSandbox`,
`PocAutopilot`, `ApprovalPipeline`, `VaultExport`, `GitPublish`, `BotDelivery`,
`VaultNotes`, `ApprovalProofs`, `LlmRuntime`, `PlanRun`, `Gateway`, `NotesPublish`,
`GatewayProofs`, `PocProofs`, `VaultNotesProofs`, `BotProofs`, `GitProofs`, `NotesProofs`.

Next, model:

1. Pure parts as operators with a reference definition: `find_violations` of the
   sandbox, the scoring of `poc_eval.py`, `public_path` and its aliases, the answers of
   OSV in `security_audit.py`.

Next, prove: for the liveness properties, what can be said without fairness, namely
measures that each step of a run or an autopilot lowers; what a second
reindexing still owes the map that it has opened.

## 7. Not modelled

- The read-only endpoints and commands (`/tasks`, `/health`, `/selfcheck`, `/metrics`,
  `/poc/list` and the commands of the bot that show them), `selfcheck.py`, `metrics.py`:
  they change nothing.
- What prompts, notes, digests, reports and commit messages say; redaction; the score of
  an evaluation and the findings of a static check, which are choices in the models.
- Tools other than `vault_save` and `vault_search`: their effects are files nothing
  else in the repository depends on, and `execute()` turns their errors into text.
- The retriever beyond its time-out, configuration, clock, command line, scripts,
  evaluations, deployment, monitoring and the site: no state of their own, or none that
  two actors share.
