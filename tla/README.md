# A verification of ml-training-platform

TLA+ models of the platform's execution path, of the builder in front of it, of
the datasets and versions it uses and of the decisions that are made twice, in
TypeScript and in Python; TLC runs that check them on small instances; TLAPS
proofs of the central properties for instances of every size. Paths below are
relative to the repository's root.

## 1. Inventory

A user draws a graph of blocks in the web builder. The API validates it,
records a run with one row per node in PostgreSQL and appends a job to a Redis
stream. A Python worker reads the job through a consumer group, executes the
graph with a pool of threads, writes the rows, publishes events to the run's
own Redis stream and acknowledges the job. The API serves these events to the
browser over SSE, after a snapshot of the rows.

| Component | State it keeps | Operations | Interacts with |
|---|---|---|---|
| DAG runner (`apps/services/worker/src/runner.py`) | in-degree table, outputs, completed count, first failure, all under one lock; an event; an executor's queue | `run`, `_execute_node` on pool threads, `topological_order`, `from_mapping` | rows (statements), events (publish) |
| Run and node rows (`worker/src/database.py`) | `workflow_runs`, `node_executions`, `artifacts`, `workers` | guarded and unguarded updates | PostgreSQL |
| Job consumer (`worker/src/main.py`) | the entry being handled; the group's PEL in Redis | `start`, `_consume`, `_handle`, `_ack`, `request_stop` | Redis group, rows, runner |
| Run submission (`api/.../workflow-run.service.ts`, `redis-streams.service.ts`) | rows of the run | `execute`, `markEnqueueFailure`, `enqueueWorkflow`, `publishRunEvent` | PostgreSQL, Redis |
| Event stream (`workflow-run.controller.ts`, `readRunEvents`) | a cursor per connection | snapshot, replay, keepalive | rows, run stream |
| Run follower (`web/features/builder/hooks/usePipelineRun.ts`, `runtime/run-reducer.ts`) | the view of the run, the cursor in `sessionStorage` | `execute`, `reset`, `followRun`, the reducer | SSE |
| Graph gate (contracts' Zod schema, `packages/pipeline-engine`; the worker's `from_mapping`, `validate_graph`) | none | schema, ports, topological order, contracts, constraints; then again in the worker | called by the API and by the builder |
| Block catalogue and executors (migrations `SeedBlockCatalog`, `AddFeatureEngineeringBlocks`; `worker/src/blocks`) | contracts on the wires; frames on the wires | one rule set, one transform and one executor per block | engine (before a run), runner (in it) |
| Formula language (`packages/pipeline-engine/src/dsl`; `worker/src/dsl/expression.py`) | none | two parsers with one whitelist | engine, executor |
| Datasets (`modules/dataset`, upload dialog) | `datasets.status` and profile, the object, a BullMQ queue | create, complete upload, patch, validate, fail, remove | MinIO, Redis |
| Dataset readers (`modules/dataset/utils`; `worker/src/blocks/data_source/loaders.py`) | none | profile of a sample; frame of the file | dataset lifecycle, executors |
| Workflows and versions (`modules/workflow`, save route and dialog) | two tables, `localStorage` | create, save, patch, remove | PostgreSQL |
| Builder canvas (`useBuilder.ts`, `utils/*`) | nodes, edges, groups, a draft in `localStorage` with a delay | connect, configure, group, skip, delete, load a demo, restore | run follower (locks it), engine |
| CRUD modules, pages | rows | one repository call each | - |

What makes them correct, and hard:

- **runner** (concurrency, failure): several threads complete nodes at once,
  each may fail, any statement may raise after its effect; a node must run once,
  after its inputs exist, and the verdict must be told once, last and wholly.
- **dispatch** (delivery, crashes): nothing is atomic between PostgreSQL and
  Redis; replies are lost, jobs appended twice, workers die between two calls.
- **event stream and follower** (ordering, reconnection): a snapshot that is
  newer than the events replayed after it, cursors, lost terminal events.
- **graph gate, formulas, dataset readers, blocks** (agreement): the API says
  yes, in TypeScript, and the worker must be able to do it, in Python.
- **datasets, versions** (atomicity): read, modify, write without transactions,
  beside a queue that is told in a separate step.
- **builder** (stale state): a draft written 800 ms late, a graph locked by a
  run, answers for a page that is gone.

`PROJECT.json` lists each hazard at its line with the properties that cover it.

## 2. Plan

The order in which the project was built, the most important behaviour first:

1. `JobGraph`, `PipelineRunner`, abstract `DagRun`; proofs.
2. `RunDispatch`: API, job stream, consumer group, workers; proofs.
3. `RunFollower`, which composes the runner with the SSE handler and the
   browser; proofs.
4. `RunHook`: the browser across submissions, mounts and page loads; proofs.
5. `DatasetLifecycle`: upload, queue, validation and removal interleaved, with
   failing calls and crashes; proofs.
6. `WorkflowSaves`: numbering under concurrent creation, and the builder's save
   on top of it; proofs.
7. `Canvas` and `BuilderPage`, which composes the canvas with `RunHook`; proofs,
   among them that the page implements the hook.
8. `BlockContracts`, `BlockExecutors`, `Blocks`: contract and value of every
   wire, computed side by side.
9. `Expressions`, `GraphAdmission`, `DatasetFiles`, `Gates`, `Agreement`: what
   API and worker decide about the same formula, graph and file.
10. Proofs of rows and events against control points, of the refinement of
   `DagRun`, and on top of them of what a view shows.
11. `Blocks_proofs`, and in `Agreement_proofs` every graph and file.
12. `OrderFindsCycles` and `NeverStuck`: what of `RunReturns` is safety, proved.
13. `SameReading` in `Agreement_proofs`: every formula.

## 3. Modules

### JobGraph

The graph as the scheduler sees it. A node is its position in `job.nodes`, so
that `sort(key=position)` is the order of the integers; an edge keeps the
target port, since two edges may join the same two nodes and the code counts
each (`runner.py:397`, `539`). `TopologicalOrder` is the while loop of
`topological_order`, its turns a recursive function (`Turns`).

### PipelineRunner

One call of `PipelineRunner.run`. The main thread is `main`, a pool thread's
position in `_execute_node(n)` is `pc[n]`; the lock's variables are `indegree`,
`outputs`, `completedCount`, `done`, `firstFailure`; the executor is `queue`
and `shut`. Each database statement, publish or critical section is one
action: the interleavings of the model are those of the threads between them.
An infrastructure call has three outcomes: it works, it raises without its
effect, it raises with it (a commit or `XADD` whose reply is lost; `EXPIRE`
failing after `XADD`), at most `MaxFaults` times. A block may always fail.
`job.unwired` are the nodes with a required input port and no edge, which the
worker detects only when the node runs.

Abstracted: payloads, configs, logs, durations, the number of artifacts of one
node (one or none). A cyclic job is one `from_mapping` rejects.

### DagRun

What the rows promise, without threads: launch, begin in dependency order,
finish, one node blamed, the pending rows skipped together, one verdict.
`PipelineRunner!ImplementsDagRun` instantiates it with the rows.

### RunDispatch

`execute` from its transaction on, the job stream (`stream`), the group's
position and PEL (`delivered`, `pel`) and the loops of the workers (`at`,
`holding`, `presence`). Faults are as above, and the Redis client may apply a
`MULTI` twice (`maxRetriesPerRequest: 3` re-sends a command whose reply was
lost). `Foreign` entries are those no run owns: without a payload, or with one
without `runId`. The graph's execution is one step with a verdict: its detail
is `PipelineRunner`. PostgreSQL, Redis and the client library are external and
modelled from the calls made to them.

### RunFollower

Extends `PipelineRunner`: the runner writes rows and events, the browser follows
them. `ReadRows` is the handler's read of the rows, `TakeSnapshot` the snapshot
reaching the reducer, `Replay` and `Stream` deliver the events behind the
connection's position, `Finish` is the end of the response after a verdict,
`Cut` a broken connection, `Reload` a page load. The view is the reducer's: run
status, node statuses and cursor; `after` is the cursor of `followRun`, `stored`
the one in `sessionStorage`, which the snapshot does not move. `ApplySnapshot`
and `ApplyEvent` are the reducer's functions, with the ranks of
`advanceRunStatus` and the statuses renamed as `normalizeNodeStatus` does. A
position in the stream stands for an event id. A refused stream (4xx) is in
`RunHook`.

### RunHook

`usePipelineRun` with several runs: `following[m]` is the run that the
controller of mount `m` follows, `posts[s]` the mount that awaits the answer of
submission `s`, `stored` the run in `sessionStorage`. A mount that is gone
still receives answers, and the follower they start acts on `sessionStorage`.
What the user may do is what `BuilderCanvas` and `PipelineRunPanel` allow: no
submission and no reset while a run is active. The events of a run are reduced
to "shown, and the run stored again": their content is `RunFollower`'s.

### DatasetLifecycle

Everyone who writes a dataset's row does it through TypeORM's `save`: an actor
holds the entity it found (`found`, and `ent` with its changes), reads the row
again (`base`) and writes the columns in which `ent` differs from it, or inserts
the entity when the row is gone. `session[a]` is that entity and how far actor
`a` is: the dialog's own request, a client's `completeUpload`, `update` or
`remove`, the processor, or the `failed` handler, which BullMQ calls beside the
next job. `flow` and `dialog` are `handleSubmit` of the upload dialog, whose
three requests may fail one by one. `Crash` is a restart of the API process: the
active job is handed out again once and failed by the second stall.
`outcome`, `lost` and `stale` are history: how the last validation ended, where
a fault left a step undone, where an outdated entity was saved. A file is
`good` or `bad`: what a profile says is `DatasetFiles`.

### WorkflowSaves

A request is made once and saves a graph of its own. `Save` is the dialog
(reusing the id in `localStorage`), `CreateWorkflow` the Next.js route,
`CheckBody` the global validation pipe, `FindWorkflow`, `ReadNumber` and
`Insert` the three statements of `WorkflowVersionService.create`; the unique
index refuses the second of two equal numbers. `Raise` is any call that fails,
with the effect kept and the answer lost; `ChangeVersion` and `RemoveWorkflow`
are other clients' patches and deletions, `Reload` a page load. Since the pipe
refuses every body of the save route (section 5), the overlap of creations comes
from `POST /workflow-versions`.

### Canvas, BuilderPage

`Canvas` has the operations of `useBuilder` as operators on a graph: the check
of a connection, configuration, grouping, ungrouping, skipping, removal of
blocks and groups with what hangs on them, and `ValidationGraph`, what the
builder validates and submits. Cycle detection is a statement on sets of nodes.

`BuilderPage` EXTENDS `RunHook` and `Canvas`, as `BuilderCanvas.tsx` puts the two
hooks together. Each step of the page is an edit, the autosave's timer, or a
step of the hook with what it does to the canvas: a submission takes the graph,
an event changes the statuses of the blocks and so starts the timer again, a
visit or reload restores draft and run independently, leaving cancels the timer.
`excused` is history: the page was left or reloaded before an edit was saved, or
before a submission was answered. Status colours are the view of `RunHook`.

### BlockContracts, BlockExecutors, Blocks

`BlockContracts` has the operators of constraint rules and each block's contract
transform (API); `BlockExecutors` each executor's checks and returned value
(worker). `Blocks` puts a pipeline together: a wire carries the contract and the
value, a block takes both and yields both, or ends the pipeline with the codes
of the rules that refused it (`codes`) and the requirements its executor found
unmet (`unmet`). Columns are objects: `subsetOf` compares them with
`Array.includes`, so that `id` tells equal objects apart.

Names in a configuration are texts, and each side reads them as it does. A
selection is unset, one text (what the builder stores, the names joined by
commas) or a list (what a client of the API may send). Its `items` are what the
rules and the join's contract see, where a text is one name (`resolveItems`);
its `names` what the other transforms see, which split and trim a text but not a
list; its `parsed` what the worker sees, which splits, strips and drops what is
empty (`parse_string_list`). `Parts` and `Stripped` are the two conversions of a
text, and `Read` is how the worker reads a single name. A column of a frame
misses values of two kinds, as pandas has them: `NaN`, which imputing fills, and
`None` in a column of objects, which it leaves.

A wire is in `doubts` behind a block, or a stored profile, of which the engine
knows less than the worker, and a block's own configuration may be in doubt as
well (`own`): the list stands before the properties, and each property names the
doubts that excuse it. No profile is assumed to be true of its file:
`ProfileDoubts` says where one is not. A block that is refused or fails ends the
pipeline: `Place` clears the bench and keeps its name, codes and doubts.

### Expressions, GraphAdmission, DatasetFiles, Gates, Agreement

`Expressions` is the recursive-descent parser of the API, method by method, and
the set of readings that Python's grammar with the worker's whitelist gives the
same tokens. The parser's methods call each other at their own token and at
later ones: `Methods` is what they return at one token, given what they return
at the later ones (`later`), and `Readings` fills that table from the last token
to the first; a `for (;;)` of the code is a `Loop` of `Turns`. `PyParts` is the
grammar, rule by rule, from the shorter parts of a formula to the longer ones.
Both are recursive functions, so that they can be proved about. The operators
are constants (`Signs`, `Products`, `Comparators`); `TokenAssumption` says what
the tokenizer sees to, that a token has one type. `GraphAdmission` is what
`execute` checks before its transaction, the job it builds, and the worker's
parsing and validation of the job, which strips identifiers. `DatasetFiles` is
the profile of the API's validator and the frame of the worker's loader for
small CSV, JSON and XML files and their options. `Gates` builds graphs node by
node and edge by edge, and compares the two sides of each and of each file;
`Agreement` EXTENDS it with formulas, token by token.

### MC modules

`MCPipelineRunner` defines the jobs (twin edges, chain, a graph whose positions
are not topological, cycle, diamond, independent branches, unwired nodes);
`MCRunDispatch` the foreign entries; `MCRunFollower` the two-node jobs;
`MCBuilderPage` three blocks with a possible cycle, and the drafts; `MCBlocks`
five datasets (one sound, one of JSON with nulls, one with a blank in its header
and cells `NA`, one whose text a user declared numeric, one without a profile)
and seven selections, among them the text `x,g`; `MCAgreement` the functions,
datasets and blocks that the two sides may disagree on. The others need none.

## 4. Runs

| Run | Bounds | Question |
|---|---|---|
| `Runner` | up to 4 nodes, 10 jobs, 3 threads, 2 exceptions | all safety properties; no wakeup of the main thread is lost (`NeverStuck`); rows implement `DagRun`; `run()` returns, and settles the run unless a call raises |
| `RunnerSwallowed` | 3 nodes, no exception | what the README says of failing nodes, violated |
| `Dispatch` | 2 runs, 2 workers, 2 foreign entries, 1 exception, 1 crash | one executor, nothing lost, verdicts final, events true, runs settle unless something fails |
| `DispatchUnavailable` | 1 run, 1 worker, 1 exception | what the README says of a failed enqueue, violated |
| `FollowerFaults` | 2 nodes, 2 threads, 1 exception, 1 cut, 1 reload | the view is never wrong, skips nothing, ends as the rows, and ends unless a call of the runner raises |
| `HookForgets` | 2 submissions, 2 mounts, 1 departure | the README's promise of reconnection, violated |
| `BuilderPage` | 3 blocks, 1 group, 2 edits, 2 submissions, 3 mounts, 1 departure | the run shown is the run followed and the graph submitted; the canvas and what is submitted stay well-formed |
| `Datasets` | 2 uploads, 1 client with 1 call, 1 fault | READY means profiled, a row at rest is true, a queued dataset settles |
| `Saves` | 1 save, 3 creations, 1 change, 1 reload, 1 fault | versions are in order, an answered number is the graph sent |
| `SaveRefused` | 1 save, 1 creation, no fault | what the dialog announces, violated |
| `Blocks` | 5 datasets, 7 selections, 2 loads, 2 transforms | contracts describe values, what is admitted does not fail for a rule's reason, what is refused would fail |
| `Agreement` | 7 tokens; 2 nodes, 2 edges; files of 4 records | one reading, one graph, one table on both sides |

Why the bounds are enough. *Runner*: three nodes and three threads give every
race for one successor, a thread failing while another completes and a third
waits in the queue; two exceptions give a failure during the handling of a
failure, and a pair of failing threads; four nodes add the diamond (two threads
release one node) and a pool smaller than the graph. *Dispatch*: two workers and
a duplicated job give every race for a claim; the second run gives entries
behind another one. *Follower*: two nodes give a snapshot between any two events
of different nodes; one cut and one reload give a cursor used twice.
*BuilderPage*: two mounts and two submissions show a late answer against a newer
run, the third mount a visit after it; two edits give one that is saved and one
that is not. *Datasets*: one call of a client beside the dialog's own gives two
sessions on one row, with the processor and the failed handler four; the second
dataset a job behind another. *Saves*: two overlapping creations collide, the
third takes the number that either retry would. *Blocks*: a value reaches any
block over two transforms, two loads and two wires allow each join of two
different pasts, and the other blocks are not bounded; each doubt is needed by
one of the claims within these bounds, except that an outer join or a changed
target before a guarded block takes a third transform to matter, which the
proofs do not bound; a transform needs an identity
that nothing else in the pipeline holds (`Unheld`), and six are always enough:
the guard removes no state. *Agreement*: seven tokens hold
a call with two arguments and an operator, or three operators with a bracket;
two nodes with two edges hold each duplicate, a cycle and a missing input; the
sample is two records, so that four are beyond it.

**Fairness.** `FairSpec` of the runner: the operating system runs every
runnable thread, and every block terminates (nothing in the code bounds it; a
block that never ends keeps `run` from ending). `FairSpec` of the dispatch: a
worker's loop goes on, the API answers what it began to handle. `FairSpec` of
the datasets: each promise that the API's process began is resolved, and BullMQ
hands out waiting jobs. Users need not submit, complete or remove anything.
`FairFollowSpec` adds to the runner's that the handler goes on reading and
writing, and that the client reconnects, which `followRun` does until it is
aborted. Faults and crashes are never fair. No run uses symmetry. `CHECK_DEADLOCK
FALSE` is given where every user's step is bounded and the system then rests.

## 5. Findings

With a run of their own (the lines are in `PROJECT.json`):

- A node that fails second keeps the row `running` in a failed run
  (`RunnerSwallowed`).
- A run answered with 503 may be executed and completed
  (`DispatchUnavailable`).
- A POST answered after the user left the builder takes the stored run away
  from the builder mounted since, which a reload then does not find
  (`HookForgets`). Without a departure the promise holds (`StoredUnlessLeft`).
- The builder cannot save: the save route sends no `version`, which the API's
  schema requires (`SaveRefused`).

Seen while modelling, and part of the models:

- *Runner*: nodes queued when another fails are executed, not skipped;
  independent nodes run at the same time (`src/README.md:59` says one after the
  other). An entry may stay pending although its verdict is durable.
- *Datasets*: a `completeUpload` that overlaps the validation may put the row
  back to `QUEUED` or `VALIDATING` with no job left; a removal may be undone by
  a later save, which inserts the row again; a row whose `queue.add` failed stays
  `QUEUED`. `lost` and `stale` mark them.
- *Builder*: skipping a group is display only, the run executes it; deleting a
  group deletes its blocks; edits made less than 800 ms before leaving are lost;
  a running pipeline's status events postpone the draft.
- *Columns of blocks*: the API refuses every join by two keys, and every
  selection of several columns behind a target, that is configured in the
  builder, since the rules take `x,g` for one name; the worker would run them. A
  header with blanks is kept by the API and by the frame but stripped in the
  worker's configuration, so that a column ` g` is admitted and not found
  (doubt `reread`). `nullable: false` is not the worker's notion: the profile
  counts null and empty values of the sample only, pandas also takes `NA` for a
  gap, and imputing leaves `None` (doubt `gappy`); an override of a column's type
  may contradict the file (`mistyped`). Booleans cannot be imputed by their most
  frequent value. Two indicators of one name, which one block can make of two
  columns, are one column of the model; a filter has one condition.
- *Blocks*: the catalogue offers `full` as a join strategy, which pandas does
  not know; the rule of Rename never fires and the contract's target keeps its
  old name; `selectedColumns` and `rowCountMatches` are not evaluated; Split
  requires a target for clustering too; a filter with `contains` on text with
  missing values and a join of text with numbers raise in the worker only; the
  ONNX rule is a warning.
- *Formulas*: a Python keyword as a column name is admitted and cannot be read;
  so are, below the tokens of the model, a formula that begins with a blank or
  has a line break outside brackets, and a number with leading zeros;
  `round(x)` with one argument raises in the worker; formulas without a column
  and arithmetic on Booleans are admitted and raise. The design document (2026-07-27,
  line 107) promises the same acceptance.
- *Dataset files*: the encoding is detected on the first 4096 bytes and types on
  500 rows; a small XML file with a declaration profiles the declaration, a
  large one is profiled without its first record; JSON with an object at the
  root needs `recordsPath` in the worker only; empty files are READY and do not
  load; numbers in XML are text in the worker.
- *Graph gate*: identifiers that differ by blanks are two to the API and one to
  the worker; an identifier of blanks passes the API.

The properties of `Blocks` and `Agreement` name these exceptions explicitly
(`doubts`, `Tells`, `NoCollision`, `Keywords`): outside them the two sides agree.

## 6. Proofs

`PipelineRunner_proofs` proves, for every set of jobs, every number of nodes,
threads and exceptions, from `SizeAssumption` and `JobAssumption` (finite edge
sets between existing nodes):

- `Invariant`: `Spec => []IInv`, and from it `TypeCorrect`,
  `UpstreamFirstHolds`, `SubmittedOnceHolds`, `CompletedRunIsWholeHolds`,
  `NothingAfterTerminalHolds`.

None of these properties is inductive. The argument of `IInv`: the table is
never below the number of edges whose source has not recorded its outputs
(`IndegreeInv`; it may be above after a failure, when the code stops
decrementing), so a node whose entry is zero has all its inputs. A node is
claimed by at most one thread and idle until then (`ClaimInv`, `QueueInv`):
the entry of a node already handed to the pool is zero and a recording thread
takes one off its successors, so a second release would need an open edge of a
node that has none. Recorded outputs belong to completed nodes (`OutputInv`);
the main thread is woken only by a failure or when the outputs are all
recorded (`FailureInv`, by counting); outside the `with` block the pool is
quiet (`MainInv`).

Under the same assumptions it proves `RunInvariant` (`Spec => []RunInv`),
`FailedRunIsSettledHolds`, `RowsLeadEventsHolds`, `OneCulpritHolds` and
`RowsImplementDagRun` (`Spec => ImplementsDagRun`). `RunInv` adds to `IInv` what
the rows say where each thread stands: a node's row is pending until
`start_node` and running until `complete_node` (`RowInv`), a node waiting for
the pool is in its queue (`QueuedInv`), and the main thread has written certain
rows by the time it gets somewhere: a failed row is that of the first failure
and only seen while the failure is recorded (`StageInv`). The three properties
are conjuncts of the invariant: each is inductive only together with the others.
For the refinement, every step is classified as `Launch`, `Begin`, `Finish`,
`Blame`, `Skip`, `Succeed` or `Fail` of `DagRun`, or leaves the rows alone; its
guards on upstream rows follow from `UpstreamFirst` and `OutputInv`.

It also proves that no wakeup is lost. `OrderFindsCycles` says of
`topological_order`, for every number of nodes and every finite set of edges,
that it misses a node exactly if the graph has a knot: a nonempty set of nodes
each of which has an edge from the set. The loop invariant (`TurnInv`) keeps
the table equal to the edges not yet taken, `ready` to the nodes at zero and
the order topological; that a turn exists for every step of the recursive
function, and that each one keeps the invariant, follows from a least
counterexample (`WFMin`), which takes the place of the induction theorems.
`NeverStuckHolds` (`Spec => []NeverStuck`) rests on it: if the main thread waits
while the event is not set and the pool is at rest, nothing has failed, every
node without outputs is idle, and none is ready, since a ready one would be on
somebody's list; so each waits for another without outputs, a knot that
`from_mapping` would have rejected. `WakeInvariant` (`Spec => []WakeInv`, on top
of `RunInv`) holds what this needs: until a failure the table is exact
(`TableInv`), `done` is set by the first failure or the last output
(`DoneInv`), and the owner of a list is there to submit it, or `done` is set
(`ReadyInv`). `WakeInv` was checked on the run's instance before it was proved.
With the fairness of the threads this is what makes `RunReturns` true.

`RunDispatch_proofs` proves, for every set of runs and workers, every content
of the stream and every number of faults and crashes, from `BoundAssumption`
and `EntryAssumption`: `Invariant` (`Spec => []DispatchInv`), `TypeCorrect`,
`OneExecutorHolds`, `NoLostJobHolds`, `AcceptedEventsAreTrueHolds` and
`AcceptedVerdictIsFinalHolds`. The argument: an entry is held by one worker
(`HoldInv`), but a run may have several entries, so that only the guard of
`start_run` makes its executor unique; whoever executes an accepted run finds
in its row exactly what it wrote there itself (`OwnerInv`), hence its verdict
and its event agree and nobody overwrites it. While the row is pending, no
entry of the run was acknowledged, and once it is running the entry of its
executor is not, whether the executor holds it or died (`OwedInv`): a worker
acknowledges an entry only if it settled the run or found it claimed, and in
the second case the claiming entry remains. The proof classifies the steps once
(`WorkerActionEffect`, `ApiActionEffect`) by what they may do to the rows, the
stream and the PEL, and each part of the invariant is preserved by every step
of that class.

`RunFollower_proofs` proves, for every job and number of threads, faults, cuts
and reloads, `FollowInvariant`, `FollowTypeCorrect`, `NothingSkippedHolds` and
`TerminalViewIsTrueHolds`. The cursor's part (`CursorInv`) says that an open
connection's position is the cursor's; the verdict's part (`EventVerdictInv`,
`VerdictInv`) that a verdict in the view is in the stream or was read from the
run's row, and that a verdict in the stream is the row's, which rests on the
runner's `IInv` and on verdicts being final.

On top of `RunInvariant` it proves `BrowserInvariant` (`BrowserInv`),
`CaughtUpViewIsCurrentHolds` and `FinishedViewIsTrueHolds`. Rows only move along
`Before` (pending, running, completed, failed; or pending, skipped), an event
never names a state its row has not reached (`RowsLeadEvents`), and so the events
of one node lie in the stream in that order (`LogInv`). A snapshot under way is
between the two: not newer than the row, not older than any event before the
cursor (`Fresh`), and the same then holds of what a view shows (`Shows`): an event
may take a node of the view back behind the snapshot, never behind an event that
was heard before it. Once everything was heard the bounds meet: the announced
state is the shown one (`CaughtUpViewIsCurrent`). A run has its verdict only after
its failed node was announced, and without faults after each completed node was
(`NewsInv`), so that a view which heard the terminal event, or began with the
final rows and took what the stream then held, shows the truth (`Told`).

`BuilderPage_proofs` begins with the hook: `Invariant` (`HookInv`),
`ShownRunIsFollowedHolds`, `RefusedFollowsNothingHolds` and
`StoredUnlessLeftHolds` for any number of submissions, mounts and departures. The
strengthening says that a mounted
builder which awaits an answer shows it, awaits that one only and follows
nothing, and that before the first departure no other mount awaits or follows
anything (`OneMount`).

`DatasetLifecycle_proofs` proves, for any number of datasets and clients, calls
and faults, `Invariant` (`DatasetInv`), `TypeCorrect`, `ReadyWasProfiledHolds`,
`SettledInvariant` (`SettledInv`) and `RowTellsOutcomeHolds`. That READY means
profiled is not inductive because an entity is written long after it was read:
`SessionInv` says that whatever an actor holds would be true if it were written,
so that a READY entity stands for a good object, and that a profile once held is
in the row too unless an outdated entity was saved. One lemma per kind of step
of a session. That a row at rest tells the outcome needs to know who writes
what: `RoleInv` and `EntityInv` say which operation each actor is at and which
status it means to write, `AimInv` that nobody else gives the row that status
first (else `save()`, which writes only the columns that differ, would leave an
older one), and `OutcomeInv` that a validation whose outcome is not in the row
is still queued, at work or about to be written as failed. The validator and the
failed handler of one dataset meet only when one of them is out of date
(`OneAims`); a completion that loses its job is in `lost`.

`WorkflowSaves_proofs` proves `Invariant` (`SavesInv`), `TypeCorrect`,
`VersionsInOrderHolds` and `AnsweredVersionKept`. A request that is about to
insert number `n` knows that `n - 1` is taken (`RequestInv`); if `n` was taken
in between, the unique index refuses it, and otherwise `n` is above every number
and the order of insertion is that of the numbers. That the highest number
exists (`MaxFacts`) rests on the well-foundedness of strict inclusion between
finite sets.

In the second part of `BuilderPage_proofs`, `PageImplementsHook` shows that each
step of the page is a step of `RunHook` or leaves its variables alone, so
that the hook's theorems hold of the page. `PageInvariant` (`PageInv`) adds the
canvas: each edit keeps a graph `Sound`, one lemma per operation, what is
submitted is `WellFormed`, and `OneGraph` says why the run is shown on its
graph: until the page is excused nobody but the mounted builder follows or
awaits anything, and what it follows or awaits has the graph that is drawn.
From these: `CanvasInvHolds`, `SubmittedIsWellFormedHolds`,
`RunGraphShownHolds`.

`Blocks_proofs` proves, for any datasets, whether their profiles are true or
not, any column names, texts, lists and tasks and any number of blocks,
`Invariant` (`BenchInv`), `ContractsDescribeHolds`, `GuardedNeverFailsHolds` and
`SchemaRefusalsAreRealHolds`. The catalogue is part of the modules and is not
bounded. Assumed are the types of the datasets, profiles and texts, that `None`
is no name, task, role, column, Boolean or type (`BlocksAssumption`), and of the
conversions that stripping leaves the empty text and what a formula can name as
it is, which is not empty (`TextsAssumption`). `Describes` alone is not
inductive: a wire is `Sound` if, besides, a contract in no doubt knows at least
one column, a contract with a target has a task, and the worker's target is a
column of the frame. `Tells` states the description column by column, each with
what excuses it (`Fits`), because two columns of one name may say different
things. A model is `SoundModel` if the features it remembers, which are column
objects, still say what the executor was trained on: that is why a later
evaluation whose columns are a subset cannot miss one. Each block has a lemma
that the wire it returns is sound (`NormalizeSound` ... `UnionSound`), which
uses that renamed, encoded, joined and united columns have the names of the
frame and that a block reads the names that the engine reads or casts the doubt
`reread`, and one that its refusals and its executor's requirements agree
(`Fair`); `PlaceStep` combines the two, and the last two theorems follow.
`BenchInv` was checked on the run's instance before it was proved.

`Agreement_proofs` proves, for any tokens, identifiers, catalogue, datasets,
bounds and sample size, `AgreementInvariant` (`AgreementInv`: what a user writes
is a sequence of tokens, a graph of sequences of nodes and edges, or a file that
stays the one it was), and from it the three properties of the run,
`SameReadingHolds`, `AdmittedGraphParsesHolds` and `ProfileTellsFrameHolds`. The
assumptions are `TokenAssumption` and `DatasetFilesAssumption` (a sample holds a
record, and an absent option is no option).

*Formulas.* The two programs have no structure in common: one goes from left to
right without looking back, the other is a set of trees of the parts of the
formula. `Rules` states the grammar as a reader knows it, one equivalence per
rule, and `AheadIs` that a method at a token reads the results of the methods at
later tokens and nothing else; the rest is about these two. A reading `r` at `i`
*keeps* a rule if, unless it failed, it ends behind `i` and its tree is one that
the rule has of the tokens up to there. It *finds* a rule, up to a set of tokens
(`AfterUnary` ... `AfterComparison`, what a method of this level would read on),
if every tree that the rule has of a part which begins at `i` and is not followed
by such a token is the tree of `r`, ending there; or `r` failed; or it stands
before an opening bracket. The last case is needed because Python takes a
function in brackets, `(abs)(x)`, where the engine stops; what stops there is
never read on, since no operator is a bracket (`Stuck`, `TurnOnStuck`), and a
trailing comma, which Python takes as well, makes the engine fail (`FailsAt`).
`EngineIsSound` and `EngineIsComplete` prove the two for every method and token,
by induction from the last token: a loop keeps and finds chains (`LoopKeeps`,
`LoopFinds`, which is where left associativity is decided: the longest chain
that ends before the last operator has been read when the operator comes), and
each method has a lemma of each kind. An accepted formula is read to its end, so
that its tree is in the grammar by the first and the only one by the second
(`ReadingsAgree`). The library's induction theorems take an operator as a
parameter, which the provers cannot instantiate: `NaturalSet` states induction
for a set of numbers instead, proved from `WFMin` and
`NatLessThanWellFounded`, and the recursive functions are shown to exist with it
(`TurnsExist`, `ReadingsExist`, `PartsExist`).

*Graphs.* Stripping is injective on the identifiers of a graph without
collisions (`ClearFacts`), so that the job is the graph under other names: a
block is found under its stripped identifier (`SameBlock`), two edges into one
port of the job would be two into one of the graph (`ServedOnce`), and the
stripped form of a set of nodes without an entry shows the same for the job
(`SortsToo`). *Files.* What the two readers conclude from cells, records or
children is compared per format; the sample is never empty and, for the files
that `Tells` keeps, of the kinds that all records are of (`SampleIsFlat`), and a
tag that comes twice is found by both readers (`RepeatedTag`).

Only model-checked: the liveness properties (`RunReturns`, `RunSettles`,
`AcceptedRunsSettle`, `FollowerFinishes`, `QueuedSettles`), which are out of the
prover's reach. The proofs say nothing of code outside the models.

## 7. Not modelled

- CRUD modules (`block`, `model-registry`, `storage`, `worker`): one
  repository call per operation, no state between calls; listings and renaming.
- Pages and components: rendering, the palette, positions and selection, the
  landing page, forms; the display of branches (`branch-graph.ts`). They keep no
  state that another component reads, except where `BuilderPage` names it.
- Numerical results of blocks, artifacts, row counts, hyperparameters: `Blocks`
  knows columns, kinds, missing values, roles, tasks and targets.
- Field rules on one value (ranges, options), semantic types other than numeric,
  detection of the delimiter.
- The pool limit of the database (a `PoolError` is one of the exceptions),
  trimming and expiry of Redis streams (24 hours), the reducer's list of recent
  event ids, logs, metrics and artifacts of the view.
- Three simplifications that no claim rests on: in `PipelineRunner` the API's
  mark of a run as failed comes before `run()` only (that it may come while the
  run executes is what `RunDispatch` and the run `DispatchUnavailable` show); in
  `DatasetLifecycle` an exception in the failed handler ends that handler, not
  the API's process with it; in `WorkflowSaves` a patch of a version finds and
  saves in one step and chooses its number among the next few.
- Configuration, containers, migrations and UI libraries (`components/ui`).
