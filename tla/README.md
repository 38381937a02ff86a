# deep-agent-cli in TLA+

deep-agent-cli is a coding agent for one repository. It keeps sessions in
Postgres, lets a model answer turn by turn with tools, and keeps a semantic index
of the repository up to date in the background with a Merkle tree of the files
and jobs in a River queue. This directory models that program: the parts that
keep state, the algorithms between them, and the ways in which their steps
interleave and fail.

## The system

| Component | State | Operations | Hard because |
|---|---|---|---|
| Job queue client (`jobs/river/client.go`, River) | job rows | unique insert; fetch, complete, fail, snooze, rescue, clean (River) | an insert may be skipped silently; jobs are retried, rescued, discarded |
| Snapshot store (`indexstore/sync_store.go`) | `index_snapshots`, `index_nodes`, `index_file_state` | `SaveSnapshotState`, `LoadLatestSnapshot` | a tree that comes back takes over its old row; a load is three reads |
| Sync worker (`jobs/river/sync_worker.go`) | none of its own | scan, load, diff, save, enqueue | five interactions, each can fail; the retry starts over against what was committed |
| Index worker (`jobs/river/index_worker.go`, `indexing/delta_apply.go`, `embedding_refresh.go`) | in-memory checkpoint, `index_chunks` | check, list, read, merge, replace, mark | reads files later than the scan did; read-modify-write of all chunks; checkpoint dies with the process |
| Snapshot builder (`indexsync/snapshot`) | none | walk, stat, hash | the tree is edited while it is scanned |
| Merkle diff (`indexsync/diff`) | none | `DiffSnapshots` | pruning by hash; files that become directories |
| Chunker (`indexing/chunker.go`) | none | `ChunkDocumentWithPolicy` | limits, overlap and progress |
| Sessions and turns (`runtime`, `session/postgres`) | session, messages; the conversation in the process | create, resume, `RunTurn`, tool rounds, `PersistTurn` | several programs on a session, failures between storing and printing |
| Tool executor and registry, provider mapping (`tool_executor.go`, `tools/registry`, `provider/openai`) | none | look up, execute; map messages and responses | errors become results that must keep their call ID |
| Semantic retrieval (`retrieval`, `semantic_search.go`, `retrieval_hook.go`) | none; reads snapshot and chunks | readiness, embed the query, top-k, rank | readiness comes from another table than the results, at another moment |
| Index status (`indexsync/status`, `index_status.go`, `ListJobs`) | none; reads snapshot and job rows | `GetIndexSyncStatus`, rendering | two reads at two moments; rows that retries rewrite; stamps of different meaning |
| Full rebuild, chunk deltas (`rebuild.go`, `file_discovery.go`, `chunk_delta.go`) | none | `RunFullRebuild`, `BuildChunkDelta` | not called; a second implementation of what the delta application does |
| Tool handlers, guards, metrics, pool | none | | see "What is not modelled" |

How they interact: the `index_repo` tool inserts a *sync* job. A worker process
runs it: it scans the repository, loads the latest snapshot, stops if the root
hash is the same, otherwise diffs, saves the snapshot in one transaction and
inserts an *index* job with the file delta. A worker process runs that job: it
skips it if its own checkpoint names the same snapshot, otherwise lists the
stored chunks, reads the upserted files, merges and replaces all chunks of the
repository in one transaction, and marks the checkpoint. Semantic search reads
the chunks, after a look at the snapshot; `index_status` reads the snapshot and the
job rows. The workers share nothing but the database, the queue and the disk.

What makes the components correct:

* queue: at most one job per identity key in a unique state, hence at most one
  scan and one delta application of a repository at a time;
* store: one active snapshot, complete, and the one the next load finds;
* sync worker: the delta it enqueues is the difference to the snapshot it replaces;
* index worker: applications do not overwrite one another and touch only what the
  delta names;
* both workers: the index does not drift from the snapshot unnoticed, and what is
  on its way arrives;
* chunk table: a row's vector is that of its text, a file's rows are one version of
  it, and the deltas applied add up to what a rebuild would store;
* retrieval: an answer is the best of one snapshot, and not an old one;
* status: what it reports of two moments is true of one of them;
* builder and diff: what a scan recorded is diffed exactly, and a torn scan is
  repaired by the next one;
* chunker: no text is lost, limits are kept, it ends;
* sessions: what is printed is stored, what is visible is the stored history, the
  tool calls the model asked for are answered before it is asked again.

## Modules

Every module has its mutants next to the definition they change, marked
`Mutant:`; they are plausible mistakes in that piece of code and no specification
uses them.

**`RiverQueue`** - the job table of one session and repository. A slot of the
table is a row or free. `Insert` is `EnqueueSyncJob`/`EnqueueIndexJob`: with
`UniqueOpts.ByArgs` on the identity key a second insert is skipped while a job of
the kind is in one of River's default unique states, *completed* among them. The
other actions are River's: what it does when `Work` returns nil, an error or
`JobSnooze(0)` or never returns, and the retention of finished rows. A job that
is cancelled with `JobCancel` (a configuration error) is not modelled: the
workers are built with their dependencies.

**`SnapshotStore`** - the snapshot tables of one scope. A row is named by its tree
(the root hash is taken to be injective and the code makes it unique in the
scope). The statements of `SaveSnapshotState` are operators on the tables, in
order, and one action applies them together. The partial unique index is not deferrable:
`StatementsOK` asks for it after each statement that writes `index_snapshots`, and a
save that breaks it is rolled back.
`LoadLatestSnapshot` is three actions, between which anything may be saved. The
clock is a counter that every save advances, so creation times are distinct and
serve as ids.

**`IndexSync`** - the pipeline. It instantiates both modules above and adds the
repository on disk, the chunks, the executions of `Work`, the checkpoint of each
process and the faults: a call that fails without effect, a commit whose answer is
lost, a cancelled context, a crash. Each action is one interaction with the
outside; an answer that is lost is an error or, when the context ended, a snooze, as in
`isRetryableWorkerError`. The chunks of a file are one value, the content they were cut from;
blank content has none. Contents are told apart by value only, so two different
contents always differ in some chunk. `Embedder` says whether the applier has an
embedder. `NewDeltaApplier` gives it none and only tests set the field; the runs
set it to TRUE, since without it every delta with a new chunk fails until its job
is discarded and there is nothing else to see.
`cause` is a history variable: it records, per path, the step that left the chunks
different from the snapshot. A replacement records *blank* only for an upserted file
that was read blank and had rows, and *raced* only for one whose content was not the
one in the delta's snapshot. The record is emptied when the chunks agree again, unless
a delta that names the path is still on its way, or the delta applied is itself older
than the snapshot at that path (`Older`): such a delta can take the chunks back to the
state the cause explains.
The scan is one step and the diff is by definition here; `TreeScan` is why.

**`ChunkIndex`** - the chunk table row by row, below `IndexSync`, which has a file's
chunks as one value. A scan is one step that saves the tree and may or may not get
its delta into the queue; the application lists, reads each upserted file at its own
moment, reuses or computes vectors, merges and replaces, and any attempt can fail,
commit without an answer, or be the last. A search reads the readiness from the
snapshot and its results from the table later. A chunk's text is a number, its
distance to the query, and a vector is the number of the text it was computed from,
so that a vector under another text shows. `EmbedTexts` takes the vectors of a response
in their order, as the client does: it trusts the provider and ignores `item.Index`. `RunFullRebuild` and `BuildChunkDelta`
are operators, references for the incremental path; the program does not call them.
Taken from elsewhere: one application at a time (`UniqueHolder`), the listed rows
are the stored ones (`NoLostReplace`), the embedder is there (`Embedder` of
`IndexSync`), and a snapshot that is saved is active and completed
(`LatestIsActive`), which is all `GetReadiness` asks of it. Paths are numbers in
their order, and a file has fewer than ten chunks: then the order of
`ApplyStableRanks` by chunk id, a string, is the order of the query by chunk index.
`had` and `flawed` are history: the contents a file has had, and the paths whose
delta was lost, discarded, raced or left blank.

**`IndexStatus`** - `RiverQueue` with the stamps of the rows, the saves and inserts a
sync job makes while it runs, and a status call that loads the snapshot, lists the
rows and folds them. Every action on a job is an action of `RiverQueue` and stamps
the row as River does: `finalized_at` only when a job ends, an error entry with each
failed attempt. The clock ticks with every stamp, so stamps are distinct and the
order of the list does not matter. A row is kept by the cleaner for longer than a
status call takes. `completed_at` of a snapshot is the time of its save. The column
names in `listScopedJobsSQL` are taken at their word: River's schema is not part of
the repository. `success` and `forgotten` are history.

**`TreeScan`** - one scan after the other over a repository that is edited at any
moment. The walk visits listed entries in any order (a superset of WalkDir's
order), records sizes, then hashes file by file. Hashes are the tuples of what
goes into them. Paths are taken as `normalizeSnapshotPath` leaves them (a name with
spaces around it or a backslash in it is not told from the trimmed one), and symbolic
links are left out. `NodeHash`, `CollectSubtree` and `DiffNodeRecursive` are recursive
functions on the tree, the last with the code's pruning; `Upserts` and `Deletes` are
`collectDeltaPaths`. `mirror` is what somebody has who applies every delta. Extensions
and directory names are parameters (`IndexableFiles`, `SkippedDirs`). That the paths are
a finite tree is an assumption: there is a depth, one more than the directory's, and
none is larger than the number of paths.

**`Chunker`** - `ChunkDocumentWithPolicy`, a line at a time, with the conditions of both
loops. A line is its length and
whether it is blank.

**`AgentSession`** - programs on one session: create or resume, read a message,
store it, ask the model, dispatch its tool calls one by one, store and print the
answer. A process without a provider (which is what `cmd/deep-agent-cli` wires
today) echoes. A text is named by its turn and round. Any process can fail at any
call and be killed at any point. `ProviderConversation` is the request with the
retrieval context in it, `MapResponse` drops calls that are not of a function, and
`Execute` with `NormalizeToolResult` is what becomes of a tool's error. `alone` is a
history variable: the processes nobody else wrote behind since they read the session.

**`RiverQueueProofs`**, **`SnapshotStoreProofs`**, **`IndexSyncProofs`**,
**`IndexStatusProofs`**, **`ChunkerProofs`**, **`ChunkIndexProofs`**,
**`AgentSessionProofs`**, **`TreeScanProofs`** - the theorems.
**`MC...`** - the instances for TLC, with one `.cfg` per run.

## Runs

| Run | Shows | Bounds |
|---|---|---|
| `snapshot_store` | `LatestIsActive`, `LatestIsComplete`, `SaveNeverAborts`, `LoadIsWholeOrTorn`, `ParentIsReplaced` | the trees of one path, enough saves for a tree to come back twice, loads that straddle several saves |
| `sync_pipeline` | `DiffBaseIsLatest`, `NoLostReplace`, `DriftIsExplained`, `ReplaceIsIncremental` | one file, two processes, three snapshots, two edits, one fault of any kind: a file is edited and reverted, its old snapshot row taken over, a delta applied again by another process |
| `sync_liveness` | `DriftSettles`, `RequestedScanIsSaved`, `StoreRefinement` | two jobs, two snapshots, one edit, one fault |
| `tree_scan` | `DiffIsExact`, `DeltasCompose`, `QuietScanIsFaithful` | four paths on two levels, three contents of which two have the same size, three edits, three scans |
| `agent_session` | `SurfacedIsDurable`, `HistoryAligned`, `CallsAnswered` | an interactive program with tools and a one-shot one without, three turns, two rounds of up to two calls (one of a tool that is not registered, with and without a call that is not of a function), retrieval context in every request, two faults |
| `chunker` | `Coverage`, `SizeBound`, `CutAdvances`, `Termination` | all documents of up to five lines (blank, short, long) under 64 policies, with zero, negative and too large values |
| `index_status` | `UniqueHolder`, `QuietReportIsSettled`, `SuccessTimesAreTrue`, `HiddenFailureIsBackoff` | 3 rows, 2 kinds, 2 attempts, 2 saves, 10 stamps: a finished, a retried and a new job side by side, a sync that saves and completes between the two reads |
| `chunk_index` | `VectorsMatchTexts`, `FilesAreWhole`, `IndexIsRebuild`, `MergesAgree`, `ReadyAnswerIsRecent`, `AnswerIsBest` | two files of up to two chunks, blank and absent ones, two edits, three saves, two attempts; a `top_k` of zero and one above the cap |
| `lost_delta`, `dropped_delta`, `blank_file`, `queued_answer` | violations, below | |

Bounds named in the modules: `JobIds` (rows), `MaxAttempts` (River's default is 25;
two show a retry and a discard), `MaxTime` (saves), `MaxEdits`, `MaxFaults`,
`MaxScans`, `MaxTurns`, `MaxSaves`, `MaxClock` (stamps). A bound on saves never blocks a run: `MaxTime` is at least
one more than `MaxEdits`, and a scan of a tree that is already the latest saves
nothing. Symmetry is used for jobs, paths and processes in the safety runs of
`IndexSync` and never with liveness. Deadlock is checked where the system never
stops (`IndexSync`); the other modules stop at their bounds, and the
chunker when it is done.

`TypeOK` is checked once per module.

### The main properties

* `DriftIsExplained` is the safety core of the pipeline: whenever the chunks of a
  file are not those of the latest snapshot, a delta that names the file is queued,
  running or about to be enqueued, or one of six causes is on record: the delta was
  *dropped* as a duplicate, *lost* between save and enqueue, *discarded* with its
  job, *skipped* by the checkpoint, the file became *blank*, or it *raced* with the
  read. There is no seventh way. Each cause is set only by the step that causes it, and a
  merge that loses rows or keeps those of a deleted file has none.
* `DiffBaseIsLatest` and `NoLostReplace` say that the two unguarded
  read-modify-write sequences (load/diff/save and list/merge/replace) are safe. No
  lock in the code protects them; the unique insert does, and the mutant that lets
  it overlook running jobs breaks both.
* `StoreRefinement`: the pipeline implements the specification of `SnapshotStore`,
  in which a save always builds on the latest snapshot.
* `QuietScanIsFaithful` and `DeltasCompose`: whatever mixture of moments earlier
  scans recorded, after one undisturbed scan the accumulated deltas give exactly the
  repository. This is the reason why `IndexSync` may take a scan as atomic.
* `IndexIsRebuild`: flawed paths aside, the table is at any moment exactly what a
  rebuild of the latest snapshot, or of the one before the delta under way, would
  store, vectors included. `MergesAgree` says where the two merges in the code
  differ: only for a file that has become blank.
* `ReadyAnswerIsRecent`: the index is called ready before its delta is applied, and
  deleted files can be served; but an answer comes from one snapshot, at most one
  behind the one it names.
* `QuietReportIsSettled`, `SuccessTimesAreTrue`: what a report of two moments is good
  for.
* `HiddenFailureIsBackoff` says which error a report shows, and it is not always the
  latest. `effectiveJobTime` (`status/service.go:192`) dates a failure by the end of its
  row, and a row that waits for its retry has none: it is dated by the start of its
  attempt, and a job of the other kind that failed for good in between hides it. There is
  no other way. `TestGetIndexSyncStatusPrefersLatestFailure` does not see this, because it
  gives the retryable row an end, which River does not.
* `CallsAnswered` is about whole requests, earlier turns included. It names the one
  exception the code has: `RunTurn` appends an answer before it looks at the limit on
  tool rounds (`orchestrator.go:82`), so a turn that reaches the limit ends with calls
  that were never run, and an interactive program sends them without results in its next
  turn. The limit is the only cause, and a failing tool, a resumed session or the
  retrieval context never is one.
* `HistoryAligned` is about a program nobody else has written beside. Of two programs
  on a session each goes on with the history it read when it started; the code never
  reads it again.
* `DriftSettles`, `RequestedScanIsSaved`: progress.

### Fairness

`FairSpec` of `IndexSync` assumes weak fairness, per job, of the workers' steps, of
River's (fetch, finish, rescue, reschedule) and of the job cleaner. River polls,
retries and cleans for as long as a client runs, and a worker goes on with its job
unless a fault ends it. Nothing is assumed of edits, requests and faults, which are
bounded. `FairSpec` of `Chunker` is weak fairness of a sequential function.

### Disagreements

| Run | Where | What |
|---|---|---|
| `lost_delta` | `sync_worker.go:183` | Save and enqueue are two transactions. A failure in between is retried, the retry finds the snapshot current, and the delta is never enqueued. |
| `dropped_delta` | `client.go:240` | Without any fault: a delta enqueued while an older index job exists, in any unique state, is dropped, and the saved snapshot hides it from later scans. |
| `blank_file` | `embedding_refresh.go:104` | A file that became blank keeps its old chunks. |
| `queued_answer` | `client.go:207` | A completed sync job still counts as a duplicate (`UniqueOpts` without states): `index_repo` answers that a sync is "already queued in the background", and none waits or runs. The request is swallowed until the cleaner removes the row. |

## Proofs

The theorems hold for all values of the constants, under the named assumptions of
the modules (`QueueAssumption`, `StatusAssumption`, `StoreAssumption`,
`PipelineAssumption`, `ChunkerAssumption`, `ChunkAssumption`, `SessionAssumption`,
`ScanAssumption`). Those say what the constants are; of substance are only that River's
live states are unique states and, for the status, that *completed* is one too, both
River's default, and that the paths of a repository are a finite tree.

*`RiverQueueProofs`*: `TypeCorrect`, `UniqueHolderTheorem`. `UniqueHolder` is inductive
with the type invariant: only `Insert` brings a job into a unique state from outside,
and it looks first; the other actions move a job within the live states, which the
assumption says are all unique, or out of them.

*`SnapshotStoreProofs`*: `TypeCorrect`, `LatestIsActiveTheorem`,
`LatestIsCompleteTheorem`, `SaveNeverAbortsTheorem`, `LoadIsWholeOrTornTheorem`,
`ParentIsReplacedTheorem`. None of these is inductive alone. The invariant adds that
rows are stored under an id no later than the clock, that only stored rows are
active, that at most one is, that the active row has its entries and every other
row has none, and, for a load under way, that what it has read was the active row
when it began. That the active row is what the ORDER BY picks then follows from its
first key alone.

*`IndexSyncProofs`*: `TypeCorrect`, `DiffBaseIsLatestTheorem`, `NoLostReplaceTheorem`,
`DriftIsExplainedTheorem`, `ReplaceIsIncrementalTheorem`, `StoreRefinementTheorem`,
`QueueRefinement`. The pipeline uses the lemmas and invariants of the two modules above
for its queue and its tables. The unique insert gives mutual exclusion of the
executions of a kind; from that, `ExecInv` says of every execution that what it read
(base, parent, listed chunks) is what is stored until it writes, which is
`DiffBaseIsLatest` and `NoLostReplace`, and the refinement of the store follows from it,
because the store's own save takes the latest row as parent. `DriftIsExplained` is not
inductive: a pending delta explains a difference only as long as its application either
ends the difference or leaves a cause, and a delta that is older than the snapshot does
not end it. `DriftInv` names the deltas beside which the difference must have another
explanation already: those that are older than the snapshot at the path, and those that
have been applied and wait to be marked or completed. The proof is also why `cause` is
kept while such a delta is on its way. It needs of the payloads that an upserted path has
content in the delta's snapshot and a deleted one has none (`PayloadInv`).

*`IndexStatusProofs`*: `StatusTypeCorrect`, `StatusImplementsQueue`,
`StatusUniqueHolder`, `SuccessTimesAreTrueTheorem`,
`HiddenFailureIsBackoffTheorem`, `QuietReportIsSettledTheorem`. The stamps of a row fit
its state only if none is ahead of the clock, which `StatusInv` adds. The refinement
needs the invariant too: the snapshot an index job is inserted for has to be one of the
queue's payloads. `ReportInv` ties the rows to the history: the
completed row of a kind is its last success, and without one that success was forgotten
or there was none; a failed attempt ended after it began; and while a call is between
its two reads, the sync job that has saved since is at work or ended later than the
first read. The maxima of the fold exist because the sets of stamps are finite
(`TimesHaveMax`).

*`ChunkerProofs`*: `TypeCorrect`, `CoverageTheorem`, `CutAdvancesTheorem`,
`SizeBoundTheorem`. The invariant says that everything before the current chunk is
covered and that a cut never finds an empty chunk, so the code's guard for
`end == start` is never needed. `SizeBound` is about the sum of the lengths of a chunk's
lines, a recursive function; that it exists and what one line more adds is shown by
least counterexample (`WFMin` of the library) instead of induction over an operator.

*`ChunkIndexProofs`*: `TypeCorrect`, `VectorsMatchTextsTheorem`, `FilesAreWholeTheorem`,
`IndexIsRebuildTheorem`, `MergesAgreeTheorem`, `AnswerIsBestTheorem`,
`ReadyAnswerIsRecentTheorem`. The first part shows that sorting by rank gives every
element once and in order (`RankedSequence`), so that what the code computes with slices
is a set of rows, and what it stores can be said file by file (`MergedRows`): nothing for
a deleted file, the rows of its content for one that was read and is not blank, the old
rows for every other. `IndexIsRebuild` is not inductive: a retry after a commit that took
effect repeats the delta, and a discarded one is skipped. `JobDelta` adds that the delta
of a job is the difference of its snapshot and the one before, and that a later snapshot,
whose own delta was lost meanwhile, differs from it in flawed paths only, and in at least
one. `WholeFiles` states the rows of a file with their vectors and gives unique keys, which
the order of the search needs. The proof of `MergesAgree` needs that no path is both
upserted and deleted, and nothing else of the delta. The rows are put in order by
`Ordered`, by rank, since the prover takes the `SortSeq` of the TLC module for an unknown.

*`AgentSessionProofs`*: `TypeCorrect`, `SurfacedIsDurableTheorem`,
`HistoryAlignedTheorem`, `CallsAnsweredTheorem`. `IInv` follows a turn: past "accept" the
user's message is stored; at "dispatch" and "reply" the last message is the answer the
program will print; the results so far and the calls still to dispatch are, together, the
calls of that message; every earlier answer of the turn has its results behind it; the
turn's own message is in the conversation exactly once, because a turn's number is new.
For `CallsAnswered` a second invariant, `SettledInv`, keeps the answers of earlier turns:
each has its results behind it or met the limit, whatever is appended later.
For `HistoryAligned` the conversation is the stored one at every step of a program that
is alone, but for an answer that waits to be stored or to be followed by results.
Comparing the stored subsequence with the rows is done by the rank of a position among
those kept, which a message more leaves alone. The two places where the conversation
could be out of step are the ones that matter in the code: a round's results join
together, after the last call, and `providerConversation` inserts its message only when
the user's is the last.

*`TreeScanProofs`*: `TypeCorrect`, `DiffIsExactTheorem`, `DeltasComposeTheorem`,
`QuietScanIsFaithfulTheorem`. The first part is about the algorithms, for every finite
tree. A recursive function on the tree has a value because a node needs its children's
only (`HashExists` and the like, by least counterexample on the depth), and it can then
be unfolded at each node. Induction over nodes is stated for sets (`BottomUp`, `TopDown`),
so that it needs no operator. With it, `HashInjective`: equal hashes at a node that both
trees have mean equal entries at every path below; a path that only one has is never
compared by hash. `CollectIsExact` and `DiffNodeIsExact` then give `DeltaIsExact`:
pruning included, the delta is the difference path by path. What the algorithms need of
their arguments is `Tree`, a directory above every entry, and that is what a scan must
record even while the repository changes under it. The second part is the invariant for
that: what is still to be visited was listed once, has no entry and, its directory being
recorded, nothing below it (`WalkInv`), so that no visit replaces a directory that
entries depend on. `FreshInv` says of a scan nothing has interfered with that what is
listed and no longer pending is recorded as it is on disk; `QuietScan` turns that, from
the root down, into the visible directories and the files in them. The mirror needs
neither: `DeltasCompose` follows from `DeltaIsExact` for any two trees.

Every invariant that is proved inductive was checked with TLC on the bounds of its
module's run first.

The SMT translation of tlapm 1.4.5 relates `Len` and `DOMAIN` by an axiom that holds of
sequences only, but is stated for every value; with a function on another domain in the
same obligation it is contradictory. The proofs were therefore also checked with that
axiom restricted to sequences, and hold there.

Two statements lean on their theorems, because the runs are small: with one file
`ReplaceIsIncremental` cannot show that other files are left alone, and the values of
`top_k` in `chunk_index` are the ones the handler replaces. `Embedder = FALSE` is covered
by the theorems of `IndexSyncProofs` only.

Only model-checked is liveness (`DriftSettles`, `RequestedScanIsSaved`, `Termination`),
which the prover does not do. Every other property of a passing run is a theorem.

## What is not modelled

* `RunFullRebuild`, `BuildChunkDelta` as steps of the program: nothing calls them.
  `DeleteChunksForFile` and `MaterializeChangedFiles` have no caller either.
* `inspect_index`: prints the rows of `ListRepoIndex`, cut to a limit.
* Metrics: counters and an event list under one mutex, which nothing in the program
  reads.
* Scope and safety guards: stateless checks of paths and command lines around the
  operating system's path resolution; they take no part in the interleavings here.
* `JobCancel`: the workers return it for a missing dependency only, and they are
  built with theirs.
* Tool handlers, the OpenAI HTTP clients, the connection pool: calls of
  the outside world without state. What a tool returns and what a model answers is a
  choice in `AgentSession`.
* Validation of arguments that no caller gets wrong, logging, the text of snippets
  and of the status summary.
* The legacy examples in the root directory and `internal/legacycli`: not part of
  the build.
