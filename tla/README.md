# Sediment: a TLA+ verification project

Sediment captures what coding agents do (Inference calls, developer Decisions,
Git activity, CI and compute), stores these *Facts* once and for all in
PostgreSQL, and computes everything else (attribution, rollouts, bundles,
statistics) from a snapshot of them. This directory models the parts of that
pipeline where evidence could be lost, invented or counted twice, checks them
with TLC on small instances, and proves every safety property that holds there
with TLAPS, for every instance.

    tlc -workers 2 -config DeliveryFaults.cfg MCDeliveryBuffer
    tlapm DeliveryPromisesProofs.tla

`PROJECT.json` lists, machine-readably, the components, the runs, the source
lines of every definition, the mutants, the hazards, the findings and the
theorems.

## 1. The system

| Component | State it keeps | Operations that change it | What makes it correct |
|---|---|---|---|
| CLI delivery buffer (`cli/sediment_cli/delivery.py`) | a private directory: `<id>.entry`, `<id>.state`, `<id>.receipt`, `enqueue.lock`, `worker.lock` | `enqueue`, `deliver`, `replay`, `watch`, `_batch`, `_receipt`, `_maintenance` | a payload reported *queued* survives until a receipt accounts for it; acknowledgments are true; limits hold; everything settles |
| Fact store (`packages/core/sediment_core/store.py`, `postgres_schema.py`) | Fact tables, `sessions`, `fact_quarantine` | the `store_*` transactions, `quarantine_fact`, `release_fact`, `quarantine_inference_calls_where`, `read_snapshot` | one row per identity; receipts are true; `sessions` is a function of the Facts; a report is one state |
| Attribution hooks (`cli/sediment_cli/attribution.py`) | the worktree's marker file, `refs/notes/sediment` of the clone and of origin, the notes lock | `mark`, `union-squash-notes`, `stamp`, `push-notes`, `repair-notes` | a mark stays in the marker file or is in a note; notes never lose a Session |
| Gateway, OTLP, CI and compute ingest (`apps/api/.../routers`) | none of its own | one store call per request | the answer to the client is the receipt of the store call |
| Forge webhooks (`routers/forge.py`) | none of its own | store a Push, then refresh its mirror and capture its notes in the background | the Push that first saw a note edge is its source |
| Worker supervisor (`apps/api/sediment_api/workers.py`) | slots, tasks, Push tasks, process groups | `run`, `submit_push`, `rename`, cancellation, budgets, cleanup, `close` | slots are kept until the process group is gone; redeliveries share a task; everything ends |
| Git mirrors and GC (`sediment_derive/mirror.py`, `gc.py`) | bare mirrors, a mirror lock and an observation lock per repository | refresh, capture, snapshot, rename, collect | locks never wait in a circle; nothing in use is moved or removed |
| Derivations (`sediment_derive`) | none: functions of the visible Facts, a boundary and the mirrors | repository identity, CI resolution, attribution, merge membership, attachment, rollouts, recoveries | repositories are not mixed; arrival order does not matter; two programs for one question agree |
| Derived bundles (`sediment_export/derived_bundle.py`, `_record_storage.py`) | private stage directories with their locks, published bundles | claim, sweep, write, seal, publish by rename | a live stage is never swept; a published bundle is whole and is never replaced |
| Schema, roles, migrations; redaction; transcripts; local PostgreSQL; shims; scripts | — | — | see section 8 |

How they interact. Capture hooks and shims call `deliver` with an id and bytes;
the replay worker POSTs them to the ingest routers, which make one `store_*`
call and answer with its disposition; the buffer turns that answer into a
receipt. The Git hooks run beside it and share only the repository. A Push
webhook stores the Push and submits a job to the supervisor, whose child fetches
the mirror, reads the notes that the hooks pushed, and stores Session commit
observations. Queries run in children of the same supervisor. Derivations and
reports open one read snapshot and one mirror snapshot, read Facts and the
quarantine revision, and stamp the revision into their Provenance; exports write
what they derive through private stages and published bundles.

What is hard here: several processes over one directory with HTTP outside its
lock; deaths and power loss between two file operations; lost answers; two
connections that store the same Fact; transactions that commit in another order
than they took their numbers; locks that are never waited for; a note that two
worktrees or two machines replace at the same time; tasks that are cancelled
while they spawn, run or clean up a process group; mirrors that are fetched,
read, moved and collected at once; evidence that arrives late, twice or under a
name that another repository has taken over. `PROJECT.json` lists each of these
hazards at its line together with the property that would catch it.

## 2. Modules

| Module | Models |
|---|---|
| `DeliveryBuffer` | the delivery buffer, one file operation per step |
| `Outbox` | what the buffer promises, as an abstract specification |
| `DeliveryPromises` | the refinement mapping from `DeliveryBuffer` to `Outbox` |
| `DeliveryBufferProofs` | types and the safety of promises, for every instance of the buffer |
| `DeliveryPromisesProofs` | the buffer implements the `Outbox`; acknowledgments, final outcomes, the limits on entries and bytes |
| `FactStoreProofs`, `SessionNotesProofs`, `WorkerSupervisorProofs`, `MirrorWorkProofs`, `BundleStageProofs`, `DerivationsProofs` | the safety properties of the module they are named after |
| `FactStore` | store transactions, sessions, quarantine, snapshots |
| `SessionNotes` | the hooks that turn marks into notes, and the reconciled push |
| `WorkerSupervisor` | the API's tasks, slots and process groups |
| `MirrorWork` | the processes that share the directory of mirrors |
| `BundleStage` | private stages and the publication of a bundle |
| `RepositoryIdentity` | which repository a Fact belongs to |
| `CIResolution` | what CI said about a commit |
| `Attribution` | which call wrote which file of a commit, three ways |
| `MergeMembership` | which merged pull request a commit belongs to |
| `TrainingEvidence` | Decisions, completions, rollouts, recoveries, accepted Sessions |
| `Derivations` | a growing Fact store with its mirrors, over which all of these are read |
| `MC...` | the finite instances: sizes, Fact populations, symmetries |

The derivation modules form a chain, each extending the one it computes from:
`RepositoryIdentity`, then `CIResolution` and `Attribution`, `MergeMembership`
over both, `TrainingEvidence`, and `Derivations`, which gives them state.

Operators named *Mutant* in a comment are plausible bugs. They are used by no
specification; each is put in the place of the definition that follows it to
confirm that a property notices.

### DeliveryBuffer

`disk` is the directory; an entry keeps its payload, its enqueue time and which
part of it no longer reads back. `durable` is the set of images that the disk
may come back with: every rename or unlink adds one, `fsync` of the directory
leaves only the current one. This assumes a file system that journals directory
operations in order; a temporary file that was never renamed is invisible.

`cs` is `enqueue.lock` with the holder's position inside its critical section,
`owner` is `worker.lock`. A section is a sequence of single file operations, so
`Crash`, `PowerLoss` and `StorageError` strike between any two:

- `_receipt`: `FileReceipt`/`LockAndFile`, `ReceiptSync`, `UnlinkEntry`,
  `UnlinkState`, `Settle`;
- `_maintenance`: `MaintainMalformed`, `DropLeftover`, `Retire`,
  `PurgeReceipt`, `MaintenanceDone`, at the start of every deciding section;
- `enqueue`: `EnqueueLock` or `EnqueueBusy`, then one of `AdmitDeclined`,
  `AdmitKnown`, `AdmitFull`, `AdmitPublish` and `PublishSync`, only after which
  the payload counts as promised;
- `_batch`: `CollectLock`, `CollectBad`, `Collect`, then per header `Skip`,
  `Decline`, `Misconfigured` or `Send`, `Answer` (outside every lock), and
  `FileGone`, `FileTerminal` or `FileBackoff`; `BatchDone`, `FinishLock`.

Abstracted: payloads are model values with a size; HTTP answers are the
dispositions that `send_once` makes of them, with `received` recording what the
server may have taken; the exponential backoff is some delay in
`1..MaxBackoff`; headers that tie in the sort are taken in either order.

### Outbox and DeliveryPromises

`Outbox` is a ledger with one line per delivery: `Promise` when the hook is told
`queued`, `Take` when the server accepts a payload, `End` when an outcome is put
on record (`acknowledged` only if the server has the payload), `Forget` when an
ended record is dropped. It has no directory, lock, process or clock.
`DeliveryPromises` reads the ledger off the directory: a promised payload with a
receipt has that outcome, with its own entry it is *owed*, and a promise with
neither would have a state that `Outbox` does not know. `PromisesAreKept` says
that every step of the buffer, faults included, is a step of the ledger or
changes nothing in it. This is stronger than `NoSilentLoss`: it also fixes how a
line may end, and that it is forgotten only after it ended.

### FactStore

One `store_*` call is `Begin`, then the statements of its transaction, then
`Commit` or an answer. `rows` holds committed Facts, `txn` the uncommitted work
of each connection. A Fact keeps its primary key, its natural key, the further
identity columns that a receipt compares (the repository of a Push or an
observation; organization and provider of an Inference call without a
`model_call_id`), its Session, user, observation time and source Push. `InsertKept` and `InsertSkipped` are
`ON CONFLICT DO NOTHING` under unique indexes (an insert waits for an open
transaction whose row it conflicts with); `LookupKnown` and `LookupConflict` are
the read-back of a receipt method, which sees quarantined rows too; `Upsert`
writes the Session rows in sorted order with `Merge` as the
`ON CONFLICT DO UPDATE`. `Draw` takes quarantine revisions when the INSERT runs,
`CommitAppend` makes them visible later. A `Reader` is a Derivation with one
`REPEATABLE READ` snapshot and several statements.

PostgreSQL itself is outside the repository and modelled by what the store
relies on. The five tables of `Tables` cover the five shapes of a store method;
the remaining Fact tables repeat one of them.

### SessionNotes

Each mark gives a Session a new generation in its worktree's `marker`.
`Commit` and `StampAgain` pin HEAD; `StampLock` takes the clone's notes lock,
snapshots the generations and computes the payload; `WriteNote` replaces the
note; `Cleanup` removes exactly the snapshotted generations. `SquashRead` and
`SquashWrite` fold the notes of squashed commits into the markers. `BeginPush`,
`Fetch` or `FetchNothing`, `AdoptRemote`, `AlreadyMerged` or `Merge`, and
`PushRef`, `PushRejected` or `PushFails` are `_reconciled_push` with its one
retry; `repair-notes` reconciles once more before it. `mutex` is never waited
for: `StampBusy` and `ReconcileBusy` give up.

A notes ref is the set of notes commits in its history (which decides ancestry
and fast-forward) and the Sessions that each commit's note names. Steps between
two steps of one process that no other process can tell apart are joined: the
marker lock's sections are single steps because nothing else happens inside
that lock, and the lock of the notes ref is taken together with the first read
under it. `recorded`, `credited`, `delivered` and `owed` are history.

Outside the model: Git's own rewriting of notes on amend and rebase, which does
not take the lock; a Git child that outlives a killed hook; external note
editors, which the documentation excludes; malformed marker rows.

### WorkerSupervisor

One event loop runs the tasks, so an action is what happens between two awaits;
child processes run, fork Git and die at any moment. `pc` is where a task's
coroutine stands, `leader` and `git` are the members of its process group
(a zombie still is one, as for `killpg`), `queryTasks`, `mirrorTasks` and
`pushTasks` are the supervisor's registries, `permits` and `waiters` its
semaphore. `Run`, `SubmitPush` and `Rename` admit; a refused request changes
nothing. `Start`, `Acquire`, `Spawned`, `SpawnFails`, `ChildAnswered` and
`ChildRejected` are `_run` and `_execute`; `SendTerm`, `SendKill`, `Reap` and
`CleanupEnds` are the cleanup of the group, which cancellation does not cut
short. `BudgetExpires`, `CallerCancelled` and `Close` all cancel a task, with
what `Interrupted` makes of that in each state. `Settle` is the done-callback,
which may run after a successor of the task was admitted.

### MirrorWork

Processes that lock with `flock`, one mirror lock and one observation lock per
repository. A refresh job stores its Push (`Deliver`), locks, clones and fetches
(`InitMirror`, `Fetch`), captures the note edges of its Push, stores them one by
one after it let the mirror lock go, and derives. A reader locks the mirrors of
its snapshot in path order. Collection decides from one read of the Pushes,
lists later, and removes each mirror under its lock. The legacy `rename` locks
two mirrors in order; no router calls it. `Kill` ends a child between any two of
its steps and drops its locks. `seen`, `known` and `observed` say which job saw
an edge first and which Push is its stored source.

### BundleStage

An export sweeps what earlier owners left, makes its stage, and creates and locks
its lock file under a pending name before it gives it the name that sweeps look
for; a sweep opens, locks, removes the stage and only then unlinks the name. A
publisher writes the members, seals (syncs) each of them, writes the manifest, looks
again whether there is a bundle at the destination, and renames its stage there;
an exception on the way (`PublishFails`) or a refusal removes the stage.
Every step may be the last: `Crash` kills one run, `PowerLoss` all of them, and of
a published bundle it may take any file that was not synced. A stage whose owner
dies before the lock has its final name holds no payload yet and stays behind
empty; no sweep looks for it. The stage of an interrupted publication stays for the
operator, as the code's comment says.

Two simplifications. Directory operations are taken to be journaled in order, so
that a power loss undoes only the latest of them, which leaves a state that an
earlier loss would have left. A destination that is itself named `sediment-*` is
left out: its stage would carry the prefix of the private ones and be claimed and
swept like them.

### RepositoryIdentity, CIResolution, Attribution, MergeMembership, TrainingEvidence

These are pure operators over a set of Facts `F`, a context and the mirrors `M`.
A Fact is a record with its table, id, capture time and the columns its
derivation reads. A context is built from a whole population up to a boundary
(`as_of`): the names of each identity, the claims on each slug, the slugs that
are unsafe because two lifetimes overlap. It resolves a source to an identified
key, to the legacy key of its slug, or to a reason why neither is safe;
`WitnessContext` is the compact one that the commit query builds. The
organization is fixed: every read is filtered by it.

`CIResolution` orders the attempts of a run into a lineage and gives each commit
the verdict its runs agree on. `Attribution` computes the owner of each commit
and the best scored call per file twice, as the full derivation over all Pushes
and as the query of one commit with its batches and its ancestry shortcut; the
share report is the third reader. Git is a commit graph with dates in order, text
similarity a table. `MergeMembership` joins observed attributions to merges by CI
outcomes and by the heads a pull request had, and says *unresolved* when a mirror
cannot tell. `TrainingEvidence` attaches Decisions, assembles completions and
rollouts, and mines recovery pairs.

### Derivations

The state is a population that is captured in any order (`Capture`, with the
store's keys as `Storable`), a quarantine (`Quarantine`, `Release`) and the set
of mirrors that exist (`Fetch`, `Collect`). The properties compare what is derived
before and after the Fact captured last, at two boundaries, with and without a
mirror, and by two programs that should agree.

## 3. Runs

| Run | Instance | Checks |
|---|---|---|
| `delivery_faults` | 2 deliveries, 1 slot, 1 receipt slot, a sender and a watcher; one death, stop, power loss, failing file operation or damaged file | `NoSilentLoss`, `CapacityBound`, `PromisesAreKept` |
| `delivery_outcomes` | a sender that delivers one id with two payloads, a watcher and a manual replay, a replay window that outlasts one backoff, fairness | `TerminalReceiptWins`, `Settles`, `AckIsReal`, `ReceiptsOutlastAttempts` |
| `delivery_receipt_wins` | one delivery, one death | `TerminalReceiptWins` is **violated** (finding 1) |
| `store_calls` | two connections; lists of Decisions over two Sessions in opposite orders, disagreeing users, replays with fresh ids, reused ids, Facts without natural key, two identities of one Push, observations; fairness | `SessionFollowsFacts`, `SessionsNeverDeadlock`, `ReceiptsAreTrue`, `OneRowPerIdentity`, `ObservationHasSource`, `CallsEnd` |
| `store_reports` | a writer, an operator, a Derivation | `ReceiptsAreTrue`, `ReportIsOneState` |
| `store_revision` | two operators, two reports | `RevisionNamesVisibility` is **violated** (finding 2) |
| `notes` | two worktrees, of two clones or linked to one; one commit and a fault, or two commits and none; two Sessions, two marks, three notes commits | `EvidenceRetained`, `SuccessMeansPushed`, `NotesNeverShrink` |
| `notes_misread` | two clones, one failing `rev-parse` | `EvidenceRetained` is **violated** (finding 3) |
| `workers` | three tasks of every kind, one Push, one slot for queries, one slot and one queue place for mirror work, fairness | `GroupsWithinSlots`, `OneTaskPerPush`, `CloseLeavesNothing`, `WorkEnds` |
| `mirrors` | two Pushes of one repository with one note edge, a second repository, a reader, rename, collection, one killed child, four operations | `CaptureSeesItsFetch`, `SnapshotIsStable`, `FirstSightPersists`, `LocksNeverDeadlock` |
| `stages` | three exports, two publishers of one destination, a bundle of two files | `LiveStageKept`, `PayloadIsFindable`, `PublishedIsWhole`, `NeverReplaced` |
| `derivations` | six populations of up to ten Facts, boundaries 2 and 4, one suspect Fact in each that may be quarantined | `LifetimesApart`, `SourceNeverMoves`, `WitnessesSuffice`, `LaterFactsInvisible`, `RunHistoryIsHonest`, `CommitViewAgrees`, `ReportsAgree`, `MembershipHolds`, `RecoveriesAreReal`, `DecisionsKeepTheirVerdict` |

Why these bounds are enough to be interesting:

- Two deliveries with one slot force `buffer_full`, its receipt, the second
  maintenance, and the eviction of the oldest receipt. One clock tick equals
  the replay window or the receipt retention, so expiry, purge and backoff all
  happen. One fault (`MaxTrouble`) is enough for every leftover that the code
  cleans up; a second delivery of the same id after it is in the instance.
- In `delivery_outcomes` a replay window of two ticks leaves time for a failed
  attempt, its backoff and a second attempt before expiry. One sender suffices:
  admission is serialised by the buffer lock, and the same sender comes back with
  the other payload at every point of an attempt in flight.
- In `delivery_outcomes` receipts outlive an HTTP attempt, as the real constants
  (seven days against seconds) have it: with a shorter retention a receipt could be
  purged and its id enqueued again while the old answer is still travelling.
  `ReceiptsOutlastAttempts` says that the code's limits rule that out. With one
  delivery the receipts of this run are purged only by age; a purge by number needs
  more deliveries than `AckIsReal` and two payloads leave room for, happens in
  `delivery_faults`, and rests on theorem `ReceiptsOutlast`.
- The entries of `delivery_faults` have size 1 under a limit of 2 bytes and one
  entry: the run exercises the limit on entries, and the limit on bytes rests on
  theorem `LimitsHold`.
- Two connections are the least that conflict. The Fact populations of
  `MCFactStore` hold, for every table shape, a replay, a reuse of an id and a
  contradiction; list orders are chosen so that both the sorted upsert and the
  insert-time deadlock occur.
- For the notes, two worktrees with two Sessions make both clones rewrite one
  and the same note, which is where a merge can lose something. Two marks allow
  a Session to be marked again during its stamp; three notes commits are two
  stamps and a merge.
- Three tasks are a running one, one that waits for its slot and one that is
  refused or replaces a finished one whose callback is still to run; with one
  Push, redeliveries meet tasks in every state.
- Two jobs on one repository race for the first sight of an edge; two
  repositories are the least whose locks could be taken in two orders; four
  operations let a job, a second job, a reader and a collection or rename overlap.
- Three exports are an owner and two sweepers that meet at its lock, or an owner, its
  sweeper and a sweeper of that sweeper.
- Each population of `MCDerivations` is built around one difficulty: a reused
  slug, late CI attempts, overlapping and forced Pushes, two merges of one line
  of history with a fork, red and flaky checks, redelivered Decisions. All orders
  of capture are explored, and every subset of a population is visible in some of
  them; the one Fact that may be quarantined adds what depends on hidden rows. Lookbacks, floors, batch
  size and commit limit are small enough for the populations to cross them.
- Symmetry is declared only in runs without liveness properties, over elements
  that the specifications treat alike (worktrees are swapped with their clones).

Deadlock is checked except in `workers`, `mirrors`, `stages` and `derivations`:
there a behaviour ends when its bounded work is done, the API is closed or every
run has ended. `LocksNeverDeadlock` checks in `mirrors` what a deadlock check
would be for.

## 4. Fairness

`DeliveryBuffer`: weak fairness for sections, senders and watchers, and for any
worker in the middle of a batch. A process that holds the lock only does local
file operations, HTTP has a timeout, waiting for the lock ends after a second in
`storage_busy`, and `watch` loops for ever. Time passes however often the lock is
taken (strong fairness of `Tick`, whose guard is false during the short
sections). Nobody is promised `enqueue.lock`: `flock` has no queue, and `Settles`
holds without it because every section, also a sender's, starts with
maintenance. Plain `replay` is run by hand: it need not start, but once started
it goes on.

`FactStore`: strong fairness of a connection's statements (PostgreSQL serves the
waiters of a lock in order) and of the deadlock detector. No fairness for the
clients or for aborts.

`WorkerSupervisor`: weak fairness of what the event loop does next for a task, of
the return of a spawn (a system call that succeeds or fails), of the budget's
expiry (every request has one) and of the kernel's delivery of SIGKILL. No
fairness for children: they may hang, ignore SIGTERM or never answer, and
`WorkEnds` holds all the same.

`SessionNotes` has no liveness property: the code promises none ("it doesn't
guarantee that every concurrent hook completes a note"). `MirrorWork` has none
because `flock` has no queue; `BundleStage` and `Derivations` promise no progress.

## 5. What is proved

Every theorem is about every behaviour of a specification and every value of its
constants, under the named assumptions of the module that declares them
(`ProcessAssumption`, `StageAssumption`, ...): kinds of processes are disjoint,
limits are naturals, "none" is no value of any kind. TLC evaluates these
assumptions in every run. Where a theorem needs more, it says so, and the text
below says why the code allows it. The theorems keep the names of the
properties they establish in `PROJECT.json`.

All proofs have one shape. The property is not inductive; the module
defines an invariant that is (one named conjunct per idea), proves that the
initial states satisfy it and, with one step per action, that every step keeps
it, and concludes.

### The delivery buffer

`DeliveryBufferProofs`: `TypeCorrect` and `NoLoss`, without hypotheses.

- `TypeOK` needs `TInv`: filing an answer needs a header in hand (`Busy`), and
  admission needs a request and a sender (`Requested`).
- That the visible directory accounts for every promise does not survive a power
  loss, so `LInv` says it of every image in `durable` (`DurSafe`), and `Ordered`
  says what the positions inside a section rely on: an entry is unlinked only
  with its receipt in the directory; admission decides when every earlier change
  is durable (so that "already buffered" may be answered without an fsync); at
  the end of a publication the payload is in the directory.

`DeliveryPromisesProofs` builds on them. Lemma `EffectNext` shows that each of the
buffer's many steps has one of nine effects on the directory and its history
(`Quiet`, `Retouched`, `Unlinked`, `Published`, `Filed`, `Purged`, `Promises`,
`Takes`, `Loses`), and `AttemptsNext` that an attempt either goes on as it was or
begins from the entry as it is; everything else is proved per effect. `PInv` adds
to `LInv` what a deciding section has established (`Decided`, `Tidy`), that every
durable image reads back the promised bytes (`DirInv`), and that an attempt in
flight still stands for the entry it was read from, or for a receipt on record
(`WorkInv`).

- `OutcomesAreFinal` (`TerminalReceiptWins`) in the behaviours that are `Undisturbed`
  throughout: no process dies and no file operation raises. Files may still be
  damaged. Finding 1 shows that the hypothesis is needed.
- `LimitsHold` (`CapacityBound`), without hypotheses: no image that a power loss may
  leave holds more than `MAX_ACTIVE_ENTRIES` entries or `MAX_ACTIVE_BYTES` bytes.
  The bytes are a library sum, which takes the entries one after the other in an
  unknown order. `TallyExists` shows that such a recursion has a solution,
  `TallyAtAny` that the order does not matter, `TallyOfPart` and `TallyOfOneMore`
  what removing and adding an entry does to the sum.
- `AcknowledgmentsAreReal` (`AckIsReal`) and `BufferImplementsOutbox`
  (`PromisesAreKept`) in the behaviours that satisfy `PurgesSpareAttempts`: no receipt
  is purged while the very attempt that it answers is in flight. All other purges, by
  age and by number, and all deaths, power losses, failing operations and damage
  are included, for any number of deliveries. The hypothesis cannot be dropped: a purge
  during the attempt lets the id be queued again with other bytes, and the old
  answer, which is filed under the id alone, is taken for theirs.
- `ReceiptsOutlast` (`ReceiptsOutlastAttempts`) says where that hypothesis comes
  from, if an attempt is shorter than the retention (`HttpTimeout <
  ReceiptRetention`, seconds against seven days): while nothing has died, the receipt
  of an attempt in flight is purged only to make room for more than `MAX_RECEIPTS`
  (2048) outcomes recorded since that attempt began. Maintenance purges the aged
  first, then the oldest. `TimeInv` carries it: an attempt in flight is not
  older than its timeout, and the receipt of its delivery not older than the attempt.
- `AcknowledgmentsAtPace` and `OutboxAtPace` put these together: the same two
  properties from the limits alone, while nothing dies and no attempt outlasts
  2048 newly recorded outcomes (`FewOutcomes`).
  With deaths the limits are not enough: a process that dies between the rename of
  a receipt and the unlink of its entry leaves both, and `_batch` may attempt that entry
  before the next maintenance, so that the receipt is older than the attempt. Hence
  the hypothesis on the behaviour in the general form.

### The Fact store

`FactStoreProofs`, without hypotheses: `RowsAreUnique`, `ObservationsKeepTheirSource`,
`ReceiptsStayTrue`, `SessionsFollowFacts`, `UpsertsNeverDeadlock`,
`ReportsAreOneState`. `StoreInv` says of each open transaction which of its Facts
are placed, skipped because of a row that is or will be retained, still fresh
or already summed up in a Session row (`TxnGood`), and that open transactions hold
rows that do not conflict (`Apart`). The Session row is the summary of the
committed Facts because `Merge` of two summaries is the summary of the union
(lemmas `MergeSummary`, `MetadataSummary`, from `Extremes`). For the deadlocks, in a smallest
circle of waiting transactions an upserter waits for a Session greater than all
it holds, and nobody waits for an upserter's Session while inserting.

### Hooks and notes

`SessionNotesProofs`: `EvidenceIsRetained`, `SuccessIsTrue`, `NotesOnlyGrow`, under
`MaxMisreads = 0` (no `rev-parse` fails on an existing ref), which finding 3
shows to be needed. Any other Git command may fail, and hooks may die. `NotesInv` says
that a history which contains a notes commit contains its ancestors and what they
name (`Descended`), what a stamp (`HookGood`) and a push (`PushGood`) know of the
ref they read, and that each clone's mutex has the owner its hooks imply.

### Supervisor, mirrors, stages

- `WorkerSupervisorProofs`: `SlotsBoundGroups`, `PushesShareTheirTask`,
  `CloseIsComplete`. `SupervisorInv` counts: a process group lives only while its
  task owns it, an unfinished task is registered with its kind, the free permits
  and the mirror tasks that own a group add up to the slots, and a Push has one
  registered task however late the callbacks run.
- `MirrorWorkProofs`: `SnapshotsAreStable`, `CapturesSeeTheirFetch`,
  `FirstSightsPersist`, `LocksAreOrdered`. `MirrorInv` ties each position of a child
  to the locks it holds; a reader takes its locks in path order, so that in a
  circle of waiting processes the greatest lock has no waiting holder.
- `BundleStageProofs`: `LiveStagesAreKept`, `PayloadStaysFindable`,
  `PublishedStaysWhole`, `DestinationIsFinal`. `StageInv` follows a lock file (the
  inode, not its name) through the sweeps that have it open: a living owner
  keeps its inode locked from before it has the name that sweeps look for.

### The derivations

`DerivationsProofs` proves all ten properties of `Derivations`, without hypotheses.
The state is simple and `StateInv` with it: the visible Facts come from the
population, are finitely many, and no two of one table have one id (`Unique`);
mirrors are those of the population. The work is in the lemmas about operators,
in the order of the modules:

- *Contexts.* Every step from Facts to a key is monotone in the right
  direction: more Facts make more names, claims and unsafe slugs, and a
  key goes from resolved to declined, never to another key. `SourcesNeverMove`,
  `RunHistoriesAreHonest` and `MembershipsHold` follow by comparing the context with
  the one before the last Fact; `LifetimesStayApart` from what makes a slug unsafe.
- *Witnesses* (`WitnessesAreEnough`, from lemma `Witnesses`). Each fact about names,
  claims and unsafe slugs needs at most one source in each state with the Push it
  was made at, and the compact context keeps one of each.
- *Boundaries.* `LaterFactsStayInvisible` needs one congruence lemma per operator
  of the view: on two sets of Facts that agree up to the boundary it returns the
  same rows.
- *Two programs for one question.* `ReportsStayInAgreement` splits the attributions
  by the owner of the commit. `CommitViewsAgree` is the longest: the first Push that
  lists a commit is found in batches (`OwnerFound`, `OwnerWithWitnesses`), no range is
  asked for once the heads of a batch precede the commit (`PrecedingHeads`), and the
  narrow read has every call of the owner's windows (`OwnedCalls`). It holds for
  every history, batch size and commit limit.
- *Pairs and lists.* `RecoveriesStayReal` and `DecisionsCount` rest on what is the last
  of a finite set of outcomes or Decisions.

The assumptions on the constants are those a caller can rely on: ids, times and
attempts are naturals, no Fact is "none", a merge has a pull request, objects are
commits (`PopulationAssumption`, `BoundaryAssumption`); the parents of a commit are
commits with smaller numbers (`GitAssumption`); windows and limits are naturals, and
lookbacks, commit limit and batch size not zero (`PolicyAssumption`,
`RecoveryAssumption`). Similarities and floors may be anything: no theorem depends on
how calls are scored.

`Ancestors` and the sums are recursive functions. The provers have no induction, so
the lemmas about them use what the library does state for every set: each set of
naturals that is not empty has a least member (`LeastNumber`). A counterexample would
be a smallest one, and a smaller one contradicts it. That the recursion has a
solution at all is proved as well, from the intersection of the closed sets
(`AncestorsExist`) or by extending the solution for smaller sets (`TallyExists`).

### Only model-checked

`Settles`, `CallsEnd` and `WorkEnds`: liveness under fairness is beyond the prover, as is
`ENABLED`. Every other property that a run finds to hold is stated by a theorem. The
theorems of the buffer other than `TypeCorrect`, `NoLoss` and `LimitsHold`, and the three
about notes, have the hypotheses named above, without which they fail (findings 1 and 3,
and the receipt purged during its attempt). `notes` has `MaxMisreads = 0`.
`delivery_outcomes` has no deaths, a retention longer than an attempt and one
delivery, and so satisfies the hypotheses of the theorems on the properties it
checks. `delivery_faults` satisfies none of them: it has two deliveries, one receipt slot,
deaths, and a retention as long as an attempt. `PromisesAreKept` holds there all the
same because there is one payload, so that no answer can be taken for one to other
bytes; that case is checked by `AckIsReal` in `delivery_outcomes`. The type invariants are
proved and checked by no run of their own.

## 6. Findings

1. *A terminal receipt can be replaced* (`delivery_receipt_wins`). A comment in
   `_batch` says "Its terminal receipt wins". The code tests only whether the
   entry is still there; a sender killed between publishing a `declined` receipt
   and unlinking the entry leaves both, and the worker's answer then replaces the
   receipt. Without a death the comment holds (`delivery_outcomes`).
2. *One revision, two visibilities* (`store_revision`). The design says that the
   quarantine revision describes visibility. Revisions are drawn at INSERT and
   become visible at COMMIT, so that two snapshots may carry the same greatest
   revision and differ in a smaller one.
3. *A failed read is taken for a fresh machine* (`notes_misread`). `_git`
   returns `None` for a missing ref and for any failure. A `rev-parse` that fails
   on an existing notes ref makes the reconcile adopt the remote's ref over the
   local one; notes not pushed yet are dropped, and their markers are gone.

Observations that are no disagreement with a document: an orphan `.state` stays
after a death between two unlinks; one malformed receipt stops all maintenance,
and with it expiry, until someone removes it (the code refuses to delete on
evidence it cannot read); concurrent lists of Decisions in opposite orders can
deadlock while inserting, which PostgreSQL breaks, but never in the upserts.

An export that dies between `mkdir` of its stage and the rename of its pending lock
leaves an empty directory that no sweep finds; it holds no payload.

## 7. Plan

Done: the buffer with its abstract specification, the store, the hooks, the
supervisor, the mirrors, the stages, and the derivations of identity, CI,
attribution, membership and training evidence, all model-checked, and theorems for
all their safety properties.

Next: abstract specifications of the store (a set of Facts with receipts) and of the
supervisor (a bounded set of jobs), with the detailed ones shown to implement
them; the transcript upload.

## 8. Not modelled

- Formatting, redaction patterns and payload normalisation: properties of strings.
- DDL, roles and migrations: PostgreSQL's work behind one advisory lock.
- Statistics, trainer formats, survival and retention scores, compute timing,
  context retrieval, the precision harness: numeric or textual functions of one
  bundle or of file contents, where a reference definition would repeat the code.
- In the derivations: the order of rows, counts of what was skipped, default
  boundaries (a boundary is always given), more than one organization.
- The clone-URL policy and the parsing of what Git prints.
- Installation, `doctor`, the UI and the local PostgreSQL launcher: process I/O.
- The shims and the LiteLLM callback, which keep no state beyond a call.
- Transcript upload, whose cursor and snapshot files are a candidate for a later module.
- Reading and validating bundles: no state is changed.
