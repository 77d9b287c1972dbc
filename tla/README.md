# EPHI: TLA+ specifications

TLA+ models of EPHI: what happens when commands, workers, publications, deliveries,
preparations and people interleave, fail, repeat themselves, or come back late.
The models are translated from the Python and SQL sources; documents are only
quoted where a property states what they promise.

    tlc -workers 2 -config WorkerQueueSafety.cfg MCWorkerQueue   # one run
    tlapm WorkerQueueProofs.tla                                  # one proof module

`PROJECT.json` lists every run, what each definition was translated from, the
mistakes each property was shown to catch, and the hazards.

## 1. The system

EPHI is a decision-support application for equipment problems. PostgreSQL
holds its authority; everything else is a stateless service around it, a
NiceGUI interface, or a pure computation.

| Component | State | Operations | Interacts with | Module |
|---|---|---|---|---|
| command core (`application/transactions.py`, `infrastructure/postgresql.py`) | aggregates with versions, command receipts, audit and outbox events | `execute`, `seed_aggregate` | every command service; the authorization authority | `CommandCore` |
| offline store (`infrastructure/sqlite.py`) | the same in one file, with outcome groups | transactions of threads and processes, move of embedded values | command core, value ledger | `OfflineStore` |
| worker queue (`infrastructure/postgresql_worker.py`) | job rows with lease, epoch and attempts; receipts of applied effects | `enqueue`, `claim`, `heartbeat`, `complete`, `fail`, `defer`, `cancel`, `commit_local_effect` | handoff, RCA materialization; writes aggregates | `WorkerQueue` |
| handoff (`application/handoff.py`, `infrastructure/handoff.py`) | decision snapshots, intents, delivery status, attempt ledger | `create_decision_snapshot`, `create_handoff`, `dispatch_once`, `reconcile_unknown` | worker queue (by calls and by reading and writing its tables); outbox events; an external channel | `DecisionSnapshots`, `HandoffDelivery` |
| episode workflow and decision loop (`application/workflow.py`, `application/decision_loop.py`) | one aggregate per Episode: work state, owner, cycles with checks, actions, recovery plans, closures | claim, acknowledge, initialize, check, action and plan commands, close, reopen | command core; recovery evaluator | `EpisodeDecisionLoop`, `ActionRecordRetry` |
| next-check planner (`application/planner.py`) | none: a plan of one view | `plan` | Episode reads, decision loop | `NextCheckPlanner` |
| read heads and query snapshots (`infrastructure/postgresql_reads.py`, `postgresql_o3.py`) | immutable revisions, published heads, retained snapshots | publish, read a bundle, start and continue a query, expire | attention and episode reads, planner | `ReadHeads`, `QuerySnapshots` |
| attention, episode and asset reads (`application/attention.py`, `episodes.py`, `investigation.py`, `assets.py`) | none | composed views, lists, Asset 360 as of a cutoff | read heads, planner, history, RCA | `EpisodeInvestigation`, `AssetHistory` |
| comparable history (`application/comparable_history.py`) | none | cases known at a cutoff | read heads, source manifests | `ComparableHistory` |
| RCA analysis and materialization (`application/rca.py`, `rca_materialization.py`) | a status aggregate per query | analysis; `enqueue`, `status`, `process_one`, `read_result` | worker queue, artifact store, Episode reads | `RcaAnalysis`, `RcaMaterialization` |
| artifact store (`application/artifacts.py`, `infrastructure/artifacts/`) | content-addressed files, catalogue rows | `write_and_register`, `register_existing`, read | RCA materialization, backup | `ArtifactStore` |
| source ingress (`infrastructure/postgresql_source.py`) | source snapshots, one capability row per key | `publish`, `get_capability` | reads, operations | `SourceIngress` |
| outcome value ledger (`value/`) | outcome groups, value revisions, claims, reviews | enter, correct, void, review, report as of a cutoff | command core | `ValueLedger` |
| family center (`application/family_center.py`) | gate evidence, adjudications, promotions | record, judge, promote, derive | command core, source reality | `FamilyCenter` |
| recovery evaluator, advisory workflow (`recovery.py`, `advisory/`) | in memory only | submit and evaluate; change, checkpoint, restore | decision loop | `RecoveryEvaluator`, `AdvisoryWorkflow` |
| operations (`application/operations.py`, `operations_status.py`) | none | the cockpit, the status command | all authorities | `OperationsHealth` |
| backup (`o9_operations.py`) | backup directories, targets, manifests | back up, verify, rehearse, reconcile | the database, the artifacts | `BackupRehearsal` |
| release slots (`release_slots.py`) | a state file: current, previous, generation | initialize, register, verify, select, roll back | deployment | `ReleaseSlots` |
| release identity (`release_identity.py`, `tools/prepare_release_inputs.py`) | inventories and install inputs | prepare, preflight | checkout, host | `ReleaseIdentity` |
| downstream composition (`downstream/`) | a running composition | validate, compose, close, preflight | providers of the deployment | `DownstreamComposition` |
| configuration and transport (`config.py`, `config_preflight.py`, `transport.py`) | the environment, the origins of a start | preflights, start, the gate of a request | composition, interface | `StartUp` |
| interface (`ui/`) | the page of an Episode | loads, commands, retries | all services | `EpisodeView` |

What is hard in them, and what must hold nevertheless:

* **Commands and queues.** The same command runs twice at once, or again after a
  lost acknowledgement; leases expire under a working worker, who does not know;
  a delivery is spread over seven transactions with a send in the middle that
  cannot be undone. Effects happen once, answers are the committed ones, and
  what the tables say was delivered was delivered.
* **Reads.** An answer is put together from several reads while what is read
  moves: a plan, a composed view, a page of a list, a cockpit, a backup. It must
  be of one instant, or be refused; and an answer as of a cutoff must be what
  was known then.
* **Episode and records.** Sequences of legal commands are long: evidence before,
  during and after the action it is judged by, corrections of corrections,
  gates that expire beneath a promotion. Nothing counts twice, nothing that was
  recorded is rewritten, no state is a dead end, and what is called recovered,
  validated or qualified has earned it.
* **Files and deployments.** Writers die and hosts lose power around a rename;
  people edit a checkout while a release is prepared from it; a foreign provider
  raises in the middle of a composition. What was acknowledged survives, and
  what passes a preflight is what the inputs name.

## 2. The modules

`FencedJobs` and `VersionedCommands` are abstract: what a fenced queue and what
the command core promise. `WorkerQueue` implements the first, `CommandCore` and
`OfflineStore` the second. `HandoffDelivery` and `RcaMaterialization` are built on
an INSTANCE of `WorkerQueue` and use its operations as they are;
`ActionRecordRetry` extends `CommandCore`. The remaining modules stand on
atomic commands, since `CommandCore` is shown to give them, and on the tables of
each other only through what they read.

`EpisodeWork`, `ReadSide` and `Records` compose the components that share no state
with one another, each as an INSTANCE with constants and variables of its own
(`EpisodeWork` extends `EpisodeDecisionLoop`, its first one): a step of the composition is
a step of one component, and the properties are stated of all of them at once.
They are what the theorems are about.

Each `MC...` module is a small instance (`HandoffDelivery`, `CommandCore`,
`ActionRecordRetry` and `RcaMaterialization` need none). What shares no state would be checked alone anyway,
so in `MCEpisodeWork`, `MCReadSide` and `MCRecords` the variable `focus` says which
component a behaviour runs, and in which of its instances: their steps are steps of the
composition, and the state space is the sum of the components' and not the
product.

In all modules, definitions marked *Mistake* are plausible errors: with one in
the place of the definition that comes after it, TLC finds a property violated.

### Commands, jobs and deliveries

`WorkerQueue`: `job` is the table of rows, `leases` every lease object that a
claim ever returned (workers hold them in memory and go on using them),
`effects` the receipts, `aggregate` the aggregate that effects write, `told`
what callers of `enqueue` were answered. A row keeps how far its lease and its
delay lie ahead of the database clock, and `Tick` brings both nearer. `enqueue`
is two steps, the locked SELECT and the INSERT, because a row that does not
exist locks nothing; the other operations lock the rows they decide on and are
one step each. The crash of a worker is a lease that nobody uses again, and a
lease that was superseded may be used at any later time.

`CommandCore`: each call has a program counter over the statements whose results
the code acts on. PostgreSQL's row lock on the aggregate and its unique index
on the command key are `rowLock` and `keyLock`. The three ways back out of a
race (a version mismatch, a taken command key, a taken aggregate key), the lost
acknowledgement of a COMMIT and the death of the caller are actions of their
own. `granted` is the subject's authorization, which comes and goes.

`OfflineStore`: adapters own a connection, threads share it under a lock, BEGIN
IMMEDIATE admits one writer to the file, and an older release left embedded
values that opening moves. Groups are read under the lock; the reads outside it
are left out (section 3).

`DecisionSnapshots` and `HandoffDelivery`: the first makes snapshots of a moving
Episode and projects intents out of its outbox; the second takes an intent
through delivery row, job, binding, dispatch, ledger and reconciliation, with a
program counter per dispatcher and operator. `mark_delivery_dispatching` and
`commit_delivery_effect` check the lease in one statement and write in others
without a lock on the job row, so each is two steps. The channel may fail,
answer, or deliver and not answer; what reached the recipient is history.

`RcaMaterialization`: the one job and the one effect key of a query, the status
row, and a program counter per caller of `enqueue` and per `process_one`.
Anything may raise between two transactions, and `GiveUp` stands for the two
`except` branches whose own exceptions are dropped. `exact` says whether the
Episode still is at the view that the query names. The loader of facts is a
parameter of the code: it is taken to read the Episode as it is, and evidence
only from the sources it names.

### The Episode and what is read of it

`EpisodeDecisionLoop`: one aggregate as a record per cycle; a command is one
step, a refused command has none. An observation is a sample, an instant, an
outcome, and whether it qualifies. Cycle names are numbers, so that a caller's
name can coincide with a generated one, which the code provides for.
`ActionRecordRetry` puts the clock back in where the code puts it into the
hashed payload of a command.

`NextCheckPlanner` computes a plan step by step (eligibility, scores, rounds) from
one read, and compares views at the end. `ComparableHistory` and `AssetHistory`
let rows commit late, under clocks that differ, beneath a reader of several
statements. `EpisodeInvestigation` is a reader that composes four components,
each of which fails alone. `RcaAnalysis` feeds facts and claims one by one and
compares what a read and what a job say, and what they said before.
`EpisodeView` is one event loop: what a handler does between two awaits is one
step, and answers come in any order, late, or not at all.

`ReadHeads`: publishers compute over a head and advance it by compare-and-set;
readers take a bundle in two statements of one snapshot; `history` has the
instants that were. `QuerySnapshots`: a query is answered once and handed out
page by page; time, subjects' security revisions and the projection move
meanwhile.

`SourceIngress`: locate, insert, conditional upsert, each a step of two
publishers whose clocks only meet in the database. `OperationsHealth` reads
queue, source, artifacts, gates and permissions one after the other while each
moves; in one instance only some of them move.

### Records, files and deployments

`ValueLedger`: revisions of value, claims and reviews are only added, each at the
instant its command read from the clock of its host, and no host need agree with
another; reports are as of a cutoff. `FamilyCenter`: gates are recorded, of the
present or of earlier, judged, superseded and expire; the state of a gate is
derived whenever somebody looks. A command or a look takes the workspace, the
source and the clock of its host at one instant, where the code reads them one
after the other (`family_center.py:513` and `:523`). `RecoveryEvaluator` takes observations in any order,
with any evaluation cutoffs; `AdvisoryWorkflow` changes by version, and
checkpoints put all of an episode back, the version included.

`ArtifactStore`: temporary file, write, sync, lock, rename, directory sync and
catalogue row are steps; writers die and the host forgets what was not synced.
`ReleaseSlots`: the same for the state file of the selection, with a generation
that is compared under a lock. `BackupRehearsal`: an exported database snapshot,
row digests, copies of artifacts, the dump and at last the manifest, while the
source goes on; then verification, restoration into a target and review.

`ReleaseIdentity`: a preparation reads a checkout at seven instants while people
edit and commit (the four git commands of one identity,
`prepare_release_inputs.py:64`, and the three reads of an inventory, `:100`, are one
instant each, and no property depends on what lies between them); inputs are carried to a host that changes; a preflight compares
the installation with its inventory and the inputs. `DownstreamComposition`: the
providers are foreign, each call can raise, and the policy can be another one by
the time it is used. `StartUp`: an environment is set piece by piece, two
preflights and the start judge it, the composition at the start can fail although
they passed, and every request passes a gate.

## 3. What TLC checks

Every property of a passing run is also shown to fail when a plausible mistake
is made in the code, most of them with several. Where a property joins those of
several components (`AnswersAreAsKnown`, `QualifiedIsEarned`, `RecordsStand` and the
like), `mutants` in `PROJECT.json` has one for each of its parts.

| Run | Modules | Shows |
|---|---|---|
| `queue_safety` | `WorkerQueue` | fencing (`OneGrantPerEpoch`, `LapsedStaysLapsed`), exactly-once effects, none on a canceled job, agreement of enqueuers, and that the queue implements `FencedJobs` |
| `handoff` | `HandoffDelivery` | what reads as delivered was (`DeliveredIsTrue`), delivery, ledger, receipts and queue agree (`TablesAgree`), ended jobs and ledger entries stay (`NothingTakenBack`), every delivery job ends |
| `rca` | `RcaMaterialization` | a READY row has the registered result of its view and a STALE row a view that is gone, what was reported stays, a promised result is answered |
| `commands` | `CommandCore` | single effects, true answers, no conflict with oneself, nothing for the revoked, implements `VersionedCommands`; every call ends: row lock and command key cannot deadlock |
| `episode_work` | `EpisodeWork`: `EpisodeDecisionLoop`, `NextCheckPlanner`, `ComparableHistory`, `RcaAnalysis`, `EpisodeInvestigation`, `EpisodeView`, `AssetHistory` | no dead end and one cycle at work (`WorkStaysUsable`), recovery progress is what the assessments say, closures are earned, locked terms and closed cycles stand, plans are of the Episode as it is, answers as of a cutoff are what was known, composed views are coherent, and neither comparisons nor the page go back |
| `read_side` | `ReadSide`: `QuerySnapshots`, `ReadHeads`, `SourceIngress`, `OperationsHealth`, `OfflineStore`, `RecoveryEvaluator`, `AdvisoryWorkflow` | pages are one answer, heads are linear and bundles were instants, the capability and what operations hears are earned, the offline file is whole and takes the steps of `VersionedCommands`, evidence counts once and a version is one content |
| `records` | `Records`: `ArtifactStore`, `ReleaseSlots`, `ValueLedger`, `FamilyCenter`, `DecisionSnapshots`, `BackupRehearsal`, `ReleaseIdentity`, `DownstreamComposition`, `StartUp` | acknowledged artifacts and selections survive and agree, no value counts twice that its host could know of, what is called qualified, released, composed or ready has earned it, snapshots and reports stand, a rehearsal that is VERIFIED has one instant |

Bounds. Two actors on one key are what a race needs; a second key, aggregate or
entity shows that they do not disturb each other. Attempts, versions and
generations go to 2 or 3: the first, the last, and one between where the code
distinguishes them. Leases of two ticks can be renewed before they expire; the
RCA worker never renews, so one tick serves there, with the code's three
attempts. In the Episode three observations are enough for progress, a reset and
a duplicate; three cycles for a name to be generated, to collide, and to be
generated past the collision. In the read side three revisions let a publisher
lose twice; source drafts include two contents of one partition, an empty one and
one from before migration 011. Clocks of two or three instants have a before, an
at and an after of each cutoff. In the value ledger and the
family center hosts are up to one instant ahead of the slowest; three values of two categories, or of one with
a review, or two with two reviews, hold a second first, its correction and a void. Four templates contain a tie, a dependence on
the context, a prerequisite and a redundancy, one of each that the planner
treats apart. A preparation is edited once, which at seven reads is enough to
divide any two; a host drifts twice, to change and to change back. Of two backups
into one directory the files may be damaged, of one also its dump and its manifest;
two snapshots of decisions are two texts for one version. Environments
differ from the default in up to three settings, as no judgment relates more.
Symmetry is only used among those who compete under the same name, and in no run
that checks liveness. `CHECK_DEADLOCK FALSE` stands only where the bounds
(clock, cycles, attempts) are what stops the model, or where the component
really is at its end, as a closed Episode that may not be reopened.

Fairness. In the RCA materialization time passes and every worker goes on
with its calls, or dies and polls again: `process_one` is meant to be called in
a loop, and nothing else ends an expired job. That an attempt succeeds, or even
gets to its error path, is never assumed, nor that a caller finishes `enqueue`:
leases expire and attempts run out. In the handoff, creators, dispatchers and
operators go on with their steps unless they crash, and which answer the channel
gives is left open; its liveness property supposes that crashes stop some time.
In the command core, calls go on, but are never assumed to fail, which would free
them from any wait; locks are strongly fair because PostgreSQL grants a lock to
its waiters in turn. The other modules state safety only: their operations are
calls that people and schedulers make, and nothing in the code promises that
they are made.

### Disagreements

These runs are expected to find a violation; each is a statement of the
repository's own documents or comments that the code does not keep.

| Run | Statement | What happens |
|---|---|---|
| `handoff_stranded` | delivery is at-least-once | a job is claimed before its intent is bound to it, and given up without an attempt |
| `handoff_blind_resend` | UNKNOWN is never blindly resent | a lease expires between the scan and the claim; the delivery, still DISPATCHING, goes out again |
| `handoff_ambiguity` | ambiguous outcomes remain UNKNOWN until reconciled | the claim that dead-letters a job leaves its delivery DISPATCHING for ever |
| `episode_citation` | a closure requires post-action evidence of its PASS plan | evidence from before a contradiction that reset the plan is enough |
| `action_retry` | same command, same receipt | the service puts the present into the hashed payload of a retry |

### What the properties had to leave room for

Stronger forms of some properties do not hold. Where a module states one, it has
no run; otherwise the property says exactly how far the code goes.

* `NoCanceledDelivery` (`HandoffDelivery`): the effect is committed under an
  unlocked check of the lease. `Reconcilable`: an overlapping reconciliation uses
  up an attempt number, and with three attempts later ones fail on it.
  `DurationObserved` (`EpisodeDecisionLoop`): a plan's minimum elapsed duration
  is stored and never read.
* `ReplayIsStable` (`ReadHeads`), and likewise in comparable history and Asset 360:
  a row is stamped when it is inserted and seen when it commits, so the same
  cutoff can be answered differently a moment later. A cutoff of now is the
  default of the interface, and a future one is accepted. In comparable history
  a source manifest that arrives late does the same
  (`comparable_history.py:925`); the third key of its ranking never decides.
* `RegisteredSurvives` (`ArtifactStore`): a file of another writer is reused while,
  or although, the sync of its directories never came, so that a loss of power
  can leave a row without its file. Who wrote the file itself is safe.
* `FamilyCenter`: a promotion reads gates as they are derived at its instant
  (`family_center.py:618`); the stored word CURRENT alone says nothing once they
  expire, which is why `operations.py` combines it with `promotion_ready`. How far
  hosts' clocks differ (`FamilyAhead`) does not matter there.
* `NeverTwice` (`ValueLedger`): "no double-counted event/material"
  (`01_Product_and_Architecture.md:80`, R7) does not hold where clocks of hosts
  differ. A command looks for the active revision of a category as of the clock of
  its own process (`value/service.py:537-544`). After a host that is ahead has
  entered a first value, one that is behind sees none and enters another first:
  `value/repository.py:131` takes it, as it supersedes nothing, and the unique index of
  migration 010 only knows successors. Once both are known both count, no correction of
  the category is accepted any more (it has two leaves), and a void reaches only the
  first of them. Reviews of one value do the same, of which a report keeps the last.
  With `Ahead = {0, 1}` TLC finds this in three commands. `NothingCountsTwice` says
  how far the code goes: as many values count as firsts were entered by hosts behind
  the instants of the firsts before, and no correction, void or review adds to them.
  An as-known report may change until the slowest clock is past its cutoff
  (`AsKnownStands`).
* Asset 360: receipts carry the clock of a process and revisions that of the
  database, so a revision drafted on an older workflow may be the newest. The
  source of an as-of answer is the last published snapshot, and a backfill makes
  the answer STALE. A list leaves out an Episode that was retargeted to another
  asset, whose history keeps it.
* A revision that was just published makes workflow and planner STALE until a
  command has viewed it. An empty result that is ready cannot be continued. The
  interface's `_query_sync` takes a new snapshot for each table offset.
* `EpisodeView`: an answer to an old load can replace a newer brief by an error,
  never by an older brief; after a lost acknowledgement the page says that the
  operation did not commit, and a retry recognizes the receipt.
* `OfflineStore`: `get_aggregate`, `list_aggregates` and `get_command_receipt` of the
  adapter read on the shared connection without its lock (`sqlite.py:639`, `:661`,
  `:738`), so that `decision_loop.py:1331` can show what a thread of the same process
  has not committed and may roll back. Nothing in the code bounds what they see, and
  commands read again in their transaction; they are not in the module.
* `RcaAnalysis`: more factors than the bound raise (`rca.py:677`) instead of being
  cut.
* `BackupRehearsal`: two backups into one directory can leave the manifest of one
  with the dump of the other, which verification passes; the comparison after a
  restore catches it for critical rows, and `CRITICAL_TABLES` omits decision
  snapshots, handoffs and outcome values. A rehearsal that failed halfway cannot
  be repeated with the same target names. That pg_restore refuses a damaged dump
  is assumed.
* `RecoveryEvaluator`: the identity of a sample that was submitted too early or
  not eligible is burnt, and the order is that of submission.
  `AdvisoryWorkflow`: a restored checkpoint bypasses the comparison of versions,
  so that a version can later name another content.
* `OperationsHealth`: good news is never older than the question, bad news may be:
  STALE and FUTURE_SOURCE_CUTOFF can be spurious when a snapshot is published
  between two axes. A truncated inventory of artifacts still reads READY.
* `ReleaseIdentity`: the commit is read after the inventory, so switching the
  working tree during a preparation can name a commit that is not the release's
  source; wheel, inventory and locks that do not fit are all caught. Migrations
  are checked early and not again.
* `DownstreamComposition`: the policy is read when it is validated and again when
  it is composed, where only its type is checked: one that changes after the last
  validation is composed unseen. The property excepts that (`moved`), and nothing
  else. A failing close is swallowed.
* `StartUp`: the preflight takes the affinity "on", the start does not; both must
  agree, so it is refused. A start that both preflights have passed is never
  refused, but its composition can raise (`ui/app.py:1863`): for a provider that is
  not there, or a database that does not answer.

## 4. What is proved

TLAPS checks these for every value of the constants. The properties are hardly
ever inductive on their own; each module strengthens them by what ties the
pieces of state together, and each action preserves the strengthening conjunct
by conjunct. Of the 40 properties of the passing runs, 37 are theorems: every
safety property, and both refinements.

* `WorkerQueueProofs`: type correctness and all safety properties of
  `queue_safety`, and that the queue implements `FencedJobs`. `QueueInv` adds that
  a row's epoch counts its attempts and bounds every epoch ever granted
  (`EpochCountsAttempts`), that a row without a payload was never inserted, and
  that the committed effects are finitely many.
* `HandoffProofs`: `DeliveredIsTrue`, `TablesAgree` and `NothingTakenBack`, with any
  number of dispatchers and operators. The queue's invariant does not carry over,
  because `commit_delivery_effect` writes to its tables under a check that it made
  earlier. `HandoffInv` keeps of it what the steps taken here keep (epochs count
  grants, each made once), and adds what a dispatcher holds at each of its
  program counters: a grant that is its own, so that nobody else writes the
  receipt of that epoch (`DispatcherStands`); that one number of the ledger is one
  row; and that each receipt is in the ledger under the number it was given
  (`LedgerAgrees`).
* `CommandCoreProofs`: type correctness, `EffectsOnce`, `VersionCoversEvents`,
  `AnswersAgree`, `OwnersHoldVersion`, `NoConflictWithSelf`,
  `RevokedLearnsNothing`, and that the core implements `VersionedCommands`. The
  heart of the invariant is `Placed`, which says for each program counter which
  locks a call holds and what it knows: it makes "the row has the version I
  compared" and "nobody else has inserted my key" facts about states, which the
  commit step then uses.
* `EpisodeDecisionLoopProofs`: type correctness, `ProgressIsEvidence`,
  `WorkStaysUsable`, `ClosuresAreEarned` and `HistoryStands`, for any requests and any
  number of cycles. `EpisodeInv` has `CycleGood` (each plan's counter is the number
  of assessments since the last contradiction, and the boundary is that of its
  action), `Confirmed`, `ClosedOnce`, `LastAtWork`, and `Named`: a name for the next
  cycle always exists, since of the two numbers above the last one at most one is
  the name that the first cycle was given.
* `EpisodeWorkProofs`: `PlansAreCurrent`, `AnswersAreAsKnown`, `ViewsAreCoherent` and
  `AnswersStand`, for any templates, cases, facts and questions; again one invariant
  per component.
  - `PlannerInv`: what a planner has chosen so far, and what remains, is what the
    rounds make of the Episode that it began with (`PlanStands`); the Episode only
    moves forward, so equal versions are equal Episodes. What decides is that the
    rank key is a total order: a best candidate then exists, and none that
    remains has more utility.
  - `CasesInv`: a retrieval began after its cutoff and looked at an Episode between
    the one it was asked about and the present one; an answer is what the window of
    the cutoff gives (`AnswerTold`), and goes on to be: the past is frozen
    (`PastStands`: no revision, and but for a late manifest no source, comes to be
    known by the cutoff any more), hence two answers to one question agree. The order of
    the cases is total and they are finitely many, so their ranking is one
    sequence and has each of them once (`HasRanking`).
  - `CohortsInv` only has the types and that the facts are finitely many. The rest is
    counting: who repeats a fact adds no group and no factor (`Repetition`), and a
    read that is within its limit has what the job has (`JobIsRead`).
  - `ComposedInv`: each component that is ready was read at the version, cycle and
    view of the brief (`ReadyOf`), at every place of the reader between its
    reads, and if nothing moved meanwhile none is STALE or FAILED (`Calm`).
  - `PageInv`: of all handlers at most one has the answer that will be shown
    (`Newest`), it is not behind what the page was told, and no handler is ahead of
    the database (`Stands`).
  - `AssetInv`: what a reader has read in each of its transactions is what the
    tables have by its cutoff (`Asks`, `Lists`), and so is what it has told (`Tells`), as long
    as no row that is stamped by the cutoff commits after it began. For that, the row
    of the open transaction is as good as one of the tables (`MayCome`), and rows that
    come stamped later change nothing as of the cutoff (`SameBy`, `AsOf`).
* `RcaMaterializationProofs`: `OutcomeIsTrue` and `OutcomeIsFinal`, with any number
  of callers and workers. `RcaInv` says of each `process_one` what it holds at its
  program counter. That an outcome is final needs that a row is only decided
  under the receipt of the job's one effect key.
* `ReadSideProofs`: all six properties of `read_side`, one inductive invariant per
  component.
  - `PagesInv`: what a snapshot retains was selected at one instant, and a cursor
    was given with a page that ends before it; so the pages that follow cursors
    are consecutive pieces of one answer.
  - `HeadsInv`: the number of published revisions is the version of the head
    (`LinearAt`), a draft replaces what its publisher computed over, and what a
    reader holds was an instant.
  - `IngressInv`: `Placed` says how far a publisher is, and `Reaches` that a stored
    snapshot is not ahead of the capability row.
  - `OfflineInv`: who is in a transaction holds its adapter's lock and is the one
    writer, and the open transaction has exactly the file with the statements
    made so far (`Staging`). From it also follows that each step is one of
    `VersionedCommands` or none.
  - `RecoveryInv`: the supporting evidence and the counted samples are the same
    number. `AdvisoryInv`: what is viewed exists.
  - `HealthInv`: what each axis said once it was read, and that what was bad then
    is bad still, or was mended (`Mended`).
* `RecordsProofs`: all seven properties of `records`, likewise.
  - `ArtifactsInv`: a call knows its file (`Knows`): synced, unless the file was
    another writer's and reused.
  - `SlotsInv`: every state of the file that power may bring back follows every
    transition that was answered (`Follows`), and a transition in progress holds
    the lock and will follow them all.
  - `ValuesInv`: each revision descends from one first of its key (`Descends`), has one
    successor and is later than what it supersedes, also the one that is being entered,
    and a first is earlier than the firsts before it; that as many lines end as begin
    at any cutoff is then a matter of counting (`AsManyEndsAsFirsts`). A report as of a
    cutoff only looks at what lies behind it.
  - `FamilyInv`: who a stored gate was judged by, and that whatever passed ends.
    `DecisionsInv`: what a caller has read was the Episode, and which command an
    intent is of.
  - `RecoveryInv`: rows, dump and manifest are all of instants that were, and a
    target has one owner; that nothing a review has seen was less than at its
    start makes a delta complete.
  - `IdentityInv`: what a preparation has made of a checkout that stood still, and
    what a preflight has found of a host. `CompositionInv` ties a call's place to what
    it has touched and whether it holds the connection; `StartInv` the report and
    the server to the settings.

Assumptions. All are named in the modules and evaluated by TLC in the runs:
`QueueAssumption`, `CommandAssumption`, `EpisodeAssumption`, `NoneAssumption`,
`HandoffAssumption`, `EpisodeWorkAssumption`, `ReadSideAssumption` and
`RecordsAssumption` with their parts, `NoneIsNoValue`. (`RcaAssumption` is a hypothesis
of the theorems of its module.) They say that bounds are naturals, that what is counted is finite, that `None` is none
of the values it stands beside, as model values are, and this of the code:

* a created aggregate is not seeded; observations are observations;
* the drafts of the source have an age, rows of before migration 011 have none;
* `RecoveryPolicy` wants a positive number of samples, a page has a positive size;
* the stages of a workspace are in the order that
  `QualificationWorkspaceIdentity` enforces, with the first two among them;
* an artifact's catalogue row is among the critical rows (`CRITICAL_TABLES`);
* the catalog of checks is what `CheckTemplateCatalog` accepts; a revision has one
  content and a source one manifest, as their keys in the tables say; the question
  about an asset has a period that ends by its cutoff, as `build_asset_360_page` makes
  them; a job may look at no fewer facts than a read (`rca.py`);
* clocks of hosts are ahead of the slowest by any amounts, and the slowest does not
  go back.

What the proofs changed in the models. Proving brought up places that were
not right. In `FamilyCenter` any gate could be recorded NOT_APPLICABLE where the
policy allows it, also DISCOVER_MAP, which `record_gate_evidence` refuses
(`family_center.py:550`); `Recordable` says so now. And two case distinctions of
`OperationsHealth`, and that of the state of a source in `AssetHistory`, had overlapping
cases, of which TLC takes the first, as the code does, but TLA+ any: their cases
exclude one another now. Records that were only described by
their initial value have types now (`ReleaseIdentity`).

Other changes only made the models fit to be reasoned about. Which services a deployment binds was a parameter of `EpisodeInvestigation` and is part
of its state. Two operators that TLC evaluates were out of reach and are defined
by what they are: the three stable sorts of comparable history are the sequence
in which nothing stands behind what it precedes (`Ranked`), and the sum over pairs of
a rubric is a number of elements (`Total` in `NextCheckPlanner`), where both were folds
before. What the readers of `EpisodeWork` took for granted of their constants is
assumed by name instead of being part of a type invariant.

Model-checked only: liveness (`DeliveryJobsEnd`, `EveryPromiseSettles`, `EveryCallEnds`).
It rests on fairness, and ENABLED is out of the prover's reach. Their state spaces
are complete for the instances above. The runs that find a disagreement show just
that: one behaviour each that breaks a statement.

## 5. Not modelled, and what is left

* `application/source_reality.py`, which profiles a source, `downstream/boundary.py`,
  which inspects imports, `installed_qualification.py` and `db_migrate.py`, which drive other
  tools, and what `application/o10.py` redacts: straight sequences over data without a
  second actor.
* The pages of the interface other than the Episode's, which render what a query
  returns; renderings, texts, traces and hashes everywhere. Hashes appear as
  equality.
* Tools that drive tests and collect evidence, examples and evidence files.
* In modelled components, filters and orders of lists are one choice among rows,
  a comparison with a policy is one Boolean where no property looks into it, and
  authorization appears where an answer depends on it.

What would come next: the value ledger with several groups under one report;
publications of `ReadHeads` and snapshots of `SourceIngress` as the steps under which
`ComparableHistory` and `AssetHistory` read, where each now has rows of its own that commit late;
and the remaining pages of the interface.
