# TrainCapsule: a TLA+ model of the factory

This directory models the parts of TrainCapsule that keep state on disk, talk
to other processes and must survive failures: the V3 factory that takes work
items from a roadmap through agent sessions, gates and publication to verified
commits on `main`. TLC checks small instances of the modules; TLAPS checks
proofs of theorems that hold for every value of the constants.

Paths below are relative to the repository root (`src/` here).

## 1. The system

TrainCapsule has a product (`packages/`: identify, record and qualify training
runs) and a factory that develops it (`tcfactory/`, `verifier/`,
`canary_runner/`, `deployment/`). The factory is where state, concurrency and
failure live. One controller process runs `V3Controller.run_cycle` in a loop
(`tcfactory/cli.py:911-945`), five seconds apart. A supervisor restarts it;
independent services under other accounts sign receipts, move the anchor of
`main` and install new runtimes; GitHub holds the remote `main`.

| Component | State it keeps | Operations | Interacts with | What makes it correct |
|---|---|---|---|---|
| Work items (`tcfactory/v3/work_items.py`, `enums.py`) | the record of an item, its status | the transition table, the record validator | everything | only legal changes; no status without its evidence |
| Queue (`tcfactory/v3/queue.py`, `controller_lock.py`) | one JSON file per item in a directory per status, a write-ahead intent and a lease per item, a lock file per item, the controller lock | put, bind, refresh, transition, claim, renew, reconcile, recover | controllers, `tcfactory recover` | one entry per item, nothing executed unowned, the claim of a dead process comes back |
| Controller (`tcfactory/v3/controller.py`, `tcfactory/checkpoints.py`) | a checkpoint per item with its budgets, generation and publication; `ControllerState` | initialize, promote, select, execute, pause, resume, salvage, quarantine | queue, publisher, agent backends, verifier | passed means verified on `main`; budgets are spent and refilled only for a named reason; every item is decided |
| Publisher (`tcfactory/v3/publication.py`, `tcfactory/github_sync.py`) | a transaction file per candidate; the remote `main` | prepare, publish, reconcile, revert | remote, anchor updater, receipt verifier, hosted checks | only authorised candidates reach `main`, on the exact base; reported outcomes are true and final |
| Scheduler and milestones (`tcfactory/v3/scheduler.py`, `milestone_runtime.py`, `controller.py`) | the lane cursor, the active milestone, completion evidence, receipts, the advance journal, the migration marker | promote, schedule, record evidence, advance, replay | queue, policy authority, supervisor, runtime refresh | nothing runs out of scope; no lane starves; completed means proven; an advance is atomic |
| Activation and start (`tcfactory/v3/activation*.py`, `recovery.py`, `tcfactory/supervisor.py`, `verifier/.../controller_start_broker.py`, `post_activation_observer.py`) | STOP, PAUSE and HARD_STUCK files, activation transactions, start journal, refresh state, the restart counter | activate, request, start, roll back, observe, count restarts | controller, verifier services | STOP is not lost; a stop that is meant to last lasts |
| Bundle, installer, runtime refresh (`deployment/`) | pinned artifacts, the installed files and units, the transaction state with its backups, the refresh journal and generations | assemble, apply, roll back, retry, claim, switch, publish the completion | controller, activation | what is committed is complete and of one build; the old runtime is not lost |
| Anchor (`verifier/.../git_anchor_producer.py`, `git_anchor_updater.py`) | jobs, signed requests, inbox, journal, the anchor ref | stage, produce, promote, update | publisher, GitHub | the anchor is a checked, published commit and follows `main` |
| Receipts, activations, checks, ruleset (`verifier/...`) | submissions, nonces, receipts, selectors, delivery records, observations | submit, issue, promote, select, publish | controller, activation, GitHub | a nonce and a check are used once; the newest authority wins |
| External actions (`tcfactory/v3/external_actions.py`, `phase6_runtime.py`) | a journal record per action, a reservation per response | reserve, send, commit, consume | outside services | one message, one response |
| Backend recovery (`tcfactory/v3/backend_recovery.py`) | a journal per installed snapshot, archives | prepare, archive, reopen, commit | queue, checkpoints | a failed attempt is archived before it is reopened |
| External evidence (`tcfactory/v3/external_evidence*.py`) | the revocation list, the anchor and the ledger, each with an epoch | rotate, promote, read, compare | controller | what is published is in force |
| Research (`tcfactory/v3/source_acquisition.py`, `phase6_runtime.py`) | content-addressed objects, evidence directories, the checkpoint | retrieve, resolve, materialise, publish | sites, controller | published claims are supported by their sources |
| V2 factory (`tcfactory/pipeline.py`, `autopilot.py`, `queue.py`) | checkpoint, worktree, queue directories, committed ledger | plan, run, pause, repair, release, re-specify | agents, `main` | nothing unreviewed is released; every task settles |
| Product (`packages/`) | evidence store, the report of a qualification | import, preflight, run, store, decide | a child process | a decision is earned and backed by its own run |

`PROJECT.json` lists every component, also those not modelled, with the reason.

### What is hard here

* A process can fail between any two file-system writes. The queue, the
  checkpoint, the publication transaction, the completion evidence and the
  milestone journal are separate files, each atomic on its own.
* `tcfactory recover` and the start-up preflight run beside a controller
  without its lock.
* Other parties push to `main`, and the controller's own publications move it
  under the candidates that wait.
* Receipts, hosted checks, policy reviews and backends answer late, not at all
  or twice; waits are bounded by recheck budgets.
* The services of the verifier and the deployment share directories only. Each is
  started by a change of a directory, takes its files in the order of their
  names, and may end at the first one it does not like.
* An exception in one item's handling ends the cycle of all.

`PROJECT.json` "hazards" lists these at the line where they bite, with the
properties that catch them. Where the code has a hole that the properties have
to except, the note of the hazard says so.

## 2. The modules

| Module | Models | Used by |
|---|---|---|
| `WorkItems` | the statuses, the transition table, the evidence rule of the validator | `V3Queue`, `Controller`, `Roadmap` |
| `WorkItemLifecycle` | what the queue promises: each item is one record, changed atomically (abstract specification) | `V3Queue` |
| `V3Queue` | the queue, one action per file-system step of every operation, several processes | `MC_V3Queue`, `V3QueueProofs` |
| `Publication` | publisher, remote and its environment | `MC_Publication`, `PublicationProofs` |
| `V3QueueBeside` | `V3Queue` with the overlap of two `tcfactory recover` invocations recorded | `MC_V3QueueBeside`, `V3QueueProofs` |
| `Controller` | one work item's whole passage through the controller | `MC_Controller`, `ControllerProofs` |
| `Roadmap` | many items: promotion, scheduling, milestones | `MC_Roadmap`, `RoadmapProofs` |
| `Activation` | supervisor, activation transaction, start broker, launcher, observer | a run of its own, `ActivationProofs` |
| `Bundle`, `Installer`, `RuntimeRefresh` | assembly, installation with rollback, refresh of what is installed | `Deployment`, their composition, and `DeploymentProofs` |
| `V2Pipeline`, `V2Autopilot` | one task of the V2 factory: the pipeline, and the loop around it | a run of `V2Autopilot`, `DeploymentProofs` |
| `Anchor` | the chain of services from a publication to the anchor | `VerifierHost`, and a run of its own |
| `Receipts`, `VerifierServices`, `Ruleset` | machine-policy receipts and checks; activation receipts on top of them; the ruleset observation | `VerifierHost` |
| `BackendRecovery`, `ExternalActions` | reopening a blocked item; message and response of a commercial item, in the same cycle | `ExternalWork` |
| `EvidenceAuthority`, `Research`, `Qualification` | evidence in force, controlled research, the product's qualification | `ExternalWork` |
| `VerifierHost`, `ExternalWork` | the parts above, one at a time | their runs, `VerifierHostProofs`, `ExternalWorkProofs` |

The cut between them: `V3Queue` has every file operation and no meaning of the
work; `Controller` takes a queue operation as one step (what `V3Queue` shows by
refinement) and the publisher as its observable phases (what `Publication`
shows it does); `Roadmap` takes an execution as one of its results (what
`Controller` shows it ends in) and keeps the rest of the cycle. `Publication`
sees the anchor as a ref somebody moves, and `Anchor` is that somebody;
`Activation` takes receipts from issuers, and `VerifierServices` is one.

`VerifierHost` and `ExternalWork` are sums: their parts share no variable that
one writes and another reads, so a behaviour follows one part (`focus`, `kind`)
while the others rest. Interleaving the parts would multiply the states and add
no behaviour of any of them. `Deployment` is a true composition: the refresh
starts from what the installer committed.

### V3Queue

State: `file[i][s]` is the entry of item `i` in the directory of status `s`,
`journal[i]` its intent, `lease[i]` its lease, `lock[i]` the flock, `cycle` the
controller lock; per process a position `pc`, the operation in flight `op`, the
pass in progress `todo` and the items it executes `held`. Every action is one
read, write, rename or unlink of `_transition_owned`, `claim`,
`reconcile_transactions` and the others. `Crash(p)` releases the locks and
forgets the process; the files stay. `Tick` ages leases. The specification
`SpecCli` adds `tcfactory recover` processes, which take no controller lock;
`SpecBeside` of `V3QueueBeside` is the same with a history variable that tells
when two of them have been under way at once.

`Lifecycle == INSTANCE WorkItemLifecycle` maps the files to the abstract record:
an entry counts from the rewrite of its content (the commit point of a
transition), wherever the file is.

### Publication

State: `main` (the remote's first-parent history), the anchor, the receipts and
checks per candidate, the transaction file `tx[c]` and what each process holds
in memory. `Observe`, `Authorize`, `AssertFrozen`, `CheckMain`, `PushMain`,
`ConfirmPush`, `VerifyMain`, `VerifyAnchor`, `VerifyChecks`, `CreateRevert`,
`Quarantine` and `Save` are the steps of `reconcile_transaction`; `PublishNew`,
`PublishRetry` and `PublishChanged` those of `publish`; `StartPass`, `PassNext`,
`PassEnd` the loop of `reconcile_pending`. `Fail` is an exception or a process
failure anywhere. `OtherPush`, `UpdateAnchor`, `Answer`, `Conclude` and `Mutate`
are the environment.

### Controller

State: the item's `kind` and `status`, its checkpoint `ck` (state, generation's
roles, budgets, wait, publication), the publication `tx` of every candidate it
ever had, `landed` (those on `main`), completion `evidence`, the journal of the
installed snapshot's recovery, and the position `pc`. The actions follow
`initialize`, `recover_repaired_claude_sandbox_blocks`,
`_promote_backend_pauses`, `_promote_ready`, the selection and claim, and
`_execute` from top to bottom;
every durable write is a step, so that `Crash` falls between any two. Session
outcomes, gate results, value verdicts and a moved `main` are choices.
`PrepareRepair` to `CommitRepair` reopen a blocked item: its checkpoint is removed
with its budgets, the item becomes READY, and the journal is committed, in steps
of their own; `RepairRaises` is a recovery that finds an interrupted one it cannot
resume, and `InstallSnapshot` starts a journal afresh. Only a checkpoint closed by
repeated findings (`"tripped"`) qualifies. `BackendRecovery` has the files of it.

### Roadmap

State: the status and evidence of every item, the milestone runtime state, the
advance transaction, the receipts, the migration marker, the lane cursor on disk
and in memory, whether the installed snapshot trails `main`, and the position in
the cycle. `Pick` is `schedule_cycle` with its score, tie-break, lane limits and
rotation. `BeginAdvance`, `WriteReceipt`, `WriteState` and `DropTransaction` are
the four writes of `advance_milestone_state`; after a failure the same three
replay the transaction, as `reconcile_milestone_advance` does. Documents are
abstracted to a grade: evidence is `none`, `weak` (the completion policy refuses
it) or `sound`. A policy review whose signed receipt asks for external evidence is
in `withheld` until work of this model moves `main`: no other receipt is asked for
and the item's next transition raises (`ReviewWaits`, `ReviewUnavailable`).

### Activation

State: STOP and its kind, the live transactions and the archive they moved STOP
to, the canary suites and receipts, the start requests and their journal, the
restart count, and the two sides of the refresh path. `BeginActivation`,
`ArchiveStop` and `WriteActivated` are the writes of `_activate_v31_locked`;
`Refresh...` and `Direct...` the two paths of the supervisor's tick;
`BrokerStart` and `BrokerRollback` the start broker; `ControllerExit` the
launcher with `record_controller_exit`; `Observe...` the post-activation
observer. Receipts have an age (live, expired), not a time.

### Bundle, Installer, RuntimeRefresh

`Bundle` keeps, per group of artifacts, the build it was made in, the build that
was pinned and the build that was copied; `EditArtifact` replaces one between
the reads. `Installer` follows `apply`: back up, record, replace, unpack,
attest, enable, save COMMITTED, record it; a failure rolls back from the recorded
state, a death is replayed. A failure to record COMMIT (`RecordCommit`) rolls back
from COMMITTED. A rollback removes entries and files one by one and may die after
any of them. `RuntimeRefresh` follows one handoff through claim, staging, seven
replacements under the journal, rollback, completion and consumption.

### V2Pipeline, V2Autopilot

The checkpoint of one task, the worktree of its active stage and, beside the
candidate, who has judged exactly this candidate (`gated`, `reviewed`). The
autopilot adds the ledger entry, the queue directory and the hard-stuck record.
Neither moves `main` except by committing the ledger: in this commit every
pipeline summary says `merged = False`, although the planner reads
`factory/proposals/<id>.yaml` from `main` and nothing puts it there any more.

### Anchor

`main` is a chain of numbered commits. Each of the four services is one pass
over its directory in name order; a pass ends at the first exception, and a
service is started only when the directory it watches changed (`changed`).
`advance_anchor` is one step with the writes it made before it ended (`last`).

### Receipts, VerifierServices, Ruleset, VerifierHost

Requests name the suite they present and the receipt they renew. `Issue` has
the order of the evaluator: the nonce is consumed before the receipt is written,
in a ledger that is rewritten in place. `PublishCheck` is lookup, create and
delivery record, with a lost answer and a lookup that lags. `VerifierServices`
adds the activation request, the selection of `main` and the activation issuer.
`Ruleset` is the observer's outbox and the broker that keeps `current.json`.

### BackendRecovery, ExternalActions, EvidenceAuthority, Research, Qualification

`FinishRecovery` and the application of a response take the number of their
writes that were made before the process died. `EvidenceAuthority` reads three
files one at a time, four times over, while root replaces or restores them, and
the last check and the publication are two steps (`ReverifyEvidence`,
`PublishChecked`). `Research` follows an item from retrieval to publication over
generations of evidence directories. `Qualification` is `evaluate_preflight` as
an operator over the case's facts, and the runner that reads two streams of a
child under a time limit, stores what it read and writes one decision. The child
may leave processes in its group or outside it, which hold its streams (`Fork`,
`Holding`).

## 3. What TLC checks

| Run | Instance | Shows |
|---|---|---|
| `queue` | one item that needs a receipt, two controllers, all targets | `EntryIsRecoverable` (one entry, or an intent that says where it belongs), `RunningIsOwned`, `LifecycleSpec` (the files implement the atomic life cycle), `DeadClaimsAreRecovered` |
| `queue_recover_beside` | one controller, two `tcfactory recover` processes, followed to their first overlap (`CONSTRAINT NotYet`) | `LiveLeaseSurvivesRecovery` |
| `publication` | one candidate, one foreign push, a controller and a preflight, two disturbances | `OutcomeIsTrue`, `PushesAreExact`, `Settles` |
| `controller` | every kind of work, one failure, one lost lease, two installed snapshots; a move of `main` (`CONSTRAINT MovesAlone`) | `RecordIsSound`, `PassedWasVerified`, `OnlyFailuresLoseWork`, `BudgetsShrink`, `Resolves` |
| `roadmap` | three milestones, five items, one return, one failure | `CompletedIsProven`, `AdvanceIsAtomic`, `ScheduleIsSound`, `ReadyIsServed` |
| `activation` | two checkouts, suites and receipts, one restart, one death | `StopIsAccountedFor`, `StopIsRespected` (no receipt lifts STOP twice, HARD_STUCK is final), `LimboEnds` |
| `deployment` | two files, two snapshot entries, three mains, one replaced artifact, two faults of each service | `InstallationIsSound`, `RuntimeIsSound`, `RollbackRestores` |
| `v2_factory` | two review cycles, two models, two interruptions | `ReviewedIsReleased`, `Settles` |
| `receipts` | two issues over a refuted and a sound suite, two activations, five observations; two publications in either order of names, a foreign commit, a fault, late checks | `NonceIsUsedOnce`, `CheckedOnce`, `SelectionsMoveForward`, `SoundIsAnswered`, `RulesetIsRefreshed`, `AnchorIsSound`, `MergedIsAnchoredOrBlocked` |
| `external` | one episode of each kind; qualification over every case with one defect, also decided late | `OneMessageOneResponse`, `FailedAttemptIsArchived`, `PublishedIsSupported`, `DecisionIsEarned`, `EvidenceIsCurrent`, `AnsweredIsApplied`, `ResearchEnds`, `CommandEnds` |

Two runs end in a violation, each the finding of `PROJECT.json` that quotes what
the repository says instead:

* `anchor_blocked` (`MergedIsAnchored`): the updater never removes a request from
  its inbox and an exception ends its pass, so without any fault the expired
  request of one publication keeps every publication whose name sorts after it
  from being anchored.
* `roadmap_waiting` (`WaitingStopsNoLane`): without any failure, a policy review
  that waits for external evidence keeps ready work of another lane from ever
  being taken up.

Known limits of the code that the properties except, each with its hazard:

* An intent written before its entry is rewritten can wedge
  `reconcile_transactions` (`Wedged` in `DeadClaimsAreRecovered`).
* A delayed `tcfactory recover` can replay an intent it read earlier and leave
  an item in two directories; `EntryIsRecoverable` is checked without it. Two of
  them that overlap can together take a live claim away, against the docstring of
  `recover_interrupted` (`queue.py:469`); `LiveLeaseSurvivesRecovery` is checked
  and proved up to the first overlap.
* A failure after the push and a foreign push on top make the next
  reconciliation record `mainChanged: false` for a candidate that is on `main`
  (excepted in `OutcomeIsTrue`). A preflight beside the controller can replace a
  terminal phase.
* A failure between the push of a revert and `REVERTED` blocks the transaction
  (`RevertBlocked` in `Settles`); a second transaction behind it would not be
  reached either, so one candidate is followed.
* A failure at certain writes drops work until somebody intervenes, and a move
  of `main` while a publication waits for its checks makes the controller push
  a second candidate: `OnlyFailuresLoseWork` shows that only failures, lost
  leases and moves of `main` do this.
* A candidate resumed in place can pass every gate and not be published: its
  branch is not a ref. `Resolves` shows only that the item is decided, or left
  QUEUED by a failure before the claim (`Orphaned`).
* An interrupted recovery of a blocked item can raise in every cycle until a new
  snapshot is installed (`Wedged` in `Resolves`).
* A policy review that waits makes every cycle that looks at it raise
  (`roadmap_waiting`); `ReadyIsServed` excepts that state (`ReviewHeld`). With the
  shipped lane limits ready research of MARKET and COMPETITOR is never eligible
  (`Open` in `ReadyIsServed`).
* A cycle that raises does not save the lane rotation; `LaneIsServed` does not
  count its decision.
* The last milestone is never recorded as completed: the advance refuses it and
  every later cycle raises.
* An activation transaction left PREPARED by a death, or by a receipt replayed
  after a rollback, blocks later renewals; STOP stays accounted for.
* An interrupted switch of the runtime is journalled and its backup kept, but
  `refresh` attests the old runtime before it reads the journal and never rolls
  it back. COMMITTED may stand over half-restored files, when an exception
  while COMMIT is recorded starts a rollback and the process dies in it (hazard at
  `privileged_installer.py:1558`); every later `apply` then attests and raises.
  `InstallationIsSound` asks for a complete installation only where `apply` attested
  one. A rollback of the installer stops only units whose baseline was
  inactive.
* Work of an interrupted V2 repair enters the candidate without the owner's
  machine gates; a ledger saved and not committed is refused by planning for
  ever (`RefusedForever`).
* A message whose sending was not recorded is never sent again; an interrupted
  backend recovery can raise in every cycle of its snapshot (`Wedged`); research
  whose next evidence directory exists is stuck (`Stranded`).
* Evidence may be revoked between the last check and the publication, and a file
  that is restored within a read can make a snapshot of two epochs:
  `EvidenceIsCurrent` says what the check establishes, of the ledger always and of
  one epoch unless a file was restored.
* Three children outlive the time limit of a qualification (`CommandEnds`): one
  that closes its streams and goes on; one that leaves a stream to a process
  outside its group; and one that has ended while a process of its own group holds
  a stream, when the runner reads without an event and `os.read` blocks.

### Bounds

* `V3Queue`: one item is enough because operations of different items share no
  file but the controller lock, which two controllers contend for. One lease
  tick separates "fresh" from "expired".
* `Publication`: `MaxDisturbances` = 2 allows a failure inside the recovery from
  a failure, or a failure and a foreign push.
* `Controller`: the budgets are those of `factory/roadmap/work_items.yaml` and
  `config/autonomy.yaml`, but for one recheck in place of three and one repair in
  place of two (each is the same step again) and two roles of one to four (the
  first, and a reviewing one). `MaxCrashes`, `MaxLeaseLosses` and `MaxMoves` are 1,
  and two snapshots are installed. Moves of `main` and recoveries of blocked work together are millions
  of states, so `MovesAlone` follows a move of `main` only under one mutating kind
  of work and one that waits for research (with a failure as well only the former),
  and without a lost lease and a second snapshot. What it cuts off are steps of the
  surroundings, none of which is fair. What it leaves out (experiments and read-only
  work under a moved `main`, a lease lost as well) is covered by the proofs as far as
  it is safety, and not covered by `Resolves`.
* `Roadmap`: M0 completes through the migration exception of the FACTORY lane,
  M1 waits for external evidence while PRODUCT work of M2 is open, and M1's
  criteria name an item of M0. `MaxReturns` and `MaxCrashes` are 1.
  `Tallied` bounds the history counters and exceeds the bound that `LaneIsServed`
  checks. `roadmap_waiting` has a review, the specification it depends on and
  PRODUCT work, and no failure.
* `Activation`: `MaxMain`, `MaxSuite` and `MaxReceipt` of 2 give one renewal and
  one move of the checkout; `MaxRestarts` 1 reaches the limit; `MaxFaults` 1.
* `Deployment`: one unit file and one other; three mains give two refreshes, the
  second from a refreshed runtime; two faults allow one in a rollback.
* `V2Autopilot`: each budget at the smallest value at which the step before the
  limit and the limit are both met; two interruptions.
* `Anchor`: two publications block each other in both orders of names.
* `VerifierHost`: two issues, so that a renewal exists; the first suite is
  refuted by an oracle; five observations, two deaths (`MaxDeaths`).
  `OneDisturbance` keeps the sum of the parts small: a foreign commit and a
  failure on the way to the anchor, and the ageing of the last suite and a fault,
  are followed one without the other (the liveness properties of both except runs
  with a fault, and the safety is proved); only `Anchor` reads the order of names.
* `ExternalWork`: two mains, two answers, three snapshots; two sources that
  agree, conflict or leave a claim open, two planning attempts, two deaths;
  three epochs of which the last revokes; two attempts of the qualify command,
  `MaxOutput` reached and exceeded, two ranks.

### Fairness

* `V3Queue`: the supervisor restarts a stopped controller, a process inside an
  operation continues (weak fairness); a cycle ends because every session has a
  wall-time limit (strong fairness of `EndCycle`, which other steps of serving
  can disable for a while).
* `Publication`: a running process continues, the controller retries a pending
  publication at every recheck, the anchor updater runs, verifier and hosted
  checks answer. All weak. That the updater reaches this publication is what
  `Anchor` shows to fail in the states `Blocked`.
* `Controller`: the process continues and is restarted (weak). A pause comes due
  when its recheck time passes or the lane rotation selects READY work, and the
  publisher moves on (strong: each is disabled while the process is down or
  busy). The first is `ReadyIsServed` of `Roadmap`, so `Resolves` holds while no policy
  review waits for external evidence (`roadmap_waiting`); the second is `Settles`
  of `Publication`. Nothing makes a new snapshot be installed.
* `Roadmap`: the process continues and is restarted (weak); the runtime refresh
  installs the new `main` although the process is up in between (strong).
  Nothing is assumed of the policy authority.
* `Activation`: the observer's timer fires and receipts expire (weak); nothing
  else is assumed of supervisor, broker or launcher.
* `V2Autopilot`: the scheduled task starts the process, a running process
  continues (weak); a pause that comes due is promoted (strong, because the
  process may be down at the time).
* `Anchor`: a path unit starts its service after a change of its directory
  (weak; a service is enabled only then).
* `VerifierHost`: the same for the issuer and the ruleset broker; the observer
  has a timer.
* `ExternalWork`: the controller's cycle comes round again; the child's time
  limit passes and the runner's own steps happen. Nothing is assumed of the
  outside party, the sites or the child.

Failures are never fair, and their number is bounded. `CHECK_DEADLOCK` is off
where the modelled work is finite: a settled publication, an installation or an
episode that is over has no next step.

## 4. What is proved

| Theorem | Statement | For all |
|---|---|---|
| `V3QueueProofs!TypeSafe` | `Spec => []TypeOK` | items, controllers, lease lengths, failures |
| `V3QueueProofs!EntriesRecoverable` | `Spec => []EntryIsRecoverable` | the same |
| `V3QueueProofs!RunningOwned` | `Spec => []RunningIsOwned` | the same |
| `V3QueueProofs!ImplementsLifecycle` | `Spec => LifecycleSpec` (refinement) | the same |
| `V3QueueProofs!LiveLeasePreserved` | `SpecBeside => []LiveLeaseSurvivesRecovery` | items, controllers, invocations of `recover`, failures |
| `PublicationProofs!PushesExact` | `Spec => PushesAreExact` | candidates, processes, disturbances |
| `PublicationProofs!OutcomesTrue` | `Spec => []OutcomeIsTrue` | the same |
| `ControllerProofs!PassedSafe` | `Spec => []PassedWasVerified` | kinds, roles, budgets, failures, lease losses, moves, snapshots |
| `ControllerProofs!ResumableSafe` | `Spec => []PublicationResumable` | the same |
| `ControllerProofs!BudgetsSpent` | `Spec => BudgetsShrink` | the same |
| `ControllerProofs!RecordSound` | `Spec => []RecordIsSound` | the same |
| `ControllerProofs!OnlyFailuresLose` | `Spec => []OnlyFailuresLoseWork` | the same |
| `RoadmapProofs!AdvanceSafe` | `Spec => []AdvanceIsAtomic` | roadmaps, limits, policies, failures |
| `RoadmapProofs!CompletedSafe` | `Spec => []CompletedIsProven` | the same, and exit criteria |
| `RoadmapProofs!ScheduleSound` | `Spec => []ScheduleIsSound` | the same |
| `DeploymentProofs!InstallationSound` | `Spec => []InstallationIsSound` | targets, entries, mains, replaced artifacts, failures |
| `DeploymentProofs!Restores` | `Spec => RollbackRestores` | the same |
| `DeploymentProofs!RuntimeSound` | `Spec => []RuntimeIsSound` | the same |
| `DeploymentProofs!ReviewedReleased` | `AutopilotSpec => []ReviewedIsReleased` | cycles, models, retries, recoveries, interruptions |
| `ActivationProofs!StopAccountedFor` | `Spec => []StopIsAccountedFor` | checkouts, suites, receipts, restarts, failures |
| `ActivationProofs!StopRespected` | `Spec => StopIsRespected` | the same |
| `VerifierHostProofs!NoncesUsedOnce` | `HostSpec => []NonceIsUsedOnce` | suites, issues, observations, deaths |
| `VerifierHostProofs!ChecksOnce` | `HostSpec => []CheckedOnce` | the same |
| `VerifierHostProofs!SelectionsForwardOnly` | `HostSpec => SelectionsMoveForward` | the same |
| `VerifierHostProofs!AnchorSound` | `HostSpec => AnchorIsSound` | publications, foreign commits, failures |
| `ExternalWorkProofs!AttemptsArchived` | `WorkSpec => []FailedAttemptIsArchived` | snapshots, answers, sources, epochs, deaths, cases |
| `ExternalWorkProofs!MessagesSentOnce` | `WorkSpec => []OneMessageOneResponse` | the same |
| `ExternalWorkProofs!EvidenceCurrent` | `WorkSpec => EvidenceIsCurrent` | the same |
| `ExternalWorkProofs!PublishedSupported` | `WorkSpec => []PublishedIsSupported` | the same |
| `ExternalWorkProofs!DecisionEarned` | `WorkSpec => []DecisionIsEarned` | the same |

The assumptions are the named `ASSUME`s of the modules, which type the
constants; TLC evaluates them in every run. No theorem has a hypothesis of its own.

*V3QueueProofs.* `TypeOK` alone is not inductive: the fields of an operation are
optional until the step that reads them, and `OpFits` says which step has which.
`QueueInv` adds, of each controller between two of its steps (`InStep`): it is
the one that has the controller lock; the operation in flight has the lock of its
item and has been begun for a reason (`Begun`); its writes have come as far as its
step (`Written`); and every intent on disk is that of the operation in flight or
still to be looked at by the reconciliation (`Intents`). `EntryIsRecoverable` and
`RunningIsOwned` follow. For the refinement, every step is shown to be a change of
one abstract record, made where an entry is rewritten, or a stutter.

Beside `tcfactory recover` none of this holds: a recovery moves an entry on the
word of an intent that it read some steps ago, without the item's lock, and an
item may come to have two entries. `LiveLeasePreserved` needs another invariant,
`BesideInv`. Whatever intent a recovery has in hand is the one on disk or will be
looked at by the cycle (`Known`, `Attended`), so no claim begins while an unknown
one is outstanding. Of an item being claimed, `Claiming` says what a recovery may
still do to it at each of the claim's writes: as long as the entry is not
rewritten, nothing can be moved; once it is, the only move is the claim's own
(`Split`), and after that every other entry's move is refused (`Settled`). What is
executed under a lease that has not run out is RUNNING and stays so (`Sheltered`),
and a recovery that does hold the item's lock holds it for a claim that is expired
or dead (`Apart`). Each step leaves all items but one alone (`Frame`).

`LiveLeaseSurvivesRecovery` speaks of a behaviour up to the first overlap of two
`recover` processes, any number of which may come one after the other and die
anywhere. After an overlap the claim is false: of `V3Queue` with `SpecCli`, TLC finds a
behaviour of 69 states that loses a live claim. One recovery
decides to move an entry into RUNNING for a claim that then fails, and stalls
before `os.replace`; the other, by delayed moves of its own, leaves the item with
a second, QUEUED entry beside the RUNNING one of a later claim; the stalled move
then puts that entry over the RUNNING one, under a controller that is executing
it. Nothing in the code excludes two invocations at once.

*PublicationProofs.* Every process works on a private copy of a transaction and
any of them may write it back later, so `PublicationInv` gives the files and the
copies the same meaning (`Truthful`), ties the step a process is at to the phase
of its copy (`Phased`, `Works`) and keeps a quarantined candidate from becoming
pushable (`Refused`). Others cannot take this back, since it rests on what only
grows: the commits on `main`, the bases, the verifier's answers and the
conclusions of the checks (`Forward`). `GatedOnBase`, which is proved first, says
that the gates a process passed were passed on a base that has been named.

*ControllerProofs.* `PassedWasVerified` speaks of a status that was set in a
step of its own after the publication returned. `Inv` therefore carries what
holds of the status (`Fits(status)`) also for the status that is about to be set
(`Fits(goal.to)`), where control can be (`Located`) and that the checkpoint's
publication is the last candidate's or none (`Bound`). Every step falls in one
of a few kinds of update of the checkpoint (`StepUpdates`), which is shared with
the proof of `BudgetsSpent`.

`BudgetsSpent` has two exceptions, and the second is counted: a checkpoint removed
by a recovery is one of at most as many as snapshots were installed. `Refilled` says
so of every position of the recovery: while a snapshot has no journal, or one that
still has a checkpoint to remove, there have been fewer removals than snapshots. An
item whose recovery was interrupted stays blocked until it is resumed, so that nobody
gives it another checkpoint meanwhile, and a committed journal is skipped. `Opening`
and `Bare` of `Inv` say which checkpoints are open and that one without a session or
closed by a repeated finding has no publication, so its removal loses none.

`RecordIsSound` needs `RecordInv`. The budgets left are within the configuration,
and a checkpoint exists only for work that may be planned at all (`Budgeted`):
the generation after a stale one starts from full budgets without asking again.
An item that failed once more after its last redesign is blocked or about to be,
and nothing executes it again (`GivenUp`). A candidate that somebody objected to
has no transaction and, once the objection is dealt with, no branch to get one
with (`Heeded`).

`OnlyFailuresLoseWork` needs `QuietInv`, which holds as long as no process failed,
no lease was lost and `main` did not move: each change of the status was asked for
by a caller that the lifecycle allows it to, and control is meanwhile where that
caller left it (`Moving`); pauses, closed checkpoints and verdicts are written in
the order that loses nothing (`Paused`, `Stopped`, `Recording`); and a blocked
item's candidate is in a phase that leads nowhere (`Abandoned => Dead`).

*RoadmapProofs.* `AdvanceIsAtomic` needs the journal's position: a pending
transaction belongs to the active milestone or, once the state is written, to
the one before, and each replaying step finds it (`Journalled`). All steps
outside the journal are dealt with at once (`Elsewhere`). `CompletedIsProven`
must also survive everything after the advance: `EvidenceInv` says that evidence
is written once, for settled work only, and `Lasting` that no step changes
settled work or sound evidence; `ProvenInv` then follows for completed milestones
and for the one in the transaction.

`ScheduleIsSound` has three parts. Its types need that a decision picks an item
at all: the tie-break ends in the place of the item in the roadmap, so of any
items one comes before the others (`BestIn`, from the least element of a set of
naturals). Its scope is computed some steps before work is sent out: `FutureInv`
follows the lanes in memory to the decision, `ScopeInv` what was picked to the
claim. Only the write of the runtime state changes the active milestone, and then
everything of the old one has passed, so that what is still out belongs to the new
one. That no lane starves is an argument about distance: `Rotation` says that the
decisions that passed over a lane and the lanes before it in the order of the
cycle (`Until`) are three together; the lane at the cursor is served because
nothing runs when a decision is made (`RunningInv`), and every other lane comes
one place nearer. The same holds of the rotation on disk, which a failure brings
back.

*DeploymentProofs.* `InstallInv` says of every state, those a death leaves included,
what an open transaction can still put back (`Restorable`): a target that is not
recorded is as it was, the backup of one that is recorded is what it was, and a
snapshot entry exists only if it is recorded. That gives `RollbackRestores`, since
a rollback that reaches its end restores all that is recorded; it holds of COMMITTED
too while a failure to record it may still roll it back, and what has been attested
is past that. `Stopped` and
`Attempted` tie the position in `apply` to the units, the marker and what was
attested; `BundleInv` gives that a bundle nobody touched is of one build.

`RefreshInv` rests on there being one open switch at a time (`Switching`). It keeps
its claim, since nothing else is started while two claims are ambiguous, and of
every part its transaction or the boundary's own place has the old one (`Kept`):
any prefix of a rollback's writes preserves that (`PuttingBackKeeps`). Completed
refreshes reach no further than the main it started from (`Floor`), so a rollback
does not fall behind a published completion.

The V2 factory shares no state with these. A checkpoint reaches the release only
from the adversary, who judged the candidate as it is, and nothing is written to
it afterwards (`Judged`). That its gates have run is subtler: a candidate comes
back under review from a repair, a pause or an old marker, and an interruption
lets unfinished work into it. `FactoryInv` says that while nothing was interrupted
a candidate under review has been through its gates, unless it is being repaired
or will not resume (`Gated`), that no session is open outside one (`Rested`), and
that the task of an old marker is terminal until it is recovered (`Marked`).

*ActivationProofs.* That STOP is accounted for depends on which transaction moved
it, and the directory may hold several. `ActivationInv` says that receipts are
issued in order, each for one main, so that a transaction is told by its receipt
(`Identified`); that the supervisor works on the newest one, whose STOP is the one
there until it is archived (`Working`); and that an absent STOP was moved by the
newest transaction and a start requested only of a receipt that has an archive
(`Lifted`). A transaction is retired only when STOP is back, and `_archive_stop`
refuses a receipt that has an archive: `StopAccountedFor` and the first half of
`StopRespected` follow. The second half needs no invariant: no step brings the
controller back while HARD_STUCK is there.

*VerifierHostProofs.* A pass sees every request again and may find the receipt it
wrote expired, so what is issued is not unique by itself. `LedgerInv` adds that the
nonce of everything issued is in the ledger, receipts and activations alike, until
a death empties the ledger; what became of the ledger is kept in a set, because a
later death can tear the ledger that an earlier one emptied. `CheckInv` says that a
check exists only for a receipt whose action is claimed.

That a selection never moves back is an argument about one pass, for all orders in
which it may take the files: what the selector names after each of them is a
recursive function (`Selections`). The prover cannot use the induction theorems of
its library, so the lemmas take the first file at which the claim would fail, by
the least element of a set of naturals: `SelectionsFollow` shows that a function
satisfying the recursion exists, `SelectionsForward` that it never goes back.

The services to the anchor share no state with these. Neither half of
`AnchorIsSound` is inductive: that the anchor is a checked commit depends on where
the request that moved it came from. `Chain` follows a commit down the services:
what is staged is published, what is ready is staged and checked, what is in the
inbox is ready, what has a journal is in the inbox. `AnchorInv` is `TypeOK`, `Chain`
and the two state parts of the property; that the anchor never moves back follows
from `MayAdvance` at the one step that moves it.

*ExternalWorkProofs.* The parts share no variable, so each has an inductive
invariant of its own. `CommercialInv`: a checkpoint file that is gone is archived or
kept (`SafeBlock`), and the journal's record of an action bounds the messages that
were sent (`Recorded`). `AuthorityInv`: what a read has seen after its n-th part
lies between what the earlier passes verified and what is there now (`Known`), since
the ledger only goes forward, and so do the files until one is restored
(`FilesKnown`); when the last pass finds what the first one did, it was one epoch. `ResearchInv`: every whole evidence directory holds documents
that support its verdict, and a candidate rests on one written for the planned
`main`. `QualificationInv`: a phase cites what its own run captured, and one that
met its expectation has cited the stream that shows it or is about to
(`PhaseInv`). `CasesAssumption` types the cases; no outcome of an evaluation is
assumed.

Only the liveness properties are model-checked alone: the prover does not reason
about fairness.

## 5. What is not modelled

* The content of documents (prompts, manifests, contracts, evidence, signatures
  and digests): documents are told apart by identity, and a check of one is a
  choice of its outcome. This covers the wire contracts, the configuration and
  task compilers, and the native-value and maturity computations, whose verdict
  is a choice of `Controller`.
* The agent sessions, the canary probes and the network below a retrieval: each
  is an external process whose results are choices.
* Accounts, permissions and the sandboxing of the services.
* The V2 migration tools: one-shot, offline transformations of documents.
* The other commands of the product, each of which writes one document.

`PROJECT.json` gives what is left out of every component. A component is "partly"
modelled when some operation of it that changes state is not an action.

## 6. Where the project can go

Every safety invariant and every action property that the runs check is proved.
What is worth adding is of two kinds:

* more of the code under the models: the parts that `PROJECT.json` lists as
  "partly", the installer and the command line first;
* abstract specifications of the publisher and of the roadmap's advance, for the
  detailed ones to implement as `V3Queue` implements `WorkItemLifecycle`.
