# Guildmind: TLA+ specifications and proofs

This directory holds a formal model of Guildmind's runtime, storage, sandbox and evaluation
layers (`src/src/guildmind/`): TLA+ modules translated from the Python source, TLC configurations
that model-check them on small instances, and TLAPS proofs of the main invariants for every
instance. `PROJECT.json` lists the runs, their properties, the mutants each property is tested
with, the source lines behind every definition, the hazards and the theorems.

- Model-check: `tlc -workers 2 -config RunLedger.cfg MCRunLedger` (module and cfg pairs below).
- Prove: `tlapm FixtureRunnerProofs.tla` (and likewise every `*Proofs` module).

## 1. The system

Guildmind runs coding tasks with a model under a budget and keeps evidence of every step. The
logic that can go wrong in ways a test hardly reaches is in storage, recovery and evaluation: several
processes share one state directory, any of them may die between two steps, and whatever they
leave behind has to be settled later without inventing or losing spend, verdicts or evidence.

| Component (source) | State | Operations | Hard behaviour | What makes it correct |
|---|---|---|---|---|
| Maintenance lease (`storage/maintenance.py`) | lock file, kernel `flock`, per-process registry with reference counts, `ACTIVE` marker | acquire shared or exclusive, nest, borrow the state descriptor, close, at-fork reset | lock file replaced under a holder, `fork` sharing a lock, death at any step, marker published by a process that died | exclusive excludes all, the marker keeps shared leases out, no lock is leaked or dropped early |
| Usage and limits (`domain/models.py`, `runtime/budget.py`) | usage vectors, caps | add, subtract, compare | caps on some dimensions only, amounts at the cap | arithmetic never wraps or passes a cap |
| Run domain (`domain/models.py`) | statuses, outcomes, artifact roles, reasons | validation | lifecycle rules over optional timestamps | a manifest that validates has a possible history |
| Event store (`storage/events.py`) | per run: manifest revisions, hash-chained events, budget index, artifact bindings | create, start, bind, request, response, evaluation, recovery, exhaustion | one method stages several rows; the clock may step back; crash between methods | behaves as one record per run; every legal method commits; recovery always can |
| Event replay (`runtime/replay.py`) | replayed state of a stream | one transition per event type | arbitrary streams, including those no writer produces | what replays is consistent on its own |
| Fixture runner (`runtime/runner.py`) | in-memory budget authority, `run_created`, open store | create, bind, reserve, request, call, respond, evaluate, finish, exception handler | death or exception anywhere; two runners with one run id; recovery by others while it runs | one model call per run; all spend in the ledger; results only from committed verdicts |
| Guarded recovery (`runtime/recovery.py`, `recover` of `cli.py`) | audit taken without the write lock, sidecar identity | audit, open the existing writer, compare, verify evidence, terminalize or deny | time between check and use, other writers, lost evidence | what it has checked is what it commits; every run settles in the end |
| Artifact store (`storage/artifacts.py`, `storage/_fsops.py`) | directories, temporaries, canonical files | put, verify | kills and power loss between write, rename and flush; two publishers of one digest; a damaged canonical file | a returned reference stays readable; canonical names are never torn or replaced |
| Orphan quarantine (`storage/quarantine.py`) | plan, records, receipts, payload, `ACTIVE` | prepare, publish, reconcile, move, complete, unfence | interruption at every step and resumption by another process | referenced evidence never moves; the fence covers every unfinished move; it comes off in the end |
| Storage coordinator (`storage/coordinator.py`) | observations of paths, ledger and artifacts | audit, gates | several reads that are not one snapshot; runners that write meanwhile | a report that opens a gate is sound; writers do not pass for damage |
| Artifact integrity (`storage/integrity.py`) | reference graph, scan limits | scan, classify | limits, links, disappearing files | nothing reachable is missed or offered for quarantine |
| Reliability campaign (`runtime/campaign.py`, `domain/campaign.py`) | schedule, execution notes, one evidence directory per attempt, published report | load, execute attempts, recover, reconcile, publish | death loses the notes; sources and evidence change between check and use; reconciliation while runners write | no attempt runs twice; a report that passes is justified; reports agree |
| Docker sandbox (`sandbox/docker.py`, `sandbox/base.py`) | container, attached command line, captured output, pending daemon commands | admit, create, start and attach, capture, kill, inspect, remove, verify removal | commands that time out and happen later, name collisions, a lost attachment, failing removal | a result vouches for the removal; nobody removes another call's container; every call returns |
| Container evaluator and its image (`evaluation/container.py`, `containers/evaluator/`) | workspace, response, verdict | prepare, candidate run, scorer run, derive the verdict | hostile output, a scorer that dies after its record, infrastructure failures in either phase | a pass is earned; the two containers never coexist; infrastructure failures are not verdicts |
| Local evaluator and patch policy (`evaluation/local.py`, `sandbox/local.py`) | work directories, a process group | validate, apply, run tests | children that outlive the test process | in part: patch outcomes only |
| Model clients, clock, fixtures, serialization, schema, CLI | little or none | | | inputs of the modules above |

How they interact. Every process takes a lease first: runners, operators and campaigns a shared
one, quarantine the exclusive one. A runner writes evidence to the artifact store before it binds
a reference in the event store, reserves usage before it calls the model, and after an exception
closes its store and calls guarded recovery for the run it created. Recovery reads the ledger and
the artifact store through the coordinator's audit. Quarantine uses the same audit to find files
no run references, and fences shared leases with `ACTIVE` while it moves them. The runner's
evaluator runs the candidate and then the scorer through the container sandbox; the sandbox talks
to the Docker daemon, which other processes use at the same time.

## 2. Modules

    MaintenanceLease ---- MaintenanceLeaseProofs
    BudgetUsage -- RunDomain --+-- RunLedger -- FixtureRunner -- FixtureRunnerProofs
                               |   (runners, operators, recovery; the proofs are about both)
                               +-- Replay --+-- StreamReplay --+-- EventStoreProofs
                                            +-- EventStore ----+   (implements RunLedger)
    ArtifactStore ------- ArtifactStoreProofs
    StorageAudit -------- StorageAuditProofs              (the audit recovery and quarantine use)
    Quarantine ---------- QuarantineProofs
    Campaign ------------ CampaignProofs
    DockerSandbox ------- ContainerEvaluator -- ContainerEvaluatorProofs
                          (evaluations over the sandbox; the proofs are about both)

`MC*` modules only hold the constants of the bounded instances.

**MaintenanceLease.** `acquiring`, `mode`, `heldInode` and `references` are the registry entry of
a process; `open`, `inherited` and `borrowed` its lease objects; `ofdInode`, `ofdLock`, `ofdRefs`
the open file description behind the entry and who holds a descriptor of it. A process has at most
one description of its own because `_acquire` runs under the registry lock, so a description is
named after its opener. `OpenLock`, `Flock`, `FlockBusy`, `Register`, `AbandonAcquire` are the
steps of `_acquire`; `AcquireNested`, `Borrow`, `GiveBack`, `Close`, `CloseInherited`, `SetMarker`,
`ResetInChild` the other operations. `Spawn`, `Fork`, `Die`, `Reap` and `ReplaceLockFile` are the
environment. `LOCK_UN` releases a lock for everybody who shares the description; closing releases
it with the last descriptor.

**RunLedger** is the abstract specification of the event store: one record per run, one atomic
action per lifecycle method. **EventStore** is the detailed one: a row holds the list of manifest
revisions, the event stream and the budget index; every method stages events and revisions in the
order of the code and commits only if the staged row verifies (`VerifiedRoot`: replay of the whole
stream, lifecycle, transition rules, and agreement of the three). `AbstractRun` is the refinement
mapping. **Replay** is `replay_events` as a legality predicate and a transition per event type,
used by EventStore and, over arbitrary streams, by **StreamReplay**.

**FixtureRunner** extends RunLedger, so a ledger transaction of a runner is exactly an action of
the ledger with the runner's own view of the budget; a refused transaction is `Raise`. `fresh` says
whose audited snapshot is still the ledger's, `steady` who still sees the sidecar files captured
before the audit, `wal` whether the sidecar exists. `Working` and `Opened` actors hold a
connection; the last one to close removes the sidecar, and a killed one leaves it. A recovery's
write transaction is `txn`: `BeginWrite` takes SQLite's write lock and compares the ledger with the
audited snapshot, `Stage` reads the referenced evidence and stages the rows, `Recheck` reads it
again, `Terminalize` is the COMMIT and `Deny` the rollback. Everybody else waits for the lock
(`BeginImmediate`) but goes on otherwise, and evidence may be lost between any two of these steps.
The transactions of a runner, which read nothing before their lock, are one step each.

**ArtifactStore.** `blob` is what processes see at a canonical name and `durable` what survives a
power loss; likewise `dirs` and `syncedDirs`. `pc` names the next step of each publisher in `put`;
`raising` marks an exception on its way through the `finally` block. `contender` is a verified
temporary left behind on purpose.

**Quarantine.** `now` is what processes see and `disk` what survives: files in the store, payload
entries, records, receipts and `ACTIVE`. The exclusive lease leaves at most one maintainer
(MaintenanceLease shows it), so its program counter and local variables are kept once.
`Unfenced` is the condition under which shared writers run between maintainers. `Acquire`, `Refuse`
and `Enter` are the lease: granted, refused, and lent out. `FailureOutcome` is the exception the
caller sees for an I/O error at each step: a maintenance denial, a denial, an incomplete
transaction, or a failed finalization of a no-op or of a completed transaction. The probe for
ACTIVE after an error may fail itself, and then counts as a marker that is there (`unproven`; the
caller gets the same `QuarantineIncompleteError`). `found` is the storage as the call met it.

**Campaign.** `dir[a]` is the evidence directory of an attempt: the state of the attempt's run,
who created it, whether other runs are in the same database, and whether the stored bytes are
clean. `notes`, `at`, `verified`, `seen` and `found` are the memory of one command and vanish with
it (`Finish`). The runner inside an attempt is reduced to what FixtureRunner establishes: a run is
created, committed at most once, or left to a recovery that may be denied. Reconciliation keeps
its three separate reads (`Audit`, `ReadEvents`, `FinalAudit`). `Interfere` is what others may do
to fixtures, code and evidence; `flawed`, `dispatched` and `certified` are history.

**DockerSandbox.** `phase` is the next step of each `run_observed`; `name`, `byId`, `term`,
`capture`, `removed` and `result` are its locals. `box` and `state` are the container as the daemon
sees it. A command that is answered has had its effect; one that failed or timed out joins
`requests`, and `LateCreate`, `LateStart`, `LateKill` and `LateRemove` carry it out at any later
time, or never. `Target` says which containers a command addresses, by id or by name. An output is
a sequence of pieces, and an attachment hands over any beginning of it (`Readable`): the exit code
of the attached command line is not looked at, so a lost one reads like one that ended.
**ContainerEvaluator** extends it: an evaluation uses two calls, `Invoke(e)` and `Score(e)`;
`stage` is the next step of `evaluate`, `response` what it hands to the scorer. The candidate's
program prints anything. The scorer prints the classification of the response (`Scored`: one
record, nothing after it, and every case matched) or an
evaluator error, and may be killed or exit with any code after that. `Others` are calls of other
processes that may draw the same container name.

**StorageAudit.** `tree` is what `lstat` shows at the state directory, the database, the artifact
root and a sidecar; `seen` is the audit's first look at them. `scan` holds the locals of
`audit_artifact_store`: the queue, the read cache, the hash budget, what is reached, verified and
observed, and the findings. `Begin` to `Recheck` are the steps of `audit_storage` in its order; the
actions under `World` are a runner that opens, publishes, binds, closes or crashes, and acts of
damage. `Truth` is the classification by definition, in one step, which the quiet audit must match.
`lost`, `calm` and `faulty` are history.

## 3. Runs

| Run (module, cfg) | Instance | Distinct states | Properties |
|---|---|---|---|
| `lease` (MCMaintenanceLease, MaintenanceLease.cfg) | 3 processes, 2 lease objects, 2 lock files | 547,296 | VerifiedExclusion, FenceRespected, RegistryBacked, NoLeakedLock; liveness DeadHolderReleases |
| `ledger` (MCRunLedger, RunLedger.cfg) | 2 runs, with and without a cap | 11,628 | VerdictHasEvidence, TerminalSettled, SpendAccounted, BudgetRespected, LedgerMonotone |
| `stream_replay` (MCStreamReplay, StreamReplay.cfg) | all streams over 2 request ids | 7,106 | ReplayedSpend, ReplayedVerdict |
| `event_store` (MCEventStore, EventStore.cfg) | 1 run, 2 request ids, 2 clock readings | 506 | RecoveryNeverStuck, LegalNeverRefused, ImplementsLedger |
| `runner` (MCFixtureRunner, FixtureRunner.cfg) | 1 run id, 2 runners, 1 operator, task spec and patch may be lost | 175,205 | DispatchOnce, SpendCovered, ResultIsCommitted, RecoversOwnRun, NoBlindRecovery; liveness RunsSettle |
| `artifact_store` (MCArtifactStore, ArtifactStore.cfg) | 2 publishers, 2 digests, 2 shards | 373,614 | ReferenceDurable, ContenderPreserved, NeverReplaced |
| `quarantine` (MCQuarantine, Quarantine.cfg) | 3 files, 1 of them unsupported, 2 faults, 1 power loss, 1 ledger commit | 105,956 | ReachableNeverMoved, FenceCoversMoves, RecordsBacked, Resumable, OutcomeTruthful; liveness FenceRemoved |
| `quarantine_fence` (MCQuarantine, QuarantineFence.cfg) | as above, no power loss | violation | FenceDurable |
| `campaign` (MCCampaign, Campaign.cfg) | 1 fixture in 2 rounds, 1 campaign command that can be repeated, 1 auditor, 1 change by others | 1,939,404 | DispatchedOnce, ReportsAgree, PassJustified |
| `evaluator` (MCContainerEvaluator, ContainerEvaluator.cfg) | 1 evaluation (2 calls), 1 other call with the candidate's container name, 1 case | 760,765 | RemovedByOwner, VerdictIsEarned, PhasesNeverOverlap; liveness EvaluationEnds |
| `evaluator_blame` (MCContainerEvaluator, ContainerEvaluatorBlame.cfg) | as above | violation | FailureIsTheCandidates |
| `audit` (MCStorageAudit, StorageAudit.cfg) | 2 digests, 3 bindings, 1 runner at a time, 1 act of damage | 3,463,338 | AuditSound, IntactNotBlamed, ExactWhenAlone |

Why the bounds are enough.
- *lease*: three processes are a holder, its forked child and a competitor; two lock files are one
  replacement; two lease objects are one nesting. A death and a reused process identity need no
  bound.
- *ledger*: runs only meet in the identity check of `create_run`; two of them show that. Usages
  lie below, at and above the cap in one dimension, with a second dimension that has no cap.
- *stream_replay*: a stream that replays is finite (each event type makes progress), so TLC visits
  all of them. Two request ids are enough to answer the wrong request.
- *event_store*: the tables of different runs do not interact, so one run is enough; two clock
  readings give every order of created, started and finished.
- *runner*: two runners are given the same run id, the case in which their handlers could collide;
  runners of different ids meet only in recovery, where the operator is the other party. The cap
  admits the small call and refuses the large one, and a call may cost more than was reserved.
- *artifact_store*: two publishers of one digest race for the rename, and of two digests in one or
  two shards for the directories. Kills, power losses and damage are not bounded.
- *quarantine*: two movable files are one moved and one pending; two faults interrupt a call and
  its resumption; one ledger commit lets a candidate become referenced after a plan was left.
- *campaign*: an attempt only depends on its own directory and fixture, so two attempts give a
  first, a next and a last one. The command can be started any number of times, one after the
  other; two that start together meet only at the `mkdir` of the state directory, which is atomic.
  The auditor reconciles any number of times, also during execution. One change by others at any
  moment is a changed fixture, changed code, a foreign run, lost bytes, or an operator's recovery.
- *evaluator*: evaluations only meet through the daemon and container names; the other call has the
  candidate's name, may be alive at any moment of the evaluation and is never helped by ending. The
  answers are right, wrong, right with more after it, and too long, and each may be read up to any
  piece; a malformed, missing or repeated answer is wrong, too. The theorems have no such bound.
- *audit*: a task spec refers to a test; it may be bound as a plain artifact as well, so that it is
  read first without and then with its contents; the test may be bound where a structured artifact
  is expected. Three hashes, two references and two entries let each limit be met and not be met.
  Four inodes are a state directory, a store, a database and its sidecar, or fewer and a
  replacement. Runners come and go any number of times.

No run uses a definition other than those of the modules. Deadlock is not checked where the system
may really stop: all runs terminal, all streams ended, all runners finished, all evaluations
finished, no campaign left to load because its sources have changed.

Fairness.
- *lease*: only that a forked child executes its at-fork hook, which Python runs before anything
  else in the child and which does not block.
- *runner*: a runner and an operator are sequential code and go on until they return, raise or
  die; an operator calls `recover` again after a denial (that is the documented procedure). Nothing
  is assumed of dying, of evidence loss or of when runs begin.
- *quarantine*: a maintainer goes on, and a call that ended incomplete is repeated, as its
  exception asks for. Faults are bounded, so calls are not interrupted for ever. A refused lease is
  no step of the maintainer: nothing says that it is granted in the end but the repetition.
- *evaluator*: `evaluate` and `run_observed` are sequential code that goes on: every docker command
  but the attached one has `_CONTROL_TIMEOUT_SECONDS`, and the capture loop polls against its
  deadline. Nothing is assumed of the daemon, of the attached command line or of the programs.

## 4. What the properties say

- *Lease.* Two conflicting leases never both pass the identity check, even if the lock file was
  replaced; while it was not, they never coexist. `ACTIVE` never stands while a shared lease is
  held. Reference counts, registry entries and kernel locks agree, and a lock without an entry
  belongs to an acquisition or a child about to close its copy.
- *Ledger.* Spend is what the request justifies: exactly the reported usage if answered, the whole
  maximum if nobody knows, nothing otherwise (the same is said of every stream replay accepts); used plus reserved stays within every cap; a terminal run is
  settled and never changes; verdicts rest on complete evidence.
- *Event store.* The transactions implement the ledger. Whatever the clock does, recovery of an
  active run passes its own verification (`finished_at` is clamped), and no method that passes its
  phase checks is refused by replay.
- *Runner and recovery.* One dispatch per run and none without a committed reservation; what a
  call cost is in the ledger at every moment; a returned result is the committed one; a failed
  runner only terminalizes the run it created; when recovery ends a run, the ledger is still the one
  it audited, and it has read under the write lock all the evidence that this ledger references;
  every run settles while an operator lives and evidence is intact. Evidence lost after the second
  reading is lost after the check in the code, too, and NoBlindRecovery does not deny it.
- *Artifact store.* Returned references survive kills and power loss; damaged bytes are never replaced; a refused contender is kept, on disk.
- *Quarantine.* See the comments at the properties. OutcomeTruthful says what a caller may conclude
  from each way a call ends: after a maintenance denial nothing has changed, but an earlier fence may
  stand; after a no-op, failed finalization or not, nothing has changed and no fence stands; after
  another denial no fence stands and nothing was moved; incomplete means that the fence stands,
  except where even the probe for it failed, and then nothing was moved by this call; a completed
  result has its COMPLETE on disk and no fence. Resumable and FenceCoversMoves are stated for
  histories without power loss, which ADR 0005 excludes; ReachableNeverMoved, RecordsBacked and
  OutcomeTruthful also hold with one.
- *Campaign.* No attempt is dispatched twice, however often the command is started. Terminal
  evidence reported for an attempt is the same in every report. A passing report means that every
  attempt was dispatched once and its own run succeeded; from the executing process also that
  nothing raised and that the declared fixture and code were used. An auditor has no notes and
  cannot know that an execution raised after its commit: the property says so by what it leaves out.

- *Sandbox and evaluator.* A create whose outcome is unknown is not cleaned up, and that is right:
  cleaning up by name would take another call's container (RemovedByOwner). A result that is not an
  infrastructure error means that the container is gone and stays gone, so the scorer never runs
  beside the candidate. A pass means that the committed patch was applied, that the program ran and
  exited with 0, that what was scored is a beginning of what it printed and is one whole record in
  which every case matched, and that the scorer exited cleanly. It does not mean that the program
  printed nothing more: `score.py` refuses a second record and trailing text, but an attachment that
  is lost after the first record hides them, and nothing in the code tells the two cases apart. Every
  evaluation ends.
- *Audit.* A report with `references_verified` is sound for its ledger snapshot: whatever was not
  intact when the audit began and is reachable has been published since, and nothing reachable is
  offered for quarantine, also when a limit was met. Runners at work never make an intact store look
  invalid; they may make the audit say `database_invalid`, which denies the operation. A quiet audit
  matches `Truth`. This is what lets FixtureRunner and Quarantine take the audit as one step.

Two statements of the repository's documents are refuted by runs that expect a violation (details in
`PROJECT.json`, "findings"):
1. `quarantine_fence`: ADR 0005 says that no source moves before the flush of `quarantine/v1` has
   succeeded. A call that is cut off between the rename of `ACTIVE` and that flush is resumed by a
   call that moves files without flushing the directory.
2. `evaluator_blame`: ADR 0003 says that an evaluator failure is not a worker failure. The sandbox
   does not look at the exit code of `docker start --attach`, nor at whether the container ever
   started: when the start fails without a trace in the container, or comes after the deadline, the
   inspected state is that of a created container (not running, exit code 0, no error), and the
   candidate is judged (`tests_failed` or `timed_out`) although its program never ran.

An observation without a run: the crash-recovery evidence README says that intact evidence is
terminalized when a runner raises. With a second runner, the single attempt may be denied
(`storage_changed`) and the intact run stays active until somebody recovers it. Its list of denials
a few lines above covers this case, so it is a matter of wording; RunsSettle shows that an operator
settles such a run.

## 5. What is proved

All theorems hold for every value of the constants. The assumptions are those the modules name:
finitely many lease objects (`HandlesFinite`), natural bounds, caps and usages of the right type
(`CapsType`, `UsagesType`), clock readings that are naturals (`TimesType`), request identities other
than None (`RequestIdsType`), a shard for every digest (`ShardType`, `ShardNames`), container names
and outputs of the right type (`NameTypes`, `CodeTypes`, `OutputTypes`, `OutputsAre`), two calls
per evaluation that nobody else makes (`PhasePerContainer`), runners that are not operators
(`ActorsDistinct`), and a schedule that is not empty (`FixturesAssumption`, `RoundsAssumption`).

- `MaintenanceLeaseProofs`: TypeCorrect, Exclusion, Fence, Backing, Unleaked. Exclusion is not
  inductive: it needs that a registry entry is backed by a kernel lock of its mode on the inode it
  recorded, that kernel locks on one inode are compatible, that an acquisition has the only
  descriptor of its description, and that copies are only held by children that still reset.
  `IInv` = TypeOK /\ RegistryCounted /\ KernelInv collects these; the count needs cardinality
  lemmas of its own.
- `FixtureRunnerProofs`, about the ledger: LedgerTypeCorrect, LedgerBudget, LedgerSpend,
  LedgerTerminal, LedgerVerdict, LedgerIsMonotone. Every transaction replaces one record, so
  `RunInv` (type, spend per request phase, phases that go together) is shown for each new record by
  a lemma per operation, and `LedgerInv` lifts it to all runs. About the runners:
  RunnersImplementLedger, LedgerUnderRunners, RunnerTypeCorrect, CalledOnce, SpendIsCovered,
  ResultsCommitted, RecoversOnlyOwn, RecoveryNotBlind. The refinement says that every step of
  runners, operators, recovery and failures is a ledger transaction or leaves the ledger alone, so
  every ledger theorem holds here without another proof. What it does not give is who may do a step:
  a run has one creator, a runner past `create` is that creator (`OwnerInv`), how far its call has
  come is seen in the calls made for the run and in its record (`CallInv`, `SpentInv`), and a result
  is only returned once the record is terminal, hence final (`ReturnInv`). Someone else may recover
  the run between any two of its steps; `Keeps`, what no transaction takes back, is what makes the
  runner's knowledge stable under that. RecoveryNotBlind needs that nobody changes the ledger while
  a recovery holds the write lock, so that its audit stays fresh and what it has read stays all that
  the ledger references (`TxnInv`).
- `EventStoreProofs`, about streams: ReplayTypeCorrect, ReplayIsSound, ReplayEarnsVerdict.
  `BudgetInv` says what is due while a budget transition waits for its snapshot, the states in which
  ReplayedSpend says nothing. About the store: StoreInvariant, StoreRefinesLedger,
  StoreAlwaysRecovers, StoreAcceptsLegal. `StoreInv` says that every committed row verifies and that
  its stream replays to exactly one state, which lies between two transactions (`Between`: nothing
  is due, and the phase of the request, the evidence and the status go together). The events a
  method appends are then replayed from that state, one lemma per method (`StartPhase` to
  `AmbiguousPhase`), because the replay of a longer stream continues the one of the shorter
  (`ReplayConcat`). That is a fact about sequences of any length; it is shown without an induction
  theorem, at the least position where the two replays would differ. What verification compares then
  follows (`Agrees`), and what the row shows of the run is the record the ledger's transaction leaves
  (`Shows`). A task spec, a response, a recovery or an exhaustion that passes its method's own
  checks always verifies; a start, a request or an evaluation may still be refused, and the lemmas
  say when it is not (StoreAcceptsLegal).
- `ArtifactStoreProofs`: StoreTypeCorrect, PublicationDurable, ContenderKept, EvidenceKept. `IInv`
  carries what each step has established up to the return: directories passed exist and flushed
  ones are on disk, what the temporary holds, and that a canonical name only appears in a durable
  shard and with flushed content, whichever publisher put it there.
- `QuarantineProofs`: QuarantineTypeCorrect, EvidenceStays, FenceStands, RecordsTrue,
  FenceNeverStuck, OutcomesTrue. The properties speak of the storage; `IInv` adds what the holder of
  the lease knows at each step: whether ACTIVE is published and for whom, the loop it is in, how far
  the file in its hands, its records and its receipts have been flushed, and that its plan is still
  current while the marker is not published. OutcomesTrue adds what has become of the storage since
  the call began, at each step at which it may still end without a fence (`FoundInv`). FenceNeverStuck needs that the ledger and the audit's
  findings agree with the marker at every step, not only when nobody works (`ResumeInv`).
- `CampaignProofs`: CampaignTypeCorrect, AttemptsOnce, ReportsConsistent, PassesEarned. Only the
  process that made the state directory executes (`OneInv`), it goes through the schedule in order
  (`OrderInv`), a terminal run does not change, so an evidence record stays true (`FoundInv`,
  `CertifiedInv`), and whatever makes an attempt flawed is in its note by the time the process
  judges it, or shows in the digest of the code (`FlawInv`).
- `ContainerEvaluatorProofs`, about the sandbox: SandboxTypeCorrect, ResultsVouch, OwnersRemove,
  ResultsTell. They are about commands that arrive late, so `IInv` says what each pending command
  still finds: a create no container, a start a created one, a kill or a removal the container of
  its own call. A removal by name is safe because the call's own container is there and no two
  present containers share a name. ResultsTell adds what a result says of the program: what it holds
  is a beginning of the output, and once the program has ended, neither its state nor the result
  changes. About the evaluator: PhasesSequential,
  SandboxUnderEvaluator, VerdictsEarned. Every step of the evaluator is a step of the sandbox or
  leaves it alone, so the sandbox's invariants carry over; what remains is that the scorer's call
  begins only with a usable result of the candidate, and what each stage has kept of it.
- `StorageAuditProofs`: AuditTypeCorrect, GatesSound, WritersNotBlamed, AuditExact. Three arguments
  share one invariant of the walk. For soundness, what the snapshot reaches is reached, queued, or
  excused by a finding that keeps the gates closed (`CoverInv`), what was verified was intact at some
  moment since the audit began (`LostInv`), and orphans are found only once everything has been
  reached (`OrphanInv`). For the runners at work, what runs refer to has been published before it was
  bound and stays in place while nobody does damage (`StoreInv`), so whatever the walk reads and the
  inventory lists is there (`BlameInv`). For exactness, the audit's looks at the paths and its
  snapshot are the present ones while nothing changes (`SameInv`), and each finding, and each entry
  without one, is justified by what is on disk (`QuietInv`); the derived state is then compared with
  `Truth` case by case.

Every inductive invariant was checked by TLC as an invariant of the bounded instance before it was
proved. In EventStore, the replay of a stream is a recursive function over its positions, and the
events for the evidence a run has or lacks are written out in the code's order, name by name, where
a fold and a filter would be shorter and could not be reasoned about. Three operators had to be restated for the proofs: `Disposition` of Campaign and `Classify`
and `ReadReference` of StorageAudit were CASE expressions with arms that overlap, which leaves the
choice of the arm open in TLA+ although TLC takes the first one; they are IF chains in the order of
the code now.

Only model-checked: all liveness (DeadHolderReleases, RunsSettle, FenceRemoved, EvaluationEnds),
which is out of the proof system's reach, as are fairness and ENABLED.

## 6. Abstractions

- The hash chain of events is the position in the sequence; artifact digests are names or model
  values; JSON, SQL and the opening of database files are left out.
- Token classes that one cap adds up are one dimension. Token counts have no width in Python.
- `audit_storage` is atomic in FixtureRunner and Quarantine; StorageAudit takes it apart. So is each
  of the two readings of the evidence under the write lock. In Quarantine the exclusive lease keeps
  cooperating writers out.
- FixtureRunner and Quarantine assume the lease that MaintenanceLease establishes. Recovery's I/O
  errors end like a denial and leave nothing behind.
- `Mark` stands for the moment between the commit of `create_run` and `run_created = True`, in
  which an interrupt is not followed by recovery.
- ArtifactStore: verification of a file is one step (the code compares its identity before and
  after). A contender that is not flushed is forgotten at a power loss. Aliased paths are not
  modelled.
- Quarantine: of a rename, the new name reaches the disk no later than the removal of the old one;
  the order of candidates is left open; creation of the directories is part of the step that uses
  them; changed ctimes and reused candidate paths are not modelled.
- Campaign: fixtures and code change once and are not restored between two checks, which digests
  could not reveal; the dispositions without terminal evidence are one value, as a report counts
  them alike; the error-rate threshold is left out because a campaign in which every attempt is
  expected has no errors; `failed` stands for the other unsuccessful verdicts. `Busy` lets any read
  of a directory somebody writes in fail.
- DockerSandbox: the output kept with an infrastructure error, a timeout or an exhausted output is
  evidence only and left out; what a program prints is
  followed only while a command line is attached; programs of other calls run until they are killed;
  `verify_cleanup=False` has no caller in the source and is left out. The death of the control plane
  is not modelled: nothing in the code handles the container it leaves. A container that was created
  and not started is inspected as not running with exit code 0, as Docker reports it.
- ContainerEvaluator: an answer has one item per case, a scorer's record is its classification, and
  a record with another binding, in another place or twice is one that is not accepted. Digests and
  framing are not modelled.
- StorageAudit: the entries of all shards are one directory and the sidecars one path; SQLite's
  snapshot is one atomic read; the last look at the paths is one step; damaged bytes keep their
  length; owners are not told apart per run; the queue is a set and is followed in any order; a
  limit counts files rather than bytes. The root limit, conflicting metadata and undecodable names
  are left out. A limit met while a referenced artifact is read yields
  `referenced_evidence_invalid` rather than `audit_incomplete`, as in the code; IntactNotBlamed and
  ExactWhenAlone therefore exclude audits that met a limit.
- The model of a flush is the usual one: what was not flushed may or may not survive.

## 7. Not modelled, and why

Sandbox probes observe what the kernel and the container runtime enforce; nothing of them is logic
of this program. Fixture loading, serialization, schema export and printing are pure I/O or string
functions, as is the parsing of diffs and of call bundles. Qualification and the corpus are
sequential loops without state of their own. Pydantic field validation (patterns, lengths) is not
modelled except for lifecycle rules. The local evaluator, which is for development only, runs the
tests in a process group of its own; its capture loop, which has to cope with children that keep
the pipes open or outlive the test process, is not modelled.

## 8. Plan

Every safety property that a run checks, every action property and both refinements of RunLedger are
theorems. What is left is the modelling of the parts that section 7 names, where it is worth while:
the local evaluator's capture loop is the one with concurrency of its own.
