# MoonFlow in TLA+

A verification project for MoonFlow: TLA+ modules translated from its source, TLC
configurations that check them on small instances, and TLAPS proofs of their main
properties for every instance. Paths below are relative to `src/`.

## 1. The system

MoonFlow runs work graphs. A *run* is an event history replayed into a projection
of work items; commands push events (dispatch an attempt to an adapter, import its
result, record an independent review). A second, larger part, `closed_loop/`, keeps
governed external effects in guarded, append-only workflows of a small transactional
store and recovers them after failures.

| component | state it keeps | operations | talks to |
|---|---|---|---|
| storage record algebra (`closed_loop/storage/state.mbt`, `commit.mbt`, `guarded.mbt`) | batches of events and intents per workflow | validate a root, classify and prepare a commit, compare guards, replay | store |
| guarded-workflow registry (`registry.mbt`) | generations of a workflow's guard profiles | activate, evolve, match a request against profiles | store |
| filesystem store (`filesystem_native.mbt`, `native_stub.c`) | committed files: batches, declarations, markers, checkpoints; one workspace lock | commit, guarded commit, write checkpoint, activate, add profile | every other `closed_loop` part |
| memory store (`memory.mbt`) | the same records in memory | the same operations, no failures | tests, embedded hosts |
| run engine (`engine.mbt`, `types.mbt`, `wire.mbt`) | a projection: status, attempt, result, review per item | apply an event, replay, propose ready items | commands |
| adapter, director, review (`adapter.mbt`, `director.mbt`, `acceptance_review.mbt`) | none: they make events from requests, results, receipts | submit, reconcile, review | commands, adapters, reviewers |
| commands (`cmd/main/main.mbt`) | `events.json`, `projection.json`, `dispatch/*.request.json`, `control.json` per run | import, transition, advance, prepare-next, submit, reconcile, complete, review, control, revise | run engine, files |
| run control (`main.mbt`, `control`) | `control.json` per run | narrow, pause, resume, cancel | supervisor, batch pause |
| unattended supervisor (`unattended*.mbt`) | result, attestation, review, lease, health and usage files | drive a run with executors, attestors and reviewers; continue a blocked run in a child | run engine, external processes |
| recovery fixture and soak (`scripts/unattended_recovery_smoke.py`, `unattended_soak.py`) | fixtures; a log and a state file per directory | play the external processes, kill and relaunch the supervisor; repeat that for hours | supervisor |
| batch pause (`scripts/batch_pause.py`) | a journal per apply | pause many runs with the native command | run control |
| review exchange (`scripts/review_packet.py`, `review_return.py`) | packet, worksheet and receipt files | export a result, judge it offline, return a receipt | commands, artifacts |
| planning scripts (`scripts/worksheet_merge.py`, `input_rebindings.py`, `shared_table_plan.py`, `graph_explorer.py`) | worksheets, resolutions, mappings, forms, pages | merge, rebind, expand, publish | people, source graphs |
| conformance scripts (`conformance/boundary_scan.py`, `check_phase1c_package_graph.py`) | registered digests, symbols and package graph | report what differs from the registration | the checkout |
| single step (`single_step*.mbt`) | the files of one item | the stages of the supervisor, one command each | run engine |
| operator hand-off (`operator_handoff_publish.mbt`, `operator_receiver_receipt.mbt`) | hand-offs and a receiver journal | publish, receive, recover | run engine, files |
| migration, responsibility, capability loop | child runs, responsibility events, capability projections | revise, change, activate, observe, settle | run engine |
| effects, authorization, governance (`closed_loop/effects*`, `governance`, `retry_authority`) | workflows of intents, attempts, decisions | fold a replay, prepare the next fact | store |
| orchestration (`closed_loop/orchestration`) | work, governance, time and evidence workflows | leases, cancellation, dispatch claims, callbacks, reconciliation, settlement, retry, scheduling, delivery | store, effects, providers |
| host, collaboration | configuration, snapshots under a named lock | bootstrap, expected-head mutations | store, files |

What makes it hard, component by component, and what would make it correct:

* **Store.** Several processes share roots under one `flock`; requests are built from
  replays that others overtake; a lost answer is retried; a process dies between the
  two files of an activation; the machine loses power between a rename and an fsync.
  Correct: each workflow is one log extended only at its head, once per command key,
  and after registration only while the guards of a registered profile are where the
  caller saw them; a root can always be loaded; whatever was acknowledged stays.
* **Registry.** Interrupted activations, wrappers bound to an older generation, raw
  writers that opened the store earlier. Correct: no commit gets past it, receipts
  never become orphans, and an interruption can always be repaired.
* **Run engine and commands.** Adapters report late, twice and out of order; commands
  read, replay and rewrite a whole file and can be killed anywhere; operators move
  items by hand. Correct: work starts only on accepted dependencies, an acceptance
  binds the attempt it reviewed, an attempt with an unknown outcome is reconciled
  before another is opened, attempt numbers are never reused, history is append-only.
* **Dispatch of effects.** Several dispatchers fold the same stream and race to claim an
  effect; leases expire and are reclaimed and the work is cancelled between any two of
  their steps; each may stop after its claim, before or during the provider's answer; the
  provider may act after it said it did not. Correct: an effect is owned once and only
  while its work is open, the provider is called at most once, what is recorded as
  definite is true, and every stream that commits leave behind passes every later fold.
* **Unattended supervisor.** It is killed between any two of its files, executors outlive
  it and write later, adapters fail and come back, operators pause and cancel while it
  works. Correct: an acceptance rests on evidence of one attempt from draft to receipt,
  executions stay within the granted budget but for the charges that kills lose, every run
  that is launched again comes to an outcome, and a pause brings it to rest.
* **Batch pause.** A command whose effect is unknown, because it timed out or the script
  died. Correct: nothing is done that the journal did not announce, nothing is reported
  as paused that is not.
* **Review exchange.** A packet is read in four commands, judged offline, and comes back
  to a run that has moved on. Correct: what is recorded is the judgement of a person on
  exactly this attempt, result and content.
* **Planning scripts.** People decide on previews that are out of date when they are
  applied; a page is put together from several reads. Correct: no edit is lost but to a
  choice that saw it, a plan stays acyclic, an expanded plan means its source, and a page
  binds one version of everything it shows.
* **Conformance scripts and soak.** Reports about a checkout, or about hours of runs, that
  must not be better than what happened: a section left out, a package registered and
  gone, a state file of an earlier soak.
* **Recovery, governance, scheduling, hand-off** (not modelled): callback against query,
  retry only after proof of non-application, claims and cutoffs of the scheduler, a
  receiver journal applied once.

## 2. Modules

    StorageKernel          record algebra and registry (pure definitions)
      WorkflowLedger       what the store promises: atomic, no locks or files
      GuardedStore         the filesystem store: processes, lock, renames, failures
        MCGuardedStore     instances      GuardedStoreProofs   theorems
    AtomicStore            one atomic store of one file, system call by system call;
                           AtomicStoreProofs theorems
    DispatchOwnership      what dispatch promises: owned, performed, recorded once
      EffectDispatch       claims, leases, cancellation, provider calls, restarts
        MCEffectDispatch   instances      EffectDispatchProofs theorems
    RunKernel              the event algebra of a run (pure definitions)
      RunEngine            the commands on events.json: read, stage, truncate, write
        MCRunEngine        instances      RunEngineProofs      theorems
      RunControl           control.json and the control command
        UnattendedSupervisor   the supervisor, its processes, kills and continuation
        BatchPause         pausing many runs with the control command
      ReviewExchange       a result judged offline
      PlanWorksheets       merged and rebound worksheets
      PlanForms            expanded tables, and the page of the graph explorer
    PackageGraph           the registered package graph and the search for a cycle
    ConformanceScan        the registered content and layering of the repository
    SoakRun                repeated qualification in one directory
      Operations           the programs around a run, in sessions
        MCOperations       instances      OperationsProofs     theorems, from SupervisorProofs,
                                          DeskProofs and ConformanceProofs

Pure functions of the code are operators of a kernel module; every operation that
changes state is an action of the module above it. `PROJECT.json` ("map") gives the
lines behind each definition. Operators whose comment begins "Mutant" are deliberate
bugs: each replaces the definition after it when the sensitivity of a property is
checked, and nothing else refers to them.

### GuardedStore: state and actions

| variable | code |
|---|---|
| `hist[w]` | the `StoredBatch` files of workflow `w`, sorted by first sequence |
| `declared[w]`, `marked[w]` | registry declarations by generation; binding markers |
| `checkpoint[w]` | checkpoint files |
| `lock` | the `flock` on the workspace that `acquire_native_session` takes |
| `work[c]` | what the operation of process `c` decided: files to rename, answer to give |
| `acked`, `issued`, `failures` | history variables: answers and receipts given, bound on failures |

An operation takes the lock, loads, validates and decides in one step (`Commit`,
`GuardedCommit`, `FirstActivation`, `RepeatedActivation`, `AddGuardProfile`,
`WriteCheckpoint`); nobody else can change the disk in between, because every mutation
of the code holds the exclusive lock from before the load until `native_close`. Each
rename is a step of its own (`Publish`), then the caller is answered (`Answer`). `Fail`
may cut the operation short anywhere. An operation the code refuses changes nothing
and is not a step. Requests are built on any head the workflow ever had, and guard
heads are read one by one at different times (`PastHeads`, `PastGuards`), which covers
stale callers, retries of a lost answer and callers that never held the answer.

Content digests are taken as collision free and stand for what they cover. Sequence
and revision of an event advance together from one, so one number stands for both.

### AtomicStore

`moonflow_storage_native_atomic_store` one call per step: create, write, fsync, rename,
fsync of the directory. A power loss keeps only what was flushed, and any subset of the
directory entries that were not. `GuardedStore` takes these calls as one `Publish`,
which `NoTornFile` justifies for kills and failed calls.

### EffectDispatch: state and actions

| variable | code |
|---|---|
| `work` | the facts of the work's stream after its intents: leases, activations, claims with their invocation starts, policies, observations, legacy facts, the cancellation |
| `gov`, `proposal` | the approval of a cancellation in the governance stream, and the head it names |
| `now` | the clock that callers pass as `claimed_at`, `observed_at` |
| `op[d]` | where the dispatch operation of process `d` is, with the claim it prepared |
| `calls[e]`, `fate[e]` | the provider: how often it was asked, and what became of the effect |

Every durable step is one guarded commit on the head that was folded, with the governance
head as a guard; that such a commit is atomic is what `GuardedStore` establishes. A fold
is `Folds`: everything `fold_governed_recovery_v3` and the folds below it check again of
the facts above. Whatever reads the stream starts with it, so a stream that does not fold
stops everybody. Fold and commit are one step where the code rechecks the head at the
commit; a dispatch is split where the code lets others in: `Prepare`, `CommitClaim`, one
step per policy binding, `CallProvider`, `ReceiveAnswer`, `PersistObservation`, and
`Abandon` anywhere for a crash, a raise or a lost race. `Resume` is the restart that finds
a claim. The provider is external: it performs an effect any time after it was asked, and
answers truthfully, not at all, or for some other call.

Abstracted: records are their kind and the fields the folds compare; ids, digests and
signatures are what they identify. The work starts with its intents committed, and facts
of the retired dispatcher can only precede V3, because `dispatch_guarded_effect_v2` always
raises. An approval is six governance events in the code and `Approval` events here; only
the first names a proposal and only the complete one authorises. Left out: schedule
registration, the deadlines of operations, terminal records, manual holds, and all facts
of reconciliation and retry, which the fold refuses today (finding 5).

### RunEngine: state and actions

| variable | code |
|---|---|
| `file` | `events.json`: absent, torn (truncated) or whole, and the run it replays to |
| `requests` | the `dispatch/*.request.json` files that prepare-next leaves |
| `work[c]` | where the command of process `c` is, and its copy of the run |
| `told`, `imports` | history variables: what commands printed as recorded; a bound |

A run is represented by its projection and by the identities of the events that are
applied at most once (`Submitted`, `Imported`, `Decided`): replaying a history gives
exactly that. `Load`, one command, `Truncate`, `Write` and `Answer` are separate steps
because `write_json` truncates before it writes and no lock is held. The input files of
reconcile and review are not state: any adapter report of any attempt, and any receipt
that can pass the identity checks, may arrive at any time, repeatedly. A report has an
identity of its own (`result_id`, the `id` of a `Result`): the same report twice changes
nothing, another one with the same status is imported.

Left out: artifact and approval events (they touch lists no property reads),
responsibility and checkpoint reuse events, error texts, timestamps.

### Operations and its parts

`Operations` is one specification of the programs started around the native program.
`session`, chosen in the initial state, says which of them are used together; the others
rest in one of their initial states. The supervisor, the operator and the batch pause
share the files of a run; the others work on files of their own, so each of them is a
session by itself.

| session | programs | what meets there |
|---|---|---|
| supervisor, kill | `UnattendedSupervisor` | kills at every step, executors that outlive them, relaunches, a changed graph |
| supervisor, operator | with `RunControl` | narrow, pause, resume and cancel at any step of the supervisor |
| supervisor, batch | with `BatchPause` | a batch pause against a run that goes on |
| operator, batch | `RunControl`, `BatchPause` | controls before and after an apply |
| review | `ReviewExchange` | operator transitions, new attempts, repeated and contradictory reports, rewritten artifacts between the reads |
| merge; rebind | `PlanWorksheets` | edits between preview and save |
| forms | `PlanForms` | a source and a form that are rewritten between any two reads, and before the page is written |
| graph; scan | `PackageGraph`; `ConformanceScan` | a checkout that changes between checks |
| soak | `SoakRun` | several soaks in one directory, signals, failures, deaths |

*Supervisor.* `file[r]` is `events.json` of the run and of the child that continues it;
`dispatch[r][i]` the request, result, attestation, snapshots, review receipt and lease named
after the current attempt; `draft`, `product` the artifacts; `usage`, `health` the usage
and adapter files; `sup` the program counter and what the process holds in memory;
`orphans` executors that outlived a kill. Each stage of `run_unattended_item` that ends
with a write, or starts a process, is an action, so a kill falls between any two of them,
and in the middle of a write of `events.json` or `control.json` (torn). The processes are
those of the recovery fixture. A content stands for its digest and is new with every
execution, so evidence of two executions is never confused. The drafts are read twice, for
the digest check (`Verify`) and for their snapshot (`SnapshotDrafts`), and a late executor
may write in between; the digest that was verified is recorded beside the snapshot
(`RecordEvidence`), and an attestation is compared with the result that this launch read
(`held`).

*Batch pause.* The script is a program counter with what it has read; the native command is
`cmd["batch"]`, which lives on when the script is killed. *Review exchange.* `export` holds
what prepare_packet has read so far; `store` is the run with the digest each result claimed.
`reconcile-attempt` takes any report on the active attempt of an item that is active,
waiting or blocked, so also after a review rejected it. *Worksheets, forms.* A sheet, form
or source stands for its bytes and its digest. The explorer reads source, map, source, form,
source and form again, and then writes the page, each a step; the page remembers what was on
disk when it was written. *Package graph.* The recursion of `cycle` is a stack, one call or
return per step. *Scan.* A file has a form, a section it is registered for, and a content
that declares and mentions symbols and holds one class of text; the rules say on which
surface that class is reported. *Soak.* One action per check and per write; the deadline may
pass before the first cycle. `state.json` also says which soak finished it, by
`elapsed_hours` in the code.

Abstracted or left out: files other than `events.json` and `control.json` are written whole
or not at all; three consecutive failures of an adapter stand for more; a child run gets no
child; token and cost budgets; a resolution that supplies a third value; the order within
lists of a worksheet; a source restored to its former bytes between two reads of the
explorer with another map of the same links in between (the code cannot see it, and
`PublishedFromOneSource` compares links); an interface that is registered and missing ends
the real scan with an error in place of findings; how patterns recognise a class of text; all
parsing, sizes and layout. Of the processes that a kill leaves behind only executors go on
writing: the attestor and the reviewer of the fixture answer at once or not at all, and the
fixture's executor names one result per attempt. In the review session every review comes
through the exchange; receipts made by other means are in `RunEngine`. The package graph
check digests the files that its lists of anchors and artifacts name (`Anchored`), not every
registered file; of the others only numbers of files and lines are compared.

## 3. Runs

| run | expectation | what it shows |
|---|---|---|
| `StoreRegistry` | pass | two processes, two failures, three workflows in two roots, commands that reuse a key or an event of the other workflow, activation, evolution and retries: `Readable`, `AckedStored`, `RegistryRepairable`, `ReceiptsDescend`, `GuardedOnceRegistered` |
| `StoreLedger` | pass | one process, one failure, checkpoints: the store implements `WorkflowLedger` (`LedgerSpec`), checkpoints stay on the history, the lock is given back |
| `StoreForeignCause` | violation of `Readable` | an intent naming an event of another workflow of its root is committed and closes the root |
| `AtomicStore` | pass | torn files never become visible, a first answer survives power loss |
| `AtomicRetry` | violation of `AnswersSurvive` | a retry can be answered from an entry that is not durable |
| `RunDirector` | pass | a run of two dependent items: `Gated`, `Accountable`, `Reconciled`, `FreshAttempts`, `AcceptedFrozen` |
| `RunManualReady` | violation of `Reconciled` | the manual ready transition bypasses reconciliation |
| `RunReimport` | violation of `ReportedKept` | importing an existing run rewrites its history |
| `EffectDispatch` | pass | two processes race for one effect with the same command key, under a lease that is renewed, released, expired and reclaimed, and a cancellation: `AtMostOneCall`, `EligibleUntouched`, `KnownIsTrue`, `ReadableUnbound`, `AnswerRecordable`, and the refinement `ImplementsOwnership` |
| `EffectPolicies` | pass | one process, two effects that share a capability, legacy facts of one of them, both entry points, restarts: streams without policies stay readable and answers recordable |
| `EffectUnreadable` | violation of `Readable` | the production entry point binds a policy that no later fold accepts |
| `Operations` | pass | the eleven sessions above: `EvidenceBound`, `ExecutionsWithinBudget`, `RunsSettle`, `PauseQuiesces` (supervisor), `JournalHonest` (batch pause), `ReceiptCurrent`, `WorksheetsKeepIntent`, `ExpansionSound`, `PublishedFromOneSource`, `GraphVerdict`, `DriftReported`, `LayersContained`, `SoakHonest` |

The five violations are the findings of `PROJECT.json`, with the text of the repository
that says otherwise.

**Bounds.** Storage: two event batches for the registered workflow, one for its guard and
one in a sibling workflow are enough for every pair of operations to conflict (key reuse,
event reuse across workflows of a root, guard moved before and after the work head, commit
before and after each generation); two profiles give one evolution; two failures interrupt
an activation and its repair. A second process matters because the lock makes operations
atomic only up to the renames: interleavings are those of whole operations, and two
processes give each pair in both orders. `StoreRegistry` uses symmetry on the processes (it
checks no liveness). Run engine: two items, one depending on the other; the first may be
attempted twice (a retry after each outcome), the second once; one import; reports of one
identity per status and output (`ResultIds`), as two identities of one status meet in
`Operations`. `MaxAttempts` and `MaxImports` are guards in the actions, `MaxFailures` and
`MaxPowerLoss` in theirs.

Dispatch: six facts are an activation, a lease, a claim with its start, an observation and
one fact to spare, or a release and a reclaim in its place; that is enough for a lease of a
second epoch, a cancellation before, between and after every step of a dispatch, and a
renewal between fold and commit. `MaxTime` 1 gives an instant before and one at the expiry.
One key makes the repeated commit reachable: two processes that prepare the same claim;
they differ otherwise by the time they prepare at. The second effect of `EffectPolicies`
matters for the shared capability only, so five facts are enough there. `MaxFacts` and
`MaxTime` are guards of `Commit` and `Tick`.

`Operations`: two items, one depending on the other, as everywhere. One workspace has not been imported, two executions granted and one kill; the other has two
failures of its adapters behind it, serves one item only, grants one execution and allows
two kills: a probe, an exhausted budget, an item without a driver and a continuation all
occur. Two cycles per launch are one more than the items need after a relaunch. One command
of the operator, beside the ones of the batch, meets the supervisor at each of its steps.
Three edits of worksheets make a conflict and one edit after it was shown. A source graph
is written with no order, with either order or with a cycle (`MCWritten`). In the review
session one item may be attempted twice, the operator may block and ready it, and the first
attempt is reported as a success with either of two identities and two digests
(`MCReports`); that gives a second result after a rejection and one while a packet is out.
Unknown and failed reports meet reviews in `RunDirector`, and in the theorems. Two rewrites
of a source or of a form come before and after a read, and may restore it. Of two source
files one is digested. Two changes of a checkout are one to introduce a fault and one to hide it by registering it;
one change is enough for the scan, whose initial repositories already hold every class of
content of `MCTrees`. Two soaks of up to two cycles are enough for each to find the state of
the other. `kills`, `MaxControls`, `MaxCycles` (a parameter of the manifest), `MaxAttempts`,
`MaxEdits`, `MaxRewrites`, `MaxChanges`, `MaxCommits`, `MaxSoaks` and `MaxSoakCycles` are
guards of `Kill`, `OperatorStarts`, `Cycle`, `Transitioned` and `Commanded`, `EditCell`,
`Rewrite` and a second `SaveForm`, `RepoChanges`, `Commit`, `SoakStart` and `BeginCycle`.

**Deadlock** is checked in the store runs with `Fail` bounded; `RunDirector` sets
`CHECK_DEADLOCK FALSE` because a torn `events.json` really stops every command of the
run once the import bound is used. The effect runs set it too: a stream at its bound, or
one that no longer folds, admits nothing more.

**Fairness.** `StoreLedger` assumes weak fairness of `Publish(c)` and `Answer(c)`: a process
that holds the lock is running straight-line code without waiting for anything (the lock is
the last thing it waits for), so its next call returns or fails. No fairness is assumed for
starting operations. `LockReleased` then says that an operation that was admitted gives the
lock back, failed or not; an operation that is refused is no step of the model, so it says
nothing of those. `Operations` assumes weak fairness of `Launch` and of
`Progress`: the harness of the recovery fixture launches the supervisor again whatever
became of the last launch, and a supervisor that runs takes its next step, because every
process it starts ends or is timed out. Nothing is assumed of kills, of late executors, of
operators or of people; a kill is bounded, since a supervisor killed at every launch settles
nothing. The other runs check safety only.

**Concurrent commands.** `RunDirector` has one client: a comment in
`cmd/main/responsibility.mbt:9` says existing runtime commands must not run
concurrently. With two clients TLC finds `FreshAttempts` violated (a lost update makes
prepare-next reuse a number); the theorems about the other properties hold for any
number of clients.

## 4. Proofs

**The store** (`GuardedStoreProofs`). `StoreInv` is inductive; `Readable`, `AckedStored`,
`ReceiptsDescend`, `CheckpointsValid` and `TypeOK` alone are not, because none of them
says why the file a process is about to rename still fits the disk. `StoreInv` adds it:

* only the holder of the lock has a job in hand (`work[c] # Idle => lock = c`), so while
  it works nobody else changes the disk (`OthersIdle`, `JobKept`);
* a job is one of five kinds, each with what its operation established under the lock:
  a batch that can be appended to its history (`Appendable`), a binding that continues
  its chain (`Declarable`), a declared binding whose marker is missing, a checkpoint at
  an event, or nothing left to publish and an answer the disk already justifies;
* every root satisfies what `load_native_state` checks (`WorkflowInv`, `GloballyUnique`).

One lemma per operation shows that its guard gives one of these jobs, one per rename that
the disk stays valid and keeps what it had, and `Answered` and `Failed` that answers are
true and failures harmless. Nothing is assumed but what the request constructors check.

The registry is a second invariant on top of it (`RegistryInv`): at most the newest binding
lacks its marker, the heads a binding was made with stay in the history, and a process
about to publish a batch or a declaration still satisfies what the registry asked of it.
`GuardedOnceRegistered` is the rename of a batch read with this invariant. For the
refinement of `WorkflowLedger` the rename of a batch is `LCommit`, the rename of a
declaration `LRegister` or `LExtend`, and every other step leaves the ledger alone: markers,
checkpoints, failures and answers do not show in it.

`Readable` and `RegistryRepairable` alone assume `LocalCauses`: an intent names an event of
its own command, or no event of another workflow of its root. Without it `Readable` is
false (finding 1). It serves a third invariant (`CausesInv`), which says this of the
batches that are stored and of the one about to be.

**One atomic store** (`AtomicStoreProofs`). Neither property is inductive. `AtomicInv` adds
that what a name shows was flushed before the rename, that what an answer says is on the
device was seen there by its writer after the directory was flushed, and that a writer at
work has the lock; so each call that fails, and each power loss, leaves both true.

**The run engine** (`RunEngineProofs`). `EngineInv` says that every run, in the file and in
the memory of every command, satisfies an invariant of each item: the types of its
fields, started only with accepted dependencies, and, when it is accepted or carries a
result or a review, the events that justify them are applied (`Sound`). It is needed
because a command works on a copy: `Gated` of the file says nothing of a copy that is
about to be written. From it follow `Gated`, `Accountable`, `TypeOK` and `AcceptedFrozen`, for
any graph, number of concurrent commands, reports and kills. `Reconciled` needs a second
invariant (`TrackInv`: an attempt that is not the active one has a recorded outcome) and
the assumption that no operator uses the manual ready transition (finding 3).

`FreshAttempts` and `ReportedKept` are true of one command at a time and one import only,
as the comment in `cmd/main/responsibility.mbt:9` asks; two commands lose an update, and a
second import forgets the first (finding 4). `AttemptsAlwaysFresh` and `ReportedAlwaysKept`
state them under these two conditions, with a third invariant (`SerialInv`): an applied
submission has a number its item has counted (`Numbered`), a request names at most the
next attempt of the run in the file, and the copy a command is about to write has
everything the file has (`Grown`), so a kill between the truncation and the write loses
the file but no other write does.

**The dispatch of effects** (`EffectDispatchProofs`). `OwnershipInv` is inductive.
`AtMostOneCall` is not: it does not say why the process about to call is the only one. The
invariant says it in three parts. A prepared claim is sound as far as the head it names:
no claim of its effect and no cancellation lies below that head (`PreparedInv`), so a
commit that finds this head unchanged is the first (`FreshIsFirst`). A process that
committed its claim owns the effect: the claim is in the stream, no other process owns it,
and it was called exactly when its owner is past the call (`OwnerInv`, `Exclusive`). And a
call or an observation implies the claim (`EffectInv`). Streams only grow (`CommitOne`,
`CommitTwo`), so a dispatch that does not move keeps its part (`DispatchKept`). From it
follow `AtMostOneCall`, `EligibleUntouched`, `KnownIsTrue`, and that each step implements
one of `DispatchOwnership` or stutters, all for any processes, effects, keys, clock and
length of the stream. The only assumption is the types of the constants. None of these
needs the checks of the folds: the heads alone carry the argument.

That the stream can always be folded needs them. A fold asks of a fact only what precedes
it, and whether the approval it was made under is still there once the work is cancelled;
so a stream that folds, with one more fact that answers for itself, folds (`FoldsOneMore`,
and `FoldsClaim` for a claim with its start). `FoldInv` adds what the committer knows: a
start never comes without its claim, and a prepared claim is sound as long as its head is
the last (`ClaimSound`), because the process folded that very stream; a commit with any
other head fails. `ReadableUnbound` and `AnswerRecordable` follow, for streams without a
recovery policy of their own; with one, `Readable` is false (finding 5).

**The programs around a run** (`OperationsProofs`, with one module per group of parts). Each
part has its own inductive invariant, kept by its steps, and every other step leaves its
files alone (`StepOfWorksheets` and its like). So each theorem holds for every session,
with all programs at work together, where a run of TLC takes a few at a time.

* `SupervisorProofs`. `EvidenceBound` says nothing of the files of an attempt before it is
  accepted, nor of the run a supervisor holds in memory between two writes. `SupervisorInv`
  follows each item through the places of the supervisor. For every item of the run and of
  the run that the recovery opens, whatever the attempt has left in its files agrees with
  where the item stands (`Justified`): an item in review has a result, a claim equal to the
  snapshot of its product and an attestation, and no receipt of another claim; an item that
  starts an attempt has no receipt yet. At the item at hand the memory is what the last write
  left, and each place adds what was just found or written (`Stage`), which is what a
  supervisor launched after a kill finds again. Until the recovery opens it the other run is
  untouched (`ChildUntouched`). An executor that outlived its supervisor writes over drafts and
  results, never over snapshots, claims, attestations and receipts, which is why each of those
  is kept under what was observed then. A second invariant accounts for the snapshot of the
  drafts: from the check on the drafts on disk are the verified ones or those of a late
  executor, and the snapshot is one of them (`Accounted`); that it is the verified one is
  false (section 5). For `ExecutionsWithinBudget` the executions are counted against
  the charges and the kills: one more than charged while an executed item is at hand, and a
  kill there adds one to the other side (`Budgeted`).
* `ConformanceProofs`. `GraphVerdict` is proved of the search for any packages and imports:
  the stack is a path without repetition, what is done leads only to what is done and holds
  no cycle, an import no longer to be visited is done, and so is a root that was taken
  (`SearchInv`). The last package entered on a cycle would have to be done before itself,
  so a search that ends has seen none. `DriftReported` and `LayersContained` follow from a
  scan without findings and from every change discarding the scan. `SoakHonest` is about
  two files and the soak that writes them. `SoakInv` says that the lines of the soak at
  work are those of the cycles it has finished, that the checks of the cycle at hand that
  are no longer left have passed unless it has failed, and that the state file is its own
  as soon as it has finished a cycle. Before that it has no line in the log, so the state of
  an earlier soak that it completes, as "passed" even when it said "failed", is one finished
  by a soak without a cycle, and `SoakHonest` says no more than that of it.
* `DeskProofs`. `JournalHonest` needs to know whose command is under way and on which
  run (`CommandsApart`), and that a run without a result was announced only if it is the run
  at hand (`RunAtHand`). It assumes that "operator" and "batch" start the commands and that
  the operator's actions are the four of the program. `ReceiptCurrent` rests on what every
  item of the run, and of the copy a review command is about to write, always satisfies
  (`ItemReviewed`): the review it carries was made by one of the judgements, and an accepted
  item still shows what was accepted. Reports come as often as they like and replace the
  result of an item that was rejected; they leave its review alone, and no report or
  transition leads to an accepted item or away from one. An export at work, its packet and its
  worksheet each hold a manifest of some success and of the content that success claimed
  (`SoundManifest`), current or not; a receipt repeats the manifest that was judged, and the
  native command takes it only while the item shows the same attempt, result and digest.
  `WorksheetsKeepIntent` needs only the types of the sheets and that a choice
  names a sheet: what a merge saves is decided in one step, from bytes that the resolution
  names. `ExpansionSound` rests on `ExpandedLinks`, which says of any repeated steps and rows
  when one copy waits for another; a set of steps that wait for each other would, without
  its rows, be one of the source. `PublishedFromOneSource` needs what the explorer holds at
  each of its stages, and that nothing was rewritten since the source was read last, or else
  the count of rewrites has moved (`ExplorerShape`).

`OperationsTypes` puts the parts together: the invariants above, with what they leave out of
the types (`PausePlaces`, `ReviewTypes`, `WorksheetTypes`, `FormTypes`, `GraphTypes`,
`ScanTypes`), are kept by every step of every session. Two of them need more than a look at
the assignments: a merged or rebound sheet is a sheet again (`MergedRows`, `ReboundRows`), and
a review command writes back a run although it was given a receipt from a file, because the
receipt has to bind what the run shows.

Every safety property of a passing run is a theorem. Only model-checked: `LockReleased`,
`RunsSettle` and `PauseQuiesces`, which are liveness under fairness and out of the prover's
reach.

## 5. Findings

1. `prepare_commit` accepts causative events of other workflows of the root, every later
   load refuses them (`StoreForeignCause`).
2. A retry is acknowledged without the directory being flushed (`AtomicRetry`).
3. The manual ready transition readies an item with an unresolved attempt
   (`RunManualReady`).
4. `import_graph` rewrites an existing run (`RunReimport`).
5. The production dispatch commits its recovery policy in a fact that the orchestration
   fold refuses, so the provider is never called and the stream cannot be read again
   (`EffectUnreadable`). The same fold refuses every fact of reconciliation, backoff,
   retry and manual intervention.

Beside them, a window that no document of the repository speaks of: the supervisor checks
the digest of the drafts (`cmd/main/unattended_cli.mbt:703`) and reads them again for the
snapshot it keeps as evidence (`:713`). An executor that outlived a killed supervisor may
write in between, so accepted work can have kept a draft that was never verified. What the
reviewer accepts is the product, whose evidence stays sound; `EvidenceBound` says exactly
this much.

## 6. Not modelled, and what is next

In order of importance:

1. Recovery of external effects, on top of `EffectDispatch`: query, callback, settlement,
   backoff, retry and manual holds. The fold refuses their facts (finding 5), so no stream
   of the program as it is holds one; a model would take the catalogue as a parameter.
2. Scheduler claims and their expiry, the terminal records of a work, the approval as a
   fold of its own.
3. Operator hand-off and the receiver journal; single step commands, which repeat the
   stages of the supervisor; responsibility; revision of a run with a changed graph.
4. Effects, authorization, governance and retry authority as folds over the ledger, each
   checked against a reference definition; collaboration and hand-over; the capability loop.
5. The graph algorithms against reference definitions; the delivery streams.

Not worth a model: encodings, digests and parsing (they appear as identities), network
I/O, rendering of reports and pages, the self test of the boundary scan, the native helper
and model loss harnesses (they exercise another program), hosts and demonstrations.
