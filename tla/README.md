# A verification project for OmniNode RSD

RSD records the lifecycle of delegated runs in an append-only log, turns a
signed grant into at most one dispatch, and drives a staged, signed,
one-shot procedure (allocate, materialize, start, and an observed operation on
the result) that creates an isolated environment through a remote executor. Its promises are nearly all of one
form: *something signed happens at most once, and what is on record is true*,
over crashes, retries, unreported commits and concurrent processes. The TLA+
modules here model the parts that carry those promises, TLC checks them on small
instances, and TLAPS proves the most important ones for every value of the
constants.

## The system

| part | source (`src/src/omninode_rsd/`) | state it keeps | operations | hard behaviour |
|---|---|---|---|---|
| reducer, projection, replay, validation | `lifecycle/{reducer,projection,replay,validation,hashing,models}.py` | none | reduce, project, verify a replay | two validators that must agree; hash chain |
| in-memory event log | `lifecycle/{event_log,ingress}.py` | events per run, spent ids, a reentrant lock | `append`, `ingest`, reads | builder callbacks under the lock |
| PostgreSQL event log | `lifecycle/postgres/store.py`, `001_*.sql` | event rows, head rows | the same, one transaction each | READ COMMITTED, advisory lock, unique ids, unreported commits |
| delegation ingress | `delegation.py`, `lifecycle/postgres/{claim_store,delegation_claim_port}.py`, `002_*.sql` | claim rows; the log | `submit` | six writes and calls in sequence, no retry |
| grant verifier | `src/public_verifier` | none | parse, verify | expiry |
| allocation-journal genesis | `lifecycle/authorization.py` (`_provision_allocation_journal`, `reconcile_journal_genesis`) | marker, database and anchor files, artifacts, tombstone | provision, reconcile | seven writes without a transaction; flocks |
| staged authorization | `lifecycle/authorization.py` (`_run_{allocation,materialization,start_runtime}_authorization`) | journal rows, receipts, tombstones | run a stage, recover | one external effect between durable writes |
| observed operation | `lifecycle/authorization.py` (`_run_observed_authorization`, `_provision_journal`) | a second journal with its own genesis | provision, run, recover, reconcile | as above, plus signed reconciliation |
| control leases | `lifecycle/authorization.py` (the `with`-less acquire/release of four stages) | capabilities held during a stage | acquire, inspect, recheck, release | release on every path, drift |
| executor transport and relay | `lifecycle/{transport,executor_transport}.py`, relay in `executor_daemon.py` | one ssh session per call, pipes | deliver, allocate, forward | deadlines, lost connections, three parties |
| executor daemon | `lifecycle/{executor_daemon,executor_installation}.py` | session rows, engine checkpoints, a lease | serve a session, abandon, reconcile | crashes between checkpoint and engine call |
| allocation backend | `lifecycle/executor_allocation.py` | what the plan's engine calls made | run the plan, inspect, reconcile | late requests, duplicates, removals |
| attach sessions | `lifecycle/container_attach{,_v2}.py` | two session objects, tickets | ticket, claim, chunks, acknowledgement | protocol order, lost answers, interrupts |
| provider material | `lifecycle/provider_crypto.py` | artifact files, keychain items | provision, status, load | create-once on two media, several roots |
| signed documents | `lifecycle/infisical_disposable.py`, `container_*`, `target_delivery_*`, the `Verified*` loaders | none | verify a set of documents together | which digest names which, staleness, order of issue |
| migration runner | `lifecycle/postgres/migrations/runner.py` | migration ledger | `apply_pending` | ambiguous commit, exit of the lease behind it |
| execution wire contract, dispatch attestation | `delegation_execution.py`, `dispatch_attestation.py` | none | validate a frame or document | none: pure functions |

How they interact: the ingress writes to an event log (in-memory or PostgreSQL)
and to the claim table, and calls a dispatch port. A stage holds an artifact
root lease and an operation lease, spends a tombstone at an external create-once
authority, moves a row of the SQLite allocation journal, calls the executor, and
writes a receipt file. The journal a stage uses was made once by the genesis.
The executor call goes over ssh to a forced command, which relays it to the
daemon's Unix socket; the daemon claims the operation in a session journal of its
own and drives the container engine step by step. Secrets reach a container over
an attach session, once per ticket and container. Every one of these steps first
reads a set of signed documents that name each other by digest; the first of them
rest on provider material that was provisioned on the operator's machine.

What must hold, part by part:

- log: what is stored is what the reducer accepts; replay verification is exact;
  head and rows never disagree, acknowledged events stay; calls return;
- ingress: one dispatch per authorization (and per run on a durable log), on
  record before it happens; an orphaned run is never resumed; results are true;
- stages: one executor call per operation, one materialization per artifact
  root, predecessors first, a delivery nonce once, committed means done and on
  file, recovery never touches a live effect, terminal rows are final, runs end;
- executor: a secret is read and an engine step called at most once, checkpoints
  and receipts are true, a start follows its materialization, reconciliation is
  not misled by a live session; a call's verdict is true, an effect needs the whole
  request, everyone ends;
- genesis: one database per allocation operation, a journal that is opened is
  complete, settled is settled, provisioning ends;
- observed operation: a current journal is complete, a committed row was performed,
  resolution never moves the row of a live effect, a caller is not told of a
  refusal after the effect; leases: each that was entered is exited (unless the release itself is interrupted), all are held
  while the effect runs, a commit vouches for capabilities that had not changed;
- attach: a container is served once, a receipt needs every chunk in order, what
  goes into the journal never understates the claim;
- allocation backend: a receipt lists what was there together, nothing made by
  another allocation is adopted, reconciliation classifies what is there;
- provider material: what is attested is what is in the keychain, nothing is stored
  without its receipt, a generation that was left stays blocked;
- documents: an accepted set belongs to one deployment and names nothing
  superseded, and an honest operator can bring a verifier to accept;
- migrations: ledger and schema agree, one order, nothing run twice, all or nothing in a
  call; a call that returns did it, one that raises an error of its own without the note
  "ambiguous" did nothing.

`PROJECT.json` lists every component, and under "hazards" each place of the code
where one of these is hard to test, with the property that watches it or the
reason why none does yet.

## Modules

    OneShot            abstract: a token is fresh, spent, attempted, in that order
    LifecycleStream    abstract: per run a legal event sequence, ids spent once
    Lifecycle          reducer.py, projection.py, replay.py, hashing.py (operators)
    InMemoryEventLog   event_log.py, ingress.py            implements LifecycleStream
    PostgresEventLog   postgres/store.py, 001 SQL          implements LifecycleStream
    Delegation         delegation.py, claim_store.py       implements OneShot
    StagedAuthorization  authorization.py, the stages      implements OneShot
    JournalGenesis     authorization.py, the genesis       implements OneShot
    ExecutorSession    executor_daemon.py, executor_allocation.py   implements OneShot
    ExecutorDialogue   executor_transport.py, the relay and socket of executor_daemon.py
    AllocationBackend  executor_allocation.py
    AttachSession      container_attach_v2.py
    ObservedAuthorization  authorization.py, the observed operation and its journal
    ControlLeases      authorization.py, the capabilities of the four stages
    ProviderMaterial   provider_crypto.py
    MigrationRunner    postgres/migrations/runner.py
    StageDocuments     which document names which, what each verifier of a stage compares
    ContainerDocuments the same for container attach, artifacts and delivery
    Issuance           how documents so related come to be accepted together
    *_proofs           theorems about the module they extend
    MC*                instances for TLC

**Lifecycle** has the transition table, the hash chain (a hash is a term of what
was hashed, so equal hashes mean equal contents), `Reduce`, `ProjectEvents` and
`VerifyReplay`. An event has a flag `intact` for everything about one event that
can be wrong alone (its own hash, its formats).

**InMemoryEventLog**: `eventsByRun` and `eventIds` are the log's two fields. The
lock is reentrant, so other threads wait while the builder's callbacks run but
the callback itself may call the log; `frames` is the stack of `ingest` calls
whose builder has not returned. `IngestBegin` reads sequence and prior hash,
`IngestEnd` revalidates and stores.

**PostgresEventLog**: one session per caller; `Lock`, `ReadHead`, `ReadEvents`,
`Build`, `InsertEvent`, `WriteHead`, `Commit` are the statements of
`_run_transaction`. `rows` and `heads` are what is committed; an uncommitted
insert blocks an insert of the same event id (`Collides`) until it ends. `Fail`
is any statement's failure or the client's death, `CommitUnreported` a commit
that is reported as a failure.

**Delegation**: `call` is a `submit` in progress, one action per write or call.
Each `...Failed` action has the outcomes in which the write did not happen and,
for a durable store, in which it did. `LogOf` says which log a caller writes,
`Volatile` which logs die with their process (`Crash`).

**StagedAuthorization**: `Enter` takes the artifact root, `Verify` stands for all
checks before the operation lease, then `AcquireOperation`, `ClaimTombstone`,
`ClaimRow`, `BeginEffect`, `CallEffect`, `WriteReceipt`, `CommitEffect`; the error
paths go through `AfterEffectFailure` and `MarkAmbiguous`. `RecoverBegin` and
`RecoverRow` are `require_recovery` and its two siblings. `Crash` releases the
leases and may leave a torn receipt or a rollback file (`hot`), `RollBack` puts a
row back behind the journal's back. `PredecessorsCommitted` is the check before the operation lease, of all
predecessors' rows and receipt files; `StillCommitted` the weaker one under it, of the stage
before only. Request nonces are constants of the signed
documents. The nonce a run draws at random, by which its updates find its row,
is left out: the run that holds the operation lease is the one that claimed it.

**JournalGenesis**: `Enter` and `WriteDocuments` happen under the artifact root;
`BeginIntent`, `WriteMarker` under the identity lease; `ClaimTombstone` and
`RecordIntent` without it; `CompleteIntent` to `SetMarkerCurrent` under it again;
`AssertIntent` reads the identity once more. `Reconcile` to `Settle` is
`reconcile_genesis`. A write may be whole, torn, or whole and reported failed. The
control policies and the replay policy, written one after the other with
`write_once_or_require_exact`, are one file `documents`. That the allocation
receipt must be absent is left out (no stage runs before the genesis has ended).
`Remove` deletes a file, only while nobody is at work under the identity lease.

**ExecutorSession**: `session` and `engine` are the two tables of the session
journal. A session takes the lease without waiting (`Begin`), claims its row
(`Insert`, or `ClaimRuntimeStart`, which looks at the predecessor's row in the same
transaction), reads the chunks, and lets the backend repeat `ClaimStep`, `CallStep`,
`StepAnswered`, `CompleteStep` over its plan. `Proceed` is a journal transaction whose
fsync may raise although it took effect. `Fail` and `MarkAmbiguous` are the error
paths, `Stop` the end of the process at any step. An engine call is in flight until
`EngineActs`, whether or not its daemon lives. `Reconcile` and `Inspect` are the
read-only reconciliation. A plan of 30 or more fixed steps is one of two, each with
an effect an inspection can see; read-only steps cannot go wrong in any other way.

**ExecutorDialogue**: one call. `client`, `relay` and `daemon` are the steps of
`deliver` or `allocate`, of the forced command and of `_serve_held`; `pipe` has four
bounded channels (ssh standard input and output, both ways of the socket). A party
that fails closes its ends, and the others find out when they read (`AtEnd`) or
write (`broken`). `...Stuck` are the failures the dialogue forces on a party, `Fault`
those that come by themselves: deadlines, crashes, backend errors, a lost
connection. The session journal is down to whether the operation is claimed.

**AllocationBackend**: `Plan` is the fixed sequence of engine calls. A making call is
sent (`pending`) and performed by the engine, perhaps after its session failed and
another began. `there` says which allocation's request made a part, `seen` what the
session found, `Accepts` what counts as a step done; `FinalInspect` and the receipt
end the session. `Review...` is the read-only reconciliation, verdict by verdict;
`Remove` is the operator.

**AttachSession**: `daemon` and `wrapper` are the states of the two session objects of
`container_attach_v2.py`, `down` and `up` the byte streams between them, `rows` the
tickets that the authority has recorded. A write that fails has sent nothing, a
part, or all of it; a process stops or is interrupted anywhere; a restarted daemon
may attach again with another ticket for the same container.

**ObservedAuthorization**: `oActor` runs a provisioning, a run or one of three
resolutions; artifact roots may be copies of each other, so receipt and journal are
what keeps two runs apart. The marker is truncated and rewritten in place and may be
torn. That signed evidence of a performed effect is true is assumed (it comes from
outside the program).

**ControlLeases**: per stage the order in which capabilities are acquired, checked,
checked again after the effect and released, as the four runs write them out.
Everything injected may raise, and a capability may report another `version` at any
time (`Drift`). `Interrupt` ends the body, whose `finally` clause still releases; `InterruptRelease`
ends that clause itself: `_safe_call` stops an `Exception` only, so the later exits are skipped,
the one exception `EveryLeaseIsExited` makes. The allocation and the observed run do not check the provider lease
again after the effect; materialization does not release in reverse order.

**ProviderMaterial**: one process per call; `look`, `create`, `fill` are the steps of
`write_once_or_require_exact`, `pin` and `add` those of a keychain insertion under
the lock on the signer genesis. Files can be torn; keychain items can be there
beforehand, made by somebody else. Two roots share the keychain, and their policies
may list the materials in different orders. `Status` is
`provider_material_genesis_status`, read as one snapshot.

**MigrationRunner**: one connection per caller, one action per statement of
`apply_pending`. Statements, commit and rollback may each fail; a commit may take
effect and be reported as failed. `Exit` is the exit of the lease by the `with` clause around
the body. It runs behind the `except` clause that adds the note, so an error it raises reaches
the caller in place of the result, or of the body's error, without the note of this call:
an error without a note does not by itself say that nothing was committed.
`MigrationsAreExact` says it only of the errors that leave the body.

**StageDocuments, ContainerDocuments, Issuance**: a document class is the set of classes
whose digest its fields hold; a verifier is three sets of pairs: digests compared,
times compared, identifiers or parts that must be alike. `Issuance` has an operator
who files documents in any order the digests allow, may re-issue one or file one of
another deployment, and a verifier that reads what is filed. A document that holds
the digest of something issued later is out of date (`stale`). Where documents wait
for each other in a circle, one is filed with a placeholder. A time is treated as a
digest is: the code compares times of one-second resolution with `<`, so documents of
the same second pass where the model says no. Findings from these modules are stated
with that in mind. Two constants are facts about the catalogue: `Inherited[s]` is the evidence
that was verified before the effect of an effect stage was called and that the verifiers of the effect's receipts do not
look at again; `Chained(s)`, evaluated for every stage that can be passed, says that every other digest a signed
document holds of another is compared, or each step of a way from the one to the other is.

Some MC modules join components that do not touch each other, one of them at work
in a behaviour: a variable (`log`, `logs`, `at`, `held`), fixed by the initial state,
says which. The others stand still, so the state space is the sum of theirs and each
property speaks of its own component. The second component is an instance: `Attach` in `MCDialogues`,
`Obs` and `Ctl` in `MCJournals`, `Host` in `MCExecutorSession`, `Material` in `MCProvider`, `Memory` and
`Migration` in `MCEventLogs`, `Process` in `MCDelegation`. The proof
modules extend these compositions, and what is proved of a second component is proved of the
specification the run checks. `Process` is an instance of the module with the proofs, so its theorems
come with it.

## Runs

| run | instance | shows |
|---|---|---|
| `event_logs` | PostgreSQL: 2 sessions on 1 run with 2 ids, or 2 runs with 1 id; in memory: 2 runs, 3 ids, nesting 2; migrations: 2 runners, 3 packages (one, its next release, one whose files were changed) | head and rows never disagree in front of a caller, nobody waits in a circle, both logs implement `LifecycleStream`, what the in-memory log admits is what the reducer accepts and replay verification accepts exactly the current artifact; ledger and schema agree, what a call says of its migrations is true up to the exit of its lease |
| `delegation` | 3 callers (one disabled) with 2 authorizations of one run, 2 routes, one log; or 1 authorization, 2 processes with a log each that dies with them | one dispatch per run, orphans stay orphaned; results are true in both cases |
| `staged` | 1 allocation, 2 materializations, 2 starts (one shares a request nonce), 2 runners, 2 rows put back | four safety properties of the stages, and that every run and recovery ends |
| `executor_session` | daemon: 1 allocation, 1 materialization, 1 start, plans of 2 steps, 3 request ids, 2 daemons; backend: 2 allocations that plan the same names, 1 removal | checkpoints and receipts are true, starts follow, reconciliation is not misled, one-shot; the backend's receipt is a snapshot, nothing adopted, classification right |
| `dialogues` | transport: 0 or 3 chunks, pipes of 1 frame, 2 nonces; attach: 2 tickets for 1 container, 2 chunks | a call's verdict is true, an effect has the whole request, everyone ends; a container is served once, receipts are earned, checkpoints honest |
| `journals` | genesis: 2 intents of one operation, 2 roots, 2 actors, 2 deletions; observed: 2 genesis receipts with a journal each; leases: 4 stages, 1 drift | what a current marker or a committed row vouches for, who may move a row, what callers are told, which leases are held and given back |
| `issuance` | 15 stages, 1 re-issue or mix-up; material: 2 processes, 2 roots, 2 items in opposite orders, 2 generations | accepted sets are of one deployment and current, honest issuing is accepted; attested is stored, stored is receipted, blocked stays blocked |
| `executor_dialogue_nonce`, `genesis_two_roots`, `issuance_backend`, `issuance_observed`, `issuance_template` | as above | expected violations, see below |

Why the bounds are enough: a lifecycle has three events, so a run's state space
is nearly exhausted by two ids on one run and three on two. Conflicts are between two
parties in every component (a lock holder and a waiter, two claimants of one
row, a provisioning and a reconciliation); a third caller in `delegation`
is there because the third sees what two have left. Two deletions or rows put
back let a pair of safeguards be lost at once: one row put back does not threaten
`OneMaterialization`, and the write-once file has to hold when two are lost.
With three request ids an operation can be signed again once while the
others are served once; two engine steps are a first and a next one, so a plan can be
left after a completed step, in the middle of a call, and finished. With one frame
per pipe every wait of a larger pipe happens. With two chunks one can be missing, repeated or
out of order. The backend's plan is not shortened: all its steps are there. One removal is
enough to take away each part at each moment (two were checked once, with 263,994 states
and the same result). One drift per capability lies before, between or after any two checks;
versions do not come back, so a second one adds nothing. One re-issue or mix-up
reaches every document; two could cover up for each other only if a foreign document were accepted
where it stands, and `OneDeploymentHolds` and `AcceptedCurrent` are proved for any number.

Symmetry is over daemons, request ids, allocations, actors and roots where no
property names one of them, and in no run with fairness.

Each run checks what several actors and steps are needed to break. The type
invariants and a few more invariants are stated in the modules and proved where
they are proved; those of the other modules were checked while the modules were
written and cost a run each time, so no run lists them.

Properties guarded by `rollbacks = 0` or `removals = 0` do not promise anything
about a journal that was edited behind the program's back, and say so; the
one-shot refinements of the stages and the genesis, and `OneMaterialization`, do hold then.
`OneDispatchPerRun` and `OrphansStayOrphaned` are promises
of a durable log shared by all callers (`SharedDurableLog`); with in-process logs
they fail, and the second half of `delegation` shows what is left.

Fairness. A call that has begun runs its statements (`WF` of `Advance`): the code
has no unbounded waits between them other than locks, and the executor call has
deadlines. A lock is strongly fair: PostgreSQL queues waiters, and blocking
flocks admit them. `EveryDialogueEnds` promises an end without any deadline: each
party takes the step it can take, and no fault has to happen. The operator of `Issuance` goes on
issuing what is wanted and has it verified: what is refused then is refused for ever. Starting calls,
failing, crashing, rolling back, deleting, drifting and re-issuing are never fair.
`dialogues` and `issuance` switch the deadlock check off because a call that has ended and an accepted
set of documents really are the end.

## What disagrees

`genesis_two_roots`: `_begin_verified_intent` holds the identity lease (a blocking
flock) and asks `migration_status()`. If the journal is current by then,
`migration_status` takes the identity lease again, through another descriptor,
and waits for itself. The check at the start of provisioning normally refuses a
current journal, but between that check and the lease another process may
complete the same journal from another artifact root, because an allocation
intent names the journal and not the root. The tests expect a second
provisioning to be refused with `allocation_journal_replayed`
(`src/tests/lifecycle/test_infisical_disposable.py:3587`); this one hangs, and so
does every later use of the journal. The observed journal's
`_begin_verified_genesis` does not call its status under its lease. With one artifact
root the root's lease keeps the two provisionings apart.

`executor_dialogue_nonce`: `allocate` and `deliver` are given a request that is already
signed, and send it only if it carries the server nonce of the hello they receive
afterwards (`executor_transport.py:1655`, `:1772`). The daemon draws that nonce with
`uuid4()` when the session has begun. No interface lies between hello and request
where the request could be signed, so short of guessing a UUID no call ever submits
its request. The tests replace `uuid4` by a constant
(`src/tests/lifecycle/test_executor_daemon_transport.py:117`). In the model the signed
nonce and the drawn one are members of `Nonces`; where they agree the dialogue
goes on, which is what `dialogues` checks.

`issuance_backend`: the allocation intent names the executor control policy
(`authorization.py:3412`), which names the installation policy
(`executor_allocation.py:627`), which names the allocation intent
(`executor_transport.py:1263`). Each digest covers every field of its document, so
none of the three can be issued before the next one, and the loader of the allocation
backend compares all three. Materialization and start compare them as well. The
tests put placeholders into the intent. `CyclesAreNeverAccepted` proves it for any
order of issue.

`issuance_observed`: the restore attestation must have been observed before the
materialization intent that names it was created, and after the materialization was
completed (`authorization.py:3246`, `:3762`), which is later than the intent. Only within one second can
all three hold; the start and the observed operation refuse every other materialization.

`issuance_template`: a bootstrap template V2 declares the digests of manifest, artifact
binding and protocol, and no verifier compares them with the ones it is given; the
docstring says all bindings are verified. The first version's are compared.

Smaller things, met while modelling, which contradict no promise a run could state:

- an attach session whose authorization expires between two methods raises in every
  later one and stays in its state; `write_secret_chunks` promises to scrub its inputs
  on every path, and does not when the authorization is stale;
- the allocation intent holds digests (`approval`, `governed_deny`, `governed_baseline`, `collision`, registry,
  provider declaration) that nothing compares; so do manifest V2 (`allocation_intent`) and the executor's
  materialization receipt (`installation_receipt_sha256`, which the start's receipt has compared).
  The materialization receipt has no freshness check, the start's has;
- the backend discards the ids of what it creates: a part the operator removed can be made
  again by a late request of an earlier session, and be listed. `NothingAdopted` is stated for
  what was not removed;
- the observation query asks `rolpassword IS NULL` of `pg_roles`, a view that shows a
  placeholder there; the model takes the query at its word.

## Theorems

| module | theorem | property |
|---|---|---|
| `Delegation_proofs` | `TypeCorrect`, `SingleAttempt`, `SingleAttemptPerRun`, `AttemptOnRecord`, `ResultsHonest`, `OrphansAreLeft`, `DelegationIsOneShot` | `TypeOK`, one dispatch per authorization, `OneDispatchPerRun`, `DispatchIsOnRecord`, `ResultsAreHonest`, `OrphansStayOrphaned`, `ImplementsOneShot` |
| `MCDelegation_proofs` | `EveryResultHonest` | `EveryResultIsHonest` of the run `delegation`: with a durable log, and with logs that die with their processes |
| `ExecutorSession_proofs` | `SessionCorrect`, `TypeCorrect`, `EvidenceReal`, `StartsAfter`, `OneStepMissed`, `SessionIsOneShot`; `ReceiptSnapshot`, `NoneAdopted`, `ClassifiedRight` | every property of the run `executor_session`: of the sessions, and of the allocation backend |
| `ExecutorDialogue_proofs` | `DialogueCorrect`, `TypeCorrect`, `VerdictHonest`, `EffectPermitted`; `AttachCorrect`, `DeliveredOnce`, `ReceiptEarned`, `CheckpointHonest` | every safety property of the run `dialogues`: of the call, and of the attach sessions |
| `StagedAuthorization_proofs` | `TypeCorrect`, `SingleCall`, `CommittedBacked`, `LiveEffectSafe`, `StagesInOrder`, `NonceOnce`, `MaterializedOnce`, `RowsForward`, `StrandedForGood`, `StagedIsOneShot` | every safety property of the run `staged`, and that rows only move forward |
| `JournalGenesis_proofs` | `TypeCorrect`, `CurrentComplete`, `SettledForGood`, `GenesisIsOneShot`; `ObservedComplete`, `CommittedPerformed`, `LiveKept`, `ReportsHonest`; `LeasesExited`, `CommittedUnchanged`, `LeasesSpan` | every property of the run `journals`: of the genesis, of the observed operation, of the control leases |
| `Issuance_proofs` | `TypeCorrect`, `InvariantHolds`, `OneDeploymentHolds`, `AcceptedCurrent`, `CyclesAreNeverAccepted`, `BackendIsNeverAccepted`, `ObservedIsNeverAccepted`, `RuntimeStagesAreNeverAccepted`; `MaterialCorrect`, `AttestedStored`, `StoredReceipted`, `BlockedForGood` | every safety property of the run `issuance`; the findings `issuance_backend` and `issuance_observed` for any order and number of documents; the same of materialization and start, which no run lists |
| `EventLogs_proofs` | `NeverCorrupt`, `PostgresImplementsStream`, `MemoryImplementsStream`, `BothImplement`, `ReplayExact`, `MigrationsExact` | every safety property and the refinements of the run `event_logs`: of both logs and of the migrations |

Assumptions are the named `ASSUME`s of the modules: the constants have their
types, the sets of operations are disjoint, and the markers for "nothing" are
not members of them.

*Delegation.* `AuthInv`: a call is past the claim step only if its claim row is its
own, at most one call per authorization is, and an authorization that such a
call is still working on has not been attempted. It is inductive with `TypeOK` and gives one dispatch
per authorization. `RunInv` says the same of runs, with the recorded state in the
claim row's place, and needs the one shared durable log: with it, only the call
that recorded `RUN_CREATED` can be past that step.

*Staged authorization.* `StagedInv` is a conjunction: `LeaseInv` (a run between
lease and end holds its operation lease, so there is one per operation),
`CallInv` (no call before the tombstone, one after the effect step), `RowInv` (row,
receipt and step agree), `PredecessorInv`, `NonceInv` and `IntentInv` (who called
holds the intent file). None of the properties is inductive alone: that a row is
in progress only while its run is between begin and end needs the leases; that
the predecessors stay committed needs that terminal rows are final.

*Genesis.* `GenesisInv` is `TypeOK`, `SpendInv` (past the claim step the tombstone is
spent, and nobody else is past it for the operation), `RecordInv` (past a write,
the file is there and was this intent's), `MakingInv` (under the second identity
lease the files are what the step says) and `FinishedInv` (a whole database
and anchor imply a finished genesis). `FinishedInv` is what makes reconciliation
safe: the receipt's check of whole files is enough to know all earlier writes.

*Observed operation.* `ObservedInv` is `TypeOK`, `ObservedGenesis` (marker, store, spent tombstone and receipt file of
each journal agree, whichever root's process is at which step) and `RunInv` (of each run: row, tombstone and effect are
what its step says; one actor spends; calls and effect agree). The operation lease lets one run or
resolution at a row; that a run read its row as it still is needs both.

*Control leases.* `ControlInv` is `TypeOK`, `HeldInv` (at each step the leases held are the first ones of the stage's order,
and while they are given back, the ones not yet passed in the order of release), `RowInv` (a row
in progress means all are held) and `DriftInv` (what was inspected is what the effect began with, for
each capability already checked again). The number of stages' capabilities is fixed, that of drifts arbitrary.

*Issuance.* `IInv` is `TypeOK`, `StaleIsTracked` (what a document holds of another is on
record as out of date unless it was filed after it) and `AcceptedWasVerified`. A cycle of
compared digests or dates keeps one stale pair or one missing document for ever (`Knotted`): whichever of them is
filed, the one that names it becomes stale. The three corollaries name their cycle.
`AcceptedCurrent` needs one more invariant, `Timed`: each document can be given the time it was last filed, and
what is not on record as stale was named after it was filed. From document to document along
compared digests of an accepted set times only fall, so no document of it holds a digest of what was filed
after it. The theorem assumes that the stages are `Chained`, which the run
evaluates. The attempt to prove it showed that of the effect stages the property holds for one
re-issue only: with two, evidence an intent names can itself name something superseded. The
property excepts the `Inherited` documents of those stages.

*Provider material.* `MaterialInv` is `TypeOK`, `WorkInv` (a process stores a value only while its
root holds the whole receipt and pending genesis of the generation it drew, and
attests when it has stored them all), `ApartInv` (no two processes share a generation or write one
file), `FileInv` (receipt, genesis and attestation of a root agree, and are of a generation drawn) and `KeyInv`
(every stored value is backed by files). Roots, items and their orders are arbitrary; the constants are
assumed to be what `MaterialAssumption` says.

*Executor sessions.* `SessionInv` says who is at work (`DaemonsOK`: the holder of the lease and nobody
else), what the row of the served operation is at each step of the daemon (`RowInv`), how checkpoints, calls and
performed steps of an operation follow each other (`OpInv`: performed, called and recorded differ by at most one in this order;
`StepInv` by how much at each step), and that a view is right but for one uncertain last step
(`ViewInv`). The lease does the most: a step of one daemon leaves every other idle, so a lemma for one step
looks at one operation. A start's row exists only if its materialization was started, which no later
step undoes. For the refinement, every step moves at most one token (`PhaseStep`).

*Allocation backend.* `BackendInv`: a request on its way is at a making step and of an allocation that was begun,
and a session that waits does so at its own request (`PendingInv`); the database is made in the order of its plan
(`DatabaseInv`); a network that some allocation made is behind that allocation's one create request, sent and
arrived (`OnceInv`: this is what keeps a late request from appearing twice); at each step of the plan, what the session has
made, found and observed agrees with what is there, but for what was removed (`ServedInv`); a receipt copies
that (`ReceiptInv`); and a reconciliation during which nothing changed has found exactly what is there
(`ReviewInv`). The plan is measured once, step by step (`PlanAt`, `PlanKinds`, `PlanOrder`).

*Executor dialogue.* `DialogueInv` has a part for each party's own counters and steps, `FrameInv` (where the request,
the relay's marker and the receipt are, in a pipe or past it, the party before has sent them) and `CountInv`
(what was read from a pipe and what is in it is no more than what was written). The contents of pipes matter only as far
as that, so the proof counts frames and never follows their order; a lost connection only takes frames away.
Capacity and number of chunks are arbitrary.

*Attach sessions.* `AttachInv` is `TypeOK`, `RowsApart` (the claims on record are of different containers) and, of
each session, `Claiming` (answers are true, and nothing that needs the claim happens without it), `Closing`
(nothing is written after the end of the wrapper's input) and `Consuming` (the sink has a prefix of the chunks, and
an acknowledgement, sent or read, means all of them and the end of the input). A step touches one session; the
authority's answer is the only one for which another session matters. The theorems assume `SessionsAssumption`.

*Results.* `ResultsHonest` needs that a call knows what it did: before the claim it has written nothing
there, and a result is set together with the end of the call.

*Event logs.* A fold over a stream is a recursive function, and what such a function computes for every length needs
an induction the prover does not have. It is not needed here: no run has more than three events, because
no transition leads further, so the proof has the fold after 0, 1, 2 and 3 events written out (`StateAt`,
`StreamAt`, `ChecksumAt`, `After`), and shows that these are what the functions are (`Projected`, `StateIsAt`,
`ChecksumIsAt`). `Legal` says that each event is one the reducer accepts after those before it; that a stream is never
longer than three follows from it (`LegalAppend`).

`PgInv` is `TypeInv`, `RowsInv` (an event id names one row), `StreamInv` (the committed rows of a run, in the
order of their sequence numbers, are `Legal`, and the head row is their replay), `SessionInv` (whoever is past the lock
holds it, the head it read is still the head, and the event it has inserted continues that head) and `ApartInv`
(two inserts that wait for their commits have different ids, which is what the unique key gives across runs).
Head and rows cannot disagree since only the holder of the lock commits to the run, and it commits both.
`MemInv` says of the log in memory that every stream is `Legal` and that the ids in it are spent, once each; the frames of
`ingest` calls that wait for their builders need nothing, because `IngestEnd` checks again. For verification, a
hash is a term that contains what was hashed, so two prefixes with one hash or checksum have one length
(`HashesExtend`, `ChecksumGrows`).

*Migrations.* `MigInv` is `TypeOK`, `LockInv` (one transaction holds the lock), `LedgerInv` (the ledger is the schema
and a prefix of a package) and `CallInv` of each runner: between reading the ledger and committing, the lock is held
and the ledger is what was read, what has run is the beginning of what is pending, and the recorded rows follow
it by one at most (`ProgressInv`). So at the commit the ledger grows by exactly the rest of the package, and what
a call has made is all of its pending migrations or nothing. On the way to the exit of the lease the
verdict is the body's, and the exit keeps it or replaces it by one that claims nothing.

*Compositions.* In a composition the other component stands still, so a step of the whole is a step or a stutter of each
part (`EitherIsPg`, `EachIsDelegation`, ...), and the invariant of the part holds of the whole.

Only model-checked: liveness (`EveryCallReturns`, `EveryRunEnds`, `EveryDialogueEnds`, `AlwaysAccepted`),
since it needs fairness and `ENABLED`. Every other property that a passing run checks is stated by a theorem.
No module uses `RECURSIVE`.

## Left out

Contents of signed documents beyond what they name, and of the contexts handed to the executor;
signature checks (a document is valid or does not exist), literals, freshness windows and the
rule that identities are separate; file identity pins
(`assert_stable`), which turn a replaced file into an error and are part of the
`Abort`, `Die` and failure alternatives. In particular:

- StageDocuments: the effect stages compare receipts with what the run's context holds; the
  installation chain is left out of those stages, because it is the circle of `issuance_backend`. The start
  receipt's manifest, map and protocol digests are compared only inside the receipt and through
  the attach request. One of the four container roles is modelled.
- AttachSession: the raw Docker codec of `container_attach_v2.py`, which only tests use, and the first version
  (`container_attach.py`), which nothing else in the package uses.
- ControlLeases: an interrupt inside an acquisition (between entering an adapter and
  recording that it was entered). An interrupt of the `finally` clause is modelled.
- ProviderMaterial: replacement of a file by another program, loss of power, the seam for tests, the
  `persist_*` functions called alone, cryptography.
- AllocationBackend: reconciliation of a schema without grants gives no verdict in the code, and none in the
  model; foreign shapes and attached containers are a failed call. Docker and PostgreSQL are
  modelled from how they are used; for a volume that exists, Docker answers with the existing one.
- MigrationRunner: discovery of the packaged files is a constant. Creating what exists fails, which alone
  would stop a migration from running twice; the lock keeps callers from failing on each other. An
  interrupt counts as the death of the caller (`Die`). A lease whose exit suppresses the error of the body is left out.
- StagedAuthorization: the signed reconciliation of allocation rows.
- Executor transport: pinning of key and host files before the process is launched. Executor daemon: the
  credential signer, zeroing of buffers, the installation check.
- PostgresEventLog: a builder callback that calls the log again on another connection.
- `delegation_execution.py`, `dispatch_attestation.py`, `lab_delegation_contract_set.py` (checks of one document, no state)
  and the release scripts.

## Plan

1. `StagedAuthorization`: the signed reconciliation of allocation rows, in the form it has in
   `ObservedAuthorization`.
2. The window checks of `delegation_execution.py` as operators; the first version of the attach session.
