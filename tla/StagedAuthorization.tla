------------------------ MODULE StagedAuthorization ------------------------
(***************************************************************************)
(* The one-shot stages of authorization.py over one artifact root and one  *)
(* allocation journal: allocate, then materialize, then start (as often as *)
(* fresh starts are signed).  A run of a stage holds the artifact root,    *)
(* leases its operation, spends the operation's tombstone at an external   *)
(* create-once authority, claims and begins a journal row, calls the       *)
(* executor once, writes a receipt file and commits the row.  Afterwards   *)
(* an operator may declare an unfinished operation failed.                 *)
(*                                                                         *)
(* The journal is one SQLite file: a transaction takes effect or not, and  *)
(* the identity check after COMMIT may raise although it did.  A crash     *)
(* inside a transaction leaves the rollback journal file behind, which     *)
(* every later use of this journal refuses (hot).  Locks are flocks: they  *)
(* die with their process; rows, files and tombstones do not.              *)
(*                                                                         *)
(* Rows carry the nonce of the run that claimed them, and updates name it; *)
(* the run that holds the operation's lease is the one that claimed the    *)
(* row, so the nonce is left out.                                          *)
(***************************************************************************)
EXTENDS Naturals

CONSTANTS
  Allocation,         \* the allocation operation the journal was made for
  Materializations,   \* signed materialization operations
  Starts,             \* signed start_runtime operations
  MaterializationOf,  \* the materialization a start builds on
  RequestNonce,       \* request_nonce_sha256 of a materialization or start
  Runners,            \* processes and threads that run stages or recover
  MaxRollbacks        \* bound on deletions of journal rows behind its back

Ops == {Allocation} \cup Materializations \cup Starts
Deliveries == Materializations \cup Starts

NoRunner == "nobody"
NoIntent == "none"
TornIntent == "torn"

ASSUME StagesAssumption ==
  /\ Allocation \notin Deliveries
  /\ Materializations \cap Starts = {}
  /\ MaterializationOf \in [Starts -> Materializations]
  /\ NoRunner \notin Runners
  /\ {NoIntent, TornIntent} \cap Materializations = {}
  /\ MaxRollbacks \in Nat

VARIABLES
  tombstones,   \* operations whose tombstone the replay authority holds
  row,          \* per operation, the state of its journal row
  hot,          \* a rollback journal was left beside the journal
  receipt,      \* per operation, its effect receipt file in the artifact root
  intentFile,   \* the materialization intent file in the artifact root
  artifactLock, \* who holds the artifact root lease
  opLock,       \* per operation, who holds its operation lease
  runner,       \* per runner, its step and operation
  calls,        \* history: effect calls made to the executor
  rollbacks     \* row deletions so far

locks == <<artifactLock, opLock>>
files == <<receipt, intentFile>>
vars == <<tombstones, row, hot, receipt, intentFile, artifactLock, opLock, runner, calls, rollbacks>>

RowStates == {"none", "claimed", "in_progress", "done", "failed"}
FileStates == {"absent", "torn", "written"}

\* Steps of a stage in order; "marking" ends a run whose effect is ambiguous.
Leased == {"leased", "tombstoned", "claimed", "begun", "effected", "receipted", "marking"}
Steps == {"entered", "verified"} \cup Leased \cup {"recovering"}
Runs == [pc : {"idle"} \cup Steps, op : Ops]
Idle == [pc |-> "idle", op |-> Allocation]

\* A held lease belongs to a run that is at work under it.
TypeOK ==
  /\ tombstones \subseteq Ops
  /\ row \in [Ops -> RowStates]
  /\ hot \in BOOLEAN
  /\ receipt \in [Ops -> FileStates]
  /\ intentFile \in Materializations \cup {NoIntent, TornIntent}
  /\ artifactLock \in Runners \cup {NoRunner}
  /\ opLock \in [Ops -> Runners \cup {NoRunner}]
  /\ runner \in [Runners -> Runs]
  /\ \A r \in Runners :
       /\ artifactLock = r => runner[r].pc \in Steps \ {"recovering"}
       /\ \A op \in Ops : opLock[op] = r => runner[r].pc \in Leased \cup {"recovering"} /\ runner[r].op = op
  /\ calls \in [Ops -> Nat]
  /\ rollbacks \in 0..MaxRollbacks

Init ==
  /\ tombstones = {}
  /\ row = [op \in Ops |-> "none"]
  /\ hot = FALSE
  /\ receipt = [op \in Ops |-> "absent"]
  /\ intentFile = NoIntent
  /\ artifactLock = NoRunner
  /\ opLock = [op \in Ops |-> NoRunner]
  /\ runner = [r \in Runners |-> Idle]
  /\ calls = [op \in Ops |-> 0]
  /\ rollbacks = 0

Op(r) == runner[r].op

\* The run goes on to its next step with the leases it has.
Proceed(r, pc) == runner' = [runner EXCEPT ![r].pc = pc] /\ UNCHANGED locks

\* Mutant of Leave: the operation lease is not released.
LeaveLeased(r) ==
  /\ runner' = [runner EXCEPT ![r] = Idle]
  /\ artifactLock' = IF artifactLock = r THEN NoRunner ELSE artifactLock
  /\ UNCHANGED opLock

\* The run or recovery is over, however it ended: its leases are released.
Leave(r) ==
  /\ runner' = [runner EXCEPT ![r] = Idle]
  /\ artifactLock' = IF artifactLock = r THEN NoRunner ELSE artifactLock
  /\ opLock' = [op \in Ops |-> IF opLock[op] = r THEN NoRunner ELSE opLock[op]]

-----------------------------------------------------------------------------
\* A journal transaction that moves one row.
MoveRow(op, from, to) ==
  /\ ~ hot
  /\ row[op] \in from
  /\ row' = [row EXCEPT ![op] = to]

Predecessors(op) ==
  IF op = Allocation THEN {}
  ELSE IF op \in Materializations THEN {Allocation}
  ELSE {Allocation, MaterializationOf[op]}

\* The check before the operation lease: the journal is readable, and every
\* predecessor is committed with the receipt that lies in the artifact root.
PredecessorsCommitted(op) ==
  /\ ~ hot
  /\ \A p \in Predecessors(op) : row[p] = "done" /\ receipt[p] = "written"

\* The check under the operation lease: the journal is readable, and the row
\* of the stage before this one is still committed.  The row of an
\* allocation is not asked for again by a start, nor is any receipt file.
StillCommitted(op) ==
  /\ ~ hot
  /\ op \in Materializations => row[Allocation] = "done"
  /\ op \in Starts => row[MaterializationOf[op]] = "done"

Recorded == { op \in Ops : row[op] # "none" }

\* Mutant of NonceUnseen: each table looks for the request nonce in its own
\* rows only.
NonceUnseenByTable(op) ==
  \A o \in Recorded \cap Deliveries :
    (o \in Materializations <=> op \in Materializations) => RequestNonce[o] # RequestNonce[op]

\* No row of either delivery table has the request nonce.
NonceUnseen(op) == \A o \in Recorded \cap Deliveries : RequestNonce[o] # RequestNonce[op]

\* What the claim transactions look up before their INSERT (an existing row
\* of the operation itself is MoveRow's business).
MaterializationClaimable(m) ==
  /\ row[Allocation] = "done"
  /\ Recorded \cap Materializations = {}
  /\ NonceUnseen(m)

StartClaimable(s) ==
  /\ row[MaterializationOf[s]] = "done"
  /\ NonceUnseen(s)

ClaimAdmissible(op) ==
  /\ op \in Materializations => MaterializationClaimable(op)
  /\ op \in Starts => StartClaimable(op)

-----------------------------------------------------------------------------
\* with ArtifactRootLease(...): refused at once while another run holds it.
Enter(r, op) ==
  /\ runner[r].pc = "idle"
  /\ artifactLock = NoRunner
  /\ ~ hot
  /\ artifactLock' = r
  /\ runner' = [runner EXCEPT ![r] = [pc |-> "entered", op |-> op]]
  /\ UNCHANGED <<tombstones, row, hot, files, opLock, calls, rollbacks>>

\* Mutant of MaterializationVerified: the intent file is replaced instead of
\* compared.
MaterializationVerifiedAnyhow(m) == intentFile' = m

\* write_once_or_require_exact of the materialization intent: this artifact
\* root's intent file is this intent's, written now or before.
MaterializationVerified(m) ==
  /\ intentFile \in {NoIntent, m}
  /\ intentFile' = m

\* Everything a stage checks before its operation lease: no receipt yet, the
\* predecessors' artifacts and rows agree, the stage's own documents persist.
Verify(r) ==
  /\ runner[r].pc = "entered"
  /\ receipt[Op(r)] = "absent"
  /\ PredecessorsCommitted(Op(r))
  /\ IF Op(r) \in Materializations THEN MaterializationVerified(Op(r)) ELSE UNCHANGED intentFile
  /\ Proceed(r, "verified")
  /\ UNCHANGED <<tombstones, row, hot, receipt, calls, rollbacks>>

\* The intent file could not be written to its end.
IntentTorn(r) ==
  /\ runner[r].pc = "entered"
  /\ Op(r) \in Materializations
  /\ PredecessorsCommitted(Op(r))
  /\ intentFile = NoIntent
  /\ intentFile' = TornIntent
  /\ Leave(r)
  /\ UNCHANGED <<tombstones, row, hot, receipt, calls, rollbacks>>

\* flock without LOCK_NB: the run waits for a recovery that holds the lease.
AcquireOperation(r) ==
  /\ runner[r].pc = "verified"
  /\ opLock[Op(r)] = NoRunner
  /\ opLock' = [opLock EXCEPT ![Op(r)] = r]
  /\ runner' = [runner EXCEPT ![r].pc = "leased"]
  /\ UNCHANGED <<tombstones, row, hot, files, artifactLock, calls, rollbacks>>

\* claim_once answers CREATED, or created the tombstone and could not say so.
ClaimTombstone(r) ==
  /\ runner[r].pc = "leased"
  /\ StillCommitted(Op(r))
  /\ Op(r) \notin tombstones
  /\ tombstones' = tombstones \cup {Op(r)}
  /\ Proceed(r, "tombstoned") \/ Leave(r)
  /\ UNCHANGED <<row, hot, files, calls, rollbacks>>

\* The INSERT of the row; the run may hear of a failure after the COMMIT.
ClaimRow(r) ==
  /\ runner[r].pc = "tombstoned"
  /\ ClaimAdmissible(Op(r))
  /\ MoveRow(Op(r), {"none"}, "claimed")
  /\ Proceed(r, "claimed") \/ Leave(r)
  /\ UNCHANGED <<tombstones, hot, files, calls, rollbacks>>

BeginEffect(r) ==
  /\ runner[r].pc = "claimed"
  /\ MoveRow(Op(r), {"claimed"}, "in_progress")
  /\ Proceed(r, "begun") \/ Leave(r)
  /\ UNCHANGED <<tombstones, hot, files, calls, rollbacks>>

\* Any check before the effect raises: the run ends as it is.  Only the
\* allocation stage still checks between beginning its row and the effect.
Abort(r) ==
  /\ \/ runner[r].pc \in {"entered", "leased", "tombstoned", "claimed"}
     \/ runner[r].pc = "begun" /\ Op(r) = Allocation
  /\ Leave(r)
  /\ UNCHANGED <<tombstones, row, hot, files, calls, rollbacks>>

\* The executor is called; it returns a receipt, or raises, or returns what
\* does not validate.
CallEffect(r) ==
  /\ runner[r].pc = "begun"
  /\ calls' = [calls EXCEPT ![Op(r)] = @ + 1]
  /\ Proceed(r, "effected") \/ Proceed(r, "marking")
  /\ UNCHANGED <<tombstones, row, hot, files, rollbacks>>

\* write_once of the effect receipt; it may fail after any part of the write.
WriteReceipt(r) ==
  /\ runner[r].pc = "effected"
  /\ receipt[Op(r)] = "absent"
  /\ \/ receipt' = [receipt EXCEPT ![Op(r)] = "written"] /\ Proceed(r, "receipted")
     \/ /\ \E left \in {"torn", "written"} : receipt' = [receipt EXCEPT ![Op(r)] = left]
        /\ Proceed(r, "marking")
  /\ UNCHANGED <<tombstones, row, hot, intentFile, calls, rollbacks>>

\* _commit_effect: the run ends with its receipt (or an error from a check
\* after the commit), or takes the commit for failed although it happened.
CommitEffect(r) ==
  /\ runner[r].pc = "receipted"
  /\ MoveRow(Op(r), {"in_progress"}, "done")
  /\ Leave(r) \/ Proceed(r, "marking")
  /\ UNCHANGED <<tombstones, hot, files, calls, rollbacks>>

\* A check after the effect, the receipt write or the commit failed.
AfterEffectFailure(r) ==
  /\ runner[r].pc \in {"effected", "receipted"}
  /\ Proceed(r, "marking")
  /\ UNCHANGED <<tombstones, row, hot, files, calls, rollbacks>>

\* _mark_..._effect_ambiguous: the row becomes terminal, unless that
\* transaction fails too; the run ends with an error.
MarkAmbiguous(r) ==
  /\ runner[r].pc = "marking"
  /\ MoveRow(Op(r), {"claimed", "in_progress"}, "failed") \/ UNCHANGED row
  /\ Leave(r)
  /\ UNCHANGED <<tombstones, hot, files, calls, rollbacks>>

-----------------------------------------------------------------------------
\* Mutant of RecoverBegin: recovery does not ask whether the operation is live.
RecoverBeginLive(r, op) ==
  /\ runner[r].pc = "idle"
  /\ runner' = [runner EXCEPT ![r] = [pc |-> "recovering", op |-> op]]
  /\ UNCHANGED <<tombstones, row, hot, files, artifactLock, opLock, calls, rollbacks>>

\* require_recovery takes the operation lease without waiting and without the
\* artifact root; a live operation is refused.
RecoverBegin(r, op) ==
  /\ runner[r].pc = "idle"
  /\ opLock[op] = NoRunner
  /\ opLock' = [opLock EXCEPT ![op] = r]
  /\ runner' = [runner EXCEPT ![r] = [pc |-> "recovering", op |-> op]]
  /\ UNCHANGED <<tombstones, row, hot, files, artifactLock, calls, rollbacks>>

\* Mutant of Recoverable: a missing row counts as unfinished.
RecoverableAnyhow == RowStates \ {"failed"}

Recoverable == {"claimed", "in_progress"}

RecoverRow(r) ==
  /\ runner[r].pc = "recovering"
  /\ MoveRow(Op(r), Recoverable, "failed")
  /\ Leave(r)
  /\ UNCHANGED <<tombstones, hot, files, calls, rollbacks>>

\* The row is absent or terminal, or the journal refuses.
RecoverRefused(r) ==
  /\ runner[r].pc = "recovering"
  /\ Leave(r)
  /\ UNCHANGED <<tombstones, row, hot, files, calls, rollbacks>>

\* The process of a run dies.  What it was writing stays half written: a
\* receipt, or a journal transaction with its rollback file.
Crash(r) ==
  /\ runner[r].pc # "idle"
  /\ Leave(r)
  /\ \/ UNCHANGED <<hot, receipt>>
     \/ /\ runner[r].pc \in {"tombstoned", "claimed", "receipted", "marking", "recovering"}
        /\ hot' = TRUE
        /\ UNCHANGED receipt
     \/ /\ runner[r].pc = "effected"
        /\ receipt[Op(r)] = "absent"
        /\ receipt' = [receipt EXCEPT ![Op(r)] = "torn"]
        /\ UNCHANGED hot
  /\ UNCHANGED <<tombstones, row, intentFile, calls, rollbacks>>

\* Somebody restores the journal to a time before the row was claimed.
RollBack(op) ==
  /\ rollbacks < MaxRollbacks
  /\ row[op] # "none"
  /\ row' = [row EXCEPT ![op] = "none"]
  /\ rollbacks' = rollbacks + 1
  /\ UNCHANGED <<tombstones, hot, files, locks, runner, calls>>

Advance(r) ==
  \/ Verify(r) \/ IntentTorn(r) \/ ClaimTombstone(r) \/ ClaimRow(r) \/ BeginEffect(r) \/ Abort(r)
  \/ CallEffect(r) \/ WriteReceipt(r) \/ CommitEffect(r) \/ AfterEffectFailure(r)
  \/ MarkAmbiguous(r) \/ RecoverRow(r) \/ RecoverRefused(r)

Begins(r) == \E op \in Ops : Enter(r, op) \/ RecoverBegin(r, op)

Next ==
  \/ \E r \in Runners : Begins(r) \/ AcquireOperation(r) \/ Advance(r) \/ Crash(r)
  \/ \E op \in Ops : RollBack(op)

Spec == Init /\ [][Next]_vars

\* A started run executes its steps (the executor call returns or raises: it
\* has deadlines), and flock admits its waiters.  Starting, crashing and
\* rolling back are not fair.
Fairness == \A r \in Runners : WF_vars(Advance(r)) /\ SF_vars(AcquireOperation(r))

FairSpec == Spec /\ Fairness

-----------------------------------------------------------------------------
\* The executor is called at most once for a signed operation: over retries,
\* crashes anywhere, recovery, unreported commits and a journal that was put
\* back to before the claim.
OneCallPerOperation == \A op \in Ops : calls[op] <= 1

\* One allocation is materialized at most once, even by differently signed
\* materializations: the journal's unique column and the write-once intent
\* file each see to it, and it takes the loss of both to break it.
OneMaterialization ==
  \A m, n \in Materializations : calls[m] > 0 /\ calls[n] > 0 => m = n

\* No stage acts before the stages it builds on have acted, recorded their
\* receipt and committed; no later crash or recovery takes that back.
PredecessorsFirst ==
  rollbacks = 0 =>
    \A op \in Ops : calls[op] > 0 =>
      \A p \in Predecessors(op) : calls[p] = 1 /\ receipt[p] = "written" /\ row[p] = "done"

\* A committed row stands for an executor call and a durable receipt; the
\* converse fails (a crash leaves either without the commit).
CommittedIsBacked ==
  \A op \in Ops : row[op] = "done" =>
    op \in tombstones /\ calls[op] = 1 /\ receipt[op] = "written"

\* While a run is between beginning its row and committing it, nobody else
\* moves the row: an operator's recovery never declares a live effect failed.
LiveEffectKeepsItsRow ==
  rollbacks = 0 =>
    \A r \in Runners :
      runner[r].pc \in {"begun", "effected", "receipted"} => row[Op(r)] = "in_progress"

\* One delivery nonce is delivered under once, across the materialization and
\* the start table.
NonceDeliveredOnce ==
  rollbacks = 0 =>
    \A o, p \in Deliveries :
      calls[o] > 0 /\ calls[p] > 0 /\ RequestNonce[o] = RequestNonce[p] => o = p

\* Terminal rows are final, and no row skips the order claim, begin, end.
RowsMoveForward ==
  [][ rollbacks' = 0 =>
        \A op \in Ops : row'[op] # row[op] =>
          \/ row[op] = "none" /\ row'[op] = "claimed"
          \/ row[op] = "claimed" /\ row'[op] \in {"in_progress", "failed"}
          \/ row[op] = "in_progress" /\ row'[op] \in {"done", "failed"} ]_vars

\* An operation whose tombstone was spent by a run that left no row is beyond
\* retry and beyond recovery: it is never claimed, called or declared failed.
Stranded(op) ==
  /\ op \in tombstones
  /\ row[op] = "none"
  /\ \A r \in Runners : Op(r) = op => runner[r].pc \notin Leased \ {"leased"}

StrandedStayStranded ==
  [][ \A op \in Ops : Stranded(op) => Stranded(op)' /\ calls'[op] = calls[op] ]_vars

\* An operation as a one-shot token: the tombstone is the spending, the
\* executor call the attempt.
Phase(op) ==
  IF calls[op] = 0 THEN (IF op \in tombstones THEN "spent" ELSE "fresh")
  ELSE IF calls[op] = 1 /\ op \in tombstones THEN "attempted" ELSE "broken"

Token == INSTANCE OneShot WITH Tokens <- Ops, phase <- [op \in Ops |-> Phase(op)]

\* The staged pipeline implements the one-shot token, row rollbacks included.
ImplementsOneShot == Token!Spec

\* A run or recovery that has begun ends: the artifact root, the operation
\* leases and the journal are never waited for in a circle.
EveryRunEnds == \A r \in Runners : runner[r].pc # "idle" ~> runner[r].pc = "idle"
=============================================================================
