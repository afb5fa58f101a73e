--------------------- MODULE StagedAuthorization_proofs ---------------------
(***************************************************************************)
(* Proofs about StagedAuthorization, for any number of runners and signed  *)
(* operations and any number of row rollbacks.                             *)
(***************************************************************************)
EXTENDS StagedAuthorization, TLAPS

PCs == {"idle"} \cup Steps

\* Who may hold an operation's lease, as TypeOK says it.
LeaseOwners ==
  \A r \in Runners :
    /\ artifactLock = r => runner[r].pc \in Steps \ {"recovering"}
    /\ \A op \in Ops : opLock[op] = r => runner[r].pc \in Leased \cup {"recovering"} /\ runner[r].op = op

\* What a step of runner r leaves alone: everybody else's step and leases.
Alone(r) ==
  /\ runner' \in [Runners -> Runs]
  /\ artifactLock' \in Runners \cup {NoRunner}
  /\ opLock' \in [Ops -> Runners \cup {NoRunner}]
  /\ \A q \in Runners \ {r} :
       /\ runner'[q] = runner[q]
       /\ artifactLock' = q <=> artifactLock = q
       /\ \A op \in Ops : opLock'[op] = q <=> opLock[op] = q

LEMMA ProceedFacts ==
  ASSUME TypeOK, NEW r \in Runners, NEW pc \in PCs, Proceed(r, pc)
  PROVE  /\ Alone(r)
         /\ runner'[r].pc = pc
         /\ Op(r)' = Op(r)
<1>1. [runner[r] EXCEPT !.pc = pc] \in Runs
  BY DEF TypeOK, Runs, PCs
<1>2. runner[r] \in [pc : {"idle"} \cup Steps, op : Ops]
  BY DEF TypeOK, Runs
<1>3. runner' = [runner EXCEPT ![r] = [runner[r] EXCEPT !.pc = pc]]
  BY DEF Proceed, TypeOK
<1>4. runner' \in [Runners -> Runs]
  BY <1>1, <1>3 DEF TypeOK
<1>5. runner'[r].pc = pc /\ runner'[r].op = runner[r].op
  BY <1>2, <1>3 DEF TypeOK
<1>6. QED
  BY <1>3, <1>4, <1>5 DEF Proceed, TypeOK, Alone, Op, locks

LEMMA LeaveFacts ==
  ASSUME TypeOK, NEW r \in Runners, Leave(r)
  PROVE  /\ Alone(r)
         /\ runner'[r].pc = "idle"
         /\ artifactLock' # r
         /\ \A op \in Ops : opLock'[op] # r
<1>1. Idle \in Runs
  BY DEF Idle, Runs, Ops
<1>2. runner' \in [Runners -> Runs] /\ runner'[r] = Idle
  BY <1>1 DEF Leave, TypeOK
<1>3. QED
  BY <1>2, StagesAssumption DEF Leave, TypeOK, Alone, Idle

\* Every action of a runner, reduced to what it does to steps and leases.
LEMMA RunnerStep ==
  ASSUME TypeOK, NEW r \in Runners,
         Begins(r) \/ AcquireOperation(r) \/ Advance(r) \/ Crash(r)
  PROVE  Alone(r)
<1>1. ASSUME NEW op \in Ops, Enter(r, op) PROVE Alone(r)
  <2>1. [pc |-> "entered", op |-> op] \in Runs
    BY DEF Runs, Steps
  <2>2. runner' \in [Runners -> Runs]
    BY <1>1, <2>1 DEF Enter, TypeOK
  <2>3. QED
    BY <1>1, <2>2, StagesAssumption DEF Enter, TypeOK, Alone
<1>2. ASSUME NEW op \in Ops, RecoverBegin(r, op) PROVE Alone(r)
  <2>1. [pc |-> "recovering", op |-> op] \in Runs
    BY DEF Runs, Steps
  <2>2. runner' \in [Runners -> Runs]
    BY <1>2, <2>1 DEF RecoverBegin, TypeOK
  <2>3. QED
    BY <1>2, <2>2, StagesAssumption DEF RecoverBegin, TypeOK, Alone
<1>3. ASSUME AcquireOperation(r) PROVE Alone(r)
  <2>1. Op(r) \in Ops
    BY DEF TypeOK, Runs, Op
  <2>2. [runner[r] EXCEPT !.pc = "leased"] \in Runs
    BY DEF TypeOK, Runs, Steps, Leased
  <2>3. runner' \in [Runners -> Runs]
    BY <1>3, <2>2 DEF AcquireOperation, TypeOK
  <2>4. QED
    BY <1>3, <2>1, <2>3, StagesAssumption DEF AcquireOperation, TypeOK, Alone
<1>4. ASSUME Advance(r) \/ Crash(r) PROVE Alone(r)
  <2>1. Leave(r) \/ \E pc \in PCs : Proceed(r, pc)
    BY <1>4 DEF Advance, Crash, Verify, IntentTorn, ClaimTombstone, ClaimRow, BeginEffect, Abort,
       CallEffect, WriteReceipt, CommitEffect, AfterEffectFailure, MarkAmbiguous, RecoverRow,
       RecoverRefused, PCs, Steps, Leased
  <2>2. QED
    BY <2>1, ProceedFacts, LeaveFacts
<1>5. QED
  BY <1>1, <1>2, <1>3, <1>4 DEF Begins

\* A run that proceeds or ends is at the next step with the same operation,
\* or idle without a lease.
LEMMA ProceedOrLeave ==
  ASSUME TypeOK, NEW r \in Runners, NEW pc \in PCs, Proceed(r, pc) \/ Leave(r)
  PROVE  /\ Alone(r)
         /\ \/ runner'[r].pc = pc /\ runner'[r].op = runner[r].op /\ UNCHANGED locks
            \/ /\ runner'[r].pc = "idle"
               /\ artifactLock' # r
               /\ \A op \in Ops : opLock'[op] # r
<1>1. CASE Proceed(r, pc)
  BY <1>1, ProceedFacts DEF Proceed, Op
<1>2. CASE Leave(r)
  BY <1>2, LeaveFacts
<1>3. QED
  BY <1>1, <1>2

LEMMA MoveRowType ==
  ASSUME TypeOK, NEW op \in Ops, NEW from, NEW to \in RowStates, MoveRow(op, from, to)
  PROVE  row' \in [Ops -> RowStates]
BY DEF TypeOK, MoveRow

LEMMA OpType ==
  ASSUME TypeOK, NEW r \in Runners
  PROVE  Op(r) \in Ops /\ runner[r].pc \in PCs /\ Op(r) = runner[r].op
BY DEF TypeOK, Runs, Op, PCs

\* Leases stay with working runs.
LEMMA LeaseOwnersStep ==
  ASSUME TypeOK, NEW r \in Runners,
         Begins(r) \/ AcquireOperation(r) \/ Advance(r) \/ Crash(r)
  PROVE  LeaseOwners'
<1>0. LeaseOwners /\ Alone(r)
  BY RunnerStep DEF TypeOK, LeaseOwners
<1>1. SUFFICES /\ artifactLock' = r => runner'[r].pc \in Steps \ {"recovering"}
               /\ \A op \in Ops : opLock'[op] = r =>
                    runner'[r].pc \in Leased \cup {"recovering"} /\ runner'[r].op = op
  BY <1>0 DEF LeaseOwners, Alone
<1>2. CASE Begins(r)
  BY <1>0, <1>2, StagesAssumption
     DEF LeaseOwners, Begins, Enter, RecoverBegin, TypeOK, Steps, Leased
<1>3. CASE AcquireOperation(r)
  <2>1. Op(r) \in Ops /\ Op(r) = runner[r].op
    BY OpType
  <2>2. runner'[r].pc = "leased" /\ runner'[r].op = Op(r)
    BY <1>3, <2>1 DEF AcquireOperation, TypeOK, Runs
  <2>3. QED
    BY <1>0, <1>3, <2>1, <2>2 DEF LeaseOwners, AcquireOperation, TypeOK, Steps, Leased
<1>4. CASE Leave(r)
  BY <1>4, LeaveFacts
<1>5. CASE Verify(r)
  <2>1. Alone(r) /\ runner'[r].pc = "verified" /\ UNCHANGED locks
    BY <1>5, ProceedFacts DEF Verify, Proceed, PCs, Steps
  <2>2. QED
    BY <1>0, <1>5, <2>1 DEF LeaseOwners, Verify, locks, Steps, Leased
<1>6. CASE \E pc \in Leased : Proceed(r, pc) /\ runner[r].pc \in Leased
  <2>1. PICK pc \in Leased : Proceed(r, pc) /\ runner[r].pc \in Leased
    BY <1>6
  <2>2. runner'[r].pc = pc /\ runner'[r].op = runner[r].op /\ UNCHANGED locks
    BY <2>1, ProceedFacts DEF Proceed, PCs, Steps, Op
  <2>3. QED
    BY <1>0, <2>1, <2>2 DEF LeaseOwners, locks, Steps, Leased
<1>7. CASE Advance(r) /\ ~ Verify(r)
  BY <1>4, <1>6, <1>7 DEF Advance, IntentTorn, ClaimTombstone, ClaimRow, BeginEffect, Abort,
     CallEffect, WriteReceipt, CommitEffect, AfterEffectFailure, MarkAmbiguous, RecoverRow,
     RecoverRefused, Leased
<1>8. CASE Crash(r)
  BY <1>4, <1>8 DEF Crash
<1>9. QED
  BY <1>2, <1>3, <1>5, <1>7, <1>8

\* Everything but the leases keeps its type.
LEMMA DataTypes ==
  ASSUME TypeOK, Next
  PROVE  /\ tombstones' \subseteq Ops
         /\ row' \in [Ops -> RowStates]
         /\ hot' \in BOOLEAN
         /\ receipt' \in [Ops -> FileStates]
         /\ intentFile' \in Materializations \cup {NoIntent, TornIntent}
         /\ calls' \in [Ops -> Nat]
         /\ rollbacks' \in 0..MaxRollbacks
<1> USE DEF Next, RollBack, Begins, Enter, RecoverBegin, AcquireOperation, Advance, Verify,
      IntentTorn, ClaimTombstone, ClaimRow, BeginEffect, Abort, CallEffect, WriteReceipt,
      CommitEffect, AfterEffectFailure, MarkAmbiguous, RecoverRow, RecoverRefused, Crash
<1>1. ASSUME NEW op \in Ops, RollBack(op) PROVE row' \in [Ops -> RowStates] /\ rollbacks' \in 0..MaxRollbacks
  BY <1>1, StagesAssumption DEF TypeOK, RowStates
<1>2. tombstones' \subseteq Ops
  BY OpType DEF TypeOK
<1>3. row' \in [Ops -> RowStates]
  BY <1>1, OpType, MoveRowType DEF TypeOK, RowStates
<1>4. hot' \in BOOLEAN
  BY DEF TypeOK
<1>5. receipt' \in [Ops -> FileStates]
  <2>1. CASE UNCHANGED receipt
    BY <2>1 DEF TypeOK
  <2>2. CASE \E op \in Ops, left \in FileStates : receipt' = [receipt EXCEPT ![op] = left]
    BY <2>2 DEF TypeOK
  <2>3. QED
    BY <2>1, <2>2, OpType DEF files, FileStates
<1>6. intentFile' \in Materializations \cup {NoIntent, TornIntent}
  BY DEF TypeOK, files, MaterializationVerified
<1>7. calls' \in [Ops -> Nat]
  <2>1. CASE UNCHANGED calls
    BY <2>1 DEF TypeOK
  <2>2. CASE \E op \in Ops : calls' = [calls EXCEPT ![op] = @ + 1]
    BY <2>2 DEF TypeOK
  <2>3. QED
    BY <2>1, <2>2, OpType
<1>8. rollbacks' \in 0..MaxRollbacks
  BY <1>1 DEF TypeOK
<1>9. QED
  BY <1>2, <1>3, <1>4, <1>5, <1>6, <1>7, <1>8

\* Every variable keeps its type, and every lease its working owner.
THEOREM TypeCorrect == Spec => []TypeOK
<1>1. Init => TypeOK
  <2> SUFFICES ASSUME Init PROVE TypeOK
    OBVIOUS
  <2>1. Idle \in Runs
    BY DEF Idle, Runs, Ops
  <2>2. rollbacks \in 0..MaxRollbacks
    BY StagesAssumption DEF Init
  <2>3. QED
    BY <2>1, <2>2, StagesAssumption DEF Init, TypeOK, RowStates, FileStates
<1>2. TypeOK /\ [Next]_vars => TypeOK'
  <2> SUFFICES ASSUME TypeOK, [Next]_vars PROVE TypeOK'
    OBVIOUS
  <2>1. CASE UNCHANGED vars
    BY <2>1 DEF vars, TypeOK
  <2>2. ASSUME NEW r \in Runners, Begins(r) \/ AcquireOperation(r) \/ Advance(r) \/ Crash(r)
        PROVE  TypeOK'
    <3>1. Next
      BY <2>2 DEF Next
    <3>2. Alone(r) /\ LeaseOwners'
      BY <2>2, RunnerStep, LeaseOwnersStep
    <3>3. QED
      BY <3>1, <3>2, DataTypes DEF TypeOK, LeaseOwners, Alone
  <2>3. ASSUME NEW op \in Ops, RollBack(op) PROVE TypeOK'
    <3>1. Next
      BY <2>3 DEF Next
    <3>2. QED
      BY <2>3, <3>1, DataTypes DEF TypeOK, RollBack, locks
  <2>4. QED
    BY <2>1, <2>2, <2>3 DEF Next
<1>3. QED
  BY <1>1, <1>2, PTL DEF Spec

-----------------------------------------------------------------------------
\* A run at work holds the lease of its operation, so no two runs are past
\* the lease of one operation.
LeaseInv ==
  \A r \in Runners : runner[r].pc \in Leased \cup {"recovering"} => opLock[Op(r)] = r

LEMMA LeaseInvStep ==
  ASSUME TypeOK, LeaseInv, [Next]_vars
  PROVE  LeaseInv'
<1>1. CASE UNCHANGED vars
  BY <1>1 DEF vars, LeaseInv, Op
<1>2. ASSUME NEW op \in Ops, RollBack(op) PROVE LeaseInv'
  BY <1>2 DEF RollBack, locks, LeaseInv, Op
<1>3. ASSUME NEW r \in Runners, Begins(r) \/ AcquireOperation(r) \/ Advance(r) \/ Crash(r)
      PROVE  LeaseInv'
  <2>0. Alone(r)
    BY <1>3, RunnerStep
  <2>1. SUFFICES runner'[r].pc \in Leased \cup {"recovering"} => opLock'[runner'[r].op] = r
    <3>1. \A q \in Runners \ {r} : runner'[q] = runner[q] /\ Op(q) \in Ops
      BY <2>0, OpType DEF Alone
    <3>2. QED
      BY <2>0, <2>1, <3>1 DEF LeaseInv, Alone, Op
  <2>2. CASE Begins(r)
    BY <2>0, <2>2 DEF Begins, Enter, RecoverBegin, TypeOK, Leased
  <2>3. CASE AcquireOperation(r)
    <3>1. Op(r) \in Ops /\ Op(r) = runner[r].op
      BY OpType
    <3>2. runner'[r].op = Op(r)
      BY <2>3, <3>1 DEF AcquireOperation, TypeOK, Runs
    <3>3. QED
      BY <2>3, <3>1, <3>2 DEF AcquireOperation, TypeOK
  <2>4. CASE Leave(r)
    BY <2>4, LeaveFacts DEF Leased
  <2>5. CASE Verify(r)
    BY <2>5, ProceedFacts DEF Verify, PCs, Steps, Leased
  <2>6. CASE \E pc \in Leased : Proceed(r, pc) /\ runner[r].pc \in Leased
    <3>1. PICK pc \in Leased : Proceed(r, pc) /\ runner[r].pc \in Leased
      BY <2>6
    <3>2. runner'[r].op = runner[r].op /\ opLock' = opLock
      BY <3>1, ProceedFacts DEF Proceed, PCs, Steps, Op, locks
    <3>3. QED
      BY <3>1, <3>2 DEF LeaseInv, Op
  <2>7. CASE Advance(r) /\ ~ Verify(r)
    BY <2>4, <2>6, <2>7 DEF Advance, IntentTorn, ClaimTombstone, ClaimRow, BeginEffect, Abort,
       CallEffect, WriteReceipt, CommitEffect, AfterEffectFailure, MarkAmbiguous, RecoverRow,
       RecoverRefused, Leased
  <2>8. CASE Crash(r)
    BY <2>4, <2>8 DEF Crash
  <2>9. QED
    BY <1>3, <2>2, <2>3, <2>5, <2>7, <2>8
<1>4. QED
  BY <1>1, <1>2, <1>3 DEF Next

-----------------------------------------------------------------------------
\* Where a run is with its operation, and what that says of the tombstone,
\* the executor call and the receipt.
Unspent(op) == op \in tombstones /\ calls[op] = 0
Acted(op) == op \in tombstones /\ calls[op] = 1

CallInv ==
  /\ \A op \in Ops : calls[op] <= 1 /\ (calls[op] > 0 => op \in tombstones)
  /\ \A r \in Runners :
       /\ runner[r].pc \in {"tombstoned", "claimed", "begun"} => Unspent(Op(r))
       /\ runner[r].pc \in {"effected", "receipted"} => Acted(Op(r))
       /\ runner[r].pc = "receipted" => receipt[Op(r)] = "written"
  /\ \A op \in Ops : row[op] = "done" => Acted(op) /\ receipt[op] = "written"

\* A step that neither spends a tombstone nor calls, writes or commits.
Quiet(r) ==
  /\ UNCHANGED <<tombstones, calls>>
  /\ \A op \in Ops : row'[op] = "done" => row[op] = "done"
  /\ \A op \in Ops : receipt[op] = "written" => receipt'[op] = "written"
  /\ runner'[r].pc \notin {"effected", "receipted"}
  /\ runner'[r].pc \in {"tombstoned", "claimed", "begun"} =>
       /\ runner[r].pc \in {"tombstoned", "claimed", "begun"}
       /\ runner'[r].op = runner[r].op

LEMMA MoveRowQuiet ==
  ASSUME TypeOK, NEW o \in Ops, NEW from, NEW to \in RowStates \ {"done"}, MoveRow(o, from, to)
  PROVE  \A op \in Ops : row'[op] = "done" => row[op] = "done"
BY DEF TypeOK, MoveRow

LEMMA QuietSteps ==
  ASSUME TypeOK, NEW r \in Runners,
         \/ Begins(r) \/ AcquireOperation(r) \/ Verify(r) \/ IntentTorn(r) \/ Abort(r)
         \/ ClaimRow(r) \/ BeginEffect(r) \/ AfterEffectFailure(r) \/ MarkAmbiguous(r)
         \/ RecoverRow(r) \/ RecoverRefused(r) \/ Crash(r)
  PROVE  Quiet(r)
<1>0. Op(r) \in Ops /\ Op(r) = runner[r].op
  BY OpType
<1>1. CASE Begins(r)
  BY <1>1 DEF Begins, Enter, RecoverBegin, Quiet, TypeOK, files
<1>2. CASE AcquireOperation(r)
  BY <1>2 DEF AcquireOperation, Quiet, TypeOK, Runs, files
<1>3. CASE Verify(r)
  BY <1>3, ProceedFacts DEF Verify, Quiet, PCs, Steps
<1>4. CASE IntentTorn(r) \/ Abort(r) \/ RecoverRefused(r)
  BY <1>4, LeaveFacts DEF IntentTorn, Abort, RecoverRefused, Quiet, files
<1>5. CASE ClaimRow(r)
  <2>1. runner'[r].pc \in {"claimed", "idle"} /\ (runner'[r].pc = "claimed" => runner'[r].op = runner[r].op)
    BY <1>5, ProceedOrLeave DEF ClaimRow, PCs, Steps, Leased
  <2>2. QED
    BY <1>0, <1>5, <2>1, MoveRowQuiet DEF ClaimRow, Quiet, files, RowStates
<1>6. CASE BeginEffect(r)
  <2>1. runner'[r].pc \in {"begun", "idle"} /\ (runner'[r].pc = "begun" => runner'[r].op = runner[r].op)
    BY <1>6, ProceedOrLeave DEF BeginEffect, PCs, Steps, Leased
  <2>2. QED
    BY <1>0, <1>6, <2>1, MoveRowQuiet DEF BeginEffect, Quiet, files, RowStates
<1>7. CASE AfterEffectFailure(r)
  BY <1>7, ProceedFacts DEF AfterEffectFailure, Quiet, files, PCs, Steps, Leased
<1>8. CASE MarkAmbiguous(r) \/ RecoverRow(r)
  <2>1. \A op \in Ops : row'[op] = "done" => row[op] = "done"
    BY <1>0, <1>8, MoveRowQuiet DEF MarkAmbiguous, RecoverRow, RowStates
  <2>2. runner'[r].pc = "idle"
    BY <1>8, LeaveFacts DEF MarkAmbiguous, RecoverRow
  <2>3. UNCHANGED <<tombstones, calls, receipt>>
    BY <1>8 DEF MarkAmbiguous, RecoverRow, files
  <2>4. QED
    BY <2>1, <2>2, <2>3 DEF Quiet
<1>9. CASE Crash(r)
  BY <1>0, <1>9, LeaveFacts DEF Crash, Quiet, TypeOK
<1>10. QED
  BY <1>1, <1>2, <1>3, <1>4, <1>5, <1>6, <1>7, <1>8, <1>9

LEMMA CallInvStep ==
  ASSUME TypeOK, LeaseInv, CallInv, [Next]_vars
  PROVE  CallInv'
<1> USE DEF CallInv, Unspent, Acted
<1>1. CASE UNCHANGED vars
  BY <1>1 DEF vars, Op
<1>2. ASSUME NEW op \in Ops, RollBack(op) PROVE CallInv'
  <2>1. \A o \in Ops : row'[o] = "done" => row[o] = "done"
    BY <1>2 DEF RollBack, TypeOK
  <2>2. UNCHANGED <<tombstones, calls, receipt, runner>>
    BY <1>2 DEF RollBack, files
  <2>3. QED
    BY <2>1, <2>2 DEF Op
<1>3. ASSUME NEW r \in Runners, Begins(r) \/ AcquireOperation(r) \/ Advance(r) \/ Crash(r)
      PROVE  CallInv'
  <2>0. /\ Alone(r)
        /\ \A q \in Runners : Op(q) \in Ops /\ Op(q) = runner[q].op
        /\ \A q \in Runners \ {r} : Op(q)' = Op(q) /\ runner'[q].pc = runner[q].pc
    BY <1>3, RunnerStep, OpType DEF Alone, Op
  <2>1. CASE Quiet(r)
    BY <2>0, <2>1 DEF Quiet, TypeOK, Op
  <2>2. CASE ClaimTombstone(r)
    <3>1. calls[Op(r)] = 0
      BY <2>0, <2>2 DEF ClaimTombstone, TypeOK
    <3>2. runner'[r].pc \in {"tombstoned", "idle"} /\ (runner'[r].pc = "tombstoned" => Op(r)' = Op(r))
      BY <2>0, <2>2, ProceedOrLeave DEF ClaimTombstone, PCs, Steps, Leased, Op
    <3>3. QED
      BY <2>0, <2>2, <3>1, <3>2 DEF ClaimTombstone, files, Op
  <2>3. CASE CallEffect(r)
    <3>1. Unspent(Op(r)) /\ \A q \in Runners \ {r} : Op(q) = Op(r) => runner[q].pc \notin Leased
      BY <2>0, <2>3 DEF CallEffect, LeaseInv, Leased
    <3>2. runner'[r].pc \in {"effected", "marking"} /\ Op(r)' = Op(r)
      BY <2>0, <2>3, ProceedFacts DEF CallEffect, PCs, Steps, Leased
    <3>3. calls'[Op(r)] = 1 /\ \A op \in Ops \ {Op(r)} : calls'[op] = calls[op]
      BY <2>0, <2>3, <3>1 DEF CallEffect, TypeOK
    <3>4. UNCHANGED <<tombstones, row, receipt>> /\ row[Op(r)] # "done"
      BY <2>0, <2>3, <3>1 DEF CallEffect, files
    <3>5. \A op \in Ops : calls'[op] <= 1 /\ (calls'[op] > 0 => op \in tombstones')
      BY <3>1, <3>3, <3>4
    <3>6. \A op \in Ops : row'[op] = "done" => Acted(op)' /\ receipt'[op] = "written"
      BY <3>3, <3>4
    <3>7. \A q \in Runners \ {r} :
            /\ runner[q].pc \in {"tombstoned", "claimed", "begun", "effected", "receipted"}
                 => calls'[Op(q)] = calls[Op(q)]
      BY <2>0, <3>1, <3>3 DEF Leased
    <3>8. QED
      BY <2>0, <3>2, <3>3, <3>4, <3>5, <3>6, <3>7, <3>1 DEF Op
  <2>4. CASE WriteReceipt(r)
    <3>1. runner'[r].pc \in {"receipted", "marking"} /\ Op(r)' = Op(r)
      BY <2>0, <2>4, ProceedFacts DEF WriteReceipt, PCs, Steps, Leased
    <3>2. /\ UNCHANGED <<tombstones, row, calls>>
          /\ \A op \in Ops : receipt[op] = "written" => receipt'[op] = "written"
          /\ runner'[r].pc = "receipted" => receipt'[Op(r)] = "written"
      <4>1. CASE receipt' = [receipt EXCEPT ![Op(r)] = "written"] /\ Proceed(r, "receipted")
        BY <2>0, <2>4, <4>1 DEF WriteReceipt, TypeOK
      <4>2. CASE Proceed(r, "marking")
        <5>1. runner'[r].pc = "marking"
          BY <4>2, ProceedFacts DEF PCs, Steps, Leased
        <5>2. QED
          BY <2>0, <2>4, <5>1 DEF WriteReceipt, TypeOK
      <4>3. QED
        BY <2>4, <4>1, <4>2 DEF WriteReceipt
    <3>3. Acted(Op(r))
      BY <2>4 DEF WriteReceipt
    <3>4. QED
      BY <2>0, <3>1, <3>2, <3>3 DEF Op
  <2>5. CASE CommitEffect(r)
    <3>1. Acted(Op(r)) /\ receipt[Op(r)] = "written"
      BY <2>5 DEF CommitEffect
    <3>2. runner'[r].pc \in {"marking", "idle"}
      BY <2>5, ProceedOrLeave DEF CommitEffect, PCs, Steps, Leased
    <3>3. \A op \in Ops \ {Op(r)} : row'[op] = row[op]
      BY <2>0, <2>5 DEF CommitEffect, MoveRow, TypeOK
    <3>4. QED
      BY <2>0, <2>5, <3>1, <3>2, <3>3 DEF CommitEffect, files, Op
  <2>6. QED
    BY <1>3, <2>1, <2>2, <2>3, <2>4, <2>5, QuietSteps DEF Advance
<1>4. QED
  BY <1>1, <1>2, <1>3 DEF Next

-----------------------------------------------------------------------------
\* A row moves only under its operation's lease, and only forward.
Forward(op) ==
  \/ row[op] = "none" /\ row'[op] = "claimed"
  \/ row[op] = "claimed" /\ row'[op] \in {"in_progress", "failed"}
  \/ row[op] = "in_progress" /\ row'[op] \in {"done", "failed"}

LEMMA RowMoves ==
  ASSUME TypeOK, NEW r \in Runners,
         Begins(r) \/ AcquireOperation(r) \/ Advance(r) \/ Crash(r)
  PROVE  \A op \in Ops : row'[op] # row[op] =>
           op = Op(r) /\ runner[r].pc \in Leased \cup {"recovering"} /\ Forward(op)
<1>0. Op(r) \in Ops
  BY OpType
<1>1. CASE UNCHANGED row
  BY <1>1
<1>2. CASE \/ runner[r].pc = "tombstoned" /\ MoveRow(Op(r), {"none"}, "claimed")
           \/ runner[r].pc = "claimed" /\ MoveRow(Op(r), {"claimed"}, "in_progress")
           \/ runner[r].pc = "receipted" /\ MoveRow(Op(r), {"in_progress"}, "done")
           \/ runner[r].pc \in {"marking", "recovering"} /\ MoveRow(Op(r), {"claimed", "in_progress"}, "failed")
  BY <1>0, <1>2 DEF MoveRow, TypeOK, Forward, Leased
<1>3. QED
  BY <1>1, <1>2 DEF Begins, Enter, RecoverBegin, AcquireOperation, Advance, Verify, IntentTorn,
     ClaimTombstone, ClaimRow, BeginEffect, Abort, CallEffect, WriteReceipt, CommitEffect,
     AfterEffectFailure, MarkAmbiguous, RecoverRow, RecoverRefused, Recoverable, Crash

LEMMA RollBackCounts ==
  ASSUME TypeOK, NEW op \in Ops, RollBack(op)
  PROVE  rollbacks' # 0 /\ UNCHANGED <<tombstones, runner, calls, receipt>>
BY StagesAssumption DEF TypeOK, RollBack, files

LEMMA RollbacksKept ==
  ASSUME TypeOK, NEW r \in Runners,
         Begins(r) \/ AcquireOperation(r) \/ Advance(r) \/ Crash(r)
  PROVE  UNCHANGED rollbacks
BY DEF Begins, Enter, RecoverBegin, AcquireOperation, Advance, Verify, IntentTorn,
   ClaimTombstone, ClaimRow, BeginEffect, Abort, CallEffect, WriteReceipt, CommitEffect,
   AfterEffectFailure, MarkAmbiguous, RecoverRow, RecoverRefused, Crash

\* A run's own row, while nobody rolls rows back.
RowInv ==
  rollbacks = 0 =>
    \A r \in Runners :
      /\ runner[r].pc = "claimed" => row[Op(r)] = "claimed"
      /\ runner[r].pc \in {"begun", "effected", "receipted"} => row[Op(r)] = "in_progress"

LEMMA RowInvStep ==
  ASSUME TypeOK, LeaseInv, RowInv, [Next]_vars
  PROVE  RowInv'
<1>1. CASE UNCHANGED vars
  BY <1>1 DEF vars, RowInv, Op
<1>2. ASSUME NEW op \in Ops, RollBack(op) PROVE RowInv'
  BY <1>2, RollBackCounts DEF RowInv
<1>3. ASSUME NEW r \in Runners, Begins(r) \/ AcquireOperation(r) \/ Advance(r) \/ Crash(r)
      PROVE  RowInv'
  <2>0. /\ Alone(r)
        /\ \A q \in Runners : Op(q) \in Ops /\ Op(q) = runner[q].op
        /\ \A q \in Runners \ {r} : Op(q)' = Op(q) /\ runner'[q].pc = runner[q].pc
        /\ \A op \in Ops : row'[op] # row[op] => op = Op(r) /\ runner[r].pc \in Leased \cup {"recovering"}
        /\ UNCHANGED rollbacks
    BY <1>3, RunnerStep, OpType, RowMoves, RollbacksKept DEF Alone, Op
  <2>1. ASSUME rollbacks = 0, NEW q \in Runners \ {r}, runner[q].pc \in Leased
        PROVE  row'[Op(q)] = row[Op(q)]
    BY <2>0, <2>1 DEF LeaseInv
  <2>2. SUFFICES ASSUME rollbacks = 0
                 PROVE  /\ runner'[r].pc = "claimed" => row'[Op(r)'] = "claimed"
                        /\ runner'[r].pc \in {"begun", "effected", "receipted"} => row'[Op(r)'] = "in_progress"
    <3>1. ASSUME rollbacks = 0, NEW q \in Runners \ {r}
          PROVE  /\ runner'[q].pc = "claimed" => row'[Op(q)'] = "claimed"
                 /\ runner'[q].pc \in {"begun", "effected", "receipted"} => row'[Op(q)'] = "in_progress"
      <4>1. Op(q)' = Op(q) /\ runner'[q].pc = runner[q].pc
        BY <2>0
      <4>2. runner[q].pc \in Leased => row'[Op(q)] = row[Op(q)]
        BY <2>1, <3>1
      <4>3. QED
        BY <3>1, <4>1, <4>2 DEF RowInv, Leased
    <3>2. QED
      BY <2>0, <2>2, <3>1 DEF RowInv
  <2>3. CASE ClaimRow(r)
    <3>1. runner'[r].pc \in {"claimed", "idle"} /\ (runner'[r].pc = "claimed" => Op(r)' = Op(r))
      BY <2>0, <2>3, ProceedOrLeave DEF ClaimRow, PCs, Steps, Leased, Op
    <3>2. row'[Op(r)] = "claimed"
      BY <2>0, <2>3 DEF ClaimRow, MoveRow, TypeOK
    <3>3. QED
      BY <3>1, <3>2
  <2>4. CASE BeginEffect(r)
    <3>1. runner'[r].pc \in {"begun", "idle"} /\ (runner'[r].pc = "begun" => Op(r)' = Op(r))
      BY <2>0, <2>4, ProceedOrLeave DEF BeginEffect, PCs, Steps, Leased, Op
    <3>2. row'[Op(r)] = "in_progress"
      BY <2>0, <2>4 DEF BeginEffect, MoveRow, TypeOK
    <3>3. QED
      BY <3>1, <3>2
  <2>5. CASE CallEffect(r) \/ WriteReceipt(r)
    <3>1. /\ runner[r].pc \in {"begun", "effected"}
          /\ runner'[r].pc \in {"effected", "receipted", "marking"}
          /\ Op(r)' = Op(r)
      BY <2>0, <2>5, ProceedFacts DEF CallEffect, WriteReceipt, PCs, Steps, Leased
    <3>2. UNCHANGED row
      BY <2>5 DEF CallEffect, WriteReceipt
    <3>3. QED
      BY <2>0, <2>2, <3>1, <3>2 DEF RowInv
  <2>6. CASE ClaimTombstone(r) \/ CommitEffect(r)
    BY <2>6, ProceedOrLeave DEF ClaimTombstone, CommitEffect, PCs, Steps, Leased
  <2>7. CASE Leave(r) \/ AfterEffectFailure(r) \/ Verify(r)
    BY <2>7, LeaveFacts, ProceedFacts DEF AfterEffectFailure, Verify, PCs, Steps, Leased
  <2>8. CASE Begins(r) \/ AcquireOperation(r)
    BY <2>8 DEF Begins, Enter, RecoverBegin, AcquireOperation, TypeOK, Runs
  <2>9. QED
    BY <1>3, <2>3, <2>4, <2>5, <2>6, <2>7, <2>8
       DEF Advance, IntentTorn, Abort, MarkAmbiguous, RecoverRow, RecoverRefused, Crash
<1>4. QED
  BY <1>1, <1>2, <1>3 DEF Next

\* From its verification on a run has its predecessors committed, and so has
\* every operation the executor was called for.
PredecessorInv ==
  rollbacks = 0 =>
    /\ \A r \in Runners : runner[r].pc \in {"verified"} \cup Leased =>
         \A p \in Predecessors(Op(r)) : row[p] = "done"
    /\ \A op \in Ops : calls[op] > 0 => \A p \in Predecessors(op) : row[p] = "done"

LEMMA PredecessorsAreOps ==
  ASSUME NEW op \in Ops
  PROVE  Predecessors(op) \subseteq Ops
BY StagesAssumption DEF Predecessors, Ops, Deliveries

LEMMA PredecessorInvStep ==
  ASSUME TypeOK, PredecessorInv, [Next]_vars
  PROVE  PredecessorInv'
<1>1. CASE UNCHANGED vars
  BY <1>1 DEF vars, PredecessorInv, Op
<1>2. ASSUME NEW op \in Ops, RollBack(op) PROVE PredecessorInv'
  BY <1>2, RollBackCounts DEF PredecessorInv
<1>3. ASSUME NEW r \in Runners, Begins(r) \/ AcquireOperation(r) \/ Advance(r) \/ Crash(r)
      PROVE  PredecessorInv'
  <2>0. /\ Alone(r)
        /\ \A q \in Runners : Op(q) \in Ops /\ Op(q) = runner[q].op
        /\ \A q \in Runners \ {r} : Op(q)' = Op(q) /\ runner'[q].pc = runner[q].pc
        /\ \A op \in Ops : row[op] = "done" => row'[op] = "done"
        /\ UNCHANGED rollbacks
    BY <1>3, RunnerStep, OpType, RowMoves, RollbacksKept DEF Alone, Op, Forward
  <2>1. SUFFICES ASSUME rollbacks = 0
                 PROVE  /\ runner'[r].pc \in {"verified"} \cup Leased =>
                             \A p \in Predecessors(Op(r)') : row[p] = "done"
                        /\ \A op \in Ops : calls'[op] > 0 => \A p \in Predecessors(op) : row[p] = "done"
    <3>1. ASSUME rollbacks = 0, NEW q \in Runners \ {r}, runner'[q].pc \in {"verified"} \cup Leased
          PROVE  \A p \in Predecessors(Op(q)') : row'[p] = "done"
      <4>1. Op(q)' = Op(q) /\ runner'[q].pc = runner[q].pc
        BY <2>0
      <4>2. \A p \in Predecessors(Op(q)) : row[p] = "done" /\ p \in Ops
        BY <2>0, <3>1, <4>1, PredecessorsAreOps DEF PredecessorInv
      <4>3. QED
        BY <2>0, <4>1, <4>2
    <3>2. Op(r)' \in Ops
      BY <2>0 DEF Alone, Op, Runs
    <3>3. QED
      BY <2>0, <2>1, <3>1, <3>2, PredecessorsAreOps DEF PredecessorInv
  <2>2. ASSUME NEW pc \in Leased, Proceed(r, pc), runner[r].pc \in Leased
        PROVE  \A p \in Predecessors(Op(r)') : row[p] = "done"
    <3>1. Op(r)' = Op(r)
      BY <2>2, ProceedFacts DEF PCs, Steps
    <3>2. QED
      BY <2>1, <2>2, <3>1 DEF PredecessorInv
  <2>3. CASE CallEffect(r)
    <3>1. \A p \in Predecessors(Op(r)) : row[p] = "done"
      BY <2>1, <2>3 DEF PredecessorInv, CallEffect, Leased
    <3>2. \A op \in Ops \ {Op(r)} : calls'[op] = calls[op]
      BY <2>0, <2>3 DEF CallEffect, TypeOK
    <3>3. QED
      BY <2>1, <2>2, <2>3, <3>1, <3>2 DEF CallEffect, PredecessorInv, Leased
  <2>4. CASE Verify(r)
    <3>1. Op(r)' = Op(r) /\ UNCHANGED calls
      BY <2>4, ProceedFacts DEF Verify, PCs, Steps
    <3>2. QED
      BY <2>1, <2>4, <3>1 DEF Verify, PredecessorsCommitted, PredecessorInv
  <2>5. CASE AcquireOperation(r)
    <3>1. Op(r)' = Op(r) /\ UNCHANGED calls
      BY <2>0, <2>5 DEF AcquireOperation, TypeOK, Runs, Op
    <3>2. QED
      BY <2>1, <2>5, <3>1 DEF AcquireOperation, PredecessorInv
  <2>6. CASE Leave(r) /\ UNCHANGED calls
    BY <2>1, <2>6, LeaveFacts DEF PredecessorInv, Leased
  <2>7. CASE Begins(r)
    BY <2>1, <2>7 DEF Begins, Enter, RecoverBegin, TypeOK, PredecessorInv, Leased
  <2>8. CASE \E pc \in Leased : Proceed(r, pc) /\ runner[r].pc \in Leased /\ UNCHANGED calls
    BY <2>1, <2>2, <2>8 DEF PredecessorInv
  <2>9. QED
    BY <1>3, <2>3, <2>4, <2>5, <2>6, <2>7, <2>8
       DEF Advance, IntentTorn, ClaimTombstone, ClaimRow, BeginEffect, Abort, WriteReceipt,
           CommitEffect, AfterEffectFailure, MarkAmbiguous, RecoverRow, RecoverRefused, Crash, Leased
<1>4. QED
  BY <1>1, <1>2, <1>3 DEF Next

-----------------------------------------------------------------------------
\* The delivery nonces of the rows are distinct, and an operation the
\* executor was called for has a row, while nobody rolls rows back.
NonceInv ==
  rollbacks = 0 =>
    /\ \A o, p \in Recorded \cap Deliveries : RequestNonce[o] = RequestNonce[p] => o = p
    /\ \A op \in Ops : calls[op] > 0 => op \in Recorded

LEMMA CallsStep ==
  ASSUME TypeOK, NEW r \in Runners, Begins(r) \/ AcquireOperation(r) \/ Advance(r) \/ Crash(r)
  PROVE  CallEffect(r) \/ UNCHANGED calls
BY DEF Begins, Enter, RecoverBegin, AcquireOperation, Advance, Verify, IntentTorn,
   ClaimTombstone, ClaimRow, BeginEffect, Abort, WriteReceipt, CommitEffect,
   AfterEffectFailure, MarkAmbiguous, RecoverRow, RecoverRefused, Crash

\* Only a claim makes a row.
LEMMA RecordedStep ==
  ASSUME TypeOK, NEW r \in Runners, Begins(r) \/ AcquireOperation(r) \/ Advance(r) \/ Crash(r)
  PROVE  \/ Recorded' = Recorded
         \/ ClaimRow(r) /\ Recorded' = Recorded \cup {Op(r)}
<1>0. Op(r) \in Ops
  BY OpType
<1>1. CASE ClaimRow(r)
  BY <1>0, <1>1 DEF ClaimRow, MoveRow, TypeOK, Recorded
<1>2. CASE ~ ClaimRow(r)
  <2>1. \/ UNCHANGED row
        \/ \E from \in SUBSET {"claimed", "in_progress"}, to \in RowStates \ {"none"} : MoveRow(Op(r), from, to)
    BY <1>2 DEF Begins, Enter, RecoverBegin, AcquireOperation, Advance, Verify, IntentTorn,
       ClaimTombstone, BeginEffect, Abort, CallEffect, WriteReceipt, CommitEffect,
       AfterEffectFailure, MarkAmbiguous, RecoverRow, RecoverRefused, Crash, Recoverable, RowStates
  <2>2. CASE \E from \in SUBSET {"claimed", "in_progress"}, to \in RowStates \ {"none"} : MoveRow(Op(r), from, to)
    BY <1>0, <2>2 DEF MoveRow, TypeOK, Recorded
  <2>3. QED
    BY <2>1, <2>2 DEF Recorded
<1>3. QED
  BY <1>1, <1>2

LEMMA NonceInvStep ==
  ASSUME TypeOK, RowInv, NonceInv, [Next]_vars
  PROVE  NonceInv'
<1>1. CASE UNCHANGED vars
  BY <1>1 DEF vars, NonceInv, Recorded
<1>2. ASSUME NEW op \in Ops, RollBack(op) PROVE NonceInv'
  BY <1>2, RollBackCounts DEF NonceInv
<1>3. ASSUME NEW r \in Runners, Begins(r) \/ AcquireOperation(r) \/ Advance(r) \/ Crash(r), rollbacks = 0
      PROVE  NonceInv'
  <2>0. Op(r) \in Ops
    BY OpType
  <2>1. \A o, p \in Recorded' \cap Deliveries : RequestNonce[o] = RequestNonce[p] => o = p
    <3>1. CASE Recorded' = Recorded
      BY <1>3, <3>1 DEF NonceInv
    <3>2. CASE ClaimRow(r) /\ Recorded' = Recorded \cup {Op(r)}
      BY <1>3, <3>2 DEF ClaimRow, ClaimAdmissible, MaterializationClaimable,
            StartClaimable, NonceUnseen, Deliveries, NonceInv
    <3>3. QED
      BY <1>3, <3>1, <3>2, RecordedStep
  <2>2. \A op \in Ops : calls'[op] > 0 => op \in Recorded'
    <3>1. Recorded \subseteq Recorded'
      BY <1>3, RecordedStep
    <3>2. CASE CallEffect(r)
      <4>1. Op(r) \in Recorded
        BY <1>3, <2>0, <3>2 DEF CallEffect, RowInv, Recorded
      <4>2. \A op \in Ops \ {Op(r)} : calls'[op] = calls[op]
        BY <3>2 DEF CallEffect, TypeOK
      <4>3. QED
        BY <1>3, <3>1, <4>1, <4>2 DEF NonceInv
    <3>3. CASE UNCHANGED calls
      BY <1>3, <3>1, <3>3 DEF NonceInv
    <3>4. QED
      BY <1>3, <3>2, <3>3, CallsStep
  <2>3. QED
    BY <2>1, <2>2 DEF NonceInv
<1>4. ASSUME NEW r \in Runners, Begins(r) \/ AcquireOperation(r) \/ Advance(r) \/ Crash(r)
      PROVE  NonceInv'
  BY <1>3, <1>4, RollbacksKept DEF NonceInv
<1>5. QED
  BY <1>1, <1>2, <1>4 DEF Next

-----------------------------------------------------------------------------
\* The intent file names the materialization at work and the one that acted.
IntentInv ==
  /\ \A r \in Runners :
       Op(r) \in Materializations /\ runner[r].pc \in {"verified"} \cup Leased => intentFile = Op(r)
  /\ \A m \in Materializations : calls[m] > 0 => intentFile = m

LEMMA IntentStep ==
  ASSUME TypeOK, NEW r \in Runners, Begins(r) \/ AcquireOperation(r) \/ Advance(r) \/ Crash(r)
  PROVE  /\ intentFile' = intentFile \/ intentFile = NoIntent
         /\ ~ Verify(r) => \/ intentFile' = intentFile
                           \/ runner'[r].pc = "idle"
<1>1. CASE IntentTorn(r)
  BY <1>1, LeaveFacts DEF IntentTorn
<1>2. CASE ~ IntentTorn(r)
  BY <1>2 DEF Begins, Enter, RecoverBegin, AcquireOperation, Advance, Verify,
     ClaimTombstone, ClaimRow, BeginEffect, Abort, CallEffect, WriteReceipt, CommitEffect,
     AfterEffectFailure, MarkAmbiguous, RecoverRow, RecoverRefused, Crash, files,
     MaterializationVerified
<1>3. QED
  BY <1>1, <1>2

\* A run reaches its lease from its verification, with the same operation.
LEMMA LeasedStep ==
  ASSUME TypeOK, NEW r \in Runners, Begins(r) \/ AcquireOperation(r) \/ Advance(r) \/ Crash(r),
         ~ Verify(r), runner'[r].pc \in {"verified"} \cup Leased
  PROVE  runner[r].pc \in {"verified"} \cup Leased /\ Op(r)' = Op(r)
<1>1. CASE Begins(r)
  BY <1>1 DEF Begins, Enter, RecoverBegin, TypeOK, Leased
<1>2. CASE AcquireOperation(r)
  BY <1>2 DEF AcquireOperation, TypeOK, Runs, Op
<1>3. CASE Leave(r)
  BY <1>3, LeaveFacts DEF Leased
<1>4. CASE \E pc \in Leased : Proceed(r, pc) /\ runner[r].pc \in Leased
  BY <1>4, ProceedFacts DEF PCs, Steps
<1>5. QED
  BY <1>1, <1>2, <1>3, <1>4 DEF Advance, IntentTorn, ClaimTombstone, ClaimRow, BeginEffect, Abort,
     CallEffect, WriteReceipt, CommitEffect, AfterEffectFailure, MarkAmbiguous, RecoverRow,
     RecoverRefused, Crash, Leased

LEMMA IntentInvStep ==
  ASSUME TypeOK, IntentInv, [Next]_vars
  PROVE  IntentInv'
<1>1. CASE UNCHANGED vars
  BY <1>1 DEF vars, IntentInv, Op
<1>2. ASSUME NEW op \in Ops, RollBack(op) PROVE IntentInv'
  BY <1>2, RollBackCounts DEF RollBack, IntentInv, Op, files
<1>3. ASSUME NEW r \in Runners, Begins(r) \/ AcquireOperation(r) \/ Advance(r) \/ Crash(r)
      PROVE  IntentInv'
  <2>0. /\ Op(r) \in Ops
        /\ \A q \in Runners \ {r} : Op(q)' = Op(q) /\ runner'[q].pc = runner[q].pc
        /\ NoIntent \notin Materializations
    BY <1>3, RunnerStep, OpType, StagesAssumption DEF Alone, Op
  <2>1. ASSUME NEW q \in Runners, Op(q)' \in Materializations, runner'[q].pc \in {"verified"} \cup Leased
        PROVE  intentFile' = Op(q)'
    <3>1. CASE q # r
      BY <1>3, <2>0, <2>1, <3>1, IntentStep DEF IntentInv
    <3>2. CASE q = r /\ Verify(r)
      BY <2>1, <3>2, ProceedFacts DEF Verify, MaterializationVerified, PCs, Steps
    <3>3. CASE q = r /\ ~ Verify(r)
      <4>1. runner[r].pc \in {"verified"} \cup Leased /\ Op(r)' = Op(r) /\ runner'[r].pc # "idle"
        BY <1>3, <2>1, <3>3, LeasedStep DEF Leased
      <4>2. QED
        BY <1>3, <2>1, <3>3, <4>1, IntentStep DEF IntentInv
    <3>4. QED
      BY <3>1, <3>2, <3>3
  <2>2. ASSUME NEW m \in Materializations, calls'[m] > 0
        PROVE  intentFile' = m
    <3>1. CASE calls[m] > 0
      BY <1>3, <2>0, <3>1, IntentStep DEF IntentInv
    <3>2. CASE CallEffect(r) /\ m = Op(r)
      BY <2>2, <3>2 DEF CallEffect, IntentInv, Leased, files
    <3>3. m \in Ops
      BY DEF Ops
    <3>4. QED
      BY <1>3, <2>2, <3>1, <3>2, <3>3, CallsStep DEF CallEffect, TypeOK
  <2>3. QED
    BY <2>1, <2>2 DEF IntentInv
<1>4. QED
  BY <1>1, <1>2, <1>3 DEF Next
-----------------------------------------------------------------------------
\* The inductive invariant of the staged pipeline.
StagedInv == LeaseInv /\ CallInv /\ RowInv /\ PredecessorInv /\ NonceInv /\ IntentInv

LEMMA StagedInvInit == Init => StagedInv
<1> SUFFICES ASSUME Init PROVE StagedInv
  OBVIOUS
<1>1. \A r \in Runners : runner[r].pc = "idle"
  BY DEF Init, Idle
<1>2. \A op \in Ops : calls[op] = 0 /\ row[op] = "none"
  BY DEF Init
<1>3. \A m \in Materializations : calls[m] = 0
  BY <1>2 DEF Ops, Deliveries
<1>4. LeaseInv /\ CallInv
  BY <1>1, <1>2 DEF LeaseInv, CallInv, Leased
<1>5. RowInv /\ PredecessorInv
  BY <1>1, <1>2 DEF RowInv, PredecessorInv, Leased
<1>6. NonceInv /\ IntentInv
  BY <1>1, <1>2, <1>3 DEF NonceInv, IntentInv, Recorded, Leased
<1>7. QED
  BY <1>4, <1>5, <1>6 DEF StagedInv

LEMMA StagedInvariant == Spec => [](TypeOK /\ StagedInv)
<1>1. TypeOK /\ StagedInv /\ [Next]_vars => StagedInv'
  BY LeaseInvStep, CallInvStep, RowInvStep, PredecessorInvStep, NonceInvStep, IntentInvStep DEF StagedInv
<1>2. QED
  BY <1>1, StagedInvInit, TypeCorrect, PTL DEF Spec

\* The executor is called at most once for a signed operation, whatever
\* crashes, retries, recoveries and row rollbacks happen in between.
THEOREM SingleCall == Spec => []OneCallPerOperation
<1>1. StagedInv => OneCallPerOperation
  BY DEF StagedInv, CallInv, OneCallPerOperation
<1>2. QED
  BY <1>1, StagedInvariant, PTL

\* A committed row has its tombstone, its call and its written receipt.
THEOREM CommittedBacked == Spec => []CommittedIsBacked
<1>1. StagedInv => CommittedIsBacked
  BY DEF StagedInv, CallInv, Acted, CommittedIsBacked
<1>2. QED
  BY <1>1, StagedInvariant, PTL

\* No recovery and no other run moves the row of a run between its begin and
\* its commit.
THEOREM LiveEffectSafe == Spec => []LiveEffectKeepsItsRow
<1>1. StagedInv => LiveEffectKeepsItsRow
  BY DEF StagedInv, RowInv, LiveEffectKeepsItsRow
<1>2. QED
  BY <1>1, StagedInvariant, PTL

\* An operation is called for only after its predecessors were called for,
\* left their receipts and were committed.
THEOREM StagesInOrder == Spec => []PredecessorsFirst
<1>1. TypeOK /\ StagedInv => PredecessorsFirst
  <2> SUFFICES ASSUME TypeOK, StagedInv, rollbacks = 0, NEW op \in Ops, calls[op] > 0,
                      NEW p \in Predecessors(op)
               PROVE  calls[p] = 1 /\ receipt[p] = "written" /\ row[p] = "done"
    BY DEF PredecessorsFirst
  <2>1. row[p] = "done" /\ p \in Ops
    BY PredecessorsAreOps DEF StagedInv, PredecessorInv
  <2>2. QED
    BY <2>1 DEF StagedInv, CallInv, Acted
<1>2. QED
  BY <1>1, StagedInvariant, PTL

\* Two deliveries under one nonce are one delivery.
THEOREM NonceOnce == Spec => []NonceDeliveredOnce
<1>1. StagedInv => NonceDeliveredOnce
  BY DEF StagedInv, NonceInv, NonceDeliveredOnce, Ops, Deliveries
<1>2. QED
  BY <1>1, StagedInvariant, PTL

\* An allocation is materialized at most once, rollbacks included.
THEOREM MaterializedOnce == Spec => []OneMaterialization
<1>1. StagedInv => OneMaterialization
  BY DEF StagedInv, IntentInv, OneMaterialization
<1>2. QED
  BY <1>1, StagedInvariant, PTL

\* Rows move in the order claim, begin, end and never leave their end.
THEOREM RowsForward == Spec => RowsMoveForward
<1>1. TypeOK /\ [Next]_vars =>
        [ rollbacks' = 0 =>
            \A op \in Ops : row'[op] # row[op] =>
              \/ row[op] = "none" /\ row'[op] = "claimed"
              \/ row[op] = "claimed" /\ row'[op] \in {"in_progress", "failed"}
              \/ row[op] = "in_progress" /\ row'[op] \in {"done", "failed"} ]_vars
  <2> SUFFICES ASSUME TypeOK, Next, rollbacks' = 0, NEW op \in Ops, row'[op] # row[op]
               PROVE  Forward(op)
    BY DEF Forward
  <2>1. QED
    BY RowMoves, RollBackCounts DEF Next
<1>2. QED
  BY <1>1, TypeCorrect, PTL DEF Spec, RowsMoveForward

\* A tombstone without a row is final: nothing ever claims, calls or fails
\* that operation again.
THEOREM StrandedForGood == Spec => StrandedStayStranded
<1>1. TypeOK /\ [Next]_vars =>
        [ \A op \in Ops : Stranded(op) => Stranded(op)' /\ calls'[op] = calls[op] ]_vars
  <2> SUFFICES ASSUME TypeOK, Next, NEW op \in Ops, Stranded(op)
               PROVE  Stranded(op)' /\ calls'[op] = calls[op]
    OBVIOUS
  <2>1. ASSUME NEW o \in Ops, RollBack(o) PROVE Stranded(op)' /\ calls'[op] = calls[op]
    BY <2>1 DEF RollBack, TypeOK, Stranded, Op
  <2>2. ASSUME NEW r \in Runners, Begins(r) \/ AcquireOperation(r) \/ Advance(r) \/ Crash(r)
        PROVE  Stranded(op)' /\ calls'[op] = calls[op]
    <3>0. /\ Op(r) \in Ops
          /\ \A q \in Runners \ {r} : Op(q)' = Op(q) /\ runner'[q].pc = runner[q].pc
          /\ Op(r) = op => runner[r].pc \notin Leased \ {"leased"}
      BY <2>2, RunnerStep, OpType DEF Alone, Op, Stranded
    <3>1. row'[op] = "none"
      <4>0. ClaimRow(r) => Op(r) # op
        BY <3>0 DEF ClaimRow, Leased
      <4>1. Recorded' = Recorded \/ (ClaimRow(r) /\ Recorded' = Recorded \cup {Op(r)})
        BY <2>2, RecordedStep
      <4>2. op \notin Recorded
        BY DEF Recorded, Stranded
      <4>3. op \notin Recorded'
        BY <4>0, <4>1, <4>2
      <4>4. QED
        BY <4>3 DEF Recorded
    <3>2. calls'[op] = calls[op]
      <4>1. CASE CallEffect(r)
        BY <3>0, <4>1 DEF CallEffect, TypeOK, Leased
      <4>2. QED
        BY <2>2, <4>1, CallsStep
    <3>3. op \in tombstones'
      BY <2>2 DEF Stranded, Begins, Enter, RecoverBegin, AcquireOperation, Advance, Verify, IntentTorn,
         ClaimTombstone, ClaimRow, BeginEffect, Abort, CallEffect, WriteReceipt, CommitEffect,
         AfterEffectFailure, MarkAmbiguous, RecoverRow, RecoverRefused, Crash
    <3>4. Op(r)' = op => runner'[r].pc \notin Leased \ {"leased"}
      <4>1. CASE Verify(r)
        BY <4>1, ProceedFacts DEF Verify, PCs, Steps, Leased
      <4>2. CASE ~ Verify(r) /\ runner'[r].pc \in Leased \ {"leased"} /\ Op(r)' = op
        <5>1. Op(r) = op /\ runner[r].pc \in {"verified", "leased"}
          BY <2>2, <3>0, <4>2, LeasedStep
        <5>2. AcquireOperation(r) \/ Leave(r)
          BY <2>2, <5>1 DEF Stranded, Begins, Enter, RecoverBegin, Advance, Verify, IntentTorn,
             ClaimTombstone, ClaimRow, BeginEffect, Abort, CallEffect, WriteReceipt, CommitEffect,
             AfterEffectFailure, MarkAmbiguous, RecoverRow, RecoverRefused, Crash
        <5>3. CASE AcquireOperation(r)
          BY <5>3, <4>2 DEF AcquireOperation, TypeOK, Runs
        <5>4. CASE Leave(r)
          BY <5>4, <4>2, LeaveFacts DEF Leased
        <5>5. QED
          BY <5>2, <5>3, <5>4
      <4>3. QED
        BY <4>1, <4>2
    <3>5. QED
      BY <3>0, <3>1, <3>2, <3>3, <3>4 DEF Stranded
  <2>3. QED
    BY <2>1, <2>2 DEF Next
<1>2. QED
  BY <1>1, TypeCorrect, PTL DEF Spec, StrandedStayStranded

-----------------------------------------------------------------------------
\* A step of one operation that the one-shot token allows, or none.
LEMMA PhaseStep ==
  ASSUME TypeOK, CallInv, [Next]_vars
  PROVE  \/ \A op \in Ops : Phase(op)' = Phase(op)
         \/ \E t \in Ops :
              /\ \A op \in Ops \ {t} : Phase(op)' = Phase(op)
              /\ \/ Phase(t) = "fresh" /\ Phase(t)' = "spent"
                 \/ Phase(t) = "spent" /\ Phase(t)' = "attempted"
<1>1. ASSUME UNCHANGED <<tombstones, calls>>
      PROVE  \A op \in Ops : Phase(op)' = Phase(op)
  BY <1>1 DEF Phase
<1>2. ASSUME NEW op \in Ops, RollBack(op) PROVE UNCHANGED <<tombstones, calls>>
  BY <1>2, RollBackCounts
<1>3. ASSUME NEW r \in Runners, Begins(r) \/ AcquireOperation(r) \/ Advance(r) \/ Crash(r)
      PROVE  Quiet(r) \/ ClaimTombstone(r) \/ CallEffect(r) \/ WriteReceipt(r) \/ CommitEffect(r)
  BY <1>3, QuietSteps DEF Advance
<1>4. ASSUME NEW r \in Runners, Quiet(r) \/ WriteReceipt(r) \/ CommitEffect(r)
      PROVE  UNCHANGED <<tombstones, calls>>
  BY <1>4 DEF Quiet, WriteReceipt, CommitEffect
<1>5. ASSUME NEW r \in Runners, NEW t \in Ops, t = Op(r), ClaimTombstone(r)
      PROVE  /\ \A op \in Ops \ {t} : Phase(op)' = Phase(op)
             /\ Phase(t) = "fresh" /\ Phase(t)' = "spent"
  <2>1. calls[t] = 0 /\ calls' = calls
    BY <1>5 DEF ClaimTombstone, CallInv, TypeOK
  <2>2. t \notin tombstones /\ tombstones' = tombstones \cup {t}
    BY <1>5 DEF ClaimTombstone
  <2>3. QED
    BY <2>1, <2>2 DEF Phase
<1>6. ASSUME NEW r \in Runners, NEW t \in Ops, t = Op(r), CallEffect(r)
      PROVE  /\ \A op \in Ops \ {t} : Phase(op)' = Phase(op)
             /\ Phase(t) = "spent" /\ Phase(t)' = "attempted"
  <2>1. calls[t] = 0 /\ t \in tombstones /\ tombstones' = tombstones
    BY <1>6 DEF CallEffect, CallInv, Unspent
  <2>2. calls'[t] = 1 /\ \A op \in Ops \ {t} : calls'[op] = calls[op]
    BY <1>6, <2>1 DEF CallEffect, TypeOK
  <2>3. QED
    BY <2>1, <2>2 DEF Phase
<1>7. CASE \E r \in Runners : Begins(r) \/ AcquireOperation(r) \/ Advance(r) \/ Crash(r)
  BY <1>1, <1>3, <1>4, <1>5, <1>6, <1>7, OpType
<1>8. CASE UNCHANGED vars
  BY <1>1, <1>8 DEF vars
<1>9. QED
  BY <1>1, <1>2, <1>7, <1>8 DEF Next

\* Tombstone and executor call together implement the one-shot token: an
\* operation is spent before its one call and never becomes fresh again.
THEOREM StagedIsOneShot == Spec => ImplementsOneShot
<1>1. Init => Token!Init
  BY DEF Init, Token!Init, Phase
<1>2. TypeOK /\ StagedInv /\ [Next]_vars => [Token!Next]_[op \in Ops |-> Phase(op)]
  <2> SUFFICES ASSUME TypeOK, StagedInv, [Next]_vars
               PROVE  Token!Next \/ [op \in Ops |-> Phase(op)]' = [op \in Ops |-> Phase(op)]
    OBVIOUS
  <2>1. CASE \A op \in Ops : Phase(op)' = Phase(op)
    BY <2>1
  <2>2. ASSUME NEW t \in Ops, \A op \in Ops \ {t} : Phase(op)' = Phase(op),
               Phase(t) = "fresh", Phase(t)' = "spent"
        PROVE  Token!Next
    BY <2>2 DEF Token!Next, Token!Spend
  <2>3. ASSUME NEW t \in Ops, \A op \in Ops \ {t} : Phase(op)' = Phase(op),
               Phase(t) = "spent", Phase(t)' = "attempted"
        PROVE  Token!Next
    BY <2>3 DEF Token!Next, Token!Attempt
  <2>4. QED
    BY <2>1, <2>2, <2>3, PhaseStep DEF StagedInv
<1>3. QED
  BY <1>1, <1>2, StagedInvariant, PTL DEF Spec, ImplementsOneShot, Token!Spec
=============================================================================
