-------------------------- MODULE ExecutorSession --------------------------
(***************************************************************************)
(* The daemon of an executor host (executor_daemon.py) with its durable    *)
(* session journal and the engine it drives.  A session serves one signed  *)
(* request: it claims a row of the journal, reads the secret chunks (a     *)
(* materialization or a start has them, an allocation has none), lets the  *)
(* backend perform the engine steps of the operation's plan, each          *)
(* checkpointed before and after, records the outcome and answers.         *)
(*                                                                         *)
(* Requests are signed for the hello of their session, so the peer can     *)
(* have one operation signed again for a later session, with another       *)
(* request id; the journal alone keeps it from being served twice.         *)
(*                                                                         *)
(* A journal transaction takes effect or not; the fsync after COMMIT may   *)
(* raise although it did.  Every step of a session may fail (a malformed   *)
(* frame, a deadline, a busy journal, an engine error) or be its last (a   *)
(* crash).  The flock dies with its process; an engine call in flight does *)
(* not.  A plan step stands for an engine call whose effect a later        *)
(* inspection can see.                                                     *)
(***************************************************************************)
EXTENDS Naturals, Sequences

CONSTANTS
  Allocations,       \* signed allocation operations
  Materializations,  \* signed materialization operations
  Starts,            \* signed start_runtime operations
  MaterializationOf, \* the predecessor a start names
  RequestIds,        \* request ids sessions are opened with
  PlanLength,        \* engine steps of an operation's plan
  Daemons            \* daemon processes over one journal

Deliveries == Materializations \cup Starts
Ops == Allocations \cup Deliveries

NoDaemon == "nobody"
NoOp == "none"
NoRequest == "none"

ASSUME SessionAssumption ==
  /\ Allocations \cap Deliveries = {}
  /\ Materializations \cap Starts = {}
  /\ MaterializationOf \in [Starts -> Materializations]
  /\ PlanLength \in [Ops -> Nat \ {0}]
  /\ NoDaemon \notin Daemons
  /\ NoOp \notin Ops
  /\ NoRequest \notin RequestIds

VARIABLES
  session,     \* per operation, the row of the sessions table
  engine,      \* per operation, its engine_operations rows in sequence
  lease,       \* who holds the lease file
  daemon,      \* per daemon, its step, operation and request id
  view,        \* per daemon, what its reconciliation has seen so far
  inflight,    \* operations with an engine call that is not yet performed
  called,      \* history: engine steps called for an operation
  performed,   \* engine steps performed for an operation
  deliveries,  \* history: times secret chunks of an operation were read
  answered     \* history: operations and requests a receipt was sent for

journal == <<session, engine>>
calls == <<inflight, called, performed>>
vars == <<session, engine, lease, daemon, view, inflight, called, performed, deliveries, answered>>

ClaimedStates == {"allocation_claimed", "materialize_claimed", "materialized", "start_claimed"}
FinishedStates == {"allocated", "started"}
AmbiguousStates == {"allocation_ambiguous", "start_ambiguous"}
RowStates == {"none", "abandoned"} \cup ClaimedStates \cup FinishedStates \cup AmbiguousStates
CheckpointStates == {"claimed", "completed", "ambiguous"}

NoRow == [state |-> "none", request |-> NoRequest]

\* The steps of a session, before and after it has claimed its operation.
Unclaimed == {"opened", "framed"}
Claimed == {"claimed", "delivered", "materialized", "effect", "stepClaimed",
            "stepCalled", "stepDone", "returned", "recorded", "failing"}
Steps == Unclaimed \cup Claimed \cup {"reconciling"}
Idle == [pc |-> "idle", op |-> NoOp, request |-> NoRequest]

At(d, pc) == daemon[d].pc = pc
Op(d) == daemon[d].op
Request(d) == daemon[d].request
Serving(d, op) == daemon[d].pc \in Claimed /\ Op(d) = op

\* Who is at work holds the lease.
TypeOK ==
  /\ session \in [Ops -> [state : RowStates, request : RequestIds \cup {NoRequest}]]
  /\ engine \in [Ops -> Seq(CheckpointStates)]
  /\ lease \in Daemons \cup {NoDaemon}
  /\ daemon \in [Daemons -> [pc : Steps, op : Ops, request : RequestIds \cup {NoRequest}] \cup {Idle}]
  /\ view \in [Daemons -> Seq(BOOLEAN)]
  /\ inflight \subseteq Ops
  /\ called \in [Ops -> Nat]
  /\ performed \in [Ops -> Nat]
  /\ deliveries \in [Ops -> Nat]
  /\ answered \subseteq Ops \X RequestIds
  /\ \A d \in Daemons : daemon[d] # Idle <=> lease = d

Init ==
  /\ session = [op \in Ops |-> NoRow]
  /\ engine = [op \in Ops |-> <<>>]
  /\ lease = NoDaemon
  /\ daemon = [d \in Daemons |-> Idle]
  /\ view = [d \in Daemons |-> <<>>]
  /\ inflight = {}
  /\ called = [op \in Ops |-> 0]
  /\ performed = [op \in Ops |-> 0]
  /\ deliveries = [op \in Ops |-> 0]
  /\ answered = {}

-----------------------------------------------------------------------------
\* Mutant of Begin: the lease is not taken.
BeginUnleased(d, pc, op, id) ==
  /\ daemon[d] = Idle
  /\ lease' = d
  /\ daemon' = [daemon EXCEPT ![d] = [pc |-> pc, op |-> op, request |-> id]]
  /\ UNCHANGED <<journal, view, calls, deliveries, answered>>

\* A daemon takes the lease, without waiting, for a session or a reconciliation.
Begin(d, pc, op, id) ==
  /\ daemon[d] = Idle
  /\ lease = NoDaemon
  /\ lease' = d
  /\ daemon' = [daemon EXCEPT ![d] = [pc |-> pc, op |-> op, request |-> id]]
  /\ UNCHANGED <<journal, view, calls, deliveries, answered>>

Goto(d, pc) ==
  /\ daemon' = [daemon EXCEPT ![d].pc = pc]
  /\ UNCHANGED <<lease, view>>

Leave(d) ==
  /\ lease' = NoDaemon
  /\ daemon' = [daemon EXCEPT ![d] = Idle]
  /\ view' = [view EXCEPT ![d] = <<>>]

\* The step succeeds, or its exception sends the session to mark_ambiguous
\* (a commit that took effect may still raise).
Proceed(d, pc) == Goto(d, pc) \/ Goto(d, "failing")

-----------------------------------------------------------------------------
(* The session journal.                                                    *)

\* operation_id is the primary key and request_id is unique.
Insert(op, id, state) ==
  /\ session[op] = NoRow
  /\ \A o \in Ops : session[o].request # id
  /\ session' = [session EXCEPT ![op] = [state |-> state, request |-> id]]

\* An UPDATE of the row a request claimed that expects one of some states.
Move(op, id, from, to) ==
  /\ session[op].request = id
  /\ session[op].state \in from
  /\ session' = [session EXCEPT ![op].state = to]

\* The state of the row while the backend works.
EffectState(op) == IF op \in Allocations THEN "allocation_claimed" ELSE "start_claimed"
FinishedState(op) == IF op \in Allocations THEN "allocated" ELSE "started"

AllCompleted(op) == \A i \in 1..Len(engine[op]) : engine[op][i] = "completed"

\* Every step of the plan has its completed row.
PlanCompleted(op) == Len(engine[op]) = PlanLength[op] /\ AllCompleted(op)

\* Mutant of AmbiguousFrom: a finished row can become ambiguous.
AmbiguousFromAny(op) ==
  IF op \in Allocations THEN {"allocation_claimed", "allocated"}
  ELSE {"materialize_claimed", "materialized", "start_claimed", "started"}

AmbiguousFrom(op) ==
  IF op \in Allocations THEN {"allocation_claimed"}
  ELSE {"materialize_claimed", "materialized", "start_claimed"}
AmbiguousState(op) == IF op \in Allocations THEN "allocation_ambiguous" ELSE "start_ambiguous"

-----------------------------------------------------------------------------
(* A session.                                                              *)

\* Hello is exchanged and a request signed for it is verified.
Open(d, op, id) == Begin(d, "opened", op, id)

\* An allocation is claimed only after its frames and the relay's end marker.
CheckFrames(d) ==
  /\ At(d, "opened")
  /\ Op(d) \in Allocations
  /\ Goto(d, "framed")
  /\ UNCHANGED <<journal, calls, deliveries, answered>>

ClaimAllocation(d) ==
  /\ At(d, "framed")
  /\ Insert(Op(d), Request(d), "allocation_claimed")
  /\ Goto(d, "effect") \/ Leave(d)
  /\ UNCHANGED <<engine, calls, deliveries, answered>>

ClaimMaterialize(d) ==
  /\ At(d, "opened")
  /\ Op(d) \in Materializations
  /\ Insert(Op(d), Request(d), "materialize_claimed")
  /\ Goto(d, "claimed") \/ Leave(d)
  /\ UNCHANGED <<engine, calls, deliveries, answered>>

\* Mutant of Startable: any row of the predecessor will do.
StartableAnyhow(op) == session[MaterializationOf[op]] # NoRow

Startable(op) == session[MaterializationOf[op]].state = "started"

ClaimRuntimeStart(d) ==
  /\ At(d, "opened")
  /\ Op(d) \in Starts
  /\ Startable(Op(d))
  /\ Insert(Op(d), Request(d), "start_claimed")
  /\ Goto(d, "claimed") \/ Leave(d)
  /\ UNCHANGED <<engine, calls, deliveries, answered>>

\* The secret chunks are read, all or some of them, and the end is checked.
ReadChunks(d) ==
  /\ At(d, "claimed")
  /\ deliveries' = [deliveries EXCEPT ![Op(d)] = @ + 1]
  /\ Proceed(d, IF Op(d) \in Materializations THEN "delivered" ELSE "effect")
  /\ UNCHANGED <<journal, calls, answered>>

MarkMaterialized(d) ==
  /\ At(d, "delivered")
  /\ Move(Op(d), Request(d), {"materialize_claimed"}, "materialized")
  /\ Proceed(d, "materialized")
  /\ UNCHANGED <<engine, calls, deliveries, answered>>

ClaimStart(d) ==
  /\ At(d, "materialized")
  /\ Move(Op(d), Request(d), {"materialized"}, "start_claimed")
  /\ Proceed(d, "effect")
  /\ UNCHANGED <<engine, calls, deliveries, answered>>

\* The backend claims the next step of the plan, if the one before completed.
ClaimStep(d) ==
  LET op == Op(d) IN
  /\ At(d, "effect")
  /\ session[op] = [state |-> EffectState(op), request |-> Request(d)]
  /\ Len(engine[op]) < PlanLength[op]
  /\ AllCompleted(op)
  /\ engine' = [engine EXCEPT ![op] = Append(@, "claimed")]
  /\ Proceed(d, "stepClaimed")
  /\ UNCHANGED <<session, calls, deliveries, answered>>

\* Mutant of CallStep: a call without an answer is made again.
CallStepAgain(d) ==
  /\ At(d, "stepClaimed") \/ At(d, "stepCalled")
  /\ called' = [called EXCEPT ![Op(d)] = @ + 1]
  /\ inflight' = inflight \cup {Op(d)}
  /\ Goto(d, "stepCalled")
  /\ UNCHANGED <<journal, performed, deliveries, answered>>

CallStep(d) ==
  /\ At(d, "stepClaimed")
  /\ called' = [called EXCEPT ![Op(d)] = @ + 1]
  /\ inflight' = inflight \cup {Op(d)}
  /\ Goto(d, "stepCalled")
  /\ UNCHANGED <<journal, performed, deliveries, answered>>

\* The engine's answer arrives; without one the session fails.
StepAnswered(d) ==
  /\ At(d, "stepCalled")
  /\ Op(d) \notin inflight
  /\ performed[Op(d)] = called[Op(d)]
  /\ Goto(d, "stepDone")
  /\ UNCHANGED <<journal, calls, deliveries, answered>>

CompleteStep(d) ==
  LET op == Op(d) IN
  /\ At(d, "stepDone")
  /\ engine[op][Len(engine[op])] = "claimed"
  /\ engine' = [engine EXCEPT ![op][Len(engine[op])] = "completed"]
  /\ Proceed(d, "effect")
  /\ UNCHANGED <<session, calls, deliveries, answered>>

\* The allocation backend returns only when no step of the plan remains; a
\* runtime backend may return early.
Return(d) ==
  /\ At(d, "effect")
  /\ Op(d) \in Allocations => PlanCompleted(Op(d))
  /\ Goto(d, "returned")
  /\ UNCHANGED <<journal, calls, deliveries, answered>>

\* The evidence names the completed plan; the row is finished.
MarkFinished(d) ==
  /\ At(d, "returned")
  /\ PlanCompleted(Op(d))
  /\ Move(Op(d), Request(d), {EffectState(Op(d))}, FinishedState(Op(d)))
  /\ Proceed(d, "recorded")
  /\ UNCHANGED <<engine, calls, deliveries, answered>>

Answer(d) ==
  /\ At(d, "recorded")
  /\ answered' = answered \cup {<<Op(d), Request(d)>>}
  /\ Leave(d) \/ Goto(d, "failing")
  /\ UNCHANGED <<journal, calls, deliveries>>

\* Any exception after the claim.
Fail(d) ==
  /\ daemon[d].pc \in Claimed \ {"failing"}
  /\ Goto(d, "failing")
  /\ UNCHANGED <<journal, calls, deliveries, answered>>

MarkAmbiguous(d) ==
  LET op == Op(d) IN
  /\ At(d, "failing")
  /\ Move(op, Request(d), AmbiguousFrom(op), AmbiguousState(op))
  /\ engine' = [engine EXCEPT ![op] =
       [i \in 1..Len(@) |-> IF @[i] = "claimed" THEN "ambiguous" ELSE @[i]]]
  /\ Leave(d)
  /\ UNCHANGED <<calls, deliveries, answered>>

\* The process crashes, a session fails before its claim, mark_ambiguous
\* fails, or a reconciliation is over.
Stop(d) ==
  /\ daemon[d] # Idle
  /\ Leave(d)
  /\ UNCHANGED <<journal, calls, deliveries, answered>>

-----------------------------------------------------------------------------
(* What an operator may do.                                                *)

\* A separately signed recovery receipt closes an ambiguous session.
Abandon(op) ==
  /\ session[op].state \in AmbiguousStates
  /\ session' = [session EXCEPT ![op].state = "abandoned"]
  /\ UNCHANGED <<engine, lease, daemon, view, calls, deliveries, answered>>

\* Read-only reconciliation inspects the resources of an allocation in turn.
Reconcile(d, op) == Begin(d, "reconciling", op, NoRequest)

Inspect(d) ==
  /\ At(d, "reconciling")
  /\ Len(view[d]) < PlanLength[Op(d)]
  /\ view' = [view EXCEPT ![d] = Append(@, Len(@) + 1 <= performed[Op(d)])]
  /\ UNCHANGED <<journal, lease, daemon, calls, deliveries, answered>>

\* The engine performs a call, even if its caller is gone, or refuses it.
EngineActs(op) ==
  /\ op \in inflight
  /\ inflight' = inflight \ {op}
  /\ performed' = [performed EXCEPT ![op] = @ + 1] \/ UNCHANGED performed
  /\ UNCHANGED <<journal, lease, daemon, view, called, deliveries, answered>>

Serve(d) ==
  \/ CheckFrames(d) \/ ClaimAllocation(d) \/ ClaimMaterialize(d) \/ ClaimRuntimeStart(d)
  \/ ReadChunks(d) \/ MarkMaterialized(d) \/ ClaimStart(d)
  \/ ClaimStep(d) \/ CallStep(d) \/ StepAnswered(d) \/ CompleteStep(d) \/ Return(d)
  \/ MarkFinished(d) \/ Answer(d) \/ Fail(d) \/ MarkAmbiguous(d) \/ Stop(d)

Next ==
  \/ \E d \in Daemons, op \in Ops, id \in RequestIds : Open(d, op, id)
  \/ \E d \in Daemons : Serve(d) \/ Inspect(d)
  \/ \E d \in Daemons, op \in Allocations : Reconcile(d, op)
  \/ \E op \in Ops : Abandon(op) \/ EngineActs(op)

Spec == Init /\ [][Next]_vars

-----------------------------------------------------------------------------
(* Properties.                                                             *)

\* Checkpoints and receipts tell the truth about the engine: a step recorded
\* as completed was performed, only the last recorded step may lack that, a
\* finished row stands for the whole plan, and a receipt for a finished row
\* of the very request (_complete_engine_operation, mark_started).
EvidenceIsReal ==
  /\ \A op \in Ops :
       /\ performed[op] <= called[op] /\ called[op] <= Len(engine[op])
       /\ Len(engine[op]) <= performed[op] + 1
       /\ \A i \in 1..Len(engine[op]) : engine[op][i] = "completed" => i <= performed[op]
       /\ session[op].state \in FinishedStates => PlanCompleted(op) /\ performed[op] = PlanLength[op]
  /\ \A a \in answered :
       session[a[1]].state \in FinishedStates /\ session[a[1]].request = a[2]

\* No secret is read and no engine step performed for a start before its
\* materialization is on record as started, and nothing unsettles that later
\* (claim_start, mark_ambiguous after mark_started).
StartsFollow ==
  \A op \in Starts :
    deliveries[op] + called[op] > 0 => session[MaterializationOf[op]].state = "started"

\* The lease keeps every session out of a reconciliation, so what it has seen
\* can be wrong in one thing only: it may have missed the last step, called by
\* a session that is gone and still uncertain in its checkpoint
\* (reconcile_allocation_read_only: "it cannot sign an inconsistent snapshot").
ReconciliationMissesOneStep ==
  \A d \in Daemons : At(d, "reconciling") =>
    LET op == Op(d) IN \A i \in 1..Len(view[d]) :
      \/ view[d][i] <=> i <= performed[op]
      \/ ~ view[d][i] /\ i = Len(engine[op]) /\ engine[op][i] # "completed"

\* Tokens: the session of an operation (0), attempted by reading its secret
\* chunks, and each engine step, attempted by calling the engine.
Tokens == UNION { {op} \X (0..PlanLength[op]) : op \in Ops }

SessionPhase(op) ==
  CASE deliveries[op] = 0 -> IF session[op] = NoRow THEN "fresh" ELSE "spent"
    [] deliveries[op] = 1 -> "attempted"
    [] OTHER -> "repeated"

StepPhase(op, i) ==
  IF i <= called[op] THEN "attempted" ELSE IF i <= Len(engine[op]) THEN "spent" ELSE "fresh"

Step == INSTANCE OneShot WITH
  phase <- [t \in Tokens |-> IF t[2] = 0 THEN SessionPhase(t[1]) ELSE StepPhase(t[1], t[2])]

\* Secrets are read and engine steps are called at most once, each after its
\* durable claim, over all sessions, restarts and requests signed again.
ImplementsOneShot == Step!Spec
=============================================================================
