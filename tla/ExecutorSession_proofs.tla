----------------------- MODULE ExecutorSession_proofs -----------------------
(***************************************************************************)
(* Proofs about ExecutorSession, for any operations, plans, requests and   *)
(* daemons: checkpoints and receipts are true, starts follow their         *)
(* materialization, a reconciliation misses at most the last step, and     *)
(* sessions and engine steps are one-shot; and about the allocation        *)
(* backend they drive, for any allocations and removals: what a receipt    *)
(* lists was there, together and of its own making, and a reconciliation   *)
(* classifies what it finds.                                               *)
(***************************************************************************)
EXTENDS MCExecutorSession, TLAPS

Jobs == [pc : Steps, op : Ops, request : RequestIds \cup {NoRequest}] \cup {Idle}

\* The two halves of TypeOK: who is at work, and what is on record.
DaemonsOK ==
  /\ lease \in Daemons \cup {NoDaemon}
  /\ daemon \in [Daemons -> Jobs]
  /\ view \in [Daemons -> Seq(BOOLEAN)]
  /\ \A d \in Daemons : daemon[d] # Idle <=> lease = d

RecordsOK ==
  /\ session \in [Ops -> [state : RowStates, request : RequestIds \cup {NoRequest}]]
  /\ engine \in [Ops -> Seq(CheckpointStates)]
  /\ inflight \subseteq Ops
  /\ called \in [Ops -> Nat]
  /\ performed \in [Ops -> Nat]
  /\ deliveries \in [Ops -> Nat]
  /\ answered \subseteq Ops \X RequestIds

\* The last checkpoint of an operation.
Last(op) == engine[op][Len(engine[op])]

\* What holds of an operation, whoever serves it.
OpInv(op) ==
  /\ performed[op] <= called[op] /\ called[op] <= Len(engine[op])
  /\ Len(engine[op]) <= performed[op] + 1
  /\ op \in inflight => called[op] = performed[op] + 1
  /\ \A i \in 1..Len(engine[op]) : engine[op][i] = "completed" => i <= performed[op]
  /\ session[op].state \in FinishedStates => PlanCompleted(op)
  /\ session[op].state = "none" => session[op] = NoRow
  /\ Len(engine[op]) > 0 \/ deliveries[op] > 0 => session[op].state # "none"
  /\ deliveries[op] <= 1
  /\ op \in Starts /\ session[op].state # "none" =>
       session[MaterializationOf[op]].state = "started"

Working == {"effect", "stepClaimed", "stepCalled", "stepDone", "returned"}

\* The row of the operation a daemon serves, by the daemon's step.
RowInv(d) ==
  LET op == Op(d) IN
  /\ daemon[d].pc \in Unclaimed \cup Claimed => Request(d) \in RequestIds
  /\ daemon[d].pc \in Claimed =>
       session[op].state # "none" /\ session[op].request = Request(d)
  /\ At(d, "framed") => op \in Allocations
  /\ At(d, "claimed") =>
       /\ op \in Deliveries /\ deliveries[op] = 0
       /\ session[op].state = IF op \in Materializations THEN "materialize_claimed"
                              ELSE "start_claimed"
  /\ At(d, "delivered") => op \in Materializations /\ session[op].state = "materialize_claimed"
  /\ At(d, "materialized") => op \in Materializations /\ session[op].state = "materialized"
  /\ daemon[d].pc \in Working => session[op].state = EffectState(op)
  /\ At(d, "recorded") => session[op].state = FinishedState(op)

\* The checkpoints of the operation a daemon serves, by the daemon's step.
StepInv(d) ==
  LET op == Op(d) IN
  /\ At(d, "stepClaimed") => Len(engine[op]) = called[op] + 1
  /\ At(d, "stepCalled") => Len(engine[op]) = called[op]
  /\ At(d, "stepDone") => Len(engine[op]) = called[op] /\ called[op] = performed[op]
  /\ daemon[d].pc \in {"stepClaimed", "stepCalled", "stepDone"} => Len(engine[op]) > 0

\* What a reconciliation has seen so far.
ViewInv(d) ==
  LET op == Op(d) IN
  /\ ~ At(d, "reconciling") => view[d] = <<>>
  /\ At(d, "reconciling") =>
       \A i \in 1..Len(view[d]) :
         \/ view[d][i] <=> i <= performed[op]
         \/ ~ view[d][i] /\ i = Len(engine[op]) /\ engine[op][i] # "completed"

WorkInv(d) == RowInv(d) /\ StepInv(d) /\ ViewInv(d)

AnswerInv ==
  \A a \in answered : session[a[1]].state \in FinishedStates /\ session[a[1]].request = a[2]

SessionInv ==
  /\ DaemonsOK /\ RecordsOK
  /\ \A op \in Ops : OpInv(op)
  /\ \A d \in Daemons : WorkInv(d)
  /\ AnswerInv

-----------------------------------------------------------------------------
(* Who is at work                                                          *)

LEMMA StepsApart ==
  /\ "idle" \notin Steps
  /\ \A pc \in Steps : [pc |-> pc, op |-> NoOp, request |-> NoRequest] # Idle
BY DEF Steps, Unclaimed, Claimed, Idle

\* A daemon at work is alone, and has an operation.
LEMMA AtWork ==
  ASSUME DaemonsOK, NEW d \in Daemons, daemon[d].pc # "idle"
  PROVE  /\ lease = d /\ daemon[d] # Idle
         /\ daemon[d].pc \in Steps /\ Op(d) \in Ops
         /\ Request(d) \in RequestIds \cup {NoRequest}
         /\ \A e \in Daemons \ {d} : daemon[e] = Idle
<1>1. daemon[d] # Idle
  BY DEF Idle
<1>2. daemon[d] \in [pc : Steps, op : Ops, request : RequestIds \cup {NoRequest}]
  BY <1>1 DEF DaemonsOK, Jobs
<1>3. lease = d /\ \A e \in Daemons \ {d} : daemon[e] = Idle
  BY <1>1 DEF DaemonsOK
<1> QED
  BY <1>1, <1>2, <1>3 DEF Op, Request

LEMMA GotoKeeps ==
  ASSUME DaemonsOK, NEW d \in Daemons, daemon[d].pc # "idle", NEW pc \in Steps, Goto(d, pc)
  PROVE  /\ DaemonsOK'
         /\ daemon'[d].pc = pc /\ Op(d)' = Op(d) /\ Request(d)' = Request(d)
         /\ view' = view /\ lease' = lease
         /\ \A e \in Daemons \ {d} : daemon'[e] = Idle
<1>1. /\ daemon[d] \in [pc : Steps, op : Ops, request : RequestIds \cup {NoRequest}]
      /\ daemon \in [Daemons -> Jobs]
  BY DEF DaemonsOK, Jobs, Idle
<1> DEFINE v == [daemon[d] EXCEPT !.pc = pc]
<1>2. v \in Jobs /\ v.pc = pc /\ v.op = daemon[d].op /\ v.request = daemon[d].request
  BY <1>1 DEF Jobs
<1>3. daemon' = [daemon EXCEPT ![d] = v] /\ lease' = lease /\ view' = view
  BY DEF Goto
<1> HIDE DEF v
<1>4. daemon' \in [Daemons -> Jobs] /\ daemon'[d] = v
      /\ \A e \in Daemons \ {d} : daemon'[e] = daemon[e]
  BY <1>1, <1>2, <1>3
<1>5. v # Idle
  BY <1>2, StepsApart DEF Idle
<1>6. \A e \in Daemons \ {d} : daemon[e] = Idle /\ lease = d
  BY AtWork
<1>7. lease = d
  BY AtWork
<1>8. \A e \in Daemons : daemon'[e] # Idle <=> lease' = e
  BY <1>3, <1>4, <1>5, <1>6, <1>7
<1> QED
  BY <1>2, <1>3, <1>4, <1>6, <1>8 DEF DaemonsOK, Op, Request

LEMMA LeaveKeeps ==
  ASSUME DaemonsOK, NEW d \in Daemons, daemon[d].pc # "idle", Leave(d)
  PROVE  /\ DaemonsOK'
         /\ \A e \in Daemons : daemon'[e] = Idle
         /\ view'[d] = <<>> /\ \A e \in Daemons \ {d} : view'[e] = view[e]
<1>1. \A e \in Daemons \ {d} : daemon[e] = Idle
  BY AtWork
<1>2. /\ daemon' \in [Daemons -> Jobs] /\ \A e \in Daemons : daemon'[e] = Idle
      /\ lease' = NoDaemon
  BY <1>1 DEF Leave, DaemonsOK, Jobs
<1>3. view' \in [Daemons -> Seq(BOOLEAN)] /\ view'[d] = <<>>
      /\ \A e \in Daemons \ {d} : view'[e] = view[e]
  BY DEF Leave, DaemonsOK
<1> QED
  BY <1>2, <1>3, SessionAssumption DEF DaemonsOK

LEMMA IdleKeeps ==
  ASSUME NEW e \in Daemons, daemon'[e] = Idle, view'[e] = <<>>
  PROVE  WorkInv(e)'
<1>1. daemon'[e].pc = "idle"
  BY DEF Idle
<1>2. "idle" \notin Unclaimed \cup Claimed \cup Working
  BY DEF Unclaimed, Claimed, Working
<1>3. RowInv(e)'
  BY <1>1, <1>2 DEF RowInv, At
<1>4. StepInv(e)'
  BY <1>1 DEF StepInv, At
<1>5. ViewInv(e)'
  BY <1>1 DEF ViewInv, At
<1> QED
  BY <1>3, <1>4, <1>5 DEF WorkInv

\* A step of a session that leaves the records and its own daemon in order.
LEMMA ServedKeeps ==
  ASSUME SessionInv, NEW d \in Daemons, daemon[d].pc # "idle", ~ At(d, "reconciling"),
         \/ \E pc \in Steps \ {"reconciling"} : Goto(d, pc) /\ RowInv(d)' /\ StepInv(d)'
         \/ Leave(d),
         RecordsOK', \A op \in Ops : OpInv(op)', AnswerInv'
  PROVE  SessionInv'
<1>1. DaemonsOK /\ \A e \in Daemons : ViewInv(e)
  BY DEF SessionInv, WorkInv
<1>2. \A e \in Daemons \ {d} : view[e] = <<>>
  BY <1>1, AtWork DEF ViewInv, At, Idle
<1>3. view[d] = <<>>
  BY <1>1 DEF ViewInv
<1>4. CASE Leave(d)
  <2>1. DaemonsOK' /\ \A e \in Daemons : daemon'[e] = Idle /\ view'[e] = <<>>
    BY <1>1, <1>2, <1>4, LeaveKeeps
  <2> QED
    BY <2>1, IdleKeeps DEF SessionInv
<1>5. ASSUME NEW pc \in Steps \ {"reconciling"}, Goto(d, pc), RowInv(d)', StepInv(d)'
      PROVE  SessionInv'
  <2>1. /\ DaemonsOK' /\ daemon'[d].pc = pc /\ view' = view
        /\ \A e \in Daemons \ {d} : daemon'[e] = Idle
    BY <1>1, <1>5, GotoKeeps
  <2>2. ViewInv(d)'
    BY <1>3, <2>1 DEF ViewInv, At
  <2>3. \A e \in Daemons \ {d} : WorkInv(e)'
    BY <1>2, <2>1, IdleKeeps
  <2> QED
    BY <1>5, <2>1, <2>2, <2>3 DEF SessionInv, WorkInv
<1> QED
  BY <1>4, <1>5

\* A session that fails keeps its row.
LEMMA FailingKeeps ==
  ASSUME DaemonsOK, NEW d \in Daemons, daemon[d].pc \in Claimed, RowInv(d), Goto(d, "failing"),
         session'[Op(d)].state # "none", session'[Op(d)].request = session[Op(d)].request
  PROVE  RowInv(d)' /\ StepInv(d)'
<1>1. daemon[d].pc # "idle" /\ "failing" \in Steps /\ "failing" \in Claimed
  BY DEF Claimed, Steps
<1>2. daemon'[d].pc = "failing" /\ Op(d)' = Op(d) /\ Request(d)' = Request(d)
  BY <1>1, GotoKeeps
<1>3. Request(d) \in RequestIds /\ session[Op(d)].request = Request(d)
  BY DEF RowInv
<1>4. RowInv(d)'
  BY <1>2, <1>3 DEF RowInv, At, Unclaimed, Working
<1> QED
  BY <1>2, <1>4 DEF StepInv, At

-----------------------------------------------------------------------------
(* What is on record                                                       *)

\* The records of one operation change, and not once it is finished.
LEMMA OthersKeep ==
  ASSUME SessionInv, RecordsOK', NEW op \in Ops,
         \A o \in Ops \ {op} :
           /\ session'[o] = session[o] /\ engine'[o] = engine[o]
           /\ o \in inflight' <=> o \in inflight
           /\ called'[o] = called[o] /\ performed'[o] = performed[o]
           /\ deliveries'[o] = deliveries[o],
         session[op].state \in FinishedStates => session'[op] = session[op],
         OpInv(op)'
  PROVE  /\ \A o \in Ops : OpInv(o)'
         /\ answered' = answered => AnswerInv'
<1>1. \A o \in Ops : session[o].state \in FinishedStates => session'[o] = session[o]
  OBVIOUS
<1>2. ASSUME NEW o \in Ops \ {op}
      PROVE  OpInv(o)'
  <2>1. OpInv(o)
    BY DEF SessionInv
  <2>2. o \in Starts => MaterializationOf[o] \in Ops
    BY SessionAssumption DEF Ops, Deliveries
  <2>3. o \in Starts /\ session'[o].state # "none" =>
          session'[MaterializationOf[o]].state = "started"
    BY <1>1, <2>1, <2>2 DEF OpInv, FinishedStates
  <2>4. PlanCompleted(o) => PlanCompleted(o)'
    BY DEF PlanCompleted, AllCompleted
  <2> QED
    BY <2>1, <2>3, <2>4 DEF OpInv
<1>3. ASSUME answered' = answered
      PROVE  AnswerInv'
  BY <1>1, <1>3 DEF SessionInv, AnswerInv, RecordsOK
<1> QED
  BY <1>2, <1>3

\* A step of a session that leaves the records alone.
LEMMA RecordsStay ==
  ASSUME SessionInv, UNCHANGED <<journal, calls, deliveries>>
  PROVE  /\ \A op \in Ops : OpInv(op)'
         /\ answered' = answered => RecordsOK' /\ AnswerInv'
<1>1. \A op \in Ops : OpInv(op) <=> OpInv(op)'
  BY DEF journal, calls, OpInv, PlanCompleted, AllCompleted
<1> QED
  BY <1>1 DEF SessionInv, journal, calls, RecordsOK, AnswerInv

\* What a session may rely on.
LEMMA Context ==
  ASSUME SessionInv, NEW d \in Daemons, daemon[d].pc # "idle"
  PROVE  /\ DaemonsOK /\ RecordsOK
         /\ Op(d) \in Ops /\ Request(d) \in RequestIds \cup {NoRequest}
         /\ OpInv(Op(d)) /\ RowInv(d) /\ StepInv(d)
         /\ session[Op(d)] \in [state : RowStates, request : RequestIds \cup {NoRequest}]
         /\ engine[Op(d)] \in Seq(CheckpointStates) /\ Len(engine[Op(d)]) \in Nat
         /\ called[Op(d)] \in Nat /\ performed[Op(d)] \in Nat /\ deliveries[Op(d)] \in Nat
<1>1. DaemonsOK /\ RecordsOK /\ Op(d) \in Ops /\ Request(d) \in RequestIds \cup {NoRequest}
  BY AtWork DEF SessionInv
<1> QED
  BY <1>1 DEF SessionInv, WorkInv, RecordsOK

LEMMA InsertKeeps ==
  ASSUME SessionInv, NEW op \in Ops, NEW id \in RequestIds, NEW state \in ClaimedStates,
         Insert(op, id, state), UNCHANGED <<engine, calls, deliveries, answered>>,
         op \in Starts => session[MaterializationOf[op]].state = "started"
  PROVE  /\ RecordsOK' /\ AnswerInv' /\ \A o \in Ops : OpInv(o)'
         /\ session'[op] = [state |-> state, request |-> id]
<1> DEFINE new == [state |-> state, request |-> id]
<1>1. session' = [session EXCEPT ![op] = new] /\ session[op] = NoRow
  BY DEF Insert
<1>2. new \in [state : RowStates, request : RequestIds \cup {NoRequest}]
      /\ state # "none" /\ state \notin FinishedStates
  BY DEF RowStates, ClaimedStates, FinishedStates
<1>3. new.state = state
  OBVIOUS
<1> HIDE DEF new
<1>4. RecordsOK /\ OpInv(op)
  BY DEF SessionInv
<1>5. /\ session' \in [Ops -> [state : RowStates, request : RequestIds \cup {NoRequest}]]
      /\ session'[op] = new /\ \A o \in Ops \ {op} : session'[o] = session[o]
  BY <1>1, <1>2, <1>4 DEF RecordsOK
<1>6. RecordsOK'
  BY <1>4, <1>5 DEF RecordsOK, calls
<1>7. op \in Starts => MaterializationOf[op] \in Ops \ {op}
  BY SessionAssumption DEF Ops, Deliveries
<1>8. OpInv(op)'
  BY <1>2, <1>3, <1>4, <1>5, <1>7 DEF OpInv, calls
<1>9. NoRow.state \notin FinishedStates
  BY DEF NoRow, FinishedStates
<1> QED
  BY <1>1, <1>5, <1>6, <1>8, <1>9, OthersKeep DEF calls, new

\* A row moves on, and a finished one does not.
LEMMA MoveKeeps ==
  ASSUME SessionInv, NEW op \in Ops, session[op].state \notin FinishedStates \cup {"none"},
         NEW to \in RowStates \ {"none"}, session' = [session EXCEPT ![op].state = to],
         UNCHANGED <<engine, calls, deliveries, answered>>,
         to \in FinishedStates => PlanCompleted(op)
  PROVE  /\ RecordsOK' /\ AnswerInv' /\ \A o \in Ops : OpInv(o)'
         /\ session'[op].state = to /\ session'[op].request = session[op].request
<1> DEFINE new == [session[op] EXCEPT !.state = to]
<1>1. RecordsOK /\ OpInv(op)
  BY DEF SessionInv
<1>2. /\ new \in [state : RowStates, request : RequestIds \cup {NoRequest}]
      /\ new.state = to /\ new.request = session[op].request
  BY <1>1 DEF RecordsOK
<1>3. session' = [session EXCEPT ![op] = new]
  OBVIOUS
<1> HIDE DEF new
<1>a. session \in [Ops -> [state : RowStates, request : RequestIds \cup {NoRequest}]]
  BY <1>1 DEF RecordsOK
<1>b. session' \in [Ops -> [state : RowStates, request : RequestIds \cup {NoRequest}]]
  BY <1>2, <1>3, <1>a
<1>c. session'[op] = new /\ \A o \in Ops \ {op} : session'[o] = session[o]
  BY <1>3, <1>a
<1>4. /\ session' \in [Ops -> [state : RowStates, request : RequestIds \cup {NoRequest}]]
      /\ session'[op] = new /\ \A o \in Ops \ {op} : session'[o] = session[o]
  BY <1>b, <1>c
<1>5. RecordsOK'
  BY <1>1, <1>4 DEF RecordsOK, calls
<1>6. op \in Starts => MaterializationOf[op] \in Ops \ {op}
  BY SessionAssumption DEF Ops, Deliveries
<1>7. PlanCompleted(op) => PlanCompleted(op)'
  BY DEF PlanCompleted, AllCompleted
<1>8. OpInv(op)'
  BY <1>1, <1>2, <1>4, <1>6, <1>7 DEF OpInv, calls
<1> QED
  BY <1>2, <1>4, <1>5, <1>8, OthersKeep DEF calls

\* The checkpoints of an unfinished operation change, to some that are true.
LEMMA CheckpointsKeep ==
  ASSUME SessionInv, NEW op \in Ops, session[op].state \notin FinishedStates \cup {"none"},
         NEW steps \in Seq(CheckpointStates), engine' = [engine EXCEPT ![op] = steps],
         UNCHANGED <<session, calls, deliveries, answered>>,
         called[op] <= Len(steps), Len(steps) <= performed[op] + 1,
         \A i \in 1..Len(steps) : steps[i] = "completed" => i <= performed[op]
  PROVE  /\ RecordsOK' /\ AnswerInv' /\ \A o \in Ops : OpInv(o)'
         /\ engine'[op] = steps
<1>1. RecordsOK /\ OpInv(op)
  BY DEF SessionInv
<1>2. /\ engine' \in [Ops -> Seq(CheckpointStates)]
      /\ engine'[op] = steps /\ \A o \in Ops \ {op} : engine'[o] = engine[o]
  BY <1>1 DEF RecordsOK
<1>3. RecordsOK'
  BY <1>1, <1>2 DEF RecordsOK, calls
<1>4. OpInv(op)'
  BY <1>1, <1>2 DEF OpInv, calls
<1> QED
  BY <1>2, <1>3, <1>4, OthersKeep DEF calls

\* The secrets of an operation are read for the first time.
LEMMA DeliveryKeeps ==
  ASSUME SessionInv, NEW op \in Ops, session[op].state # "none", deliveries[op] = 0,
         deliveries' = [deliveries EXCEPT ![op] = @ + 1],
         UNCHANGED <<journal, calls, answered>>
  PROVE  RecordsOK' /\ AnswerInv' /\ \A o \in Ops : OpInv(o)'
<1>1. RecordsOK /\ OpInv(op)
  BY DEF SessionInv
<1>2. /\ deliveries' \in [Ops -> Nat] /\ deliveries'[op] = 1
      /\ \A o \in Ops \ {op} : deliveries'[o] = deliveries[o]
  BY <1>1 DEF RecordsOK
<1>3. session' = session /\ engine' = engine /\ inflight' = inflight /\ called' = called
      /\ performed' = performed /\ answered' = answered
  BY DEF journal, calls
<1>4. RecordsOK'
  BY <1>1, <1>2, <1>3 DEF RecordsOK
<1>5. PlanCompleted(op) => PlanCompleted(op)'
  BY <1>3 DEF PlanCompleted, AllCompleted
<1>6. OpInv(op)'
  BY <1>1, <1>2, <1>3, <1>5 DEF OpInv
<1> QED
  BY <1>2, <1>3, <1>4, <1>6, OthersKeep

\* The engine is called for the last checkpoint.
LEMMA CallKeeps ==
  ASSUME SessionInv, NEW op \in Ops, session[op].state \notin FinishedStates \cup {"none"},
         Len(engine[op]) = called[op] + 1,
         called' = [called EXCEPT ![op] = @ + 1], inflight' = inflight \cup {op},
         UNCHANGED <<journal, performed, deliveries, answered>>
  PROVE  /\ RecordsOK' /\ AnswerInv' /\ \A o \in Ops : OpInv(o)'
         /\ called'[op] = called[op] + 1
<1>1. RecordsOK /\ OpInv(op)
  BY DEF SessionInv
<1>2. /\ called' \in [Ops -> Nat] /\ called'[op] = called[op] + 1
      /\ \A o \in Ops \ {op} : called'[o] = called[o]
      /\ inflight' \subseteq Ops /\ \A o \in Ops \ {op} : o \in inflight' <=> o \in inflight
  BY <1>1 DEF RecordsOK
<1>3. session' = session /\ engine' = engine /\ performed' = performed
      /\ deliveries' = deliveries /\ answered' = answered
  BY DEF journal
<1>4. RecordsOK'
  BY <1>1, <1>2, <1>3 DEF RecordsOK
<1>5. performed[op] \in Nat /\ called[op] \in Nat /\ Len(engine[op]) \in Nat
  BY <1>1 DEF RecordsOK
<1>6. called[op] = performed[op]
  BY <1>1, <1>5 DEF OpInv
<1>7. OpInv(op)'
  BY <1>1, <1>2, <1>3, <1>5, <1>6 DEF OpInv
<1> QED
  BY <1>2, <1>3, <1>4, <1>7, OthersKeep

\* A row becomes ambiguous together with its claimed checkpoint.
LEMMA AmbiguousKeeps ==
  ASSUME SessionInv, NEW op \in Ops, NEW id, Move(op, id, AmbiguousFrom(op), AmbiguousState(op)),
         NEW steps,
         steps = [i \in 1..Len(engine[op]) |->
                    IF engine[op][i] = "claimed" THEN "ambiguous" ELSE engine[op][i]],
         engine' = [engine EXCEPT ![op] = steps],
         UNCHANGED <<calls, deliveries, answered>>
  PROVE  RecordsOK' /\ AnswerInv' /\ \A o \in Ops : OpInv(o)'
<1>1. RecordsOK /\ OpInv(op)
  BY DEF SessionInv
<1>2. engine[op] \in Seq(CheckpointStates)
  BY <1>1 DEF RecordsOK
<1>3. /\ steps \in Seq(CheckpointStates) /\ Len(steps) = Len(engine[op])
      /\ \A i \in 1..Len(steps) : steps[i] = "completed" => engine[op][i] = "completed"
  BY <1>2 DEF CheckpointStates
<1>4. /\ session[op].state \notin FinishedStates \cup {"none"}
      /\ AmbiguousState(op) \in RowStates \ {"none"}
      /\ AmbiguousState(op) \notin FinishedStates
      /\ session' = [session EXCEPT ![op].state = AmbiguousState(op)]
  BY DEF Move, AmbiguousFrom, AmbiguousState, FinishedStates, RowStates, AmbiguousStates
<1> DEFINE new == [session[op] EXCEPT !.state = AmbiguousState(op)]
<1>5. /\ new \in [state : RowStates, request : RequestIds \cup {NoRequest}]
      /\ new.state = AmbiguousState(op)
  BY <1>1, <1>4 DEF RecordsOK
<1>6. session' = [session EXCEPT ![op] = new]
  BY <1>4
<1> HIDE DEF new
<1>7. /\ session' \in [Ops -> [state : RowStates, request : RequestIds \cup {NoRequest}]]
      /\ session'[op] = new /\ \A o \in Ops \ {op} : session'[o] = session[o]
  BY <1>1, <1>5, <1>6 DEF RecordsOK
<1>8. /\ engine' \in [Ops -> Seq(CheckpointStates)] /\ engine'[op] = steps
      /\ \A o \in Ops \ {op} : engine'[o] = engine[o]
  BY <1>1, <1>3 DEF RecordsOK
<1>9. RecordsOK'
  BY <1>1, <1>7, <1>8 DEF RecordsOK, calls
<1>10. op \in Starts => MaterializationOf[op] \in Ops \ {op}
  BY SessionAssumption DEF Ops, Deliveries
<1>11. OpInv(op)'
  BY <1>1, <1>3, <1>4, <1>5, <1>7, <1>8, <1>10 DEF OpInv, calls
<1> QED
  BY <1>4, <1>7, <1>8, <1>9, <1>11, OthersKeep DEF calls

\* The engine answers a call, whoever waits for it.
LEMMA EngineKeeps ==
  ASSUME SessionInv, NEW op \in Ops, EngineActs(op)
  PROVE  /\ RecordsOK' /\ AnswerInv' /\ \A o \in Ops : OpInv(o)'
         /\ \A o \in Ops \ {op} : performed'[o] = performed[o]
         /\ performed'[op] \in {performed[op], performed[op] + 1}
         /\ called[op] = performed[op] + 1
<1>1. RecordsOK /\ OpInv(op)
  BY DEF SessionInv
<1>2. /\ session' = session /\ engine' = engine /\ called' = called
      /\ deliveries' = deliveries /\ answered' = answered
  BY DEF EngineActs, journal
<1>3. performed[op] \in Nat /\ called[op] \in Nat /\ Len(engine[op]) \in Nat
      /\ called[op] = performed[op] + 1
  BY <1>1 DEF RecordsOK, OpInv, EngineActs
<1>4. /\ performed' \in [Ops -> Nat] /\ \A o \in Ops \ {op} : performed'[o] = performed[o]
      /\ performed'[op] \in {performed[op], performed[op] + 1}
  BY <1>1, <1>3 DEF RecordsOK, EngineActs
<1>5. /\ inflight' \subseteq Ops /\ op \notin inflight'
      /\ \A o \in Ops \ {op} : o \in inflight' <=> o \in inflight
  BY <1>1 DEF RecordsOK, EngineActs
<1>6. RecordsOK'
  BY <1>1, <1>2, <1>4, <1>5 DEF RecordsOK
<1>7. PlanCompleted(op) => PlanCompleted(op)'
  BY <1>2 DEF PlanCompleted, AllCompleted
<1>8. performed'[op] \in Nat /\ performed[op] <= performed'[op] /\ performed'[op] <= called[op]
  BY <1>3, <1>4
<1>9. \A i \in 1..Len(engine[op]) : engine[op][i] = "completed" => i <= performed'[op]
  BY <1>1, <1>3, <1>8 DEF OpInv
<1>10. OpInv(op)'
  BY <1>1, <1>2, <1>3, <1>5, <1>7, <1>8, <1>9 DEF OpInv
<1> QED
  BY <1>2, <1>3, <1>4, <1>5, <1>6, <1>10, OthersKeep

-----------------------------------------------------------------------------
(* Preservation, action by action                                          *)

LEMMA BeginKeeps ==
  ASSUME SessionInv, NEW d \in Daemons, NEW op \in Ops, NEW pc \in {"opened", "reconciling"},
         NEW id \in RequestIds \cup {NoRequest}, pc = "opened" => id \in RequestIds,
         Begin(d, pc, op, id)
  PROVE  SessionInv'
<1> DEFINE v == [pc |-> pc, op |-> op, request |-> id]
<1>1. v \in Jobs /\ v # Idle /\ v.pc = pc /\ v.op = op /\ v.request = id
  BY StepsApart DEF Jobs, Steps, Unclaimed, Idle
<1>2. daemon' = [daemon EXCEPT ![d] = v] /\ lease' = d /\ lease = NoDaemon /\ view' = view
  BY DEF Begin
<1> HIDE DEF v
<1>3. DaemonsOK
  BY DEF SessionInv
<1>4. \A e \in Daemons : daemon[e] = Idle
  BY <1>2, <1>3, SessionAssumption DEF DaemonsOK
<1>5. /\ daemon' \in [Daemons -> Jobs] /\ daemon'[d] = v
      /\ \A e \in Daemons \ {d} : daemon'[e] = Idle
  BY <1>1, <1>2, <1>3, <1>4 DEF DaemonsOK
<1>6. DaemonsOK'
  BY <1>1, <1>2, <1>3, <1>5 DEF DaemonsOK
<1>7. \A e \in Daemons : view'[e] = <<>>
  BY <1>2, <1>4 DEF SessionInv, WorkInv, ViewInv, At, Idle
<1>8. RecordsOK' /\ AnswerInv' /\ \A o \in Ops : OpInv(o)'
  BY RecordsStay DEF Begin
<1>9. daemon'[d].pc = pc /\ Op(d)' = op /\ Request(d)' = id
  BY <1>1, <1>5 DEF Op, Request
<1>10. RowInv(d)'
  BY <1>9 DEF RowInv, At, Unclaimed, Claimed, Working
<1>11. StepInv(d)' /\ ViewInv(d)'
  BY <1>7, <1>9 DEF StepInv, ViewInv, At
<1>12. \A e \in Daemons \ {d} : WorkInv(e)'
  BY <1>5, <1>7, IdleKeeps
<1> QED
  BY <1>6, <1>8, <1>10, <1>11, <1>12 DEF SessionInv, WorkInv

LEMMA CheckFramesKeeps ==
  ASSUME SessionInv, NEW d \in Daemons, CheckFrames(d)
  PROVE  SessionInv'
<1>1. daemon[d].pc = "opened" /\ Op(d) \in Allocations /\ Goto(d, "framed")
      /\ "framed" \in Steps \ {"reconciling"}
  BY DEF CheckFrames, At, Steps, Unclaimed
<1>2. RecordsOK' /\ AnswerInv' /\ \A op \in Ops : OpInv(op)'
  BY RecordsStay DEF CheckFrames
<1>3. daemon'[d].pc = "framed" /\ Op(d)' = Op(d) /\ Request(d)' = Request(d)
  BY <1>1, Context, GotoKeeps
<1>4. RowInv(d)
  BY <1>1, Context
<1>5. RowInv(d)' /\ StepInv(d)'
  BY <1>1, <1>3, <1>4 DEF RowInv, StepInv, At, Unclaimed, Claimed, Working
<1> QED
  BY <1>1, <1>2, <1>5, ServedKeeps DEF At

LEMMA ClaimKeeps ==
  ASSUME SessionInv, NEW d \in Daemons,
         ClaimAllocation(d) \/ ClaimMaterialize(d) \/ ClaimRuntimeStart(d)
  PROVE  SessionInv'
<1>1. daemon[d].pc \in Unclaimed /\ daemon[d].pc # "idle" /\ ~ At(d, "reconciling")
  BY DEF ClaimAllocation, ClaimMaterialize, ClaimRuntimeStart, At, Unclaimed
<1>2. /\ Op(d) \in Ops /\ Request(d) \in RequestIds /\ RowInv(d) /\ OpInv(Op(d)) /\ DaemonsOK
      /\ RecordsOK
  BY <1>1, Context DEF RowInv
<1> DEFINE state == CASE ClaimAllocation(d) -> "allocation_claimed"
                      [] OTHER -> IF Op(d) \in Materializations THEN "materialize_claimed"
                                  ELSE "start_claimed"
           next == IF ClaimAllocation(d) THEN "effect" ELSE "claimed"
<1>3. /\ Insert(Op(d), Request(d), state)
      /\ Goto(d, next) \/ Leave(d)
      /\ UNCHANGED <<engine, calls, deliveries, answered>>
      /\ Op(d) \in Starts => session[MaterializationOf[Op(d)]].state = "started"
  <2>1. CASE ClaimAllocation(d)
    <3>1. Op(d) \in Allocations
      BY <1>2, <2>1 DEF ClaimAllocation, RowInv
    <3> QED
      BY <2>1, <3>1, SessionAssumption DEF ClaimAllocation, Deliveries
  <2>2. CASE ClaimMaterialize(d) /\ ~ ClaimAllocation(d)
    BY <2>2, SessionAssumption DEF ClaimMaterialize
  <2>3. CASE ClaimRuntimeStart(d) /\ ~ ClaimAllocation(d)
    BY <2>3, SessionAssumption DEF ClaimRuntimeStart, Startable
  <2> QED
    BY <2>1, <2>2, <2>3
<1>4. ClaimAllocation(d) => Op(d) \in Allocations /\ state = "allocation_claimed"
  BY <1>2 DEF ClaimAllocation, RowInv
<1>5. ~ ClaimAllocation(d) => Op(d) \in Deliveries
                              /\ state = IF Op(d) \in Materializations THEN "materialize_claimed"
                                         ELSE "start_claimed"
  BY DEF ClaimMaterialize, ClaimRuntimeStart, Deliveries
<1>6. state \in ClaimedStates /\ next \in Steps \ {"reconciling"}
  BY DEF ClaimedStates, Steps, Claimed
<1>7. /\ RecordsOK' /\ AnswerInv' /\ \A o \in Ops : OpInv(o)'
      /\ session'[Op(d)] = [state |-> state, request |-> Request(d)]
  BY <1>2, <1>3, <1>6, InsertKeeps
<1>8. deliveries'[Op(d)] = 0
  <2>1. session[Op(d)].state = "none" /\ deliveries' = deliveries
    BY <1>3 DEF Insert, NoRow
  <2> QED
    BY <1>2, <2>1 DEF OpInv, RecordsOK
<1>9. ASSUME Goto(d, next)
      PROVE  RowInv(d)' /\ StepInv(d)'
  <2>1. daemon'[d].pc = next /\ Op(d)' = Op(d) /\ Request(d)' = Request(d)
    BY <1>1, <1>2, <1>6, <1>9, GotoKeeps
  <2>2. session'[Op(d)].state = state /\ session'[Op(d)].request = Request(d)
    BY <1>7
  <2>3. state # "none"
    BY <1>6 DEF ClaimedStates
  <2> HIDE DEF state
  <2>4. CASE ClaimAllocation(d)
    BY <1>2, <1>4, <2>1, <2>2, <2>3, <2>4 DEF RowInv, StepInv, At, Unclaimed, Working, EffectState
  <2>5. CASE ~ ClaimAllocation(d)
    BY <1>2, <1>5, <1>8, <2>1, <2>2, <2>3, <2>5 DEF RowInv, StepInv, At, Unclaimed, Working
  <2> QED
    BY <2>4, <2>5
<1> QED
  BY <1>1, <1>3, <1>6, <1>7, <1>9, ServedKeeps

\* A step that succeeds or whose exception makes the session fail.
LEMMA ProceedKeeps ==
  ASSUME SessionInv, NEW d \in Daemons, daemon[d].pc \in Claimed, NEW pc \in Claimed,
         Proceed(d, pc),
         session'[Op(d)].state # "none", session'[Op(d)].request = session[Op(d)].request,
         RecordsOK', \A op \in Ops : OpInv(op)', AnswerInv',
         Goto(d, pc) => RowInv(d)' /\ StepInv(d)'
  PROVE  SessionInv'
<1>1. daemon[d].pc # "idle" /\ ~ At(d, "reconciling")
  BY DEF Claimed, At
<1>2. DaemonsOK /\ RowInv(d)
  BY <1>1, Context
<1>3. pc \in Steps \ {"reconciling"} /\ "failing" \in Steps \ {"reconciling"}
  BY DEF Claimed, Steps
<1>4. Goto(d, "failing") => RowInv(d)' /\ StepInv(d)'
  BY <1>2, FailingKeeps
<1> QED
  BY <1>1, <1>3, <1>4, ServedKeeps DEF Proceed

LEMMA ReadChunksKeeps ==
  ASSUME SessionInv, NEW d \in Daemons, ReadChunks(d)
  PROVE  SessionInv'
<1> DEFINE next == IF Op(d) \in Materializations THEN "delivered" ELSE "effect"
<1>1. daemon[d].pc = "claimed" /\ daemon[d].pc \in Claimed /\ daemon[d].pc # "idle"
      /\ next \in Claimed /\ Proceed(d, next)
  BY DEF ReadChunks, At, Claimed
<1>2. /\ Op(d) \in Ops /\ OpInv(Op(d)) /\ RowInv(d) /\ DaemonsOK /\ RecordsOK
  BY <1>1, Context
<1>3. /\ deliveries[Op(d)] = 0 /\ Op(d) \in Deliveries
      /\ session[Op(d)].state # "none" /\ session[Op(d)].request = Request(d)
      /\ Request(d) \in RequestIds
      /\ session[Op(d)].state = IF Op(d) \in Materializations THEN "materialize_claimed"
                                ELSE "start_claimed"
  BY <1>1, <1>2 DEF RowInv, At
<1>4. session' = session /\ UNCHANGED <<journal, calls, answered>>
  BY DEF ReadChunks, journal
<1>5. RecordsOK' /\ AnswerInv' /\ \A o \in Ops : OpInv(o)'
  BY <1>2, <1>3, <1>4, DeliveryKeeps DEF ReadChunks
<1>6. ASSUME Goto(d, next)
      PROVE  RowInv(d)' /\ StepInv(d)'
  <2>1. daemon'[d].pc = next /\ Op(d)' = Op(d) /\ Request(d)' = Request(d)
    BY <1>1, <1>2, <1>6, GotoKeeps DEF Steps
  <2>2. Op(d) \notin Allocations
    BY <1>3, SessionAssumption
  <2> QED
    BY <1>3, <1>4, <2>1, <2>2 DEF RowInv, StepInv, At, Unclaimed, Working, EffectState
<1> QED
  BY <1>1, <1>3, <1>4, <1>5, <1>6, ProceedKeeps

LEMMA MarkMaterializedKeeps ==
  ASSUME SessionInv, NEW d \in Daemons, MarkMaterialized(d) \/ ClaimStart(d)
  PROVE  SessionInv'
<1> DEFINE to == IF At(d, "delivered") THEN "materialized" ELSE "start_claimed"
           next == IF At(d, "delivered") THEN "materialized" ELSE "effect"
<1>1. /\ daemon[d].pc \in {"delivered", "materialized"} /\ daemon[d].pc \in Claimed
      /\ daemon[d].pc # "idle" /\ next \in Claimed /\ Proceed(d, next)
      /\ to \in RowStates \ {"none"} /\ to \notin FinishedStates
      /\ session' = [session EXCEPT ![Op(d)].state = to]
      /\ UNCHANGED <<engine, calls, deliveries, answered>>
  BY DEF MarkMaterialized, ClaimStart, At, Claimed, Move, RowStates, ClaimedStates, FinishedStates
<1>2. /\ Op(d) \in Ops /\ RowInv(d) /\ DaemonsOK
  BY <1>1, Context
<1>3. /\ Op(d) \in Materializations /\ Op(d) \notin Allocations
      /\ session[Op(d)].state \in {"materialize_claimed", "materialized"}
      /\ session[Op(d)].request = Request(d) /\ Request(d) \in RequestIds
  BY <1>1, <1>2, SessionAssumption DEF RowInv, At, Deliveries
<1>4. session[Op(d)].state \notin FinishedStates \cup {"none"}
  BY <1>3 DEF FinishedStates
<1>5. /\ RecordsOK' /\ AnswerInv' /\ \A o \in Ops : OpInv(o)'
      /\ session'[Op(d)].state = to /\ session'[Op(d)].request = session[Op(d)].request
  BY <1>1, <1>2, <1>4, MoveKeeps
<1>6. ASSUME Goto(d, next)
      PROVE  RowInv(d)' /\ StepInv(d)'
  <2>1. daemon'[d].pc = next /\ Op(d)' = Op(d) /\ Request(d)' = Request(d)
    BY <1>1, <1>2, <1>6, GotoKeeps DEF Steps
  <2> QED
    BY <1>3, <1>5, <2>1 DEF RowInv, StepInv, At, Unclaimed, Working, EffectState
<1> QED
  BY <1>1, <1>5, <1>6, ProceedKeeps

LEMMA ClaimStepKeeps ==
  ASSUME SessionInv, NEW d \in Daemons, ClaimStep(d)
  PROVE  SessionInv'
<1>1. /\ daemon[d].pc = "effect" /\ daemon[d].pc \in Claimed /\ daemon[d].pc # "idle"
      /\ "stepClaimed" \in Claimed /\ "stepClaimed" \in Steps /\ Proceed(d, "stepClaimed")
      /\ UNCHANGED <<session, calls, deliveries, answered>>
  BY DEF ClaimStep, At, Claimed, Steps
<1>2. /\ Op(d) \in Ops /\ RowInv(d) /\ OpInv(Op(d)) /\ DaemonsOK
      /\ engine[Op(d)] \in Seq(CheckpointStates)
      /\ called[Op(d)] \in Nat /\ performed[Op(d)] \in Nat
  BY <1>1, Context
<1>3. /\ session[Op(d)].state = EffectState(Op(d))
      /\ session[Op(d)].state \notin FinishedStates \cup {"none"}
      /\ session[Op(d)].request = Request(d) /\ Request(d) \in RequestIds
  BY <1>1, <1>2 DEF RowInv, Working, EffectState, FinishedStates
<1>4. AllCompleted(Op(d)) /\ engine' = [engine EXCEPT ![Op(d)] = Append(engine[Op(d)], "claimed")]
  BY DEF ClaimStep
<1> DEFINE steps == Append(engine[Op(d)], "claimed")
           n == Len(engine[Op(d)])
<1>5. /\ n \in Nat /\ steps \in Seq(CheckpointStates) /\ Len(steps) = n + 1
      /\ steps[n + 1] = "claimed" /\ \A i \in 1..n : steps[i] = engine[Op(d)][i]
  BY <1>2 DEF CheckpointStates
<1>6. n <= performed[Op(d)] /\ called[Op(d)] = n
  BY <1>2, <1>4, <1>5 DEF AllCompleted, OpInv
<1>7. \A i \in 1..Len(steps) : steps[i] = "completed" => i <= performed[Op(d)]
  BY <1>2, <1>5, <1>6
<1>8. /\ RecordsOK' /\ AnswerInv' /\ \A o \in Ops : OpInv(o)'
      /\ engine'[Op(d)] = steps
  <2> HIDE DEF steps
  <2>1. called[Op(d)] <= Len(steps) /\ Len(steps) <= performed[Op(d)] + 1
    BY <1>2, <1>5, <1>6
  <2>2. engine' = [engine EXCEPT ![Op(d)] = steps]
    BY <1>4 DEF steps
  <2> QED
    BY <1>1, <1>2, <1>3, <1>5, <1>7, <2>1, <2>2, CheckpointsKeep
<1>9. ASSUME Goto(d, "stepClaimed")
      PROVE  RowInv(d)' /\ StepInv(d)'
  <2>1. daemon'[d].pc = "stepClaimed" /\ Op(d)' = Op(d) /\ Request(d)' = Request(d)
    BY <1>1, <1>2, <1>9, GotoKeeps
  <2>2. session' = session /\ called' = called
    BY <1>1 DEF calls
  <2>3. RowInv(d)'
    BY <1>2, <1>3, <2>1, <2>2 DEF RowInv, At, Unclaimed, Working, EffectState
  <2>4. Len(engine'[Op(d)]) = called'[Op(d)] + 1
    BY <1>5, <1>6, <1>8, <2>2
  <2>5. StepInv(d)'
    BY <1>2, <2>1, <2>2, <2>4 DEF StepInv, At
  <2> QED
    BY <2>3, <2>5
<1> QED
  BY <1>1, <1>3, <1>8, <1>9, ProceedKeeps

LEMMA CallStepKeeps ==
  ASSUME SessionInv, NEW d \in Daemons, CallStep(d)
  PROVE  SessionInv'
<1>1. /\ daemon[d].pc = "stepClaimed" /\ daemon[d].pc # "idle" /\ ~ At(d, "reconciling")
      /\ "stepCalled" \in Steps \ {"reconciling"} /\ Goto(d, "stepCalled")
      /\ UNCHANGED <<journal, performed, deliveries, answered>>
  BY DEF CallStep, At, Claimed, Steps
<1>2. /\ Op(d) \in Ops /\ RowInv(d) /\ StepInv(d) /\ DaemonsOK /\ called[Op(d)] \in Nat
  BY <1>1, Context
<1>3. /\ session[Op(d)].state = EffectState(Op(d))
      /\ session[Op(d)].state \notin FinishedStates \cup {"none"}
      /\ Len(engine[Op(d)]) = called[Op(d)] + 1
  BY <1>1, <1>2 DEF RowInv, StepInv, At, Working, EffectState, FinishedStates
<1>4. /\ RecordsOK' /\ AnswerInv' /\ \A o \in Ops : OpInv(o)'
      /\ called'[Op(d)] = called[Op(d)] + 1
  BY <1>1, <1>2, <1>3, CallKeeps DEF CallStep
<1>5. daemon'[d].pc = "stepCalled" /\ Op(d)' = Op(d) /\ Request(d)' = Request(d)
  BY <1>1, <1>2, GotoKeeps
<1>6. session' = session /\ engine' = engine
  BY <1>1 DEF journal
<1>7. RowInv(d)'
  BY <1>1, <1>2, <1>3, <1>5, <1>6 DEF RowInv, At, Unclaimed, Claimed, Working, EffectState
<1>8. StepInv(d)'
  BY <1>2, <1>3, <1>4, <1>5, <1>6 DEF StepInv, At
<1> QED
  BY <1>1, <1>4, <1>7, <1>8, ServedKeeps

LEMMA StepAnsweredKeeps ==
  ASSUME SessionInv, NEW d \in Daemons, StepAnswered(d)
  PROVE  SessionInv'
<1>1. /\ daemon[d].pc = "stepCalled" /\ daemon[d].pc # "idle" /\ ~ At(d, "reconciling")
      /\ "stepDone" \in Steps \ {"reconciling"} /\ Goto(d, "stepDone")
      /\ UNCHANGED <<journal, calls, deliveries, answered>>
      /\ performed[Op(d)] = called[Op(d)]
  BY DEF StepAnswered, At, Claimed, Steps
<1>2. RowInv(d) /\ StepInv(d) /\ DaemonsOK
  BY <1>1, Context
<1>3. RecordsOK' /\ AnswerInv' /\ \A o \in Ops : OpInv(o)'
  BY <1>1, RecordsStay
<1>4. daemon'[d].pc = "stepDone" /\ Op(d)' = Op(d) /\ Request(d)' = Request(d)
  BY <1>1, <1>2, GotoKeeps
<1>5. /\ session' = session /\ engine' = engine /\ called' = called /\ performed' = performed
  BY <1>1 DEF journal, calls
<1>6. RowInv(d)'
  BY <1>1, <1>2, <1>4, <1>5 DEF RowInv, At, Unclaimed, Claimed, Working, EffectState
<1>7. StepInv(d)'
  BY <1>1, <1>2, <1>4, <1>5 DEF StepInv, At
<1> QED
  BY <1>1, <1>3, <1>6, <1>7, ServedKeeps

LEMMA CompleteStepKeeps ==
  ASSUME SessionInv, NEW d \in Daemons, CompleteStep(d)
  PROVE  SessionInv'
<1> DEFINE n == Len(engine[Op(d)])
           steps == [engine[Op(d)] EXCEPT ![n] = "completed"]
<1>1. /\ daemon[d].pc = "stepDone" /\ daemon[d].pc \in Claimed /\ daemon[d].pc # "idle"
      /\ "effect" \in Claimed /\ "effect" \in Steps /\ Proceed(d, "effect")
      /\ UNCHANGED <<session, calls, deliveries, answered>>
      /\ engine' = [engine EXCEPT ![Op(d)] = steps]
  BY DEF CompleteStep, At, Claimed, Steps
<1>2. /\ Op(d) \in Ops /\ RowInv(d) /\ StepInv(d) /\ OpInv(Op(d)) /\ DaemonsOK
      /\ engine[Op(d)] \in Seq(CheckpointStates)
      /\ called[Op(d)] \in Nat /\ performed[Op(d)] \in Nat
  BY <1>1, Context
<1>3. /\ session[Op(d)].state = EffectState(Op(d))
      /\ session[Op(d)].state \notin FinishedStates \cup {"none"}
      /\ session[Op(d)].request = Request(d) /\ Request(d) \in RequestIds
  BY <1>1, <1>2 DEF RowInv, Working, EffectState, FinishedStates
<1>4. n = called[Op(d)] /\ called[Op(d)] = performed[Op(d)] /\ n > 0
  BY <1>1, <1>2 DEF StepInv, At
<1>5. /\ steps \in Seq(CheckpointStates) /\ Len(steps) = n
  BY <1>2, <1>4 DEF CheckpointStates
<1> HIDE DEF steps, n
<1>6. \A i \in 1..Len(steps) : i <= performed[Op(d)]
  BY <1>2, <1>4, <1>5
<1>7. /\ RecordsOK' /\ AnswerInv' /\ \A o \in Ops : OpInv(o)'
  <2>1. called[Op(d)] <= Len(steps) /\ Len(steps) <= performed[Op(d)] + 1
    BY <1>2, <1>4, <1>5
  <2> QED
    BY <1>1, <1>2, <1>3, <1>5, <1>6, <2>1, CheckpointsKeep
<1>8. ASSUME Goto(d, "effect")
      PROVE  RowInv(d)' /\ StepInv(d)'
  <2>1. daemon'[d].pc = "effect" /\ Op(d)' = Op(d) /\ Request(d)' = Request(d)
    BY <1>1, <1>2, <1>8, GotoKeeps
  <2>2. session' = session
    BY <1>1
  <2> QED
    BY <1>2, <1>3, <2>1, <2>2 DEF RowInv, StepInv, At, Unclaimed, Working, EffectState
<1> QED
  BY <1>1, <1>3, <1>7, <1>8, ProceedKeeps

LEMMA ReturnKeeps ==
  ASSUME SessionInv, NEW d \in Daemons, Return(d)
  PROVE  SessionInv'
<1>1. /\ daemon[d].pc = "effect" /\ daemon[d].pc # "idle" /\ ~ At(d, "reconciling")
      /\ "returned" \in Steps \ {"reconciling"} /\ Goto(d, "returned")
      /\ UNCHANGED <<journal, calls, deliveries, answered>>
  BY DEF Return, At, Claimed, Steps
<1>2. RowInv(d) /\ DaemonsOK
  BY <1>1, Context
<1>3. RecordsOK' /\ AnswerInv' /\ \A o \in Ops : OpInv(o)'
  BY <1>1, RecordsStay
<1>4. daemon'[d].pc = "returned" /\ Op(d)' = Op(d) /\ Request(d)' = Request(d)
      /\ session' = session
  BY <1>1, <1>2, GotoKeeps DEF journal
<1>5. RowInv(d)' /\ StepInv(d)'
  BY <1>1, <1>2, <1>4 DEF RowInv, StepInv, At, Unclaimed, Claimed, Working, EffectState
<1> QED
  BY <1>1, <1>3, <1>5, ServedKeeps

LEMMA MarkFinishedKeeps ==
  ASSUME SessionInv, NEW d \in Daemons, MarkFinished(d)
  PROVE  SessionInv'
<1>1. /\ daemon[d].pc = "returned" /\ daemon[d].pc \in Claimed /\ daemon[d].pc # "idle"
      /\ "recorded" \in Claimed /\ "recorded" \in Steps /\ Proceed(d, "recorded")
      /\ PlanCompleted(Op(d))
      /\ session' = [session EXCEPT ![Op(d)].state = FinishedState(Op(d))]
      /\ UNCHANGED <<engine, calls, deliveries, answered>>
  BY DEF MarkFinished, Move, At, Claimed, Steps
<1>2. Op(d) \in Ops /\ RowInv(d) /\ DaemonsOK
  BY <1>1, Context
<1>3. /\ session[Op(d)].state \notin FinishedStates \cup {"none"}
      /\ session[Op(d)].request = Request(d) /\ Request(d) \in RequestIds
  BY <1>1, <1>2 DEF RowInv, Working, EffectState, FinishedStates
<1>4. FinishedState(Op(d)) \in RowStates \ {"none"}
  BY DEF FinishedState, RowStates, FinishedStates
<1>5. /\ RecordsOK' /\ AnswerInv' /\ \A o \in Ops : OpInv(o)'
      /\ session'[Op(d)].state = FinishedState(Op(d))
      /\ session'[Op(d)].request = session[Op(d)].request
  BY <1>1, <1>2, <1>3, <1>4, MoveKeeps
<1>6. ASSUME Goto(d, "recorded")
      PROVE  RowInv(d)' /\ StepInv(d)'
  <2>1. daemon'[d].pc = "recorded" /\ Op(d)' = Op(d) /\ Request(d)' = Request(d)
    BY <1>1, <1>2, <1>6, GotoKeeps
  <2> QED
    BY <1>3, <1>4, <1>5, <2>1 DEF RowInv, StepInv, At, Unclaimed, Working, FinishedState
<1> QED
  BY <1>1, <1>4, <1>5, <1>6, ProceedKeeps

LEMMA AnswerKeeps ==
  ASSUME SessionInv, NEW d \in Daemons, Answer(d)
  PROVE  SessionInv'
<1>1. /\ daemon[d].pc = "recorded" /\ daemon[d].pc \in Claimed /\ daemon[d].pc # "idle"
      /\ ~ At(d, "reconciling") /\ "failing" \in Steps \ {"reconciling"}
      /\ Leave(d) \/ Goto(d, "failing")
      /\ UNCHANGED <<journal, calls, deliveries>>
      /\ answered' = answered \cup {<<Op(d), Request(d)>>}
  BY DEF Answer, At, Claimed, Steps
<1>2. Op(d) \in Ops /\ RowInv(d) /\ DaemonsOK /\ RecordsOK /\ AnswerInv
  BY <1>1, Context DEF SessionInv
<1>3. /\ session[Op(d)].state \in FinishedStates /\ session[Op(d)].state # "none"
      /\ session[Op(d)].request = Request(d) /\ Request(d) \in RequestIds
  BY <1>1, <1>2 DEF RowInv, At, FinishedState, FinishedStates
<1>4. session' = session /\ \A o \in Ops : OpInv(o)'
  BY <1>1, RecordsStay DEF journal
<1>5. RecordsOK'
  BY <1>1, <1>2, <1>3 DEF RecordsOK, journal, calls
<1>6. AnswerInv'
  BY <1>1, <1>2, <1>3, <1>4 DEF AnswerInv
<1>7. Goto(d, "failing") => RowInv(d)' /\ StepInv(d)'
  BY <1>1, <1>2, <1>3, <1>4, FailingKeeps
<1> QED
  BY <1>1, <1>4, <1>5, <1>6, <1>7, ServedKeeps

LEMMA FailKeeps ==
  ASSUME SessionInv, NEW d \in Daemons, Fail(d)
  PROVE  SessionInv'
<1>1. /\ daemon[d].pc \in Claimed /\ daemon[d].pc # "idle"
      /\ ~ At(d, "reconciling") /\ "failing" \in Steps \ {"reconciling"}
      /\ Goto(d, "failing") /\ UNCHANGED <<journal, calls, deliveries, answered>>
  BY DEF Fail, At, Claimed, Steps
<1>2. Op(d) \in Ops /\ RowInv(d) /\ DaemonsOK
  BY <1>1, Context
<1>3. RecordsOK' /\ AnswerInv' /\ \A o \in Ops : OpInv(o)'
  BY <1>1, RecordsStay
<1>4. session' = session /\ session[Op(d)].state # "none"
  BY <1>1, <1>2 DEF RowInv, journal
<1>5. RowInv(d)' /\ StepInv(d)'
  BY <1>1, <1>2, <1>4, FailingKeeps
<1> QED
  BY <1>1, <1>3, <1>5, ServedKeeps

LEMMA StopKeeps ==
  ASSUME SessionInv, NEW d \in Daemons, Stop(d)
  PROVE  SessionInv'
<1>1. /\ Leave(d) /\ UNCHANGED <<journal, calls, deliveries, answered>> /\ daemon[d] # Idle
  BY DEF Stop
<1>2. DaemonsOK /\ \A e \in Daemons : ViewInv(e)
  BY DEF SessionInv, WorkInv
<1>3. daemon[d].pc # "idle"
  BY <1>1, <1>2, StepsApart DEF DaemonsOK, Jobs
<1>4. /\ DaemonsOK' /\ \A e \in Daemons : daemon'[e] = Idle
      /\ view'[d] = <<>> /\ \A e \in Daemons \ {d} : view'[e] = view[e]
  BY <1>1, <1>2, <1>3, LeaveKeeps
<1>5. \A e \in Daemons \ {d} : view[e] = <<>>
  BY <1>2, <1>3, AtWork DEF ViewInv, At, Idle
<1>6. \A e \in Daemons : WorkInv(e)'
  BY <1>4, <1>5, IdleKeeps
<1>7. RecordsOK' /\ AnswerInv' /\ \A o \in Ops : OpInv(o)'
  BY <1>1, RecordsStay
<1> QED
  BY <1>4, <1>6, <1>7 DEF SessionInv

LEMMA MarkAmbiguousKeeps ==
  ASSUME SessionInv, NEW d \in Daemons, MarkAmbiguous(d)
  PROVE  SessionInv'
<1>1. /\ daemon[d].pc # "idle" /\ ~ At(d, "reconciling") /\ Leave(d)
      /\ UNCHANGED <<calls, deliveries, answered>>
      /\ Move(Op(d), Request(d), AmbiguousFrom(Op(d)), AmbiguousState(Op(d)))
  BY DEF MarkAmbiguous, At
<1>2. Op(d) \in Ops
  BY <1>1, Context
<1>3. engine' = [engine EXCEPT ![Op(d)] =
         [i \in 1..Len(engine[Op(d)]) |->
            IF engine[Op(d)][i] = "claimed" THEN "ambiguous" ELSE engine[Op(d)][i]]]
  BY DEF MarkAmbiguous
<1>4. RecordsOK' /\ AnswerInv' /\ \A o \in Ops : OpInv(o)'
  BY <1>1, <1>2, <1>3, AmbiguousKeeps
<1> QED
  BY <1>1, <1>4, ServedKeeps

LEMMA AbandonKeeps ==
  ASSUME SessionInv, NEW op \in Ops, Abandon(op)
  PROVE  SessionInv'
<1>1. /\ session[op].state \in AmbiguousStates
      /\ session' = [session EXCEPT ![op].state = "abandoned"]
      /\ UNCHANGED <<engine, lease, daemon, view, calls, deliveries, answered>>
  BY DEF Abandon
<1>2. /\ session[op].state \notin FinishedStates \cup {"none"}
      /\ "abandoned" \in RowStates \ {"none"} /\ "abandoned" \notin FinishedStates
  BY <1>1 DEF AmbiguousStates, FinishedStates, RowStates
<1>3. /\ RecordsOK' /\ AnswerInv' /\ \A o \in Ops : OpInv(o)'
      /\ session'[op].state = "abandoned" /\ session'[op].request = session[op].request
  BY <1>1, <1>2, MoveKeeps
<1>4. DaemonsOK'
  BY <1>1 DEF SessionInv, DaemonsOK
<1>5. ASSUME NEW d \in Daemons
      PROVE  WorkInv(d)'
  <2>1. WorkInv(d)
    BY DEF SessionInv
  <2>2. Op(d)' = Op(d) /\ Request(d)' = Request(d) /\ daemon' = daemon /\ view' = view
    BY <1>1 DEF Op, Request
  <2>3. StepInv(d)' /\ ViewInv(d)'
    BY <1>1, <2>1, <2>2 DEF WorkInv, StepInv, ViewInv, At, calls
  <2>4. CASE Op(d) # op
    <3>1. session'[Op(d)] = session[Op(d)]
      BY <1>1, <2>4 DEF SessionInv, RecordsOK
    <3> QED
      BY <1>1, <2>1, <2>2, <2>3, <3>1 DEF WorkInv, RowInv, At, EffectState, FinishedState
  <2>5. CASE Op(d) = op
    <3>1. daemon[d].pc \notin Working \cup {"claimed", "delivered", "materialized", "recorded"}
      BY <1>1, <2>1, <2>5 DEF WorkInv, RowInv, At, EffectState, FinishedState, AmbiguousStates
    <3>2. RowInv(d)'
      BY <1>3, <2>1, <2>2, <2>5, <3>1 DEF WorkInv, RowInv, At, Working
    <3> QED
      BY <2>3, <3>2 DEF WorkInv
  <2> QED
    BY <2>4, <2>5
<1> QED
  BY <1>3, <1>4, <1>5 DEF SessionInv

LEMMA InspectKeeps ==
  ASSUME SessionInv, NEW d \in Daemons, Inspect(d)
  PROVE  SessionInv'
<1> DEFINE new == Append(view[d], Len(view[d]) + 1 <= performed[Op(d)])
           n == Len(view[d])
<1>1. /\ daemon[d].pc = "reconciling" /\ daemon[d].pc # "idle"
      /\ view' = [view EXCEPT ![d] = new]
      /\ UNCHANGED <<journal, lease, daemon, calls, deliveries, answered>>
  BY DEF Inspect, At
<1>2. /\ DaemonsOK /\ WorkInv(d) /\ \A e \in Daemons : WorkInv(e)
      /\ Op(d) \in Ops /\ performed[Op(d)] \in Nat
  BY <1>1, Context DEF SessionInv
<1>3. view[d] \in Seq(BOOLEAN) /\ (Len(view[d]) + 1 <= performed[Op(d)]) \in BOOLEAN
  BY <1>2 DEF DaemonsOK
<1>4. /\ new \in Seq(BOOLEAN) /\ Len(new) = n + 1 /\ n \in Nat
      /\ new[n + 1] = (n + 1 <= performed[Op(d)]) /\ \A i \in 1..n : new[i] = view[d][i]
  BY <1>3
<1> HIDE DEF new
<1>5. /\ view' \in [Daemons -> Seq(BOOLEAN)] /\ view'[d] = new
      /\ \A e \in Daemons \ {d} : view'[e] = view[e]
  BY <1>1, <1>2, <1>4 DEF DaemonsOK
<1>6. DaemonsOK'
  BY <1>1, <1>2, <1>5 DEF DaemonsOK
<1>7. RecordsOK' /\ AnswerInv' /\ \A o \in Ops : OpInv(o)'
  BY <1>1, RecordsStay
<1>8. /\ session' = session /\ engine' = engine /\ called' = called /\ performed' = performed
      /\ deliveries' = deliveries /\ daemon' = daemon
  BY <1>1 DEF journal, calls
<1>9. \A e \in Daemons : RowInv(e)' /\ StepInv(e)'
  BY <1>2, <1>8 DEF WorkInv, RowInv, StepInv, At, Op, Request, EffectState, FinishedState
<1>10. \A e \in Daemons \ {d} : ViewInv(e)'
  BY <1>2, <1>5, <1>8 DEF WorkInv, ViewInv, At, Op
<1>11. ASSUME NEW i \in 1..(n + 1)
       PROVE  \/ new[i] <=> i <= performed[Op(d)]
              \/ ~ new[i] /\ i = Len(engine[Op(d)]) /\ engine[Op(d)][i] # "completed"
  <2>1. CASE i = n + 1
    BY <1>4, <2>1
  <2>2. CASE i # n + 1
    <3>1. i \in 1..n /\ new[i] = view[d][i]
      BY <1>4, <2>2
    <3> QED
      BY <1>1, <1>2, <3>1 DEF WorkInv, ViewInv, At
  <2> QED
    BY <2>1, <2>2
<1>12. ViewInv(d)'
  BY <1>1, <1>4, <1>5, <1>8, <1>11 DEF ViewInv, At, Op
<1> QED
  BY <1>6, <1>7, <1>9, <1>10, <1>12 DEF SessionInv, WorkInv

LEMMA EngineActsKeeps ==
  ASSUME SessionInv, NEW op \in Ops, EngineActs(op)
  PROVE  SessionInv'
<1>1. /\ RecordsOK' /\ AnswerInv' /\ \A o \in Ops : OpInv(o)'
      /\ \A o \in Ops \ {op} : performed'[o] = performed[o]
      /\ performed'[op] \in {performed[op], performed[op] + 1}
      /\ called[op] = performed[op] + 1
  BY EngineKeeps
<1>2. /\ session' = session /\ engine' = engine /\ called' = called /\ deliveries' = deliveries
      /\ daemon' = daemon /\ view' = view /\ lease' = lease
  BY DEF EngineActs, journal
<1>3. DaemonsOK' /\ \A d \in Daemons : WorkInv(d)
  BY <1>2 DEF SessionInv, DaemonsOK
<1>4. \A d \in Daemons : RowInv(d)'
  BY <1>2, <1>3 DEF WorkInv, RowInv, At, Op, Request, EffectState, FinishedState
<1>5. /\ OpInv(op) /\ performed[op] \in Nat /\ called[op] \in Nat
      /\ Len(engine[op]) \in Nat
  BY DEF SessionInv, RecordsOK
<1>6. ASSUME NEW d \in Daemons
      PROVE  StepInv(d)' /\ ViewInv(d)'
  <2>1. Op(d)' = Op(d)
    BY <1>2 DEF Op
  <2>2. CASE daemon[d].pc = "idle"
    BY <1>2, <1>3, <2>2 DEF WorkInv, StepInv, ViewInv, At
  <2>3. CASE daemon[d].pc # "idle"
    <3>1. Op(d) \in Ops
      BY <2>3, Context
    <3>2. CASE Op(d) # op
      <4>1. performed'[Op(d)] = performed[Op(d)]
        BY <1>1, <3>1, <3>2
      <4> QED
        BY <1>2, <1>3, <2>1, <4>1 DEF WorkInv, StepInv, ViewInv, At
    <3>3. CASE Op(d) = op
      <4>1. daemon[d].pc # "stepDone"
        BY <1>1, <1>3, <1>5, <3>3 DEF WorkInv, StepInv, At
      <4>2. StepInv(d)'
        BY <1>2, <1>3, <2>1, <4>1 DEF WorkInv, StepInv, At
      <4>3. ASSUME At(d, "reconciling"), NEW i \in 1..Len(view[d])
            PROVE  \/ view[d][i] <=> i <= performed'[op]
                   \/ ~ view[d][i] /\ i = Len(engine[op]) /\ engine[op][i] # "completed"
        <5>1. \/ view[d][i] <=> i <= performed[op]
              \/ ~ view[d][i] /\ i = Len(engine[op]) /\ engine[op][i] # "completed"
          BY <1>3, <3>3, <4>3 DEF WorkInv, ViewInv
        <5>2. view[d] \in Seq(BOOLEAN)
          BY DEF SessionInv, DaemonsOK
        <5>3. i \in Nat
          BY <5>2
        <5>4. CASE i = performed[op] + 1
          <6>1. i = Len(engine[op]) /\ engine[op][i] # "completed"
            BY <1>1, <1>5, <5>4 DEF OpInv
          <6>2. view[d][i] => FALSE
            BY <1>5, <5>1, <5>3, <5>4
          <6> QED
            BY <6>1, <6>2
        <5>5. CASE i # performed[op] + 1
          <6>1. i <= performed'[op] <=> i <= performed[op]
            BY <1>1, <1>5, <5>3, <5>5
          <6> QED
            BY <5>1, <6>1
        <5> QED
          BY <5>4, <5>5
      <4>4. ViewInv(d)'
        BY <1>2, <1>3, <2>1, <3>3, <4>3 DEF WorkInv, ViewInv, At
      <4> QED
        BY <4>2, <4>4
    <3> QED
      BY <3>2, <3>3
  <2> QED
    BY <2>2, <2>3
<1> QED
  BY <1>1, <1>3, <1>4, <1>6 DEF SessionInv, WorkInv

-----------------------------------------------------------------------------
(* The invariant                                                           *)

LEMMA InitInv == Init => SessionInv
<1> SUFFICES ASSUME Init PROVE SessionInv
  OBVIOUS
<1>1. DaemonsOK
  BY SessionAssumption DEF Init, DaemonsOK, Jobs, Idle
<1>2. RecordsOK
  BY DEF Init, RecordsOK, NoRow, RowStates
<1>3. ASSUME NEW op \in Ops PROVE OpInv(op)
  <2>1. /\ performed[op] = 0 /\ called[op] = 0 /\ engine[op] = <<>> /\ inflight = {}
        /\ session[op] = NoRow /\ deliveries[op] = 0
    BY DEF Init
  <2> QED
    BY <2>1 DEF OpInv, NoRow, FinishedStates
<1>4. \A d \in Daemons : WorkInv(d)
  BY DEF Init, WorkInv, RowInv, StepInv, ViewInv, At, Op, Idle, Unclaimed, Claimed, Working
<1>5. AnswerInv
  BY DEF Init, AnswerInv
<1> QED
  BY <1>1, <1>2, <1>3, <1>4, <1>5 DEF SessionInv

LEMMA InvStep == SessionInv /\ [Next]_vars => SessionInv'
<1> SUFFICES ASSUME SessionInv, [Next]_vars PROVE SessionInv'
  OBVIOUS
<1>1. ASSUME NEW d \in Daemons, NEW op \in Ops, NEW id \in RequestIds, Open(d, op, id)
      PROVE  SessionInv'
  BY <1>1, BeginKeeps DEF Open
<1>2. ASSUME NEW d \in Daemons, Serve(d) PROVE SessionInv'
  BY <1>2, CheckFramesKeeps, ClaimKeeps, ReadChunksKeeps, MarkMaterializedKeeps, ClaimStepKeeps,
     CallStepKeeps, StepAnsweredKeeps, CompleteStepKeeps, ReturnKeeps, MarkFinishedKeeps,
     AnswerKeeps, FailKeeps, MarkAmbiguousKeeps, StopKeeps DEF Serve
<1>3. ASSUME NEW d \in Daemons, Inspect(d) PROVE SessionInv'
  BY <1>3, InspectKeeps
<1>4. ASSUME NEW d \in Daemons, NEW op \in Allocations, Reconcile(d, op) PROVE SessionInv'
  BY <1>4, BeginKeeps DEF Reconcile, Ops
<1>5. ASSUME NEW op \in Ops, Abandon(op) \/ EngineActs(op) PROVE SessionInv'
  BY <1>5, AbandonKeeps, EngineActsKeeps
<1>6. CASE UNCHANGED vars
  <2>1. /\ session' = session /\ engine' = engine /\ lease' = lease /\ daemon' = daemon
        /\ view' = view /\ inflight' = inflight /\ called' = called /\ performed' = performed
        /\ deliveries' = deliveries /\ answered' = answered
    BY <1>6 DEF vars
  <2>2. RecordsOK' /\ AnswerInv' /\ \A op \in Ops : OpInv(op)'
    BY <2>1, RecordsStay DEF journal, calls
  <2>3. DaemonsOK' /\ \A d \in Daemons : WorkInv(d)'
    BY <2>1 DEF SessionInv, DaemonsOK, WorkInv, RowInv, StepInv, ViewInv, At, Op, Request, EffectState,
       FinishedState
  <2> QED
    BY <2>2, <2>3 DEF SessionInv
<1> QED
  BY <1>1, <1>2, <1>3, <1>4, <1>5, <1>6 DEF Next

\* Records and daemons agree at every moment, for any operations, plans,
\* requests and daemons, whatever crashes and whichever commit raises.
THEOREM SessionCorrect == Spec => []SessionInv
<1> QED
  BY InitInv, InvStep, PTL DEF Spec

\* The journal, the lease and the daemons stay in their types, and only the
\* holder of the lease is at work.
THEOREM TypeCorrect == Spec => []TypeOK
<1>1. SessionInv => TypeOK
  BY DEF SessionInv, DaemonsOK, RecordsOK, TypeOK, Jobs
<1> QED
  BY <1>1, SessionCorrect, PTL

\* No checkpoint claims an engine step that was not performed, and only the
\* last may hide one; a finished row has its whole plan, a receipt its row.
THEOREM EvidenceReal == Spec => []EvidenceIsReal
<1>1. ASSUME SessionInv, NEW op \in Ops
      PROVE  /\ performed[op] <= called[op] /\ called[op] <= Len(engine[op])
             /\ Len(engine[op]) <= performed[op] + 1
             /\ \A i \in 1..Len(engine[op]) : engine[op][i] = "completed" => i <= performed[op]
             /\ session[op].state \in FinishedStates =>
                  PlanCompleted(op) /\ performed[op] = PlanLength[op]
  <2>1. /\ OpInv(op) /\ performed[op] \in Nat /\ called[op] \in Nat /\ Len(engine[op]) \in Nat
        /\ PlanLength[op] \in Nat \ {0}
    BY <1>1, SessionAssumption DEF SessionInv, RecordsOK
  <2>2. ASSUME session[op].state \in FinishedStates
        PROVE  PlanCompleted(op) /\ performed[op] = PlanLength[op]
    <3>1. PlanCompleted(op)
      BY <2>1, <2>2 DEF OpInv
    <3>2. Len(engine[op]) = PlanLength[op] /\ engine[op][PlanLength[op]] = "completed"
      BY <2>1, <3>1 DEF PlanCompleted, AllCompleted
    <3>3. PlanLength[op] <= performed[op]
      BY <2>1, <3>2 DEF OpInv
    <3> QED
      BY <2>1, <3>1, <3>2, <3>3 DEF OpInv
  <2> QED
    BY <2>1, <2>2 DEF OpInv
<1>2. SessionInv => EvidenceIsReal
  BY <1>1 DEF SessionInv, EvidenceIsReal, AnswerInv
<1> QED
  BY <1>2, SessionCorrect, PTL

\* No start reads a secret or calls the engine before its materialization is
\* on record as started, and that record is never unsettled.
THEOREM StartsAfter == Spec => []StartsFollow
<1>1. ASSUME SessionInv, NEW op \in Starts, deliveries[op] + called[op] > 0
      PROVE  session[MaterializationOf[op]].state = "started"
  <2>1. op \in Ops
    BY DEF Ops, Deliveries
  <2>2. /\ OpInv(op) /\ deliveries[op] \in Nat /\ called[op] \in Nat /\ Len(engine[op]) \in Nat
    BY <1>1, <2>1 DEF SessionInv, RecordsOK
  <2>3. Len(engine[op]) > 0 \/ deliveries[op] > 0
    BY <1>1, <2>2 DEF OpInv
  <2> QED
    BY <2>2, <2>3 DEF OpInv
<1>2. SessionInv => StartsFollow
  BY <1>1 DEF StartsFollow
<1> QED
  BY <1>2, SessionCorrect, PTL

\* What a reconciliation has seen stays true of the engine but for one
\* uncertain last step.
THEOREM OneStepMissed == Spec => []ReconciliationMissesOneStep
<1>1. SessionInv => ReconciliationMissesOneStep
  BY DEF SessionInv, WorkInv, ViewInv, ReconciliationMissesOneStep
<1> QED
  BY <1>1, SessionCorrect, PTL

-----------------------------------------------------------------------------
(* Sessions and engine steps are one-shot                                  *)

TokenPhase(op, i) == IF i = 0 THEN SessionPhase(op) ELSE StepPhase(op, i)

\* Everything the phases of an operation depend on, in this and the next state.
SamePhases(op) ==
  /\ deliveries'[op] = deliveries[op] /\ called'[op] = called[op]
  /\ Len(engine'[op]) = Len(engine[op])
  /\ session'[op] = NoRow <=> session[op] = NoRow

\* The one token of an operation that moves.
Moves(op, k, from, to) ==
  /\ \A i \in Nat \ {k} : TokenPhase(op, i)' = TokenPhase(op, i)
  /\ TokenPhase(op, k) = from /\ TokenPhase(op, k)' = to

LEMMA SamePhase ==
  ASSUME NEW op, NEW i, SamePhases(op)
  PROVE  TokenPhase(op, i)' = TokenPhase(op, i)
BY DEF SamePhases, TokenPhase, SessionPhase, StepPhase

\* An UPDATE finds a row, and leaves one.
LEMMA RowsRemain ==
  ASSUME RecordsOK, NEW op \in Ops, NEW to \in RowStates \ {"none"},
         session[op].state # "none", session' = [session EXCEPT ![op].state = to]
  PROVE  \A o \in Ops : session'[o] = NoRow <=> session[o] = NoRow
<1>1. session'[op].state = to
  BY DEF RecordsOK
<1> QED
  BY <1>1 DEF RecordsOK, NoRow

\* The claim of an operation spends the token of its session.
LEMMA ClaimSpends ==
  ASSUME SessionInv, NEW d \in Daemons,
         ClaimAllocation(d) \/ ClaimMaterialize(d) \/ ClaimRuntimeStart(d)
  PROVE  \E op \in Ops :
           /\ \A o \in Ops \ {op} : SamePhases(o)
           /\ Moves(op, 0, "fresh", "spent")
<1>1. /\ daemon[d].pc # "idle" /\ UNCHANGED <<engine, calls, deliveries, answered>>
      /\ \E state \in ClaimedStates : Insert(Op(d), Request(d), state)
  BY DEF ClaimAllocation, ClaimMaterialize, ClaimRuntimeStart, At, ClaimedStates
<1>2. PICK op \in Ops : op = Op(d)
  BY <1>1, Context
<1>3. OpInv(op) /\ RecordsOK /\ deliveries[op] \in Nat
  BY <1>1, <1>2, Context
<1>4. PICK state \in ClaimedStates :
        session' = [session EXCEPT ![op] = [state |-> state, request |-> Request(d)]]
  BY <1>1, <1>2 DEF Insert
<1>5. session[op] = NoRow /\ session'[op] # NoRow
  BY <1>1, <1>2, <1>3, <1>4 DEF Insert, RecordsOK, NoRow, ClaimedStates
<1>6. deliveries[op] = 0 /\ deliveries' = deliveries /\ called' = called /\ engine' = engine
  BY <1>1, <1>3, <1>5 DEF OpInv, NoRow, calls
<1>7. \A o \in Ops \ {op} : SamePhases(o)
  BY <1>3, <1>4, <1>6 DEF SamePhases, RecordsOK
<1>8. Moves(op, 0, "fresh", "spent")
  BY <1>5, <1>6 DEF Moves, TokenPhase, SessionPhase, StepPhase
<1> QED
  BY <1>7, <1>8

\* Reading the secret chunks attempts the token of the session.
LEMMA ReadAttempts ==
  ASSUME SessionInv, NEW d \in Daemons, ReadChunks(d)
  PROVE  \E op \in Ops :
           /\ \A o \in Ops \ {op} : SamePhases(o)
           /\ Moves(op, 0, "spent", "attempted")
<1>1. /\ daemon[d].pc = "claimed" /\ daemon[d].pc \in Claimed /\ daemon[d].pc # "idle"
      /\ session' = session /\ called' = called /\ engine' = engine
      /\ deliveries' = [deliveries EXCEPT ![Op(d)] = @ + 1]
  BY DEF ReadChunks, At, Claimed, journal, calls
<1>2. PICK op \in Ops : op = Op(d)
  BY <1>1, Context
<1>3. RowInv(d) /\ RecordsOK
  BY <1>1, Context
<1>4. deliveries[op] = 0 /\ session[op] # NoRow
  BY <1>1, <1>2, <1>3 DEF RowInv, At, NoRow
<1>5. deliveries'[op] = 1 /\ \A o \in Ops \ {op} : deliveries'[o] = deliveries[o]
  BY <1>1, <1>2, <1>3, <1>4 DEF RecordsOK
<1>6. \A o \in Ops \ {op} : SamePhases(o)
  BY <1>1, <1>5 DEF SamePhases
<1>7. Moves(op, 0, "spent", "attempted")
  BY <1>1, <1>4, <1>5 DEF Moves, TokenPhase, SessionPhase, StepPhase
<1> QED
  BY <1>6, <1>7

\* The claim of a checkpoint spends the token of its engine step.
LEMMA CheckpointSpends ==
  ASSUME SessionInv, NEW d \in Daemons, ClaimStep(d)
  PROVE  \E op \in Ops, k \in Nat \ {0} :
           /\ \A o \in Ops \ {op} : SamePhases(o)
           /\ Moves(op, k, "fresh", "spent")
<1>1. /\ daemon[d].pc = "effect" /\ daemon[d].pc # "idle"
      /\ session' = session /\ called' = called /\ deliveries' = deliveries
      /\ engine' = [engine EXCEPT ![Op(d)] = Append(@, "claimed")]
  BY DEF ClaimStep, At, calls
<1>2. PICK op \in Ops : op = Op(d)
  BY <1>1, Context
<1>3. /\ RecordsOK /\ engine[op] \in Seq(CheckpointStates) /\ called[op] \in Nat
      /\ Len(engine[op]) \in Nat /\ called[op] <= Len(engine[op])
  BY <1>1, <1>2, Context DEF OpInv
<1>4. PICK k \in Nat \ {0} : k = Len(engine[op]) + 1
  BY <1>3
<1>5. engine'[op] = Append(engine[op], "claimed")
      /\ \A o \in Ops \ {op} : engine'[o] = engine[o]
  BY <1>1, <1>2, <1>3 DEF RecordsOK
<1>6. Len(engine'[op]) = k
  BY <1>3, <1>4, <1>5
<1>7. \A o \in Ops \ {op} : SamePhases(o)
  BY <1>1, <1>5 DEF SamePhases
<1>8. TokenPhase(op, k) = "fresh" /\ TokenPhase(op, k)' = "spent"
  BY <1>1, <1>3, <1>4, <1>6 DEF TokenPhase, StepPhase
<1>9. ASSUME NEW i \in Nat \ {k} PROVE TokenPhase(op, i)' = TokenPhase(op, i)
  <2>1. i <= k <=> i <= Len(engine[op])
    BY <1>3, <1>4, <1>9
  <2> QED
    BY <1>1, <1>6, <2>1 DEF TokenPhase, SessionPhase, StepPhase
<1> QED
  BY <1>7, <1>8, <1>9 DEF Moves

\* The call to the engine attempts the token of its step.
LEMMA CallAttempts ==
  ASSUME SessionInv, NEW d \in Daemons, CallStep(d)
  PROVE  \E op \in Ops, k \in Nat \ {0} :
           /\ \A o \in Ops \ {op} : SamePhases(o)
           /\ Moves(op, k, "spent", "attempted")
<1>1. /\ daemon[d].pc = "stepClaimed" /\ daemon[d].pc # "idle"
      /\ session' = session /\ engine' = engine /\ deliveries' = deliveries
      /\ called' = [called EXCEPT ![Op(d)] = @ + 1]
  BY DEF CallStep, At, journal
<1>2. PICK op \in Ops : op = Op(d)
  BY <1>1, Context
<1>3. /\ RecordsOK /\ called[op] \in Nat /\ Len(engine[op]) = called[op] + 1
  BY <1>1, <1>2, Context DEF StepInv, At
<1>4. PICK k \in Nat \ {0} : k = called[op] + 1
  BY <1>3
<1>5. called'[op] = k /\ \A o \in Ops \ {op} : called'[o] = called[o]
  BY <1>1, <1>2, <1>3, <1>4 DEF RecordsOK
<1>6. \A o \in Ops \ {op} : SamePhases(o)
  BY <1>1, <1>5 DEF SamePhases
<1>7. TokenPhase(op, k) = "spent" /\ TokenPhase(op, k)' = "attempted"
  BY <1>1, <1>3, <1>4, <1>5 DEF TokenPhase, StepPhase
<1>8. ASSUME NEW i \in Nat \ {k} PROVE TokenPhase(op, i)' = TokenPhase(op, i)
  <2>1. i <= k <=> i <= called[op]
    BY <1>3, <1>4, <1>8
  <2> QED
    BY <1>1, <1>5, <2>1 DEF TokenPhase, SessionPhase, StepPhase
<1> QED
  BY <1>6, <1>7, <1>8 DEF Moves

\* No other step of a session moves a token.
LEMMA ServeStays ==
  ASSUME SessionInv, NEW d \in Daemons, Serve(d),
         ~ ClaimAllocation(d), ~ ClaimMaterialize(d), ~ ClaimRuntimeStart(d),
         ~ ReadChunks(d), ~ ClaimStep(d), ~ CallStep(d)
  PROVE  \A o \in Ops : SamePhases(o)
<1>1. CASE CheckFrames(d) \/ StepAnswered(d) \/ Return(d) \/ Answer(d) \/ Fail(d) \/ Stop(d)
  BY <1>1 DEF CheckFrames, StepAnswered, Return, Answer, Fail, Stop, journal, calls, SamePhases
<1>2. CASE MarkMaterialized(d) \/ ClaimStart(d) \/ MarkFinished(d)
  <2>1. /\ daemon[d].pc # "idle" /\ daemon[d].pc \in Claimed
        /\ UNCHANGED <<engine, calls, deliveries, answered>>
        /\ \E to \in RowStates \ {"none"} : session' = [session EXCEPT ![Op(d)].state = to]
    BY <1>2 DEF MarkMaterialized, ClaimStart, MarkFinished, Move, At, Claimed, FinishedState,
       RowStates, ClaimedStates, FinishedStates
  <2>2. Op(d) \in Ops /\ RowInv(d) /\ RecordsOK
    BY <2>1, Context
  <2>3. session[Op(d)].state # "none"
    BY <2>1, <2>2 DEF RowInv
  <2>4. \A o \in Ops : session'[o] = NoRow <=> session[o] = NoRow
    BY <2>1, <2>2, <2>3, RowsRemain
  <2> QED
    BY <2>1, <2>4 DEF SamePhases, calls
<1>3. CASE CompleteStep(d)
  <2>1. /\ daemon[d].pc # "idle" /\ UNCHANGED <<session, calls, deliveries, answered>>
        /\ engine' = [engine EXCEPT ![Op(d)][Len(engine[Op(d)])] = "completed"]
    BY <1>3 DEF CompleteStep, At
  <2>2. Op(d) \in Ops /\ RecordsOK
    BY <2>1, Context
  <2>3. engine'[Op(d)] = [engine[Op(d)] EXCEPT ![Len(engine[Op(d)])] = "completed"]
        /\ \A o \in Ops \ {Op(d)} : engine'[o] = engine[o]
    BY <2>1, <2>2 DEF RecordsOK
  <2>4. Len(engine'[Op(d)]) = Len(engine[Op(d)])
    BY <2>2, <2>3 DEF RecordsOK
  <2> QED
    BY <2>1, <2>3, <2>4 DEF SamePhases, calls
<1>4. CASE MarkAmbiguous(d)
  <2> DEFINE new == [i \in 1..Len(engine[Op(d)]) |->
                       IF engine[Op(d)][i] = "claimed" THEN "ambiguous" ELSE engine[Op(d)][i]]
  <2>1. /\ daemon[d].pc # "idle" /\ daemon[d].pc \in Claimed
        /\ UNCHANGED <<calls, deliveries, answered>>
        /\ session' = [session EXCEPT ![Op(d)].state = AmbiguousState(Op(d))]
        /\ AmbiguousState(Op(d)) \in RowStates \ {"none"}
        /\ engine' = [engine EXCEPT ![Op(d)] = new]
    BY <1>4 DEF MarkAmbiguous, Move, At, Claimed, AmbiguousState, RowStates, AmbiguousStates
  <2>2. Op(d) \in Ops /\ RowInv(d) /\ RecordsOK
    BY <2>1, Context
  <2>3. session[Op(d)].state # "none"
    BY <2>1, <2>2 DEF RowInv
  <2>4. \A o \in Ops : session'[o] = NoRow <=> session[o] = NoRow
    BY <2>1, <2>2, <2>3, RowsRemain
  <2>5. Len(new) = Len(engine[Op(d)])
    BY <2>2 DEF RecordsOK
  <2> HIDE DEF new
  <2>6. engine'[Op(d)] = new /\ \A o \in Ops \ {Op(d)} : engine'[o] = engine[o]
    BY <2>1, <2>2 DEF RecordsOK
  <2> QED
    BY <2>1, <2>4, <2>5, <2>6 DEF SamePhases, calls
<1> QED
  BY <1>1, <1>2, <1>3, <1>4 DEF Serve

LEMMA PhaseStep ==
  ASSUME SessionInv, [Next]_vars
  PROVE  \/ \A op \in Ops : SamePhases(op)
         \/ \E op \in Ops, k \in Nat :
              /\ \A o \in Ops \ {op} : SamePhases(o)
              /\ Moves(op, k, "fresh", "spent") \/ Moves(op, k, "spent", "attempted")
<1>1. ASSUME NEW d \in Daemons, NEW op \in Ops, NEW id \in RequestIds, Open(d, op, id)
      PROVE  \A o \in Ops : SamePhases(o)
  BY <1>1 DEF Open, Begin, journal, calls, SamePhases
<1>2. ASSUME NEW d \in Daemons, Inspect(d)
      PROVE  \A o \in Ops : SamePhases(o)
  BY <1>2 DEF Inspect, journal, calls, SamePhases
<1>3. ASSUME NEW d \in Daemons, NEW op \in Allocations, Reconcile(d, op)
      PROVE  \A o \in Ops : SamePhases(o)
  BY <1>3 DEF Reconcile, Begin, journal, calls, SamePhases
<1>4. ASSUME NEW op \in Ops, EngineActs(op)
      PROVE  \A o \in Ops : SamePhases(o)
  BY <1>4 DEF EngineActs, journal, SamePhases
<1>5. ASSUME NEW op \in Ops, Abandon(op)
      PROVE  \A o \in Ops : SamePhases(o)
  <2>1. session[op].state # "none" /\ "abandoned" \in RowStates \ {"none"}
    BY <1>5 DEF Abandon, AmbiguousStates, RowStates
  <2>2. \A o \in Ops : session'[o] = NoRow <=> session[o] = NoRow
    BY <1>5, <2>1, RowsRemain DEF Abandon, SessionInv
  <2> QED
    BY <1>5, <2>2 DEF Abandon, calls, SamePhases
<1>6. CASE UNCHANGED vars
  BY <1>6 DEF vars, SamePhases
<1>7. CASE \E d \in Daemons : Serve(d)
  BY <1>7, ClaimSpends, ReadAttempts, CheckpointSpends, CallAttempts, ServeStays
<1> QED
  BY <1>1, <1>2, <1>3, <1>4, <1>5, <1>6, <1>7 DEF Next

\* Over all sessions, restarts and requests signed again, secrets are read
\* and engine steps called at most once, each after its durable claim.
THEOREM SessionIsOneShot == Spec => ImplementsOneShot
<1> DEFINE phase == [t \in Tokens |-> IF t[2] = 0 THEN SessionPhase(t[1])
                                      ELSE StepPhase(t[1], t[2])]
<1>1. \A t \in Tokens : t = <<t[1], t[2]>> /\ t[1] \in Ops /\ t[2] \in Nat
  BY SessionAssumption DEF Tokens
<1>2. Init => Step!Init
  <2> SUFFICES ASSUME Init, NEW t \in Tokens PROVE phase[t] = "fresh"
    BY DEF Step!Init
  <2>1. deliveries[t[1]] = 0 /\ session[t[1]] = NoRow /\ called[t[1]] = 0 /\ engine[t[1]] = <<>>
    BY <1>1 DEF Init
  <2> QED
    BY <1>1, <2>1 DEF SessionPhase, StepPhase
<1>3. SessionInv /\ [Next]_vars => [Step!Next]_phase
  <2> SUFFICES ASSUME SessionInv, [Next]_vars PROVE Step!Next \/ phase' = phase
    OBVIOUS
  <2>1. \A t \in Tokens : phase[t] = TokenPhase(t[1], t[2])
                          /\ phase'[t] = TokenPhase(t[1], t[2])'
    BY DEF TokenPhase
  <2>2. phase = [t \in Tokens |-> phase[t]] /\ phase' = [t \in Tokens |-> phase'[t]]
    OBVIOUS
  <2> HIDE DEF phase
  <2>3. CASE \A op \in Ops : SamePhases(op)
    BY <1>1, <2>1, <2>2, <2>3, SamePhase
  <2>4. ASSUME NEW op \in Ops, NEW k \in Nat, NEW from, NEW to,
               \A o \in Ops \ {op} : SamePhases(o), Moves(op, k, from, to)
        PROVE  \/ phase' = phase
               \/ \E t \in Tokens : phase[t] = from /\ phase' = [phase EXCEPT ![t] = to]
    <3>1. \A t \in Tokens : t # <<op, k>> => phase'[t] = phase[t]
      BY <1>1, <2>1, <2>4, SamePhase DEF Moves
    <3>2. CASE <<op, k>> \notin Tokens
      BY <2>2, <3>1, <3>2
    <3>3. CASE <<op, k>> \in Tokens
      <4>1. phase[<<op, k>>] = from /\ phase'[<<op, k>>] = to
        BY <2>1, <2>4, <3>3 DEF Moves
      <4>2. phase' = [phase EXCEPT ![<<op, k>>] = to]
        BY <2>2, <3>1, <3>3, <4>1
      <4> QED
        BY <3>3, <4>1, <4>2
    <3> QED
      BY <3>2, <3>3
  <2>5. ASSUME NEW t \in Tokens,
               \/ phase[t] = "fresh" /\ phase' = [phase EXCEPT ![t] = "spent"]
               \/ phase[t] = "spent" /\ phase' = [phase EXCEPT ![t] = "attempted"]
        PROVE  Step!Next
    <3>1. Step!Spend(t) \/ Step!Attempt(t)
      BY <2>5 DEF Step!Spend, Step!Attempt, phase
    <3> QED
      BY <3>1 DEF Step!Next
  <2> QED
    BY <2>3, <2>4, <2>5, PhaseStep
<1> QED
  BY <1>2, <1>3, SessionCorrect, PTL DEF Spec, ImplementsOneShot, Step!Spec

-----------------------------------------------------------------------------
(* AllocationBackend: its plan, what a session finds, and the reconciliation *)

-----------------------------------------------------------------------------
(* The plan, step by step *)

PreliminaryKinds ==
  {"engine_ping", "engine_version", "engine_info", "image_inspect", "image_manifest_inspect",
   "container_inspect", "binary_exec_create", "binary_exec_inspect", "binary_exec_start"}
Kinds ==
  PreliminaryKinds \cup {"absence_check", "create", "inspect", "exec_create", "exec_inspect",
                         "exec_start", "final_inspect"}
Targets ==
  Host!Parts \cup {"engine", "control_image", "control_postgres", "schema_acl", "observation"}

PlanSteps == [kind : Kinds, target : Targets]

LEMMA StepType ==
  ASSUME NEW k \in Kinds, NEW t \in Targets
  PROVE  Host!Step(k, t) \in PlanSteps /\ Host!Step(k, t).kind = k /\ Host!Step(k, t).target = t
BY DEF Host!Step, PlanSteps

LEMMA AllocateTable ==
  ASSUME NEW r \in Host!Named
  PROVE  /\ Host!Allocate(r) \in Seq(PlanSteps) /\ Len(Host!Allocate(r)) = 3
         /\ Host!Allocate(r)[1] = Host!Step("absence_check", r)
         /\ Host!Allocate(r)[2] = Host!Step("create", r)
         /\ Host!Allocate(r)[3] = Host!Step("inspect", r)
<1> DEFINE x == Host!Step("absence_check", r)
           y == Host!Step("create", r)
           z == Host!Step("inspect", r)
<1>1. x \in PlanSteps /\ y \in PlanSteps /\ z \in PlanSteps
  BY StepType DEF Kinds, Targets, Host!Parts
<1>2. Host!Allocate(r) = <<x, y, z>>
  BY DEF Host!Allocate
<1> HIDE DEF x, y, z
<1>3. <<x, y, z>> \in Seq(PlanSteps)
  BY <1>1
<1> QED
  BY <1>2, <1>3 DEF x, y, z

LEMMA ExecuteTable ==
  ASSUME NEW t \in {"roles", "database", "schema_acl", "observation"}
  PROVE  /\ Host!Execute(t) \in Seq(PlanSteps) /\ Len(Host!Execute(t)) = 3
         /\ Host!Execute(t)[1] = Host!Step("exec_create", t)
         /\ Host!Execute(t)[2] = Host!Step("exec_inspect", t)
         /\ Host!Execute(t)[3] = Host!Step("exec_start", t)
<1> DEFINE x == Host!Step("exec_create", t)
           y == Host!Step("exec_inspect", t)
           z == Host!Step("exec_start", t)
<1>1. x \in PlanSteps /\ y \in PlanSteps /\ z \in PlanSteps
  BY StepType DEF Kinds, Targets, Host!Parts, Host!Databases
<1>2. Host!Execute(t) = <<x, y, z>>
  BY DEF Host!Execute
<1> HIDE DEF x, y, z
<1>3. <<x, y, z>> \in Seq(PlanSteps)
  BY <1>1
<1> QED
  BY <1>2, <1>3 DEF x, y, z

LEMMA FinallyTable ==
  /\ Host!Finally \in Seq(PlanSteps) /\ Len(Host!Finally) = 4
  /\ Host!Finally[1] = Host!Step("final_inspect", "primary_network")
  /\ Host!Finally[2] = Host!Step("final_inspect", "restore_network")
  /\ Host!Finally[3] = Host!Step("final_inspect", "primary_cache_volume")
  /\ Host!Finally[4] = Host!Step("final_inspect", "restore_cache_volume")
<1> DEFINE w == Host!Step("final_inspect", "primary_network")
           x == Host!Step("final_inspect", "restore_network")
           y == Host!Step("final_inspect", "primary_cache_volume")
           z == Host!Step("final_inspect", "restore_cache_volume")
<1>1. w \in PlanSteps /\ x \in PlanSteps /\ y \in PlanSteps /\ z \in PlanSteps
  BY StepType DEF Kinds, Targets, Host!Parts, Host!Named, Host!Networks, Host!Volumes
<1>2. Host!Finally = <<w, x, y, z>>
  BY DEF Host!Finally
<1> HIDE DEF w, x, y, z
<1>3. <<w, x, y, z>> \in Seq(PlanSteps)
  BY <1>1
<1> QED
  BY <1>2, <1>3 DEF w, x, y, z

LEMMA PreliminaryTable ==
  /\ Host!Preliminary \in Seq(PlanSteps) /\ Len(Host!Preliminary) = 9
  /\ \A i \in 1..9 : Host!Preliminary[i].kind \in PreliminaryKinds
<1> DEFINE a == Host!Step("engine_ping", "engine")
           b == Host!Step("engine_version", "engine")
           c == Host!Step("engine_info", "engine")
           d == Host!Step("image_inspect", "control_image")
           e == Host!Step("image_manifest_inspect", "control_image")
           f == Host!Step("container_inspect", "control_postgres")
           g == Host!Step("binary_exec_create", "control_postgres")
           h == Host!Step("binary_exec_inspect", "control_postgres")
           j == Host!Step("binary_exec_start", "control_postgres")
<1>1. /\ a \in PlanSteps /\ a.kind \in PreliminaryKinds
      /\ b \in PlanSteps /\ b.kind \in PreliminaryKinds
      /\ c \in PlanSteps /\ c.kind \in PreliminaryKinds
      /\ d \in PlanSteps /\ d.kind \in PreliminaryKinds
      /\ e \in PlanSteps /\ e.kind \in PreliminaryKinds
      /\ f \in PlanSteps /\ f.kind \in PreliminaryKinds
      /\ g \in PlanSteps /\ g.kind \in PreliminaryKinds
      /\ h \in PlanSteps /\ h.kind \in PreliminaryKinds
      /\ j \in PlanSteps /\ j.kind \in PreliminaryKinds
  BY StepType DEF Kinds, Targets, PreliminaryKinds
<1>2. Host!Preliminary = <<a, b, c, d, e, f, g, h, j>>
  BY DEF Host!Preliminary
<1> HIDE DEF a, b, c, d, e, f, g, h, j
<1>3. <<a, b, c, d, e, f, g, h, j>> \in Seq(PlanSteps)
  BY <1>1
<1> QED
  BY <1>1, <1>2, <1>3

\* Where the parts of a concatenation are, m and n steps long.
Joins(u, s, t, m, n) ==
  /\ u \in Seq(PlanSteps) /\ Len(u) = m + n
  /\ \A i \in 1..m : u[i] = s[i]
  /\ \A i \in (m + 1)..(m + n) : u[i] = t[i - m]

LEMMA Joined ==
  ASSUME NEW s \in Seq(PlanSteps), NEW t \in Seq(PlanSteps)
  PROVE  Joins(s \o t, s, t, Len(s), Len(t))
BY DEF Joins

LEMMA AllocatePostgresTable ==
  /\ Host!AllocatePostgres \in Seq(PlanSteps) /\ Len(Host!AllocatePostgres) = 12
  /\ Host!AllocatePostgres[1] = Host!Execute("roles")[1]
  /\ Host!AllocatePostgres[2] = Host!Execute("roles")[2]
  /\ Host!AllocatePostgres[3] = Host!Execute("roles")[3]
  /\ Host!AllocatePostgres[4] = Host!Execute("database")[1]
  /\ Host!AllocatePostgres[5] = Host!Execute("database")[2]
  /\ Host!AllocatePostgres[6] = Host!Execute("database")[3]
  /\ Host!AllocatePostgres[7] = Host!Execute("schema_acl")[1]
  /\ Host!AllocatePostgres[8] = Host!Execute("schema_acl")[2]
  /\ Host!AllocatePostgres[9] = Host!Execute("schema_acl")[3]
  /\ Host!AllocatePostgres[10] = Host!Execute("observation")[1]
  /\ Host!AllocatePostgres[11] = Host!Execute("observation")[2]
  /\ Host!AllocatePostgres[12] = Host!Execute("observation")[3]
<1> DEFINE w == Host!Execute("roles")
           x == Host!Execute("database")
           y == Host!Execute("schema_acl")
           z == Host!Execute("observation")
           u1 == w \o x  u2 == u1 \o y  u3 == u2 \o z
<1>1. /\ w \in Seq(PlanSteps) /\ Len(w) = 3 /\ x \in Seq(PlanSteps) /\ Len(x) = 3
      /\ y \in Seq(PlanSteps) /\ Len(y) = 3 /\ z \in Seq(PlanSteps) /\ Len(z) = 3
  BY ExecuteTable
<1>2. Host!AllocatePostgres = u3
  BY DEF Host!AllocatePostgres
<1> HIDE DEF w, x, y, z
<1>j1. Joins(u1, w, x, 3, 3)
  BY <1>1, Joined
<1> HIDE DEF u1
<1>u1. /\ u1 \in Seq(PlanSteps) /\ Len(u1) = 6
       /\ \A i \in 1..3 : u1[i] = w[i]
       /\ \A i \in 4..6 : u1[i] = x[i - 3]
  BY <1>j1 DEF Joins
<1>j2. Joins(u2, u1, y, 6, 3)
  BY <1>u1, <1>1, Joined
<1> HIDE DEF u2
<1>u2. /\ u2 \in Seq(PlanSteps) /\ Len(u2) = 9
       /\ \A i \in 1..6 : u2[i] = u1[i]
       /\ \A i \in 7..9 : u2[i] = y[i - 6]
  BY <1>j2 DEF Joins
<1>j3. Joins(u3, u2, z, 9, 3)
  BY <1>u2, <1>1, Joined
<1> HIDE DEF u3
<1>u3. /\ u3 \in Seq(PlanSteps) /\ Len(u3) = 12
       /\ \A i \in 1..9 : u3[i] = u2[i]
       /\ \A i \in 10..12 : u3[i] = z[i - 9]
  BY <1>j3 DEF Joins
<1>3. /\ u3[1] = w[1] /\ u3[2] = w[2]
      /\ u3[3] = w[3] /\ u3[4] = x[1]
      /\ u3[5] = x[2] /\ u3[6] = x[3]
      /\ u3[7] = y[1] /\ u3[8] = y[2]
      /\ u3[9] = y[3] /\ u3[10] = z[1]
      /\ u3[11] = z[2] /\ u3[12] = z[3]
  BY <1>u1, <1>u2, <1>u3
<1> QED
  BY <1>u3, <1>2, <1>3 DEF w, x, y, z

LEMMA PlanParts ==
  /\ Len(Host!Plan) = 37
  /\ \A i \in 1..9 : Host!Plan[i] = Host!Preliminary[i]
  /\ Host!Plan[10] = Host!Allocate("primary_network")[1]
  /\ Host!Plan[11] = Host!Allocate("primary_network")[2]
  /\ Host!Plan[12] = Host!Allocate("primary_network")[3]
  /\ Host!Plan[13] = Host!Allocate("restore_network")[1]
  /\ Host!Plan[14] = Host!Allocate("restore_network")[2]
  /\ Host!Plan[15] = Host!Allocate("restore_network")[3]
  /\ Host!Plan[16] = Host!Allocate("primary_cache_volume")[1]
  /\ Host!Plan[17] = Host!Allocate("primary_cache_volume")[2]
  /\ Host!Plan[18] = Host!Allocate("primary_cache_volume")[3]
  /\ Host!Plan[19] = Host!Allocate("restore_cache_volume")[1]
  /\ Host!Plan[20] = Host!Allocate("restore_cache_volume")[2]
  /\ Host!Plan[21] = Host!Allocate("restore_cache_volume")[3]
  /\ Host!Plan[22] = Host!AllocatePostgres[1] /\ Host!Plan[23] = Host!AllocatePostgres[2]
  /\ Host!Plan[24] = Host!AllocatePostgres[3] /\ Host!Plan[25] = Host!AllocatePostgres[4]
  /\ Host!Plan[26] = Host!AllocatePostgres[5] /\ Host!Plan[27] = Host!AllocatePostgres[6]
  /\ Host!Plan[28] = Host!AllocatePostgres[7] /\ Host!Plan[29] = Host!AllocatePostgres[8]
  /\ Host!Plan[30] = Host!AllocatePostgres[9] /\ Host!Plan[31] = Host!AllocatePostgres[10]
  /\ Host!Plan[32] = Host!AllocatePostgres[11] /\ Host!Plan[33] = Host!AllocatePostgres[12]
  /\ Host!Plan[34] = Host!Finally[1] /\ Host!Plan[35] = Host!Finally[2]
  /\ Host!Plan[36] = Host!Finally[3] /\ Host!Plan[37] = Host!Finally[4]
<1> DEFINE w == Host!Allocate("primary_network")  x == Host!Allocate("restore_network")
           y == Host!Allocate("primary_cache_volume")  z == Host!Allocate("restore_cache_volume")
           u1 == Host!Preliminary \o w
           u2 == u1 \o x
           u3 == u2 \o y
           u4 == u3 \o z
           u5 == u4 \o Host!AllocatePostgres
           u6 == u5 \o Host!Finally
<1>1. /\ w \in Seq(PlanSteps) /\ Len(w) = 3 /\ x \in Seq(PlanSteps) /\ Len(x) = 3
      /\ y \in Seq(PlanSteps) /\ Len(y) = 3 /\ z \in Seq(PlanSteps) /\ Len(z) = 3
  BY AllocateTable DEF Host!Named, Host!Networks, Host!Volumes
<1>2. Host!Plan = u6
  BY DEF Host!Plan
<1>3. /\ Host!Preliminary \in Seq(PlanSteps) /\ Len(Host!Preliminary) = 9
      /\ Host!AllocatePostgres \in Seq(PlanSteps) /\ Len(Host!AllocatePostgres) = 12
      /\ Host!Finally \in Seq(PlanSteps) /\ Len(Host!Finally) = 4
  BY PreliminaryTable, AllocatePostgresTable, FinallyTable
<1> HIDE DEF w, x, y, z
<1>j1. Joins(u1, Host!Preliminary, w, 9, 3)
  BY <1>3, <1>1, Joined
<1> HIDE DEF u1
<1>u1. u1 \in Seq(PlanSteps) /\ Len(u1) = 12
  BY <1>j1 DEF Joins
<1>a1. \A i \in 1..9 : u1[i] = Host!Preliminary[i]
  BY <1>j1 DEF Joins
<1>b1. \A i \in 10..12 : u1[i] = w[i - 9]
  BY <1>j1 DEF Joins
<1>j2. Joins(u2, u1, x, 12, 3)
  BY <1>u1, <1>1, Joined
<1> HIDE DEF u2
<1>u2. u2 \in Seq(PlanSteps) /\ Len(u2) = 15
  BY <1>j2 DEF Joins
<1>a2. \A i \in 1..12 : u2[i] = u1[i]
  BY <1>j2 DEF Joins
<1>b2. \A i \in 13..15 : u2[i] = x[i - 12]
  BY <1>j2 DEF Joins
<1>j3. Joins(u3, u2, y, 15, 3)
  BY <1>u2, <1>1, Joined
<1> HIDE DEF u3
<1>u3. u3 \in Seq(PlanSteps) /\ Len(u3) = 18
  BY <1>j3 DEF Joins
<1>a3. \A i \in 1..15 : u3[i] = u2[i]
  BY <1>j3 DEF Joins
<1>b3. \A i \in 16..18 : u3[i] = y[i - 15]
  <2>1. \A i \in (15 + 1)..(15 + 3) : u3[i] = y[i - 15]
    BY <1>j3 DEF Joins
  <2> QED
    BY <2>1
<1>j4. Joins(u4, u3, z, 18, 3)
  BY <1>u3, <1>1, Joined
<1> HIDE DEF u4
<1>u4. u4 \in Seq(PlanSteps) /\ Len(u4) = 21
  BY <1>j4 DEF Joins
<1>a4. \A i \in 1..18 : u4[i] = u3[i]
  BY <1>j4 DEF Joins
<1>b4. \A i \in 19..21 : u4[i] = z[i - 18]
  <2>1. \A i \in (18 + 1)..(18 + 3) : u4[i] = z[i - 18]
    BY <1>j4 DEF Joins
  <2> QED
    BY <2>1
<1>j5. Joins(u5, u4, Host!AllocatePostgres, 21, 12)
  BY <1>u4, <1>3, Joined
<1> HIDE DEF u5
<1>u5. u5 \in Seq(PlanSteps) /\ Len(u5) = 33
  BY <1>j5 DEF Joins
<1>a5. \A i \in 1..21 : u5[i] = u4[i]
  BY <1>j5 DEF Joins
<1>b5. \A i \in 22..33 : u5[i] = Host!AllocatePostgres[i - 21]
  <2>1. \A i \in (21 + 1)..(21 + 12) : u5[i] = Host!AllocatePostgres[i - 21]
    BY <1>j5 DEF Joins
  <2> QED
    BY <2>1
<1>j6. Joins(u6, u5, Host!Finally, 33, 4)
  BY <1>u5, <1>3, Joined
<1> HIDE DEF u6
<1>u6. u6 \in Seq(PlanSteps) /\ Len(u6) = 37
  BY <1>j6 DEF Joins
<1>a6. \A i \in 1..33 : u6[i] = u5[i]
  BY <1>j6 DEF Joins
<1>b6. \A i \in 34..37 : u6[i] = Host!Finally[i - 33]
  <2>1. \A i \in (33 + 1)..(33 + 4) : u6[i] = Host!Finally[i - 33]
    BY <1>j6 DEF Joins
  <2> QED
    BY <2>1
<1>4. \A i \in 1..21 : u6[i] = u4[i]
  BY <1>a6, <1>a5
<1>5. \A i \in 1..15 : u6[i] = u2[i]
  BY <1>4, <1>a4, <1>a3
<1>6. \A i \in 1..9 : u6[i] = Host!Preliminary[i]
  BY <1>5, <1>a2, <1>a1
<1>7. u6[10] = w[1] /\ u6[11] = w[2] /\ u6[12] = w[3]
  BY <1>5, <1>a2, <1>b1
<1>8. u6[13] = x[1] /\ u6[14] = x[2] /\ u6[15] = x[3]
  BY <1>5, <1>b2
<1>9. u6[16] = y[1] /\ u6[17] = y[2] /\ u6[18] = y[3]
  BY <1>4, <1>a4, <1>b3
<1>10. u6[19] = z[1] /\ u6[20] = z[2] /\ u6[21] = z[3]
  BY <1>4, <1>b4
<1>11. /\ u6[22] = Host!AllocatePostgres[1] /\ u6[23] = Host!AllocatePostgres[2]
       /\ u6[24] = Host!AllocatePostgres[3] /\ u6[25] = Host!AllocatePostgres[4]
       /\ u6[26] = Host!AllocatePostgres[5] /\ u6[27] = Host!AllocatePostgres[6]
       /\ u6[28] = Host!AllocatePostgres[7] /\ u6[29] = Host!AllocatePostgres[8]
       /\ u6[30] = Host!AllocatePostgres[9] /\ u6[31] = Host!AllocatePostgres[10]
       /\ u6[32] = Host!AllocatePostgres[11] /\ u6[33] = Host!AllocatePostgres[12]
  BY <1>a6, <1>b5
<1>12. /\ u6[34] = Host!Finally[1]
       /\ u6[35] = Host!Finally[2]
       /\ u6[36] = Host!Finally[3]
       /\ u6[37] = Host!Finally[4]
  BY <1>b6
<1> QED
  BY <1>u6, <1>2, <1>6, <1>7, <1>8, <1>9, <1>10, <1>11, <1>12 DEF w, x, y, z

\* Where the plan creates and inspects a network, makes a part of the
\* database, observes it, and inspects a network for the last time.
CreateAt(p) == IF p = "primary_network" THEN 11 ELSE 14
InspectAt(p) == CreateAt(p) + 1
MakeAt(d) == IF d = "roles" THEN 24 ELSE IF d = "database" THEN 27 ELSE 30
ObserveAt == 33
FinalAt(p) == IF p = "primary_network" THEN 34 ELSE 35

LEMMA PlanAt ==
  /\ Len(Host!Plan) = 37
  /\ \A i \in 1..9 : Host!Plan[i].kind \in PreliminaryKinds
  /\ Host!Plan[10] = Host!Step("absence_check", "primary_network")
  /\ Host!Plan[11] = Host!Step("create", "primary_network")
  /\ Host!Plan[12] = Host!Step("inspect", "primary_network")
  /\ Host!Plan[13] = Host!Step("absence_check", "restore_network")
  /\ Host!Plan[14] = Host!Step("create", "restore_network")
  /\ Host!Plan[15] = Host!Step("inspect", "restore_network")
  /\ Host!Plan[16] = Host!Step("absence_check", "primary_cache_volume")
  /\ Host!Plan[17] = Host!Step("create", "primary_cache_volume")
  /\ Host!Plan[18] = Host!Step("inspect", "primary_cache_volume")
  /\ Host!Plan[19] = Host!Step("absence_check", "restore_cache_volume")
  /\ Host!Plan[20] = Host!Step("create", "restore_cache_volume")
  /\ Host!Plan[21] = Host!Step("inspect", "restore_cache_volume")
  /\ Host!Plan[22] = Host!Step("exec_create", "roles")
  /\ Host!Plan[23] = Host!Step("exec_inspect", "roles")
  /\ Host!Plan[24] = Host!Step("exec_start", "roles")
  /\ Host!Plan[25] = Host!Step("exec_create", "database")
  /\ Host!Plan[26] = Host!Step("exec_inspect", "database")
  /\ Host!Plan[27] = Host!Step("exec_start", "database")
  /\ Host!Plan[28] = Host!Step("exec_create", "schema_acl")
  /\ Host!Plan[29] = Host!Step("exec_inspect", "schema_acl")
  /\ Host!Plan[30] = Host!Step("exec_start", "schema_acl")
  /\ Host!Plan[31] = Host!Step("exec_create", "observation")
  /\ Host!Plan[32] = Host!Step("exec_inspect", "observation")
  /\ Host!Plan[33] = Host!Step("exec_start", "observation")
  /\ Host!Plan[34] = Host!Step("final_inspect", "primary_network")
  /\ Host!Plan[35] = Host!Step("final_inspect", "restore_network")
  /\ Host!Plan[36] = Host!Step("final_inspect", "primary_cache_volume")
  /\ Host!Plan[37] = Host!Step("final_inspect", "restore_cache_volume")
<1>4. /\ "primary_network" \in Host!Named /\ "restore_network" \in Host!Named
      /\ "primary_cache_volume" \in Host!Named /\ "restore_cache_volume" \in Host!Named
  BY DEF Host!Named, Host!Networks, Host!Volumes
<1>5. \A i \in 1..9 : Host!Plan[i].kind \in PreliminaryKinds
  BY PlanParts, PreliminaryTable
<1> QED
  BY <1>4, <1>5, PlanParts, AllocateTable, AllocatePostgresTable, ExecuteTable, FinallyTable

\* Which steps are of a kind.
LEMMA PlanKinds ==
  ASSUME NEW i \in 1..37
  PROVE  /\ Host!Plan[i].kind = "absence_check" =>
              /\ i \in {10, 13, 16, 19}
              /\ i = 10 => Host!Plan[i].target = "primary_network"
              /\ i = 13 => Host!Plan[i].target = "restore_network"
         /\ Host!Plan[i].kind = "inspect" =>
              /\ i \in {12, 15, 18, 21} /\ Host!Plan[i].target \in Host!Named
              /\ i = 12 => Host!Plan[i].target = "primary_network"
              /\ i = 15 => Host!Plan[i].target = "restore_network"
              /\ i \in {18, 21} => Host!Plan[i].target \in Host!Volumes
         /\ Host!Plan[i].kind = "exec_start" /\ Host!Plan[i].target = "observation" => i = 33
         /\ Host!Plan[i].kind = "final_inspect" =>
              /\ i \in {34, 35, 36, 37}
              /\ i = 34 => Host!Plan[i].target = "primary_network"
              /\ i = 35 => Host!Plan[i].target = "restore_network"
         /\ Host!Plan[i].kind \in PreliminaryKinds \cup {"exec_create", "exec_inspect"} =>
              i \in 1..9 \cup {22, 23, 25, 26, 28, 29, 31, 32}
         /\ Host!Making(Host!Plan[i]) <=> i \in {11, 14, 17, 20, 24, 27, 30}
         /\ i = 11 => Host!Plan[i].target = "primary_network"
         /\ i = 14 => Host!Plan[i].target = "restore_network"
         /\ i \in {17, 20} => Host!Plan[i].target \in Host!Volumes
         /\ i = 24 => Host!Plan[i].target = "roles"
         /\ i = 27 => Host!Plan[i].target = "database"
         /\ i = 30 => Host!Plan[i].target = "schema_acl"
<1>1. CASE i \in 1..9
  BY <1>1, PlanAt DEF PreliminaryKinds, Host!Making
<1>2. CASE i \in 10..21
  BY <1>2, PlanAt
  DEF PreliminaryKinds, Host!Making, Host!Step, Host!Named, Host!Networks, Host!Volumes
<1>3. CASE i \in 22..37
  BY <1>3, PlanAt DEF PreliminaryKinds, Host!Making, Host!Step
<1> QED
  BY <1>1, <1>2, <1>3

-----------------------------------------------------------------------------
(* Types *)

Sessions == [attempt : Host!Makers, next : 0..38, waiting : BOOLEAN]
Reviews ==
  [next : Host!Named \cup {"none", "presence", "schema_presence", "observation"},
   names : SUBSET Host!Named, verdict : {"none", "absent", "partial", "complete"}]
Receipts ==
  [parts : [Host!Parts -> Host!Makers], witness : [Host!Parts -> Host!Makers],
                                                   removed : SUBSET Host!Parts, given : BOOLEAN]

\* The requests on their way, of allocations that were begun, and the step a
\* session waits at.
MakingSteps == {11, 14, 17, 20, 24, 27, 30}
PendingInv ==
  /\ serving.attempt = Host!None => serving = Host!NoSession
  /\ \A a \in Attempts :
       /\ pending[a] \in {0} \cup MakingSteps
       /\ pending[a] # 0 => a \in begun
       /\ serving.attempt = a =>
            /\ a \in begun /\ serving.next \in 1..38
            /\ pending[a] = IF serving.waiting THEN serving.next ELSE 0

\* TypeOK, with the plan measured.
BackendTypes ==
  /\ there \in [Host!Parts -> Host!Makers]
  /\ seen \in [Host!Parts -> Host!Makers]
  /\ witness \in [Host!Parts -> Host!Makers]
  /\ begun \subseteq Attempts
  /\ serving \in Sessions
  /\ pending \in [Attempts -> 0..37]
  /\ receipts \in [Attempts -> Receipts]
  /\ removed \subseteq Host!Parts
  /\ removals \in 0..MaxRemovals
  /\ review \in Reviews
  /\ changed \in BOOLEAN

LEMMA TypesAreTypeOK == BackendTypes <=> Host!TypeOK
BY PlanAt DEF BackendTypes, Host!TypeOK, Sessions, Reviews, Receipts

LEMMA TypesAreTypeOKNext == BackendTypes' <=> Host!TypeOK'
BY PlanAt DEF BackendTypes, Host!TypeOK, Sessions, Reviews, Receipts

LEMMA FollowingTable ==
  /\ Host!Following("primary_network") = "restore_network"
  /\ Host!Following("restore_network") = "primary_cache_volume"
  /\ Host!Following("primary_cache_volume") = "restore_cache_volume"
  /\ Host!Following("restore_cache_volume") = "presence"
<1>1. /\ Host!Inspections[1] = "primary_network" /\ Host!Inspections[2] = "restore_network"
      /\ Host!Inspections[3] = "primary_cache_volume"
      /\ Host!Inspections[4] = "restore_cache_volume"
  BY DEF Host!Inspections
<1>2. /\ (CHOOSE i \in 1..4 : Host!Inspections[i] = "primary_network") = 1
      /\ (CHOOSE i \in 1..4 : Host!Inspections[i] = "restore_network") = 2
      /\ (CHOOSE i \in 1..4 : Host!Inspections[i] = "primary_cache_volume") = 3
      /\ (CHOOSE i \in 1..4 : Host!Inspections[i] = "restore_cache_volume") = 4
  BY <1>1
<1> QED
  BY <1>1, <1>2 DEF Host!Following

\* The step a session is at, when it is at one of the plan.
LEMMA AtStepIndex ==
  ASSUME BackendTypes, NEW kinds, Host!AtStep(kinds)
  PROVE  /\ serving.next \in 0..37
         /\ Host!Current = Host!Plan[serving.next]
         /\ Host!Current.kind \in kinds
         /\ serving # Host!NoSession
BY PlanAt DEF Host!AtStep, BackendTypes, Sessions, Host!Current

LEMMA BackendTypesInit == ASSUME Host!BackendAssumption, Host!Init PROVE BackendTypes
<1>1. /\ Host!Nothing \in [Host!Parts -> Host!Makers]
      /\ Host!NoSession \in Sessions
      /\ Host!NoReview \in Reviews
  BY DEF Host!Nothing, Host!Makers, Host!NoSession, Sessions, Host!NoReview, Reviews
<1>2. Host!NoReceipt \in Receipts
  BY <1>1 DEF Host!NoReceipt, Receipts
<1>3. removals \in 0..MaxRemovals
  BY DEF Host!BackendAssumption, Host!Init
<1>4. receipts \in [Attempts -> Receipts] /\ pending \in [Attempts -> 0..37]
  BY <1>2 DEF Host!Init
<1>5. changed \in BOOLEAN /\ begun \subseteq Attempts /\ removed \subseteq Host!Parts
  BY DEF Host!Init
<1> QED
  BY <1>1, <1>3, <1>4, <1>5 DEF Host!Init, BackendTypes

LEMMA Advances ==
  ASSUME BackendTypes, serving.next \in 0..37, Host!Advance
  PROVE  /\ serving' \in Sessions /\ serving'.attempt = serving.attempt
         /\ serving'.next = serving.next + 1 /\ serving'.waiting = FALSE
<1>1. serving.next + 1 \in 0..38
  OBVIOUS
<1>2. /\ serving \in Sessions
      /\ serving' = [serving EXCEPT !.next = serving.next + 1, !.waiting = FALSE]
  BY DEF BackendTypes, Host!Advance
<1> QED
  BY <1>1, <1>2 DEF Sessions

LEMMA Reviews1 ==
  ASSUME NEW n \in Host!Named \cup {"none", "presence", "schema_presence", "observation"},
         NEW s \in SUBSET Host!Named, NEW v \in {"none", "absent", "partial", "complete"},
         Host!Review(n, s, v)
  PROVE  /\ review' \in Reviews /\ review'.next = n /\ review'.names = s /\ review'.verdict = v
         /\ UNCHANGED <<there, pending, begun, serving, seen, witness, removed, receipts,
                        removals>>
BY DEF Host!Review, Reviews, Host!engine, Host!work

LEMMA MakeTypes ==
  ASSUME BackendTypes, NEW a \in Attempts, NEW parts, Host!Make(a, parts)
  PROVE  /\ there' \in [Host!Parts -> Host!Makers] /\ changed' \in BOOLEAN
         /\ \A p \in Host!Parts :
              there'[p] = IF p \in parts /\ there[p] = Host!None THEN a ELSE there[p]
         /\ changed' = FALSE => changed = FALSE /\ there' = there
<1>1. there' \in [Host!Parts -> Host!Makers] /\ there \in [Host!Parts -> Host!Makers]
  BY DEF Host!Make, BackendTypes, Host!Makers
<1>2. changed' \in BOOLEAN
  BY DEF Host!Make
<1>3. \A p \in Host!Parts :
        there'[p] = IF p \in parts /\ there[p] = Host!None THEN a ELSE there[p]
  BY DEF Host!Make
<1>4. ASSUME changed' = FALSE PROVE changed = FALSE /\ there' = there
  <2>1. changed = FALSE /\ {p \in parts : there[p] = Host!None} = {}
    BY <1>4 DEF Host!Make, BackendTypes
  <2>2. \A p \in Host!Parts : there'[p] = there[p]
    BY <2>1, <1>3
  <2> QED
    BY <1>1, <2>1, <2>2
<1> QED
  BY <1>1, <1>2, <1>3, <1>4

LEMMA VerdictType ==
  ASSUME NEW s, NEW x
  PROVE  Host!Verdict(s, x) \in {"absent", "partial", "complete"}
BY DEF Host!Verdict

LEMMA TypesServe == ASSUME Host!BackendAssumption, BackendTypes, Host!Serve PROVE BackendTypes'
<1>1. CASE Host!Check
  BY <1>1, AtStepIndex, Advances DEF Host!Check, BackendTypes, Host!engine, Host!audit
<1>2. CASE Host!CheckAbsence
  BY <1>2, AtStepIndex, Advances DEF Host!CheckAbsence, BackendTypes, Host!engine, Host!audit
<1>3. CASE Host!Inspect
  <2>1. serving' \in Sessions
    BY <1>3, AtStepIndex, Advances DEF Host!Inspect
  <2>2. seen' \in [Host!Parts -> Host!Makers]
    <3>1. serving.next \in 0..37 /\ Host!Current = Host!Plan[serving.next] /\ Host!Current.kind = "inspect"
      BY <1>3, AtStepIndex DEF Host!Inspect
    <3>2. there[Host!Current.target] \in Host!Makers \/ Host!Current.target \notin Host!Parts
      BY DEF BackendTypes
    <3> QED
      BY <1>3, <3>2 DEF Host!Inspect, BackendTypes
  <2> QED
    BY <1>3, <2>1, <2>2 DEF Host!Inspect, BackendTypes, Host!engine, Host!audit
<1>4. CASE Host!Observe
  <2>1. serving' \in Sessions
    BY <1>4, AtStepIndex, Advances DEF Host!Observe
  <2>2. seen' \in [Host!Parts -> Host!Makers] /\ witness' \in [Host!Parts -> Host!Makers]
    BY <1>4 DEF Host!Observe, BackendTypes
  <2> QED
    BY <1>4, <2>1, <2>2 DEF Host!Observe, BackendTypes, Host!engine, Host!audit
<1>5. CASE Host!FinalInspect
  BY <1>5, AtStepIndex, Advances DEF Host!FinalInspect, BackendTypes, Host!engine, Host!audit
<1>6. CASE Host!Send
  <2>1. serving' \in Sessions
    BY <1>6 DEF Host!Send, BackendTypes, Sessions
  <2>2. pending' \in [Attempts -> 0..37]
    <3>1. serving.next \in 0..37
      BY <1>6, PlanAt DEF Host!Send, BackendTypes, Sessions
    <3> QED
      BY <1>6, <3>1 DEF Host!Send, BackendTypes
  <2> QED
    BY <1>6, <2>1, <2>2 DEF Host!Send, BackendTypes, Host!audit
<1>7. CASE Host!Return
  <2>1. Host!NoSession \in Sessions
    BY DEF Host!NoSession, Sessions, Host!Makers
  <2>2. [parts |-> seen, witness |-> witness, removed |-> removed, given |-> TRUE] \in Receipts
    BY DEF BackendTypes, Receipts
  <2>3. receipts' \in [Attempts -> Receipts]
    BY <1>7, <2>2 DEF Host!Return, BackendTypes
  <2> QED
    BY <1>7, <2>1, <2>3 DEF Host!Return, BackendTypes, Host!engine, Host!audit
<1>8. CASE Host!Fail
  <2>1. Host!NoSession \in Sessions
    BY DEF Host!NoSession, Sessions, Host!Makers
  <2> QED
    BY <1>8, <2>1 DEF Host!Fail, BackendTypes, Host!engine, Host!audit
<1> QED
  BY <1>1, <1>2, <1>3, <1>4, <1>5, <1>6, <1>7, <1>8 DEF Host!Serve

LEMMA TypesReviewing == ASSUME Host!BackendAssumption, BackendTypes,
                               Host!Reviewing PROVE BackendTypes'
<1> USE DEF BackendTypes
<1>1. CASE Host!Reconcile
  <2>1. Host!Review("primary_network", {}, "none")
    BY <1>1 DEF Host!Reconcile, Host!Inspections
  <2>2. "primary_network" \in Host!Named
    BY DEF Host!Named, Host!Networks
  <2> QED
    BY <1>1, <2>1, <2>2, Reviews1 DEF Host!Reconcile
<1>2. CASE Host!ReviewNamed
  <2> DEFINE n == Host!Following(review.next)
             s == IF there[review.next] = Host!None THEN review.names
                  ELSE review.names \cup {review.next}
  <2>1. n \in Host!Named \cup {"none", "presence", "schema_presence", "observation"}
    BY <1>2, FollowingTable DEF Host!ReviewNamed, Host!Named, Host!Networks, Host!Volumes
  <2>2. s \in SUBSET Host!Named
    BY <1>2 DEF Host!ReviewNamed, Reviews
  <2> QED
    BY <1>2, <2>1, <2>2, Reviews1 DEF Host!ReviewNamed
<1>3. ASSUME NEW x, Host!Conclude(x) PROVE BackendTypes'
  <2>1. /\ Host!Review("none", review.names, Host!Verdict(review.names, x)) /\ changed' = changed
        /\ Host!Verdict(review.names, x) \in {"none", "absent", "partial", "complete"}
    BY <1>3, VerdictType DEF Host!Conclude
  <2>2. review.names \in SUBSET Host!Named
    BY DEF Reviews
  <2> QED
    BY <2>1, <2>2, Reviews1
<1>4. ASSUME NEW x \in {"schema_presence", "observation"}, Host!Review(x, review.names, "none"),
             UNCHANGED changed
      PROVE BackendTypes'
  BY <1>4, Reviews1 DEF Reviews
<1>5. CASE Host!ReviewPresence
  BY <1>5, <1>3, <1>4 DEF Host!ReviewPresence
<1>6. CASE Host!ReviewSchema
  BY <1>6, <1>3, <1>4 DEF Host!ReviewSchema
<1>7. CASE Host!ReviewObservation
  BY <1>7, <1>3 DEF Host!ReviewObservation
<1>8. CASE Host!ReviewFails
  BY <1>8, Reviews1 DEF Host!ReviewFails
<1> QED
  BY <1>1, <1>2, <1>5, <1>6, <1>7, <1>8 DEF Host!Reviewing

LEMMA TypesEngine ==
  ASSUME Host!BackendAssumption, BackendTypes, PendingInv, NEW a \in Attempts,
         Host!Perform(a) \/ Host!PerformPartly(a) \/ Host!Refuse(a)
  PROVE  BackendTypes'
<1>0. Host!NoSession \in Sessions
  BY DEF Host!NoSession, Sessions, Host!Makers
<1>1. pending' \in [Attempts -> 0..37]
  BY DEF BackendTypes, Host!Perform, Host!PerformPartly, Host!Refuse
<1>2. serving' \in Sessions
  <2>1. CASE Host!Perform(a)
    <3>1. CASE serving.attempt = a
      <4>1. serving.next \in 0..37
        BY <2>1, <3>1 DEF Host!Perform, PendingInv, MakingSteps, BackendTypes, Sessions
      <4> QED
        BY <2>1, <3>1, <4>1, Advances DEF Host!Perform
    <3> QED
      BY <2>1, <3>1 DEF Host!Perform, BackendTypes
  <2>2. CASE Host!PerformPartly(a) \/ Host!Refuse(a)
    BY <1>0, <2>2 DEF Host!PerformPartly, Host!Refuse, BackendTypes
  <2> QED
    BY <2>1, <2>2
<1>3. there' \in [Host!Parts -> Host!Makers] /\ changed' \in BOOLEAN
  BY MakeTypes DEF Host!Perform, Host!PerformPartly, Host!Refuse, BackendTypes, Host!audit
<1> QED
  BY <1>1, <1>2, <1>3 DEF Host!Perform, Host!PerformPartly, Host!Refuse, BackendTypes, Host!audit

LEMMA TypesOther ==
  ASSUME Host!BackendAssumption, BackendTypes,
         \/ \E a \in Attempts : Host!Begin(a)
         \/ \E parts \in {{p} : p \in Host!Parts} \cup {Host!Named} : Host!Remove(parts)
  PROVE  BackendTypes'
<1>1. ASSUME NEW a \in Attempts, Host!Begin(a) PROVE BackendTypes'
  <2>1. Host!Nothing \in [Host!Parts -> Host!Makers] /\ Host!NoReview \in Reviews
    BY DEF Host!Nothing, Host!Makers, Host!NoReview, Reviews
  <2>2. serving' \in Sessions
    BY <1>1 DEF Host!Begin, Sessions, Host!Makers
  <2> QED
    BY <1>1, <2>1, <2>2 DEF Host!Begin, BackendTypes, Host!engine
<1>2. ASSUME NEW parts \in {{p} : p \in Host!Parts} \cup {Host!Named},
             Host!Remove(parts) PROVE BackendTypes'
  <2>1. there' \in [Host!Parts -> Host!Makers] /\ changed' \in BOOLEAN
    BY <1>2 DEF Host!Remove, BackendTypes, Host!Makers
  <2>2. parts \subseteq Host!Parts
    BY DEF Host!Parts
  <2>3. \A p \in Host!Parts : Host!Along(p) \subseteq Host!Parts
    BY DEF Host!Along, Host!Parts, Host!Databases
  <2>4. removed' \subseteq Host!Parts
    BY <1>2, <2>2, <2>3 DEF Host!Remove, BackendTypes
  <2>5. removals' \in 0..MaxRemovals
    BY <1>2 DEF Host!Remove, BackendTypes, Host!BackendAssumption
  <2> QED
    BY <1>2, <2>1, <2>4, <2>5 DEF Host!Remove, BackendTypes
<1> QED
  BY <1>1, <1>2

LEMMA BackendTypesStep == ASSUME Host!BackendAssumption, BackendTypes, PendingInv,
                                 [Host!Next]_(Host!vars) PROVE BackendTypes'
<1>1. CASE UNCHANGED Host!vars
  BY <1>1 DEF Host!vars, BackendTypes
<1>2. CASE Host!Next
  BY <1>2, TypesServe, TypesReviewing, TypesEngine, TypesOther DEF Host!Next
<1> QED
  BY <1>1, <1>2

-----------------------------------------------------------------------------
(* Requests and sessions *)

\* A session serves an allocation that was begun.
LEMMA BeingServed ==
  ASSUME Host!BackendAssumption, BackendTypes, PendingInv, serving # Host!NoSession
  PROVE  /\ serving.attempt \in Attempts /\ serving.attempt \in begun
         /\ serving.next \in 1..38
         /\ pending[serving.attempt] = IF serving.waiting THEN serving.next ELSE 0
BY DEF BackendTypes, PendingInv, Sessions, Host!Makers

LEMMA AtStepIs ==
  ASSUME Host!BackendAssumption, BackendTypes, PendingInv, NEW kinds, Host!AtStep(kinds)
  PROVE  /\ serving # Host!NoSession /\ serving.attempt \in Attempts /\ serving.attempt \in begun
         /\ serving.next \in 1..37 /\ serving.waiting = FALSE /\ pending[serving.attempt] = 0
         /\ Host!Current = Host!Plan[serving.next] /\ Host!Plan[serving.next].kind \in kinds
<1>1. serving # Host!NoSession /\ serving.waiting \in BOOLEAN /\ serving.next \in 0..37
  BY AtStepIndex DEF BackendTypes, Sessions
<1>2. serving.waiting = FALSE
  BY <1>1 DEF Host!AtStep
<1> QED
  BY <1>1, <1>2, AtStepIndex, BeingServed

\* The calls that are one step: the session goes on.
Walk == Host!Check \/ Host!CheckAbsence \/ Host!Inspect \/ Host!Observe \/ Host!FinalInspect

LEMMA Walking ==
  ASSUME Host!BackendAssumption, BackendTypes, PendingInv, Walk
  PROVE  /\ serving # Host!NoSession /\ serving.attempt \in Attempts /\ serving.attempt \in begun
         /\ serving.next \in 1..37 /\ serving.waiting = FALSE /\ pending[serving.attempt] = 0
         /\ serving'.attempt = serving.attempt /\ serving'.next = serving.next + 1
         /\ serving'.waiting = FALSE
         /\ UNCHANGED <<there, pending, begun, receipts, removed, removals, review, changed>>
<1>1. PICK kinds : Host!AtStep(kinds)
  BY DEF Walk, Host!Check, Host!CheckAbsence, Host!Inspect, Host!Observe, Host!FinalInspect
<1>2. Host!Advance
  BY DEF Walk, Host!Check, Host!CheckAbsence, Host!Inspect, Host!Observe, Host!FinalInspect
<1>3. UNCHANGED <<there, pending, begun, receipts, removed, removals, review, changed>>
  BY DEF Walk, Host!Check, Host!CheckAbsence, Host!Inspect, Host!Observe, Host!FinalInspect,
         Host!engine, Host!audit
<1>4. /\ serving # Host!NoSession /\ serving.attempt \in Attempts /\ serving.attempt \in begun
      /\ serving.next \in 1..37 /\ serving.waiting = FALSE /\ pending[serving.attempt] = 0
  BY <1>1, AtStepIs
<1>5. serving.next \in 0..37
  BY <1>4
<1> QED
  BY <1>2, <1>3, <1>4, <1>5, Advances

\* The request is one of those that make something.
LEMMA Sending ==
  ASSUME Host!BackendAssumption, BackendTypes, PendingInv, Host!Send
  PROVE  /\ serving # Host!NoSession /\ serving.attempt \in Attempts /\ serving.attempt \in begun
         /\ serving.next \in MakingSteps /\ pending[serving.attempt] = 0
         /\ pending' = [pending EXCEPT ![serving.attempt] = serving.next]
         /\ serving' = [serving EXCEPT !.waiting = TRUE]
         /\ serving'.attempt = serving.attempt /\ serving'.next = serving.next
         /\ serving'.waiting = TRUE /\ serving' \in Sessions
<1>1. serving \in Sessions /\ serving # Host!NoSession
  BY DEF BackendTypes, Host!Send
<1>2. serving.next \in 1..37 /\ Host!Making(Host!Plan[serving.next])
  BY <1>1, BeingServed, PlanAt DEF Host!Send, Host!Current
<1>3. serving.next \in MakingSteps
  BY <1>2, PlanKinds DEF MakingSteps
<1>4. serving.waiting = FALSE
  BY <1>1 DEF Host!Send, Sessions
<1> QED
  BY <1>1, <1>3, <1>4, BeingServed DEF Host!Send, Sessions

LEMMA PendingStep ==
  ASSUME Host!BackendAssumption, BackendTypes, PendingInv, [Host!Next]_(Host!vars)
  PROVE  PendingInv'
<1>0. Host!NoSession.attempt = Host!None /\ Host!None \notin Attempts
  BY DEF Host!NoSession, Host!BackendAssumption
<1>1. CASE UNCHANGED <<serving, pending, begun>>
  BY <1>1 DEF PendingInv
<1>2. ASSUME NEW a \in Attempts, Host!Begin(a) PROVE PendingInv'
  <2>1. pending[a] = 0 /\ pending' = pending /\ begun' = begun \cup {a}
    BY <1>2 DEF Host!Begin, PendingInv, Host!engine
  <2>2. serving'.attempt = a /\ serving'.next = 1 /\ serving'.waiting = FALSE
    BY <1>2 DEF Host!Begin
  <2> QED
    BY <1>0, <2>1, <2>2 DEF PendingInv
<1>3. CASE Walk
  <2>1. /\ serving.next \in 1..37 /\ serving.waiting = FALSE
        /\ serving'.attempt = serving.attempt /\ serving'.next = serving.next + 1
        /\ serving'.waiting = FALSE /\ serving.attempt \in Attempts
        /\ pending' = pending /\ begun' = begun
    BY <1>3, Walking
  <2> QED
    BY <1>0, <2>1 DEF PendingInv
<1>4. CASE Host!Send
  <2>1. begun' = begun
    BY <1>4 DEF Host!Send
  <2>2. \A c \in Attempts : pending'[c] = IF c = serving.attempt THEN serving.next ELSE pending[c]
    BY <1>4, Sending DEF BackendTypes
  <2>3. /\ serving.attempt \in Attempts /\ serving.attempt \in begun
        /\ serving.next \in MakingSteps
        /\ serving'.attempt = serving.attempt /\ serving'.next = serving.next
        /\ serving'.waiting = TRUE
    BY <1>4, Sending
  <2>4. serving.next \in 1..38
    BY <2>3 DEF MakingSteps
  <2> QED
    BY <1>0, <2>1, <2>2, <2>3, <2>4 DEF PendingInv
<1>5. CASE Host!Return \/ Host!Fail
  BY <1>0, <1>5 DEF Host!Return, Host!Fail, PendingInv, Host!engine
<1>6. ASSUME NEW a \in Attempts,
             Host!Perform(a) \/ Host!PerformPartly(a) \/ Host!Refuse(a) PROVE PendingInv'
  <2>1. begun' = begun /\ \A c \in Attempts : pending'[c] = IF c = a THEN 0 ELSE pending[c]
    BY <1>6 DEF Host!Perform, Host!PerformPartly, Host!Refuse, BackendTypes
  <2>2. CASE serving.attempt = a
    <3>1. pending[a] # 0 /\ a \in begun /\ serving.next \in 1..38 /\ serving.waiting
          /\ serving.next \in MakingSteps
      BY <1>6, <2>2 DEF PendingInv, Host!Perform, Host!PerformPartly, Host!Refuse
    <3>2. CASE Host!Perform(a)
      <4>1. serving.next \in 0..37 /\ Host!Advance
        BY <2>2, <3>1, <3>2 DEF Host!Perform, MakingSteps
      <4>2. /\ serving'.attempt = a /\ serving'.next = serving.next + 1
            /\ serving'.waiting = FALSE
        BY <2>2, <4>1, Advances
      <4> QED
        BY <1>0, <2>1, <2>2, <3>1, <4>1, <4>2 DEF PendingInv
    <3>3. CASE Host!PerformPartly(a) \/ Host!Refuse(a)
      <4>1. serving' = Host!NoSession
        BY <2>2, <3>3 DEF Host!PerformPartly, Host!Refuse
      <4> QED
        BY <1>0, <2>1, <4>1 DEF PendingInv
    <3> QED
      BY <1>6, <3>2, <3>3
  <2>3. CASE serving.attempt # a
    <3>1. serving' = serving
      BY <1>6, <2>3 DEF Host!Perform, Host!PerformPartly, Host!Refuse
    <3> QED
      BY <2>1, <2>3, <3>1 DEF PendingInv
  <2> QED
    BY <2>2, <2>3
<1>7. ASSUME NEW parts, Host!Remove(parts) PROVE UNCHANGED <<serving, pending, begun>>
  BY <1>7 DEF Host!Remove
<1>8. CASE Host!Reviewing
  BY <1>8, <1>1
  DEF Host!Reviewing, Host!Reconcile, Host!ReviewNamed, Host!ReviewPresence, Host!ReviewSchema,
      Host!ReviewObservation, Host!ReviewFails, Host!Conclude, Host!Review, Host!engine, Host!work
<1> QED
  BY <1>1, <1>2, <1>3, <1>4, <1>5, <1>6, <1>7, <1>8 DEF Host!Next, Host!Serve, Walk, Host!vars

\* Grants are in a schema, a schema in a database, and roles own a database.
DatabaseInv ==
  /\ there["grants"] # Host!None => there["schema"] # Host!None
  /\ there["schema"] # Host!None => there["database"] # Host!None
  /\ there["database"] # Host!None => there["roles"] # Host!None

\* What the engine makes, it makes where there is nothing.
Sets(q, a) == \A p \in Host!Parts : there'[p] = IF p = q THEN a ELSE there[p]

LEMMA Makes ==
  ASSUME Host!BackendAssumption, BackendTypes, PendingInv, NEW a \in Attempts, Host!Perform(a)
  PROVE  LET i == pending[a] IN
         /\ i \in MakingSteps /\ a \in begun
         /\ i = 11 => there["primary_network"] = Host!None /\ Sets("primary_network", a)
         /\ i = 14 => there["restore_network"] = Host!None /\ Sets("restore_network", a)
         /\ i \in {17, 20} => \A p \in Host!Networks \cup Host!Databases : there'[p] = there[p]
         /\ i = 24 => there["roles"] = Host!None /\ Sets("roles", a)
         /\ i = 27 => /\ there["roles"] # Host!None /\ there["database"] = Host!None
                      /\ Sets("database", a)
         /\ i = 30 => /\ there["database"] # Host!None /\ there["schema"] = Host!None /\ there'["schema"] = a
                      /\ there'["grants"] = IF there["grants"] = Host!None THEN a ELSE there["grants"]
                      /\ \A p \in Host!Parts \ {"schema", "grants"} : there'[p] = there[p]
<1> DEFINE i == pending[a]  s == Host!Plan[i]
<1>1. i \in MakingSteps /\ a \in begun /\ i \in 1..37
  BY DEF PendingInv, Host!Perform, MakingSteps
<1>2. /\ Host!Accepts(s)
      /\ there \in [Host!Parts -> Host!Makers]
      /\ there' \in [Host!Parts -> Host!Makers]
      /\ \A p \in Host!Parts :
           there'[p] = IF p \in Host!Made(s) /\ there[p] = Host!None THEN a ELSE there[p]
  BY MakeTypes DEF Host!Perform, BackendTypes
<1>3. /\ i = 11 => s.target = "primary_network"
      /\ i = 14 => s.target = "restore_network"
      /\ i \in {17, 20} => s.target \in Host!Volumes
      /\ i = 24 => s.target = "roles"
      /\ i = 27 => s.target = "database"
      /\ i = 30 => s.target = "schema_acl"
  BY <1>1, PlanKinds
<1> HIDE DEF i, s
<1>n. /\ "primary_network" \in Host!Parts
      /\ "restore_network" \in Host!Parts
      /\ Host!Databases \subseteq Host!Parts
  BY DEF Host!Parts, Host!Named, Host!Networks
<1>4. CASE i = 11
  <2>1. s.target = "primary_network"
    BY <1>3, <1>4
  <2>2. Host!Made(s) = {"primary_network"}
    BY <2>1 DEF Host!Made
  <2>3. there["primary_network"] = Host!None
    BY <1>2, <2>1 DEF Host!Accepts, Host!Networks, Host!Volumes
  <2>4. Sets("primary_network", a)
    BY <1>2, <2>2, <2>3 DEF Sets
  <2> QED
    BY <1>1, <1>4, <2>3, <2>4 DEF i
<1>5. CASE i = 14
  <2>1. s.target = "restore_network"
    BY <1>3, <1>5
  <2>2. Host!Made(s) = {"restore_network"}
    BY <2>1 DEF Host!Made
  <2>3. there["restore_network"] = Host!None
    BY <1>2, <2>1 DEF Host!Accepts, Host!Networks, Host!Volumes
  <2>4. Sets("restore_network", a)
    BY <1>2, <2>2, <2>3 DEF Sets
  <2> QED
    BY <1>1, <1>5, <2>3, <2>4 DEF i
<1>6. CASE i \in {17, 20}
  <2>1. s.target \in Host!Volumes
    BY <1>3, <1>6
  <2>2. Host!Made(s) \cap (Host!Networks \cup Host!Databases) = {}
    BY <2>1 DEF Host!Made, Host!Volumes, Host!Networks, Host!Databases
  <2>3. \A p \in Host!Networks \cup Host!Databases : there'[p] = there[p]
    BY <1>2, <2>2 DEF Host!Parts, Host!Named
  <2> QED
    BY <1>1, <1>6, <2>3 DEF i
<1>7. CASE i = 24
  <2>1. s.target = "roles"
    BY <1>3, <1>7
  <2>2. Host!Made(s) = {"roles"}
    BY <2>1 DEF Host!Made
  <2>3. there["roles"] = Host!None
    BY <1>2, <2>1 DEF Host!Accepts, Host!Networks, Host!Volumes
  <2>4. Sets("roles", a)
    BY <1>2, <2>2, <2>3 DEF Sets
  <2> QED
    BY <1>1, <1>7, <2>3, <2>4 DEF i
<1>8. CASE i = 27
  <2>1. s.target = "database"
    BY <1>3, <1>8
  <2>2. Host!Made(s) = {"database"}
    BY <2>1 DEF Host!Made
  <2>3. there["database"] = Host!None /\ there["roles"] # Host!None
    BY <1>2, <2>1 DEF Host!Accepts, Host!Networks, Host!Volumes
  <2>4. Sets("database", a)
    BY <1>2, <2>2, <2>3 DEF Sets
  <2> QED
    BY <1>1, <1>8, <2>3, <2>4 DEF i
<1>9. CASE i = 30
  <2>1. s.target = "schema_acl"
    BY <1>3, <1>9
  <2>2. Host!Made(s) = {"schema", "grants"}
    BY <2>1 DEF Host!Made
  <2>3. there["database"] # Host!None /\ there["schema"] = Host!None
    BY <1>2, <2>1 DEF Host!Accepts, Host!Networks, Host!Volumes
  <2>4. "schema" \in Host!Parts /\ "grants" \in Host!Parts
    BY DEF Host!Parts, Host!Databases
  <2> QED
    BY <1>1, <1>2, <1>9, <2>2, <2>3, <2>4 DEF i
<1> QED
  BY <1>1, <1>4, <1>5, <1>6, <1>7, <1>8, <1>9 DEF i, MakingSteps

LEMMA MakesPartly ==
  ASSUME Host!BackendAssumption, BackendTypes, PendingInv, NEW a \in Attempts,
         Host!PerformPartly(a)
  PROVE  there["database"] # Host!None /\ there["schema"] = Host!None /\ Sets("schema", a)
<1> DEFINE s == Host!Plan[pending[a]]
<1>1. /\ Host!Accepts(s) /\ s.target = "schema_acl"
      /\ \A p \in Host!Parts :
           there'[p] = IF p \in {"schema"} /\ there[p] = Host!None THEN a ELSE there[p]
  BY MakeTypes DEF Host!PerformPartly
<1> HIDE DEF s
<1>2. there["database"] # Host!None /\ there["schema"] = Host!None
  BY <1>1 DEF Host!Accepts, Host!Networks, Host!Volumes
<1> QED
  BY <1>1, <1>2 DEF Sets

\* Parts that go with others go with them; roles go last.
LEMMA Removing ==
  ASSUME NEW parts \in {{p} : p \in Host!Parts} \cup {Host!Named}, Host!Remove(parts)
  PROVE  \E gone \in SUBSET Host!Parts :
           /\ \A p \in Host!Parts : there'[p] = IF p \in gone THEN Host!None ELSE there[p]
           /\ removed' = removed \cup gone
           /\ "roles" \in gone => there["database"] = Host!None
           /\ "database" \in gone => {"schema", "grants"} \subseteq gone
           /\ "schema" \in gone => "grants" \in gone
<1> DEFINE gone == UNION {Host!Along(p) : p \in parts}
<1>1. parts \subseteq Host!Parts
  BY DEF Host!Parts
<1>2. \A p \in Host!Parts : Host!Along(p) \subseteq Host!Parts
  BY DEF Host!Along, Host!Parts, Host!Databases
<1>3. gone \subseteq Host!Parts
  BY <1>1, <1>2
<1>4. /\ \A p \in Host!Parts : there'[p] = IF p \in gone THEN Host!None ELSE there[p]
      /\ removed' = removed \cup gone
  BY DEF Host!Remove
<1>5. "roles" \in gone => there["database"] = Host!None
  BY <1>1 DEF Host!Remove, Host!Along
<1>6. "database" \in gone => {"schema", "grants"} \subseteq gone
  <2>1. \A p \in Host!Parts :
          "database" \in Host!Along(p) => {"schema", "grants"} \subseteq Host!Along(p)
    BY DEF Host!Along
  <2> QED
    BY <1>1, <2>1
<1>7. "schema" \in gone => "grants" \in gone
  <2>1. \A p \in Host!Parts : "schema" \in Host!Along(p) => "grants" \in Host!Along(p)
    BY DEF Host!Along
  <2> QED
    BY <1>1, <2>1
<1> HIDE DEF gone
<1> QED
  BY <1>3, <1>4, <1>5, <1>6, <1>7

\* The reconciliation only reads.
LEMMA Reads ==
  ASSUME Host!Reviewing
  PROVE  UNCHANGED <<there, pending, begun, serving, seen, witness, removed, receipts, removals>>
BY DEF Host!Reviewing, Host!Reconcile, Host!ReviewNamed, Host!ReviewPresence, Host!ReviewSchema,
       Host!ReviewObservation, Host!ReviewFails, Host!Conclude, Host!Review, Host!engine,
       Host!work

LEMMA DatabaseStep ==
  ASSUME Host!BackendAssumption, BackendTypes, PendingInv, DatabaseInv, [Host!Next]_(Host!vars)
  PROVE  DatabaseInv'
<1>0. Host!Databases \subseteq Host!Parts /\ Host!None \notin Attempts
  BY DEF Host!Parts, Host!BackendAssumption
<1>1. CASE there' = there
  BY <1>1 DEF DatabaseInv
<1>2. ASSUME NEW a \in Attempts, Host!Perform(a) PROVE DatabaseInv'
  <2>1. CASE pending[a] \in {11, 14}
    <3>1. \A p \in Host!Databases : there'[p] = there[p]
      BY <1>0, <1>2, <2>1, Makes DEF Sets, Host!Databases
    <3> QED
      BY <3>1 DEF DatabaseInv, Host!Databases
  <2>2. CASE pending[a] \in {17, 20}
    <3>1. \A p \in Host!Databases : there'[p] = there[p]
      BY <1>2, <2>2, Makes
    <3> QED
      BY <3>1 DEF DatabaseInv, Host!Databases
  <2>3. CASE pending[a] = 24
    BY <1>0, <1>2, <2>3, Makes DEF Sets, Host!Databases, DatabaseInv
  <2>4. CASE pending[a] = 27
    BY <1>0, <1>2, <2>4, Makes DEF Sets, Host!Databases, DatabaseInv
  <2>5. CASE pending[a] = 30
    <3>1. /\ there["database"] # Host!None /\ there'["schema"] = a
          /\ there'["roles"] = there["roles"] /\ there'["database"] = there["database"]
      BY <1>0, <1>2, <2>5, Makes DEF Host!Databases
    <3> QED
      BY <1>0, <3>1 DEF DatabaseInv
  <2> QED
    BY <1>2, <2>1, <2>2, <2>3, <2>4, <2>5, Makes DEF MakingSteps
<1>3. ASSUME NEW a \in Attempts, Host!PerformPartly(a) PROVE DatabaseInv'
  BY <1>0, <1>3, MakesPartly DEF Sets, Host!Databases, DatabaseInv
<1>4. ASSUME NEW parts \in {{p} : p \in Host!Parts} \cup {Host!Named},
             Host!Remove(parts) PROVE DatabaseInv'
  <2>1. PICK gone \in SUBSET Host!Parts :
           /\ \A p \in Host!Parts : there'[p] = IF p \in gone THEN Host!None ELSE there[p]
           /\ "roles" \in gone => there["database"] = Host!None
           /\ "database" \in gone => {"schema", "grants"} \subseteq gone
           /\ "schema" \in gone => "grants" \in gone
    BY <1>4, Removing
  <2> QED
    BY <1>0, <2>1 DEF DatabaseInv, Host!Databases
<1>5. Host!Serve \/ Host!Reviewing \/ UNCHANGED Host!vars
  \/ (\E a \in Attempts : Host!Begin(a) \/ Host!Refuse(a))
        => there' = there
  BY Reads
  DEF Host!Serve, Host!Check, Host!CheckAbsence, Host!Inspect, Host!Observe, Host!FinalInspect,
      Host!Send, Host!Return, Host!Fail, Host!engine, Host!vars, Host!Begin, Host!Refuse
<1> QED
  BY <1>1, <1>2, <1>3, <1>4, <1>5 DEF Host!Next

-----------------------------------------------------------------------------
(* What a session finds *)

\* An allocation makes a network once: what it made is there, or was found,
\* only after the request was performed.
NetworkOnce(p) ==
  \A c \in Attempts : c \in {there[p], seen[p], witness[p]} =>
    /\ c \in begun
    /\ pending[c] # CreateAt(p)
    /\ serving.attempt = c => serving.next > CreateAt(p)

OnceInv == \A p \in Host!Networks : NetworkOnce(p)

\* From its inspection on a network is known by what made it, from its
\* creation on it is the session's own unless it was removed.
NetworkServed(p) ==
  /\ serving.next > CreateAt(p) /\ p \notin removed => there[p] = serving.attempt
  /\ serving.next > InspectAt(p) =>
       seen[p] # Host!None /\ (p \notin removed => seen[p] = serving.attempt)
  /\ serving.next > ObserveAt => (there[p] = seen[p] => witness[p] = seen[p])
  /\ serving.next > FinalAt(p) => witness[p] = seen[p]

DatabaseServed(d) ==
  /\ serving.next > MakeAt(d) /\ d \notin removed => there[d] = serving.attempt
  /\ serving.next > ObserveAt =>
       /\ seen[d] = witness[d] /\ seen[d] # Host!None
       /\ d \notin removed => seen[d] = serving.attempt

ServedInv ==
  serving # Host!NoSession =>
    (\A p \in Host!Networks : NetworkServed(p)) /\ (\A d \in Host!Databases : DatabaseServed(d))

LEMMA OnceStep ==
  ASSUME Host!BackendAssumption, BackendTypes, PendingInv, OnceInv, [Host!Next]_(Host!vars)
  PROVE  OnceInv'
<1> SUFFICES ASSUME NEW p \in Host!Networks PROVE NetworkOnce(p)'
  BY DEF OnceInv
<1>0. /\ NetworkOnce(p) /\ Host!None \notin Attempts /\ Host!NoSession.attempt = Host!None
      /\ p \in Host!Parts
      /\ p \notin Host!Databases
      /\ CreateAt(p) \in {11, 14}
      /\ serving.next \in 0..38
  BY DEF OnceInv, Host!BackendAssumption, Host!NoSession, Host!Parts, Host!Named, Host!Networks,
         Host!Databases, CreateAt, BackendTypes, Sessions
<1>1. CASE UNCHANGED <<there, seen, witness, begun, pending, serving>>
  BY <1>0, <1>1 DEF NetworkOnce
<1>2. ASSUME NEW a \in Attempts, Host!Begin(a) PROVE NetworkOnce(p)'
  <2>1. /\ a \notin begun /\ begun' = begun \cup {a} /\ there' = there /\ pending' = pending
        /\ seen'[p] = Host!None /\ witness'[p] = Host!None /\ serving'.attempt = a
    BY <1>0, <1>2 DEF Host!Begin, Host!engine, Host!Nothing
  <2> QED
    BY <1>0, <2>1 DEF NetworkOnce
<1>3. CASE Walk
  <2>1. /\ UNCHANGED <<there, pending, begun>> /\ serving'.attempt = serving.attempt
        /\ serving'.next = serving.next + 1
    BY <1>3, Walking
  <2>2. seen'[p] \in {there[p], seen[p]} /\ witness'[p] \in {there[p], witness[p]}
    BY <1>0, <1>3
    DEF Walk, Host!Check, Host!CheckAbsence, Host!Inspect, Host!Observe, Host!FinalInspect,
        BackendTypes
  <2> QED
    BY <1>0, <2>1, <2>2 DEF NetworkOnce
<1>4. CASE Host!Send
  <2>1. UNCHANGED <<there, seen, witness, begun>>
    BY <1>4 DEF Host!Send
  <2>2. \A c \in Attempts : pending'[c] = IF c = serving.attempt THEN serving.next ELSE pending[c]
    BY <1>4, Sending DEF BackendTypes
  <2>3. serving'.attempt = serving.attempt /\ serving'.next = serving.next
    BY <1>4, Sending
  <2> QED
    BY <1>0, <2>1, <2>2, <2>3 DEF NetworkOnce
<1>5. CASE Host!Return \/ Host!Fail
  <2>1. UNCHANGED <<there, seen, witness, begun, pending>> /\ serving' = Host!NoSession
    BY <1>5 DEF Host!Return, Host!Fail, Host!engine
  <2> QED
    BY <1>0, <2>1 DEF NetworkOnce
<1>6. ASSUME NEW a \in Attempts, Host!Perform(a) \/ Host!PerformPartly(a) \/ Host!Refuse(a)
      PROVE  NetworkOnce(p)'
  <2>1. /\ UNCHANGED <<seen, witness, begun>> /\ a \in begun
        /\ \A c \in Attempts : pending'[c] = IF c = a THEN 0 ELSE pending[c]
    BY <1>6 DEF Host!Perform, Host!PerformPartly, Host!Refuse, BackendTypes, PendingInv
  <2>2. /\ serving'.attempt = a => serving.attempt = a /\ serving'.next = pending[a] + 1
        /\ serving'.attempt # a => serving'.attempt = Host!None \/ serving' = serving
    <3>1. CASE serving.attempt # a
      BY <1>6, <3>1 DEF Host!Perform, Host!PerformPartly, Host!Refuse
    <3>2. CASE serving.attempt = a /\ Host!Perform(a)
      <4>1. serving.next = pending[a] /\ serving.next \in 0..37 /\ Host!Advance
        BY <1>0, <3>2 DEF Host!Perform, PendingInv, MakingSteps
      <4> QED
        BY <3>2, <4>1, Advances
    <3>3. CASE serving.attempt = a /\ (Host!PerformPartly(a) \/ Host!Refuse(a))
      BY <1>0, <3>3 DEF Host!PerformPartly, Host!Refuse
    <3> QED
      BY <1>6, <3>1, <3>2, <3>3
  <2>3. there'[p] = there[p] \/ (there'[p] = a /\ pending[a] = CreateAt(p))
    <3>1. CASE Host!Perform(a)
      BY <1>0, <3>1, Makes DEF Sets, MakingSteps, Host!Networks, CreateAt
    <3>2. CASE Host!PerformPartly(a)
      BY <1>0, <3>2, MakesPartly DEF Sets, Host!Databases
    <3>3. CASE Host!Refuse(a)
      BY <3>3 DEF Host!Refuse
    <3> QED
      BY <1>6, <3>1, <3>2, <3>3
  <2>4. serving.attempt = a => pending[a] = serving.next
    BY <1>6 DEF Host!Perform, Host!PerformPartly, Host!Refuse, PendingInv
  <2> QED
    BY <1>0, <2>1, <2>2, <2>3, <2>4 DEF NetworkOnce
<1>7. ASSUME NEW parts \in {{q} : q \in Host!Parts} \cup {Host!Named},
             Host!Remove(parts) PROVE NetworkOnce(p)'
  <2>1. there'[p] \in {Host!None, there[p]}
    BY <1>0, <1>7, Removing
  <2> QED
    BY <1>0, <1>7, <2>1 DEF Host!Remove, NetworkOnce
<1>8. CASE Host!Reviewing \/ UNCHANGED Host!vars
  BY <1>1, <1>8, Reads DEF Host!vars
<1> QED
  BY <1>2, <1>3, <1>4, <1>5, <1>6, <1>7, <1>8 DEF Host!Next, Host!Serve, Walk

\* What each step of the walk finds.
LEMMA Finds ==
  ASSUME Host!BackendAssumption, BackendTypes, PendingInv, Walk
  PROVE  /\ serving.next \notin MakingSteps
         /\ \A p \in Host!Networks :
              /\ seen'[p] = IF serving.next = InspectAt(p) THEN there[p] ELSE seen[p]
              /\ serving.next = InspectAt(p) => there[p] # Host!None
              /\ serving.next = FinalAt(p) => there[p] = seen[p]
              /\ witness'[p] = IF serving.next = ObserveAt THEN there[p] ELSE witness[p]
         /\ \A d \in Host!Databases :
              /\ seen'[d] = IF serving.next = ObserveAt THEN there[d] ELSE seen[d]
              /\ witness'[d] = IF serving.next = ObserveAt THEN there[d] ELSE witness[d]
              /\ serving.next = ObserveAt => there[d] # Host!None
<1> DEFINE n == serving.next
<1>0. /\ Host!Networks \subseteq Host!Parts
      /\ Host!Databases \subseteq Host!Parts
      /\ Host!Networks \cap Host!Databases = {}
  BY DEF Host!Parts, Host!Named, Host!Networks, Host!Databases
<1>1. \A p \in Host!Networks : InspectAt(p) \in {12, 15} /\ FinalAt(p) \in {34, 35}
  BY DEF InspectAt, CreateAt, FinalAt
<1>2. CASE Host!Check
  <2>1. n \in 1..9 \cup {22, 23, 25, 26, 28, 29, 31, 32}
    <3>1. {s.kind : s \in {Host!Preliminary[i] : i \in 1..Len(Host!Preliminary)}} \subseteq PreliminaryKinds
      BY PreliminaryTable
    <3>2. /\ n \in 1..37
          /\ Host!Plan[n].kind \in {s.kind : s \in {Host!Preliminary[i] : i \in 1..Len(Host!Preliminary)}}
                                     \cup {"exec_create", "exec_inspect"}
      BY <1>2, AtStepIs DEF Host!Check
    <3>3. Host!Plan[n].kind \in PreliminaryKinds \cup {"exec_create", "exec_inspect"}
      BY <3>1, <3>2
    <3> QED
      BY <3>2, <3>3, PlanKinds
  <2>2. UNCHANGED <<seen, witness>>
    BY <1>2 DEF Host!Check
  <2> HIDE DEF n
  <2>3. n \notin MakingSteps /\ n \notin {12, 15, 33, 34, 35}
    BY <2>1 DEF MakingSteps
  <2> QED
    BY <1>1, <2>2, <2>3 DEF n, ObserveAt
<1>3. CASE Host!CheckAbsence
  <2>1. n \in 1..37 /\ Host!Plan[n].kind = "absence_check"
    <3>1. Host!AtStep({"absence_check"})
      BY <1>3 DEF Host!CheckAbsence
    <3>2. n \in 1..37 /\ Host!Plan[n].kind \in {"absence_check"} /\ Host!Current = Host!Plan[n]
      BY <3>1, AtStepIs
    <3> QED
      BY <1>3, <3>2 DEF Host!CheckAbsence
  <2>2. n \in {10, 13, 16, 19}
    BY <2>1, PlanKinds
  <2>3. UNCHANGED <<seen, witness>>
    BY <1>3 DEF Host!CheckAbsence
  <2> QED
    BY <1>1, <2>2, <2>3 DEF ObserveAt, MakingSteps
<1>4. CASE Host!Inspect
  <2>1. n \in 1..37 /\ Host!Plan[n].kind = "inspect" /\ Host!Current = Host!Plan[n]
    <3>1. Host!AtStep({"inspect"})
      BY <1>4 DEF Host!Inspect
    <3>2. n \in 1..37 /\ Host!Plan[n].kind \in {"inspect"} /\ Host!Current = Host!Plan[n]
      BY <3>1, AtStepIs
    <3> QED
      BY <1>4, <3>2 DEF Host!Inspect
  <2>2. /\ n \in {12, 15, 18, 21} /\ Host!Plan[n].target \in Host!Named
        /\ n = 12 => Host!Plan[n].target = "primary_network"
        /\ n = 15 => Host!Plan[n].target = "restore_network"
        /\ n \in {18, 21} => Host!Plan[n].target \in Host!Volumes
    BY <2>1, PlanKinds
  <2>3. /\ witness' = witness /\ there[Host!Plan[n].target] # Host!None
        /\ seen' = [seen EXCEPT ![Host!Plan[n].target] = there[Host!Plan[n].target]]
    BY <1>4, <2>1 DEF Host!Inspect
  <2> HIDE DEF n
  <2>4. \A p \in Host!Networks : Host!Plan[n].target = p <=> n = InspectAt(p)
    BY <2>2 DEF Host!Networks, Host!Volumes, InspectAt, CreateAt
  <2>5. Host!Plan[n].target \notin Host!Databases
    BY <2>2 DEF Host!Named, Host!Networks, Host!Volumes, Host!Databases
  <2>6. \A p \in Host!Parts : seen'[p] = IF p = Host!Plan[n].target THEN there[p] ELSE seen[p]
    BY <2>3 DEF BackendTypes
  <2>7. n \notin MakingSteps /\ n \notin {33, 34, 35}
    BY <2>2 DEF MakingSteps
  <2> QED
    BY <1>0, <1>1, <2>3, <2>4, <2>5, <2>6, <2>7 DEF n, ObserveAt
<1>5. CASE Host!Observe
  <2>1. n \in 1..37 /\ Host!Plan[n].kind = "exec_start" /\ Host!Plan[n].target = "observation"
    <3>1. Host!AtStep({"exec_start"})
      BY <1>5 DEF Host!Observe
    <3>2. n \in 1..37 /\ Host!Plan[n].kind \in {"exec_start"} /\ Host!Current = Host!Plan[n]
      BY <3>1, AtStepIs
    <3> QED
      BY <1>5, <3>2 DEF Host!Observe
  <2>2. n = 33
    BY <2>1, PlanKinds
  <2>3. /\ \A d \in Host!Databases : there[d] # Host!None
        /\ \A p \in Host!Parts : seen'[p] = IF p \in Host!Databases THEN there[p] ELSE seen[p]
        /\ witness' = there
    BY <1>5 DEF Host!Observe
  <2> HIDE DEF n
  <2> QED
    BY <1>0, <1>1, <2>2, <2>3 DEF n, ObserveAt, MakingSteps
<1>6. CASE Host!FinalInspect
  <2>1. n \in 1..37 /\ Host!Plan[n].kind = "final_inspect" /\ Host!Current = Host!Plan[n]
    <3>1. Host!AtStep({"final_inspect"})
      BY <1>6 DEF Host!FinalInspect
    <3>2. n \in 1..37 /\ Host!Plan[n].kind \in {"final_inspect"} /\ Host!Current = Host!Plan[n]
      BY <3>1, AtStepIs
    <3> QED
      BY <1>6, <3>2 DEF Host!FinalInspect
  <2>2. /\ n \in {34, 35, 36, 37}
        /\ n = 34 => Host!Plan[n].target = "primary_network"
        /\ n = 35 => Host!Plan[n].target = "restore_network"
    BY <2>1, PlanKinds, SMTT(20)
  <2>3. UNCHANGED <<seen, witness>>
    BY <1>6 DEF Host!FinalInspect
  <2>4. Host!Plan[n].target \in Host!Networks =>
          there[Host!Plan[n].target] = seen[Host!Plan[n].target]
    BY <1>6, <2>1 DEF Host!FinalInspect
  <2> HIDE DEF n
  <2>5. \A p \in Host!Networks : n = FinalAt(p) => Host!Plan[n].target = p
    BY <2>2 DEF Host!Networks, FinalAt
  <2> QED
    BY <1>1, <2>2, <2>3, <2>4, <2>5 DEF n, ObserveAt, MakingSteps
<1> QED
  BY <1>2, <1>3, <1>4, <1>5, <1>6 DEF Walk

\* The order of a plan: made, inspected, observed, inspected again.
LEMMA PlanOrder ==
  /\ \A p \in Host!Networks :
       /\ CreateAt(p) \in MakingSteps /\ CreateAt(p) \in 1..37
       /\ InspectAt(p) = CreateAt(p) + 1 /\ InspectAt(p) < ObserveAt
       /\ InspectAt(p) \notin MakingSteps
       /\ FinalAt(p) \in 34..35
  /\ \A d \in Host!Databases : MakeAt(d) \in MakingSteps /\ MakeAt(d) \in 1..32
  /\ ObserveAt = 33 /\ \A m \in MakingSteps : m \in 11..30
BY DEF CreateAt, InspectAt, FinalAt, MakeAt, ObserveAt, MakingSteps, Host!Networks, Host!Databases

LEMMA ServedWalk ==
  ASSUME Host!BackendAssumption, BackendTypes, PendingInv, ServedInv, Walk
  PROVE  ServedInv'
<1>1. /\ serving # Host!NoSession /\ serving.next \in 1..37 /\ serving'.attempt = serving.attempt
      /\ serving'.next = serving.next + 1 /\ there' = there /\ removed' = removed
  BY Walking
<1>2. ASSUME NEW p \in Host!Networks PROVE NetworkServed(p)'
  <2>1. NetworkServed(p)
    BY <1>1 DEF ServedInv
  <2>2. /\ serving.next # CreateAt(p)
        /\ seen'[p] = IF serving.next = InspectAt(p) THEN there[p] ELSE seen[p]
        /\ serving.next = InspectAt(p) => there[p] # Host!None
        /\ serving.next = FinalAt(p) => there[p] = seen[p]
        /\ witness'[p] = IF serving.next = ObserveAt THEN there[p] ELSE witness[p]
    BY Finds, PlanOrder
  <2>3. /\ CreateAt(p) \in 1..37 /\ InspectAt(p) = CreateAt(p) + 1 /\ InspectAt(p) < 33
        /\ FinalAt(p) \in 34..35 /\ ObserveAt = 33
    BY PlanOrder
  <2> QED
    BY <1>1, <2>1, <2>2, <2>3 DEF NetworkServed
<1>3. ASSUME NEW d \in Host!Databases PROVE DatabaseServed(d)'
  <2>1. DatabaseServed(d)
    BY <1>1 DEF ServedInv
  <2>2. /\ serving.next # MakeAt(d)
        /\ seen'[d] = IF serving.next = ObserveAt THEN there[d] ELSE seen[d]
        /\ witness'[d] = IF serving.next = ObserveAt THEN there[d] ELSE witness[d]
        /\ serving.next = ObserveAt => there[d] # Host!None
    BY Finds, PlanOrder
  <2>3. MakeAt(d) \in 1..32 /\ ObserveAt = 33
    BY PlanOrder
  <2> QED
    BY <1>1, <2>1, <2>2, <2>3 DEF DatabaseServed
<1> QED
  BY <1>2, <1>3 DEF ServedInv

\* A request makes nothing where a session's network or part of the database
\* is, and what it makes for its own session is what the session counts on.
LEMMA ServedEngine ==
  ASSUME Host!BackendAssumption, BackendTypes, PendingInv, DatabaseInv, OnceInv, ServedInv,
         NEW a \in Attempts, Host!Perform(a) \/ Host!PerformPartly(a) \/ Host!Refuse(a)
  PROVE  ServedInv'
<1>0. /\ Host!None \notin Attempts
      /\ Host!Networks \subseteq Host!Parts
      /\ Host!Databases \subseteq Host!Parts
  BY DEF Host!BackendAssumption, Host!Parts, Host!Named
<1>1. UNCHANGED <<seen, witness, removed>>
  BY DEF Host!Perform, Host!PerformPartly, Host!Refuse
<1>2. SUFFICES ASSUME serving' # Host!NoSession
      PROVE  /\ \A p \in Host!Networks : NetworkServed(p)'
             /\ \A d \in Host!Databases : DatabaseServed(d)'
  BY DEF ServedInv
<1>3. /\ serving # Host!NoSession /\ serving'.attempt = serving.attempt
      /\ serving.attempt = a => Host!Perform(a) /\ serving.next = pending[a] /\ serving'.next = pending[a] + 1
      /\ serving.attempt # a => serving' = serving
  <2>1. CASE serving.attempt # a
    BY <1>2, <2>1 DEF Host!Perform, Host!PerformPartly, Host!Refuse
  <2>2. CASE serving.attempt = a
    <3>1. Host!Perform(a)
      BY <1>2, <2>2 DEF Host!PerformPartly, Host!Refuse
    <3>2. serving.next = pending[a] /\ serving.next \in 0..37 /\ Host!Advance
      BY <2>2, <3>1 DEF Host!Perform, PendingInv, MakingSteps
    <3>3. serving # Host!NoSession
      BY <1>0, <2>2 DEF Host!NoSession
    <3> QED
      BY <2>2, <3>1, <3>2, <3>3, Advances
  <2> QED
    BY <2>1, <2>2
<1>4. pending[a] \in MakingSteps /\ serving.next \in 1..38
  BY <1>3, BeingServed DEF Host!Perform, Host!PerformPartly, Host!Refuse, PendingInv
<1>5. ASSUME NEW p \in Host!Networks PROVE NetworkServed(p)'
  <2>1. NetworkServed(p) /\ NetworkOnce(p)
    BY <1>3 DEF ServedInv, OnceInv
  <2>2. /\ CreateAt(p) \in 11..14 /\ InspectAt(p) = CreateAt(p) + 1
        /\ FinalAt(p) \in 34..35 /\ ObserveAt = 33
    BY PlanOrder DEF CreateAt
  <2>3. \/ there'[p] = there[p] /\ pending[a] # CreateAt(p)
        \/ there'[p] = there[p] /\ serving.attempt # a
        \/ there[p] = Host!None /\ there'[p] = a /\ pending[a] = CreateAt(p)
    <3>1. CASE Host!Perform(a)
      BY <1>0, <3>1, Makes DEF Sets, MakingSteps, Host!Networks, CreateAt
    <3>2. CASE Host!PerformPartly(a)
      <4>1. p # "schema"
        BY DEF Host!Networks
      <4> QED
        BY <1>0, <1>2, <3>2, <4>1, MakesPartly DEF Sets, Host!PerformPartly
    <3>3. CASE Host!Refuse(a)
      BY <1>2, <3>3 DEF Host!Refuse
    <3> QED
      BY <3>1, <3>2, <3>3
  <2>4. serving.attempt \in Attempts /\ pending[a] \in 11..30 /\ pending[a] # InspectAt(p)
    BY <1>3, <1>4, BeingServed, PlanOrder
  <2>5. CASE there'[p] = there[p] /\ serving.attempt # a
    BY <1>1, <1>3, <2>1, <2>5 DEF NetworkServed
  <2>6. CASE there'[p] = there[p] /\ pending[a] # CreateAt(p) /\ serving.attempt = a
    BY <1>1, <1>3, <2>1, <2>2, <2>4, <2>6 DEF NetworkServed
  <2>7. CASE there[p] = Host!None /\ there'[p] = a /\ pending[a] = CreateAt(p) /\ serving.attempt = a
    BY <1>1, <1>3, <2>2, <2>4, <2>7 DEF NetworkServed
  <2>8. CASE there[p] = Host!None /\ there'[p] = a /\ pending[a] = CreateAt(p) /\ serving.attempt # a
    <3>1. seen[p] # a
      BY <2>1, <2>8 DEF NetworkOnce
    <3> QED
      BY <1>0, <1>1, <1>3, <2>1, <2>4, <2>8, <3>1 DEF NetworkServed
  <2> QED
    BY <2>3, <2>5, <2>6, <2>7, <2>8
<1>6. ASSUME NEW d \in Host!Databases PROVE DatabaseServed(d)'
  <2>1. DatabaseServed(d)
    BY <1>3 DEF ServedInv
  <2>2. MakeAt(d) \in 1..32 /\ ObserveAt = 33 /\ \A m \in MakingSteps : m \in 11..30
    BY PlanOrder
  <2>3. there[d] # Host!None => there'[d] = there[d]
    BY <1>0, MakeTypes DEF Host!Perform, Host!PerformPartly, Host!Refuse
  <2>4. Host!Perform(a) /\ pending[a] = MakeAt(d) => there'[d] = a
    BY <1>0, Makes DEF Sets, MakeAt, Host!Databases, DatabaseInv
  <2>5. serving.attempt \in Attempts
    BY <1>3, BeingServed
  <2> QED
    BY <1>0, <1>1, <1>3, <1>4, <2>1, <2>2, <2>3, <2>4, <2>5 DEF DatabaseServed
<1> QED
  BY <1>5, <1>6

LEMMA ServedStep ==
  ASSUME Host!BackendAssumption, BackendTypes, PendingInv, DatabaseInv, OnceInv, ServedInv,
         [Host!Next]_(Host!vars)
  PROVE  ServedInv'
<1>0. /\ Host!None \notin Attempts
      /\ Host!Networks \subseteq Host!Parts
      /\ Host!Databases \subseteq Host!Parts
  BY DEF Host!BackendAssumption, Host!Parts, Host!Named
<1>1. CASE UNCHANGED <<there, serving, seen, witness, removed>>
  BY <1>1 DEF ServedInv, NetworkServed, DatabaseServed
<1>2. ASSUME NEW a \in Attempts, Host!Begin(a) PROVE ServedInv'
  <2>1. serving'.next = 1
    BY <1>2 DEF Host!Begin
  <2> QED
    BY <2>1, PlanOrder DEF ServedInv, NetworkServed, DatabaseServed
<1>3. CASE Walk
  BY <1>3, ServedWalk
<1>4. CASE Host!Send
  <2>1. /\ serving'.attempt = serving.attempt /\ serving'.next = serving.next
        /\ serving # Host!NoSession /\ UNCHANGED <<there, seen, witness, removed>>
    BY <1>4, Sending DEF Host!Send
  <2> QED
    BY <2>1 DEF ServedInv, NetworkServed, DatabaseServed
<1>5. CASE Host!Return \/ Host!Fail
  BY <1>5 DEF Host!Return, Host!Fail, ServedInv
<1>6. ASSUME NEW a \in Attempts,
             Host!Perform(a) \/ Host!PerformPartly(a) \/ Host!Refuse(a) PROVE ServedInv'
  BY <1>6, ServedEngine
<1>7. ASSUME NEW parts \in {{q} : q \in Host!Parts} \cup {Host!Named},
             Host!Remove(parts) PROVE ServedInv'
  <2>1. PICK gone \in SUBSET Host!Parts :
           /\ \A p \in Host!Parts : there'[p] = IF p \in gone THEN Host!None ELSE there[p]
           /\ removed' = removed \cup gone
    BY <1>7, Removing
  <2>2. UNCHANGED <<serving, seen, witness>>
    BY <1>7 DEF Host!Remove
  <2>3. \A p \in Host!Networks :
          InspectAt(p) < ObserveAt /\ InspectAt(p) \in Nat /\ ObserveAt = 33
    BY PlanOrder
  <2>4. serving.next \in 0..38
    BY DEF BackendTypes, Sessions
  <2>5. ASSUME NEW p \in Host!Networks, NetworkServed(p) PROVE NetworkServed(p)'
    BY <1>0, <2>1, <2>2, <2>3, <2>4, <2>5 DEF NetworkServed
  <2>6. ASSUME NEW d \in Host!Databases, DatabaseServed(d) PROVE DatabaseServed(d)'
    BY <1>0, <2>1, <2>2, <2>6 DEF DatabaseServed
  <2> QED
    BY <2>2, <2>5, <2>6 DEF ServedInv
<1>8. CASE Host!Reviewing \/ UNCHANGED Host!vars
  BY <1>1, <1>8, Reads DEF Host!vars
<1> QED
  BY <1>2, <1>3, <1>4, <1>5, <1>6, <1>7, <1>8 DEF Host!Next, Host!Serve, Walk

\* What a receipt says, of the allocation it is for.
ReceiptInv ==
  \A a \in Attempts : receipts[a].given =>
    /\ \A p \in Host!Networks \cup Host!Databases :
         receipts[a].parts[p] = receipts[a].witness[p] /\ receipts[a].parts[p] # Host!None
    /\ \A p \in (Host!Networks \cup Host!Databases) \ receipts[a].removed :
         receipts[a].parts[p] = a

LEMMA ReceiptStep ==
  ASSUME Host!BackendAssumption, BackendTypes, PendingInv, ServedInv, ReceiptInv,
         [Host!Next]_(Host!vars)
  PROVE  ReceiptInv'
<1>1. CASE receipts' = receipts
  BY <1>1 DEF ReceiptInv
<1>2. CASE Host!Return
  <2> DEFINE b == serving.attempt
             r == [parts |-> seen, witness |-> witness, removed |-> removed, given |-> TRUE]
  <2>1. serving # Host!NoSession /\ serving.next = 38
    BY <1>2, PlanAt DEF Host!Return
  <2>2. b \in Attempts
    BY <2>1, BeingServed
  <2>3. \A p \in Host!Networks : /\ seen[p] = witness[p] /\ seen[p] # Host!None
                                 /\ p \notin removed => seen[p] = b
    <3>1. ASSUME NEW p \in Host!Networks
          PROVE  /\ seen[p] = witness[p] /\ seen[p] # Host!None
                 /\ p \notin removed => seen[p] = b
      <4>1. NetworkServed(p) /\ InspectAt(p) \in 1..33 /\ FinalAt(p) \in 34..35
        BY <2>1, PlanOrder DEF ServedInv
      <4> QED
        BY <2>1, <4>1 DEF NetworkServed
    <3> QED
      BY <3>1
  <2>4. \A d \in Host!Databases : /\ seen[d] = witness[d] /\ seen[d] # Host!None
                                  /\ d \notin removed => seen[d] = b
    BY <2>1, PlanOrder DEF ServedInv, DatabaseServed
  <2>5. \A c \in Attempts : receipts'[c] = IF c = b THEN r ELSE receipts[c]
    BY <1>2 DEF Host!Return, BackendTypes
  <2> HIDE DEF b
  <2>6. ASSUME NEW c \in Attempts, receipts'[c].given
        PROVE  /\ \A p \in Host!Networks \cup Host!Databases :
                    /\ receipts'[c].parts[p] = receipts'[c].witness[p]
                    /\ receipts'[c].parts[p] # Host!None
               /\ \A p \in (Host!Networks \cup Host!Databases) \ receipts'[c].removed :
                    receipts'[c].parts[p] = c
    <3>1. CASE c = b
      <4>1. /\ receipts'[c].parts = seen /\ receipts'[c].witness = witness
            /\ receipts'[c].removed = removed
        BY <2>5, <3>1
      <4> QED
        BY <2>3, <2>4, <3>1, <4>1
    <3>2. CASE c # b
      <4>1. receipts'[c] = receipts[c]
        BY <2>5, <3>2
      <4> QED
        BY <2>6, <4>1 DEF ReceiptInv
    <3> QED
      BY <3>1, <3>2
  <2> QED
    BY <2>6 DEF ReceiptInv
<1>3. Walk \/ Host!Send \/ Host!Fail \/ Host!Reviewing \/ UNCHANGED Host!vars
        \/ (\E a \in Attempts : Host!Begin(a) \/ Host!Perform(a) \/ Host!PerformPartly(a)
          \/ Host!Refuse(a))
        \/ (\E parts \in {{p} : p \in Host!Parts} \cup {Host!Named} : Host!Remove(parts))
        => receipts' = receipts
  BY Reads
  DEF Walk, Host!Check, Host!CheckAbsence, Host!Inspect, Host!Observe, Host!FinalInspect,
      Host!Send, Host!Fail, Host!vars, Host!Begin, Host!Perform, Host!PerformPartly, Host!Refuse,
      Host!Remove
<1> QED
  BY <1>1, <1>2, <1>3 DEF Host!Next, Host!Serve, Walk

-----------------------------------------------------------------------------
(* Reconciliation *)

\* What was inspected before a network or a volume is.
Inspected(r) ==
  CASE r = "primary_network" -> {}
    [] r = "restore_network" -> {"primary_network"}
    [] r = "primary_cache_volume" -> Host!Networks
    [] OTHER -> Host!Networks \cup {"primary_cache_volume"}

\* What a reconciliation during which nothing changes has found so far.
FoundInv ==
  /\ review.next \in Host!Named =>
       review.names = {r \in Inspected(review.next) : there[r] # Host!None}
  /\ review.next \in {"presence", "schema_presence", "observation"} =>
       review.names = {r \in Host!Named : there[r] # Host!None}
  /\ review.next \in {"schema_presence", "observation"} =>
       there["roles"] # Host!None /\ there["database"] # Host!None
  /\ review.next = "observation" => there["schema"] # Host!None
  /\ review.verdict # "none" => review.verdict = Host!Classification

ReviewInv ==
  /\ review.next # "none" => serving = Host!NoSession /\ review.verdict = "none"
  /\ ~changed => FoundInv

LEMMA InspectedNext ==
  /\ "primary_network" \in Host!Named /\ Inspected("primary_network") = {}
  /\ \A r \in Host!Named : Host!Following(r) \in Host!Named =>
       Inspected(Host!Following(r)) = Inspected(r) \cup {r}
  /\ \A r \in Host!Named : Host!Following(r) \notin Host!Named =>
       Host!Following(r) = "presence" /\ Inspected(r) \cup {r} = Host!Named
<1>1. /\ Inspected("primary_network") = {} /\ Inspected("restore_network") = {"primary_network"}
      /\ Inspected("primary_cache_volume") = {"primary_network", "restore_network"}
      /\ Inspected("restore_cache_volume") =
           {"primary_network", "restore_network", "primary_cache_volume"}
  BY DEF Inspected, Host!Networks
<1>2. Host!Named = {"primary_network", "restore_network", "primary_cache_volume",
                    "restore_cache_volume"}
  BY DEF Host!Named, Host!Networks, Host!Volumes
<1> QED
  BY <1>1, <1>2, FollowingTable

\* What is there, told from the names and the database.
LEMMA Told ==
  ASSUME DatabaseInv, review.names = {r \in Host!Named : there[r] # Host!None},
         NEW x,
         \/ x = "absent" /\ there["roles"] = Host!None
         \/ x = "partial" /\ there["roles"] # Host!None /\ there["schema"] = Host!None
         \/ x = "complete" /\ \A d \in Host!Databases : there[d] # Host!None
  PROVE  Host!Verdict(review.names, x) = Host!Classification
<1>1. /\ Host!Parts = Host!Named \cup Host!Databases
      /\ Host!Databases = {"roles", "database", "schema", "grants"}
  BY DEF Host!Parts, Host!Databases
<1>2. review.names = {} <=> \A r \in Host!Named : there[r] = Host!None
  OBVIOUS
<1>3. review.names = Host!Named <=> \A r \in Host!Named : there[r] # Host!None
  OBVIOUS
<1>4. CASE x = "absent" /\ there["roles"] = Host!None
  <2>1. \A d \in Host!Databases : there[d] = Host!None
    BY <1>1, <1>4 DEF DatabaseInv
  <2> QED
    BY <1>1, <1>2, <1>4, <2>1 DEF Host!Verdict, Host!Classification
<1>5. CASE x = "partial" /\ there["roles"] # Host!None /\ there["schema"] = Host!None
  <2>1. ~(\A p \in Host!Parts : there[p] = Host!None) /\ ~(\A p \in Host!Parts : there[p] # Host!None)
    BY <1>1, <1>5
  <2> QED
    BY <1>5, <2>1 DEF Host!Verdict, Host!Classification
<1>6. CASE x = "complete" /\ \A d \in Host!Databases : there[d] # Host!None
  <2>1. ~(\A p \in Host!Parts : there[p] = Host!None)
    BY <1>1, <1>6
  <2>2. (\A p \in Host!Parts : there[p] # Host!None) <=> review.names = Host!Named
    BY <1>1, <1>3, <1>6
  <2> QED
    BY <1>6, <2>1, <2>2 DEF Host!Verdict, Host!Classification
<1> QED
  BY <1>4, <1>5, <1>6

LEMMA ReviewingStep ==
  ASSUME Host!BackendAssumption, BackendTypes, DatabaseInv, ReviewInv, Host!Reviewing
  PROVE  ReviewInv'
<1>0. /\ UNCHANGED <<there, serving>> /\ Host!Classification' = Host!Classification
      /\ review \in Reviews /\ {} \in SUBSET Host!Named /\ review.names \in SUBSET Host!Named
  BY Reads DEF Host!Classification, BackendTypes, Reviews
<1>n. /\ "presence" \notin Host!Named /\ "schema_presence" \notin Host!Named
      /\ "observation" \notin Host!Named /\ "none" \notin Host!Named
  BY DEF Host!Named, Host!Networks, Host!Volumes
<1>1. CASE Host!Reconcile
  <2>1. /\ Host!Review("primary_network", {}, "none") /\ serving = Host!NoSession
        /\ "primary_network" \in Host!Named
    BY <1>1, InspectedNext DEF Host!Reconcile, Host!Inspections, Host!Free
  <2>2. review'.next = "primary_network" /\ review'.names = {} /\ review'.verdict = "none"
    BY <1>0, <2>1, Reviews1
  <2> QED
    BY <1>0, <1>n, <2>1, <2>2, InspectedNext DEF ReviewInv, FoundInv
<1>2. CASE Host!ReviewNamed
  <2> DEFINE r == review.next
             s == IF there[r] = Host!None THEN review.names ELSE review.names \cup {r}
  <2>1. r \in Host!Named /\ Host!Review(Host!Following(r), s, "none") /\ changed' = changed
    BY <1>2 DEF Host!ReviewNamed
  <2>2. Host!Following(r) \in Host!Named \cup {"none", "presence", "schema_presence",
                                               "observation"}
    BY <2>1, FollowingTable DEF Host!Named, Host!Networks, Host!Volumes
  <2>3. review'.next = Host!Following(r) /\ review'.names = s /\ review'.verdict = "none"
    BY <1>0, <2>1, <2>2, Reviews1
  <2>4. serving = Host!NoSession
    BY <1>n, <2>1 DEF ReviewInv
  <2>5. ASSUME ~changed PROVE s = {q \in Inspected(r) \cup {r} : there[q] # Host!None}
    BY <2>1, <2>5 DEF ReviewInv, FoundInv
  <2> HIDE DEF r, s
  <2>6. ASSUME ~changed PROVE FoundInv'
    <3>1. CASE Host!Following(r) \in Host!Named
      BY <1>0, <1>n, <2>1, <2>3, <2>5, <2>6, <3>1, InspectedNext DEF FoundInv
    <3>2. CASE Host!Following(r) \notin Host!Named
      <4>1. Host!Following(r) = "presence" /\ s = {q \in Host!Named : there[q] # Host!None}
        BY <2>1, <2>5, <2>6, <3>2, InspectedNext
      <4> QED
        BY <1>0, <1>n, <2>3, <4>1 DEF FoundInv
    <3> QED
      BY <3>1, <3>2
  <2> QED
    BY <1>0, <2>1, <2>3, <2>4, <2>6 DEF ReviewInv
<1>3. ASSUME NEW x, Host!Conclude(x),
             review.next \in {"presence", "schema_presence", "observation"},
             \/ x = "absent" /\ there["roles"] = Host!None
             \/ x = "partial" /\ there["roles"] # Host!None /\ there["schema"] = Host!None
             \/ x = "complete" /\ \A d \in Host!Databases : there[d] # Host!None
      PROVE  ReviewInv'
  <2>1. /\ Host!Review("none", review.names, Host!Verdict(review.names, x)) /\ changed' = changed
        /\ Host!Verdict(review.names, x) \in {"none", "absent", "partial", "complete"}
    BY <1>3, VerdictType DEF Host!Conclude
  <2>2. review'.next = "none" /\ review'.verdict = Host!Verdict(review.names, x)
    BY <1>0, <2>1, Reviews1
  <2>3. ASSUME ~changed PROVE Host!Verdict(review.names, x) = Host!Classification
    BY <1>3, <2>3, Told DEF ReviewInv, FoundInv
  <2> QED
    BY <1>0, <1>n, <2>1, <2>2, <2>3 DEF ReviewInv, FoundInv
<1>4. ASSUME NEW x \in {"schema_presence", "observation"}, Host!Review(x, review.names, "none"),
             UNCHANGED changed, review.next \in {"presence", "schema_presence"},
             there["roles"] # Host!None, there["database"] # Host!None,
             x = "observation" => there["schema"] # Host!None
      PROVE  ReviewInv'
  <2>1. review'.next = x /\ review'.names = review.names /\ review'.verdict = "none"
    BY <1>0, <1>4, Reviews1
  <2>2. serving = Host!NoSession
    BY <1>4 DEF ReviewInv
  <2> QED
    BY <1>0, <1>n, <1>4, <2>1, <2>2 DEF ReviewInv, FoundInv
<1>5. CASE Host!ReviewPresence
  <2>1. review.next = "presence"
    BY <1>5 DEF Host!ReviewPresence
  <2>2. CASE there["roles"] = Host!None
    <3>1. there["database"] = Host!None
      BY <2>2 DEF DatabaseInv
    <3>2. Host!Conclude("absent")
      BY <1>5, <2>2, <3>1 DEF Host!ReviewPresence
    <3> QED
      BY <1>3, <2>1, <2>2, <3>2
  <2>3. CASE there["roles"] # Host!None /\ there["database"] = Host!None
    <3>1. Host!Conclude("partial") /\ there["schema"] = Host!None
      BY <1>5, <2>3 DEF Host!ReviewPresence, DatabaseInv
    <3> QED
      BY <1>3, <2>1, <2>3, <3>1
  <2>4. CASE there["roles"] # Host!None /\ there["database"] # Host!None
    <3>1. Host!Review("schema_presence", review.names, "none") /\ UNCHANGED changed
      BY <1>5, <2>4 DEF Host!ReviewPresence
    <3> QED
      BY <1>4, <2>1, <2>4, <3>1
  <2> QED
    BY <2>2, <2>3, <2>4
<1>6. CASE Host!ReviewSchema
  <2>1. review.next = "schema_presence" /\ there["database"] # Host!None /\ there["roles"] # Host!None
    BY <1>6 DEF Host!ReviewSchema, DatabaseInv
  <2>2. CASE there["schema"] = Host!None
    <3>1. Host!Conclude("partial")
      BY <1>6, <2>2 DEF Host!ReviewSchema
    <3> QED
      BY <1>3, <2>1, <2>2, <3>1
  <2>3. CASE there["schema"] # Host!None
    <3>1. Host!Review("observation", review.names, "none") /\ UNCHANGED changed
      BY <1>6, <2>3 DEF Host!ReviewSchema
    <3> QED
      BY <1>4, <2>1, <2>3, <3>1
  <2> QED
    BY <2>2, <2>3
<1>7. CASE Host!ReviewObservation
  <2>1. /\ review.next = "observation" /\ Host!Conclude("complete")
        /\ \A d \in Host!Databases : there[d] # Host!None
    BY <1>7 DEF Host!ReviewObservation
  <2> QED
    BY <1>3, <2>1
<1>8. CASE Host!ReviewFails
  <2>1. Host!Review("none", {}, "none") /\ changed' = changed
    BY <1>8 DEF Host!ReviewFails
  <2>2. review'.next = "none" /\ review'.verdict = "none"
    BY <1>0, <2>1, Reviews1
  <2> QED
    BY <1>n, <2>2 DEF ReviewInv, FoundInv
<1> QED
  BY <1>1, <1>2, <1>5, <1>6, <1>7, <1>8 DEF Host!Reviewing

LEMMA ReviewStep ==
  ASSUME Host!BackendAssumption, BackendTypes, PendingInv, DatabaseInv, ReviewInv,
         [Host!Next]_(Host!vars)
  PROVE  ReviewInv'
<1>0. /\ "presence" \notin Host!Named /\ "schema_presence" \notin Host!Named
      /\ "observation" \notin Host!Named /\ "none" \notin Host!Named
  BY DEF Host!Named, Host!Networks, Host!Volumes
<1>1. ASSUME UNCHANGED <<review, there, changed>>,
             serving' = serving \/ serving # Host!NoSession \/ serving' = Host!NoSession
      PROVE  ReviewInv'
  <2>1. Host!Classification' = Host!Classification
    BY <1>1 DEF Host!Classification
  <2>2. FoundInv => FoundInv'
    BY <1>1, <2>1 DEF FoundInv
  <2> QED
    BY <1>1, <2>2 DEF ReviewInv
<1>2. ASSUME NEW a \in Attempts, Host!Begin(a) PROVE ReviewInv'
  <2>1. review'.next = "none" /\ review'.verdict = "none"
    BY <1>2 DEF Host!Begin, Host!NoReview
  <2> QED
    BY <1>0, <2>1 DEF ReviewInv, FoundInv
<1>3. CASE Walk \/ Host!Send \/ Host!Return \/ Host!Fail
  <2>1. serving # Host!NoSession /\ UNCHANGED <<review, there, changed>>
    BY <1>3, Walking DEF Host!Send, Host!Return, Host!Fail, Host!engine, Host!audit
  <2> QED
    BY <1>1, <2>1
<1>4. ASSUME NEW a \in Attempts,
             Host!Perform(a) \/ Host!PerformPartly(a) \/ Host!Refuse(a) PROVE ReviewInv'
  <2>1. serving' = serving \/ serving # Host!NoSession
    <3>1. CASE serving.attempt = a
      BY <3>1 DEF Host!NoSession, Host!BackendAssumption
    <3>2. CASE serving.attempt # a
      BY <1>4, <3>2 DEF Host!Perform, Host!PerformPartly, Host!Refuse
    <3> QED
      BY <3>1, <3>2
  <2>2. review' = review
    BY <1>4 DEF Host!Perform, Host!PerformPartly, Host!Refuse, Host!audit
  <2>3. changed' \in BOOLEAN /\ (changed' = FALSE => changed = FALSE /\ there' = there)
    BY <1>4, MakeTypes DEF Host!Perform, Host!PerformPartly, Host!Refuse, Host!audit, BackendTypes
  <2>4. CASE changed' = FALSE
    BY <1>1, <2>1, <2>2, <2>3, <2>4 DEF BackendTypes
  <2>5. CASE changed' = TRUE
    BY <2>1, <2>2, <2>5 DEF ReviewInv
  <2> QED
    BY <2>3, <2>4, <2>5
<1>5. ASSUME NEW parts, Host!Remove(parts) PROVE ReviewInv'
  BY <1>5 DEF Host!Remove, ReviewInv
<1>6. CASE Host!Reviewing
  BY <1>6, ReviewingStep
<1>7. CASE UNCHANGED Host!vars
  BY <1>1, <1>7 DEF Host!vars
<1> QED
  BY <1>2, <1>3, <1>4, <1>5, <1>6, <1>7 DEF Host!Next, Host!Serve, Walk

-----------------------------------------------------------------------------

BackendInv ==
  /\ BackendTypes /\ PendingInv /\ DatabaseInv /\ OnceInv /\ ServedInv /\ ReceiptInv /\ ReviewInv

LEMMA BackendInit == ASSUME Host!BackendAssumption, Host!Init PROVE BackendInv
<1>0. Host!None \notin Attempts /\ Host!NoSession.attempt = Host!None
  BY DEF Host!BackendAssumption, Host!NoSession
<1>1. BackendTypes
  BY BackendTypesInit
<1>2. PendingInv
  BY <1>0 DEF Host!Init, PendingInv
<1>3. DatabaseInv
  BY DEF Host!Init, DatabaseInv, Host!Nothing, Host!Parts, Host!Databases
<1>4. OnceInv
  BY <1>0 DEF Host!Init, OnceInv, NetworkOnce, Host!Nothing, Host!Parts, Host!Named
<1>5. ServedInv
  BY DEF Host!Init, ServedInv
<1>6. ReceiptInv
  BY DEF Host!Init, ReceiptInv, Host!NoReceipt
<1>7. ReviewInv
  <2>1. review.next = "none" /\ review.verdict = "none"
    BY DEF Host!Init, Host!NoReview
  <2> QED
    BY <2>1 DEF ReviewInv, FoundInv, Host!Named, Host!Networks, Host!Volumes
<1> QED
  BY <1>1, <1>2, <1>3, <1>4, <1>5, <1>6, <1>7 DEF BackendInv

LEMMA BackendStep == ASSUME Host!BackendAssumption, BackendInv,
                            [Host!Next]_(Host!vars) PROVE BackendInv'
BY BackendTypesStep, PendingStep, DatabaseStep, OnceStep, ServedStep, ReceiptStep, ReviewStep
DEF BackendInv

LEMMA BackendIsBackend == OneSpec => Host!Spec
<1>1. OneInit => Host!Init
  BY DEF OneInit
<1>2. [OneNext]_<<at, vars, backendVars>> => [Host!Next]_(Host!vars)
  <2>0. UNCHANGED backendVars => UNCHANGED Host!vars
    BY DEF backendVars, Host!vars
  <2> QED
    BY <2>0 DEF OneNext
<1> QED
  BY <1>1, <1>2, PTL DEF OneSpec, Host!Spec

LEMMA BackendCorrect == OneSpec => []BackendInv
<1>1. Host!Init => BackendInv
  BY BackendConstants, BackendInit
<1>2. BackendInv /\ [Host!Next]_(Host!vars) => BackendInv'
  BY BackendConstants, BackendStep
<1> QED
  BY BackendIsBackend, <1>1, <1>2, PTL DEF Host!Spec

\* A receipt lists what was there together at the observation of the
\* database, not what the creations answered (allocate_empty_resources).
THEOREM ReceiptSnapshot == OneSpec => []ReceiptIsASnapshot
<1>1. BackendInv => ReceiptIsASnapshot
  BY DEF BackendInv, ReceiptInv, ReceiptIsASnapshot, Host!ReceiptIsASnapshot
<1> QED
  BY BackendCorrect, <1>1, PTL

\* What a receipt lists, volumes aside, its own allocation made, unless the
\* operator removed it meanwhile, and whatever request of another is still on
\* its way (_allocate_network, _run_postgres_step).
THEOREM NoneAdopted == OneSpec => []NothingAdopted
<1>1. BackendInv => NothingAdopted
  BY DEF BackendInv, ReceiptInv, NothingAdopted, Host!NothingAdopted
<1> QED
  BY BackendCorrect, <1>1, PTL

\* A reconciliation during which nothing changes classifies what is there
\* (reconcile_read_only).
THEOREM ClassifiedRight == OneSpec => []ClassificationIsRight
<1>1. BackendInv => ClassificationIsRight
  <2>1. ASSUME BackendInv, review.verdict # "none", ~changed
        PROVE  review.verdict = Host!Classification
    BY <2>1 DEF BackendInv, ReviewInv, FoundInv
  <2> QED
    BY <2>1 DEF ClassificationIsRight, Host!ClassificationIsRight
<1> QED
  BY BackendCorrect, <1>1, PTL
=============================================================================
