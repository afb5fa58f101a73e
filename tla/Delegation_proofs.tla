-------------------------- MODULE Delegation_proofs --------------------------
(***************************************************************************)
(* Proofs about Delegation, for any number of callers, processes, grants   *)
(* and runs.                                                               *)
(***************************************************************************)
EXTENDS Delegation, TLAPS

PCs == {"idle"} \cup Steps \cup Results

\* Changing the step of one call leaves a table of calls.
LEMMA GotoType ==
  ASSUME call \in [Callers -> Calls], NEW c \in Callers, NEW pc \in PCs, Goto(c, pc)
  PROVE  call' \in [Callers -> Calls]
<1>1. [call[c] EXCEPT !.pc = pc] \in Calls
  BY DEF Calls, PCs
<1>2. QED
  BY <1>1 DEF Goto

\* So does a step that also settles one of the history flags.
LEMMA FlagType ==
  ASSUME call \in [Callers -> Calls], NEW c \in Callers, NEW pc \in PCs
  PROVE  /\ [call EXCEPT ![c].pc = pc, ![c].inserted = TRUE] \in [Callers -> Calls]
         /\ [call EXCEPT ![c].pc = pc, ![c].sent = TRUE] \in [Callers -> Calls]
<1>1. [call[c] EXCEPT !.pc = pc, !.inserted = TRUE] \in Calls
  BY DEF Calls, PCs
<1>2. [call[c] EXCEPT !.pc = pc, !.sent = TRUE] \in Calls
  BY DEF Calls, PCs
<1>3. QED
  BY <1>1, <1>2

\* A call's run is a run, and recording a state of it keeps the logs' type.
LEMMA RecordType ==
  ASSUME TypeOK, NEW c \in Callers, NEW target \in {"INITIAL", "CREATED", "ACTIVE"},
         Record(c, target)
  PROVE  state' \in [Logs -> [Runs -> {"INITIAL", "CREATED", "ACTIVE"}]]
<1>1. LogOf[c] \in Logs /\ Run(c) \in Runs
  BY ConstantsAssumption DEF TypeOK, Calls, Run
<1>2. [state[LogOf[c]] EXCEPT ![Run(c)] = target] \in [Runs -> {"INITIAL", "CREATED", "ACTIVE"}]
  BY <1>1 DEF TypeOK
<1>3. QED
  BY <1>1, <1>2 DEF TypeOK, Record

LEMMA InsertType ==
  ASSUME TypeOK, NEW c \in Callers, Insert(c)
  PROVE  claims' \in [Auths -> Routes \cup {NoClaim}]
<1>1. call[c].route \in Routes
  BY DEF TypeOK, Calls
<1>2. QED
  BY <1>1 DEF TypeOK, Insert

\* Every variable keeps its type.
THEOREM TypeCorrect == Spec => []TypeOK
<1>1. Init => TypeOK
  <2> SUFFICES ASSUME Init PROVE TypeOK
    OBVIOUS
  <2>1. call \in [Callers -> Calls]
    BY DEF Init, Calls
  <2>2. QED
    BY <2>1 DEF Init, TypeOK
<1>2. TypeOK /\ [Next]_vars => TypeOK'
  <2> SUFFICES ASSUME TypeOK, [Next]_vars PROVE TypeOK'
    OBVIOUS
  <2>0. call \in [Callers -> Calls]
    BY DEF TypeOK
  <2>1. ASSUME NEW c \in Callers, Submit(c) PROVE TypeOK'
    <3>1. PICK a \in Auths, route \in Routes :
            call' = [call EXCEPT ![c] =
                 [ pc |-> IF Admitted(c, a, route) THEN "create" ELSE "REJECTED_NOT_CLAIMED",
                   auth |-> a, route |-> route, inserted |-> FALSE, sent |-> FALSE ]]
      BY <2>1 DEF Submit
    <3>2. [ pc |-> IF Admitted(c, a, route) THEN "create" ELSE "REJECTED_NOT_CLAIMED",
            auth |-> a, route |-> route, inserted |-> FALSE, sent |-> FALSE ] \in Calls
      BY DEF Calls, Steps, Results
    <3>3. call' \in [Callers -> Calls]
      BY <2>0, <3>1, <3>2
    <3>4. QED
      BY <2>1, <3>3 DEF TypeOK, Submit
  <2>2. ASSUME NEW c \in Callers, Step(c) PROVE TypeOK'
    <3> USE <2>0
    <3>1. CASE CreateRecorded(c)
      <4>1. call' \in [Callers -> Calls]
        BY <3>1, GotoType DEF CreateRecorded, PCs, Steps
      <4>2. QED
        BY <3>1, <4>1, RecordType DEF CreateRecorded, TypeOK
    <3>2. CASE CreateFailed(c)
      <4>1. call' \in [Callers -> Calls]
        BY <3>2, GotoType DEF CreateFailed, PCs, Results
      <4>2. state' = state \/ Record(c, "CREATED")
        BY <3>2 DEF CreateFailed
      <4>3. state' \in [Logs -> [Runs -> {"INITIAL", "CREATED", "ACTIVE"}]]
        BY <4>2, RecordType DEF TypeOK
      <4>4. UNCHANGED <<claims, expired, attempts>>
        BY <3>2 DEF CreateFailed
      <4>5. QED
        BY <4>1, <4>3, <4>4 DEF TypeOK
    <3>3. CASE Claimed(c)
      <4>1. call' \in [Callers -> Calls]
        BY <3>3, FlagType DEF Claimed, PCs, Steps
      <4>2. QED
        BY <3>3, <4>1, InsertType DEF Claimed, TypeOK
    <3>4. CASE AlreadyClaimed(c)
      <4>1. call' \in [Callers -> Calls]
        BY <3>4, GotoType DEF AlreadyClaimed, PCs, Results
      <4>2. QED
        BY <3>4, <4>1 DEF AlreadyClaimed, TypeOK
    <3>5. CASE ClaimFailed(c)
      <4>1. call' \in [Callers -> Calls]
        <5>1. CASE Goto(c, "CLAIM_UNCERTAIN")
          BY <5>1, GotoType DEF PCs, Results
        <5>2. CASE call' = [call EXCEPT ![c].pc = "CLAIM_UNCERTAIN", ![c].inserted = TRUE]
          BY <5>2, FlagType DEF PCs, Results
        <5>3. QED
          BY <3>5, <5>1, <5>2 DEF ClaimFailed
      <4>2. claims' = claims \/ Insert(c)
        BY <3>5 DEF ClaimFailed
      <4>3. claims' \in [Auths -> Routes \cup {NoClaim}]
        BY <4>2, InsertType DEF TypeOK
      <4>4. UNCHANGED <<state, expired, attempts>>
        BY <3>5 DEF ClaimFailed
      <4>5. QED
        BY <4>1, <4>3, <4>4 DEF TypeOK
    <3>6. CASE StartRecorded(c)
      <4>1. call' \in [Callers -> Calls]
        BY <3>6, GotoType DEF StartRecorded, PCs, Steps
      <4>2. QED
        BY <3>6, <4>1, RecordType DEF StartRecorded, TypeOK
    <3>7. CASE StartFailed(c)
      <4>1. call' \in [Callers -> Calls]
        BY <3>7, GotoType DEF StartFailed, PCs, Results
      <4>2. state' = state \/ Record(c, "ACTIVE")
        BY <3>7 DEF StartFailed
      <4>3. state' \in [Logs -> [Runs -> {"INITIAL", "CREATED", "ACTIVE"}]]
        BY <4>2, RecordType DEF TypeOK
      <4>4. UNCHANGED <<claims, expired, attempts>>
        BY <3>7 DEF StartFailed
      <4>5. QED
        BY <4>1, <4>3, <4>4 DEF TypeOK
    <3>8. CASE Dispatch(c)
      <4>1. call' \in [Callers -> Calls]
        <5>1. PICK result \in {"SUCCEEDED", "DISPATCH_UNCERTAIN"} :
                call' = [call EXCEPT ![c].pc = result, ![c].sent = TRUE]
          BY <3>8 DEF Dispatch
        <5>2. result \in PCs
          BY DEF PCs, Results
        <5>3. QED
          BY <5>1, <5>2, FlagType
      <4>2. call[c].auth \in Auths
        BY DEF Calls
      <4>3. attempts' \in [Auths -> Nat]
        BY <3>8, <4>2 DEF Dispatch, TypeOK
      <4>4. QED
        BY <3>8, <4>1, <4>3 DEF Dispatch, TypeOK
    <3>9. QED
      BY <2>2, <3>1, <3>2, <3>3, <3>4, <3>5, <3>6, <3>7, <3>8 DEF Step
  <2>3. ASSUME NEW c \in Callers, Crash(c) PROVE TypeOK'
    <3>1. \A d \in Callers : [call[d] EXCEPT !.pc = "idle"] \in Calls
      BY <2>0 DEF Calls
    <3>2. call' \in [Callers -> Calls]
      BY <2>0, <2>3, <3>1 DEF Crash
    <3>3. [r \in Runs |-> "INITIAL"] \in [Runs -> {"INITIAL", "CREATED", "ACTIVE"}]
      OBVIOUS
    <3>4. state' \in [Logs -> [Runs -> {"INITIAL", "CREATED", "ACTIVE"}]]
      BY <2>3, <3>3 DEF Crash, TypeOK
    <3>5. QED
      BY <2>3, <3>2, <3>4 DEF Crash, TypeOK
  <2>4. ASSUME NEW a \in Auths, Expire(a) PROVE TypeOK'
    BY <2>4 DEF Expire, TypeOK
  <2>5. CASE UNCHANGED vars
    BY <2>5 DEF vars, TypeOK
  <2>6. QED
    BY <2>1, <2>2, <2>3, <2>4, <2>5 DEF Next
<1>3. QED
  BY <1>1, <1>2, PTL DEF Spec

-----------------------------------------------------------------------------
\* A call between its claim row and the end of its dispatch.
Holding(c) == call[c].pc \in {"start", "dispatch"}

\* The inductive strengthening of OneDispatchPerAuthorization: an
\* authorization has at most one holder, and a holder means claimed and not
\* yet attempted.
AuthInv ==
  /\ \A a \in Auths : attempts[a] \in {0, 1} /\ (attempts[a] = 1 => claims[a] # NoClaim)
  /\ \A c \in Callers :
       Holding(c) => claims[call[c].auth] # NoClaim /\ attempts[call[c].auth] = 0
  /\ \A c, d \in Callers :
       Holding(c) /\ Holding(d) /\ call[c].auth = call[d].auth => c = d

\* Each step preserves it.  Only a step that inserts a claim row makes a
\* holder, and it demands that there was no row.
LEMMA AuthInvStep == TypeOK /\ AuthInv /\ [Next]_vars => AuthInv'
<1> SUFFICES ASSUME TypeOK, AuthInv, [Next]_vars PROVE AuthInv'
  OBVIOUS
<1>0. call \in [Callers -> Calls] /\ \A c \in Callers : call[c].auth \in Auths /\ call[c].route \in Routes
  BY DEF TypeOK, Calls
<1>1. ASSUME NEW c \in Callers, call' = [call EXCEPT ![c] = call'[c]],
             ~ Holding(c)', claims' = claims \/ Insert(c), attempts' = attempts
      PROVE  AuthInv'
  <2>1. \A d \in Callers : Holding(d)' => d # c /\ Holding(d) /\ call'[d] = call[d]
    BY <1>0, <1>1 DEF Holding
  <2>2. \A a \in Auths : claims[a] # NoClaim => claims'[a] = claims[a]
    BY <1>0, <1>1 DEF Insert, TypeOK
  <2>3. QED
    BY <1>0, <1>1, <2>1, <2>2 DEF AuthInv
<1>2. ASSUME NEW c \in Callers, Submit(c) PROVE AuthInv'
  <2>1. call' = [call EXCEPT ![c] = call'[c]] /\ call'[c].pc \notin {"start", "dispatch"}
    BY <1>0, <1>2 DEF Submit
  <2>2. QED
    BY <1>1, <1>2, <2>1 DEF Submit, Holding
<1>3. ASSUME NEW c \in Callers, Step(c) PROVE AuthInv'
  <2> USE <1>0
  <2>1. CASE CreateRecorded(c)
    BY <1>1, <2>1 DEF CreateRecorded, Goto, Holding, Calls
  <2>2. CASE CreateFailed(c)
    BY <1>1, <2>2 DEF CreateFailed, Goto, Holding, Calls
  <2>3. CASE Claimed(c)
    <3>1. claims[call[c].auth] = NoClaim /\ claims'[call[c].auth] # NoClaim
      BY <2>3, NoClaimAssumption DEF Claimed, Insert, TypeOK
    <3>2. attempts[call[c].auth] = 0
      BY <3>1 DEF AuthInv
    <3>3. \A d \in Callers : call'[d].auth = call[d].auth /\ (d # c => (Holding(d)' <=> Holding(d)))
      BY <2>3 DEF Claimed, Holding, Calls
    <3>4. \A d \in Callers : Holding(d) => call[d].auth # call[c].auth
      BY <3>1 DEF AuthInv
    <3>5. \A a \in Auths : a # call[c].auth => claims'[a] = claims[a]
      BY <2>3 DEF Claimed, Insert, TypeOK
    <3>6. attempts' = attempts
      BY <2>3 DEF Claimed
    <3>7. QED
      BY <3>1, <3>2, <3>3, <3>4, <3>5, <3>6 DEF AuthInv
  <2>4. CASE AlreadyClaimed(c)
    <3>1. call' = [call EXCEPT ![c].pc = "NOT_CLAIMED"]
      BY <2>4 DEF AlreadyClaimed, Goto
    <3>2. call' = [call EXCEPT ![c] = call'[c]] /\ ~ Holding(c)'
      BY <3>1 DEF Holding, Calls
    <3>3. claims' = claims /\ attempts' = attempts
      BY <2>4 DEF AlreadyClaimed
    <3> QED
      BY <1>1, <3>2, <3>3
  <2>5. CASE ClaimFailed(c)
    BY <1>1, <2>5 DEF ClaimFailed, Goto, Holding, Calls
  <2>6. CASE StartRecorded(c)
    <3>1. \A d \in Callers : call'[d].auth = call[d].auth /\ (Holding(d)' <=> Holding(d))
      BY <2>6 DEF StartRecorded, Goto, Holding, Calls
    <3>2. claims' = claims /\ attempts' = attempts
      BY <2>6 DEF StartRecorded
    <3>3. QED
      BY <3>1, <3>2 DEF AuthInv
  <2>7. CASE StartFailed(c)
    BY <1>1, <2>7 DEF StartFailed, Goto, Holding, Calls
  <2>8. CASE Dispatch(c)
    <3>1. \A d \in Callers : call'[d].auth = call[d].auth
                             /\ (Holding(d)' <=> Holding(d) /\ d # c)
      BY <2>8 DEF Dispatch, Holding, Calls
    <3>2. Holding(c) /\ claims' = claims
      BY <2>8 DEF Dispatch, Holding
    <3>3. /\ attempts'[call[c].auth] = attempts[call[c].auth] + 1
          /\ \A a \in Auths : a # call[c].auth => attempts'[a] = attempts[a]
      BY <2>8 DEF Dispatch, TypeOK
    <3>4. QED
      BY <3>1, <3>2, <3>3 DEF AuthInv
  <2>9. QED
    BY <1>3, <2>1, <2>2, <2>3, <2>4, <2>5, <2>6, <2>7, <2>8 DEF Step
<1>4. ASSUME NEW c \in Callers, Crash(c) PROVE AuthInv'
  <2>1. \A d \in Callers : call'[d].auth = call[d].auth /\ (Holding(d)' => Holding(d))
    BY <1>0, <1>4 DEF Crash, Holding, Calls
  <2>2. claims' = claims /\ attempts' = attempts
    BY <1>4 DEF Crash
  <2>3. QED
    BY <1>0, <2>1, <2>2 DEF AuthInv
<1>5. ASSUME NEW a \in Auths, Expire(a) PROVE AuthInv'
  <2>1. claims' = claims /\ attempts' = attempts /\ call' = call
    BY <1>5 DEF Expire
  <2>2. QED
    BY <2>1 DEF AuthInv, Holding
<1>6. CASE UNCHANGED vars
  BY <1>6 DEF vars, AuthInv, Holding
<1>7. QED
  BY <1>2, <1>3, <1>4, <1>5, <1>6 DEF Next

\* The single-attempt posture holds for any set of callers, processes and
\* logs, shared or not: the claim row alone carries it.
THEOREM SingleAttempt == Spec => []OneDispatchPerAuthorization
<1>1. Init => AuthInv
  <2> SUFFICES ASSUME Init PROVE AuthInv
    OBVIOUS
  <2>1. \A c \in Callers : ~ Holding(c)
    BY DEF Init, Holding
  <2>2. \A a \in Auths : attempts[a] = 0
    BY DEF Init
  <2>3. QED
    BY <2>1, <2>2 DEF AuthInv
<1>2. AuthInv => OneDispatchPerAuthorization
  <2> SUFFICES ASSUME AuthInv, NEW a \in Auths PROVE attempts[a] <= 1
    BY DEF OneDispatchPerAuthorization
  <2>1. attempts[a] \in {0, 1}
    BY DEF AuthInv
  <2>2. QED
    BY <2>1
<1>3. QED
  BY <1>1, <1>2, TypeCorrect, AuthInvStep, PTL DEF Spec

-----------------------------------------------------------------------------
\* A call that goes on with the run it recorded.
Owns(c) == call[c].pc \in {"claim", "start", "dispatch"}

\* The inductive strengthening of OneDispatchPerRun and DispatchIsOnRecord
\* under a shared durable log: a run has at most one owner, and an owner means
\* recorded and not yet attempted under any authorization.
RunInv ==
  /\ \A c \in Callers : Owns(c) => StateOf(c) # "INITIAL"
  /\ \A c, d \in Callers : Owns(c) /\ Owns(d) /\ Run(c) = Run(d) => c = d
  /\ \A c \in Callers, a \in Auths : Owns(c) /\ RunOf[a] = Run(c) => attempts[a] = 0
  /\ \A c \in Callers : call[c].pc = "dispatch" => StateOf(c) = "ACTIVE"
  /\ \A a \in Auths, c \in Callers : attempts[a] > 0 => state[LogOf[c]][RunOf[a]] = "ACTIVE"
  /\ \A a, b \in Auths : RunOf[a] = RunOf[b] /\ attempts[a] > 0 /\ attempts[b] > 0 => a = b

\* A run's state in the one log, whoever looks.
LEMMA OneLog ==
  ASSUME SharedDurableLog, NEW c \in Callers, NEW d \in Callers
  PROVE  LogOf[c] = LogOf[d] /\ LogOf[c] \in Logs /\ LogOf[c] \notin Volatile
BY ConstantsAssumption DEF SharedDurableLog

LEMMA RunInvStep == SharedDurableLog /\ TypeOK /\ RunInv /\ [Next]_vars => RunInv'
<1> SUFFICES ASSUME SharedDurableLog, TypeOK, RunInv, [Next]_vars PROVE RunInv'
  OBVIOUS
<1>0. /\ call \in [Callers -> Calls]
      /\ \A c \in Callers : call[c].auth \in Auths /\ Run(c) \in Runs
  BY ConstantsAssumption DEF TypeOK, Calls, Run
\* A step in which no call gains ownership and no state goes back.
<1>1. ASSUME attempts' = attempts,
             \A d \in Callers : Owns(d)' => Owns(d) /\ call'[d].auth = call[d].auth,
             \A d \in Callers : call'[d].pc = "dispatch" => StateOf(d)' = "ACTIVE",
             \A d \in Callers, r \in Runs :
               /\ state[LogOf[d]][r] # "INITIAL" => state'[LogOf[d]][r] # "INITIAL"
               /\ state[LogOf[d]][r] = "ACTIVE" => state'[LogOf[d]][r] = "ACTIVE"
      PROVE  RunInv'
  <2>1. \A d \in Callers : Owns(d)' => Run(d)' = Run(d)
    BY <1>1 DEF Run
  <2>2. \A d \in Callers : Owns(d)' => StateOf(d)' # "INITIAL"
    BY <1>0, <1>1, <2>1 DEF RunInv, StateOf
  <2>3. \A a \in Auths, d \in Callers : attempts'[a] > 0 => state'[LogOf[d]][RunOf[a]] = "ACTIVE"
    BY <1>1, ConstantsAssumption DEF RunInv
  <2>4. \A d \in Callers, a \in Auths : Owns(d)' /\ RunOf[a] = Run(d)' => attempts'[a] = 0
    BY <1>1, <2>1 DEF RunInv
  <2>5. \A d, e \in Callers : Owns(d)' /\ Owns(e)' /\ Run(d)' = Run(e)' => d = e
    BY <1>1, <2>1 DEF RunInv
  <2>6. QED
    BY <1>1, <2>2, <2>3, <2>4, <2>5 DEF RunInv
\* Recording a state in the one log changes one run for every caller.
<1>2. ASSUME NEW c \in Callers, NEW target \in {"CREATED", "ACTIVE"}, Record(c, target)
      PROVE  \A d \in Callers, r \in Runs :
               state'[LogOf[d]][r] = IF r = Run(c) THEN target ELSE state[LogOf[d]][r]
  BY <1>0, <1>2, OneLog DEF Record, TypeOK
<1>3. ASSUME NEW c \in Callers, Submit(c) PROVE RunInv'
  <2>1. \A d \in Callers : d # c => call'[d] = call[d]
    BY <1>0, <1>3 DEF Submit
  <2>2. call'[c].pc \notin {"claim", "start", "dispatch"}
    BY <1>0, <1>3 DEF Submit
  <2>3. attempts' = attempts /\ state' = state
    BY <1>3 DEF Submit
  <2>4. \A d \in Callers : call'[d].pc = "dispatch" => StateOf(d)' = "ACTIVE"
    BY <2>1, <2>2, <2>3 DEF RunInv, StateOf, Run
  <2>5. QED
    BY <1>1, <2>1, <2>2, <2>3, <2>4 DEF Owns
<1>4. ASSUME NEW c \in Callers, Step(c) PROVE RunInv'
  <2>0. \A d \in Callers : call'[d].auth = call[d].auth /\ (d # c => call'[d] = call[d])
    BY <1>0, <1>4 DEF Step, CreateRecorded, CreateFailed, Claimed, AlreadyClaimed, ClaimFailed,
       StartRecorded, StartFailed, Dispatch, Goto, Calls
  <2>1. CASE CreateRecorded(c)
    <3>1. StateOf(c) = "INITIAL" /\ Record(c, "CREATED") /\ attempts' = attempts
      BY <2>1 DEF CreateRecorded
    <3>2. \A d \in Callers : Owns(d)' => d = c \/ Owns(d)
      BY <2>0 DEF Owns
    <3>3. \A d \in Callers : Run(d)' = Run(d)
      BY <2>0 DEF Run
    <3>4. \A d \in Callers, r \in Runs :
            state'[LogOf[d]][r] = IF r = Run(c) THEN "CREATED" ELSE state[LogOf[d]][r]
      BY <1>2, <3>1
    <3>5. \A d \in Callers : state[LogOf[d]][Run(c)] = "INITIAL"
      BY <3>1, OneLog DEF StateOf
    <3>6. \A d \in Callers : Owns(d) => Run(d) # Run(c)
      BY <3>5 DEF RunInv, StateOf
    <3>7. \A a \in Auths : attempts[a] > 0 => RunOf[a] # Run(c)
      BY <3>5 DEF RunInv
    <3>8. call'[c].pc = "claim"
      BY <1>0, <2>1 DEF CreateRecorded, Goto, Calls
    <3>9. \A a \in Auths : attempts[a] \in Nat
      BY DEF TypeOK
    <3>10. \A d \in Callers : Owns(d)' => StateOf(d)' # "INITIAL"
      BY <1>0, <3>2, <3>3, <3>4, <3>6 DEF RunInv, StateOf
    <3>11. \A d, e \in Callers : Owns(d)' /\ Owns(e)' /\ Run(d)' = Run(e)' => d = e
      BY <3>2, <3>3, <3>6 DEF RunInv
    <3>12. \A d \in Callers, a \in Auths : Owns(d)' /\ RunOf[a] = Run(d)' => attempts'[a] = 0
      BY <3>1, <3>2, <3>3, <3>7, <3>9 DEF RunInv
    <3>13. \A d \in Callers : call'[d].pc = "dispatch" => StateOf(d)' = "ACTIVE"
      BY <1>0, <2>0, <3>3, <3>4, <3>6, <3>8 DEF RunInv, StateOf, Owns
    <3>14. \A a \in Auths, d \in Callers : attempts'[a] > 0 => state'[LogOf[d]][RunOf[a]] = "ACTIVE"
      BY <3>1, <3>4, <3>7, ConstantsAssumption DEF RunInv
    <3>15. \A a, b \in Auths : RunOf[a] = RunOf[b] /\ attempts'[a] > 0 /\ attempts'[b] > 0 => a = b
      BY <3>1 DEF RunInv
    <3>16. QED
      BY <3>10, <3>11, <3>12, <3>13, <3>14, <3>15 DEF RunInv
  <2>2. CASE CreateFailed(c)
    <3>1. attempts' = attempts /\ call'[c].pc = "PRECLAIM_PERSISTENCE_FAILED"
      BY <1>0, <2>2 DEF CreateFailed, Goto, Calls
    <3>2. state' = state \/ (StateOf(c) = "INITIAL" /\ Record(c, "CREATED"))
      BY <2>2 DEF CreateFailed
    <3>3. \A d \in Callers : StateOf(c) = "INITIAL" => state[LogOf[d]][Run(c)] = "INITIAL"
      BY OneLog DEF StateOf
    <3>4. \A d \in Callers, r \in Runs :
             /\ state[LogOf[d]][r] # "INITIAL" => state'[LogOf[d]][r] # "INITIAL"
             /\ state[LogOf[d]][r] = "ACTIVE" => state'[LogOf[d]][r] = "ACTIVE"
      BY <1>2, <3>2, <3>3
    <3>5. \A d \in Callers : call'[d].pc = "dispatch" => StateOf(d)' = "ACTIVE"
      BY <1>0, <2>0, <3>1, <3>4 DEF RunInv, StateOf, Run
    <3>6. QED
      BY <1>1, <2>0, <3>1, <3>4, <3>5 DEF Owns
  <2>3. CASE Claimed(c) \/ AlreadyClaimed(c) \/ ClaimFailed(c)
    <3>1. attempts' = attempts /\ state' = state /\ Owns(c) /\ call'[c].pc # "dispatch"
      BY <1>0, <2>3 DEF Claimed, AlreadyClaimed, ClaimFailed, Goto, Calls, Owns
    <3>2. \A d \in Callers : call'[d].pc = "dispatch" => StateOf(d)' = "ACTIVE"
      BY <2>0, <3>1 DEF RunInv, StateOf, Run
    <3>3. QED
      BY <1>1, <2>0, <3>1, <3>2 DEF Owns
  <2>4. CASE StartRecorded(c) \/ StartFailed(c)
    <3>1. attempts' = attempts /\ Owns(c) /\ (call'[c].pc = "dispatch" => Record(c, "ACTIVE"))
      BY <1>0, <2>4 DEF StartRecorded, StartFailed, Goto, Calls, Owns
    <3>2. state' = state \/ Record(c, "ACTIVE")
      BY <2>4 DEF StartRecorded, StartFailed
    <3>3. \A d \in Callers, r \in Runs :
             /\ state[LogOf[d]][r] # "INITIAL" => state'[LogOf[d]][r] # "INITIAL"
             /\ state[LogOf[d]][r] = "ACTIVE" => state'[LogOf[d]][r] = "ACTIVE"
      BY <1>2, <3>2
    <3>4. call'[c].pc = "dispatch" => StateOf(c)' = "ACTIVE"
      BY <1>0, <1>2, <2>0, <3>1 DEF StateOf, Run
    <3>5. \A d \in Callers : call'[d].pc = "dispatch" => StateOf(d)' = "ACTIVE"
      BY <1>0, <2>0, <3>3, <3>4 DEF RunInv, StateOf, Run
    <3>6. QED
      BY <1>1, <2>0, <3>1, <3>3, <3>5 DEF Owns
  <2>5. CASE Dispatch(c)
    <3>1. Owns(c) /\ state' = state /\ call[c].pc = "dispatch"
      BY <2>5 DEF Dispatch, Owns
    <3>2. call'[c].pc \in {"SUCCEEDED", "DISPATCH_UNCERTAIN"}
      BY <1>0, <2>5 DEF Dispatch, Calls
    <3>3. \A d \in Callers : (Owns(d)' <=> Owns(d) /\ d # c) /\ Run(d)' = Run(d)
      BY <2>0, <3>1, <3>2 DEF Owns, Run
    <3>4. \A a \in Auths : attempts[a] \in Nat /\ (a # call[c].auth => attempts'[a] = attempts[a])
      BY <2>5 DEF Dispatch, TypeOK
    <3>5. \A d \in Callers : state[LogOf[d]][Run(c)] = "ACTIVE"
      BY <3>1, OneLog DEF RunInv, StateOf
    <3>6. \A d \in Callers : Owns(d)' => Run(d) # Run(c)
      BY <3>1, <3>3 DEF RunInv
    <3>7. \A a \in Auths : RunOf[a] = Run(c) => attempts[a] = 0
      BY <3>1 DEF RunInv
    <3>8. \A d \in Callers : Owns(d)' => StateOf(d)' # "INITIAL"
      BY <3>1, <3>3 DEF RunInv, StateOf
    <3>9. \A d, e \in Callers : Owns(d)' /\ Owns(e)' /\ Run(d)' = Run(e)' => d = e
      BY <3>3 DEF RunInv
    <3>10. \A d \in Callers, a \in Auths : Owns(d)' /\ RunOf[a] = Run(d)' => attempts'[a] = 0
      <4> SUFFICES ASSUME NEW d \in Callers, NEW a \in Auths, Owns(d)', RunOf[a] = Run(d)'
                   PROVE attempts'[a] = 0
        OBVIOUS
      <4>1. a # call[c].auth
        BY <3>3, <3>6 DEF Run
      <4>2. QED
        BY <3>3, <3>4, <4>1 DEF RunInv
    <3>11. \A d \in Callers : call'[d].pc = "dispatch" => StateOf(d)' = "ACTIVE"
      BY <2>0, <3>1, <3>2 DEF RunInv, StateOf, Run
    <3>12. \A a \in Auths, d \in Callers : attempts'[a] > 0 => state'[LogOf[d]][RunOf[a]] = "ACTIVE"
      BY <3>1, <3>4, <3>5 DEF RunInv, Run
    <3>13. \A a, b \in Auths : RunOf[a] = RunOf[b] /\ attempts'[a] > 0 /\ attempts'[b] > 0 => a = b
      BY <3>4, <3>7 DEF RunInv, Run
    <3>14. QED
      BY <3>8, <3>9, <3>10, <3>11, <3>12, <3>13 DEF RunInv
  <2>6. QED
    BY <1>4, <2>1, <2>2, <2>3, <2>4, <2>5 DEF Step
<1>5. ASSUME NEW c \in Callers, Crash(c) PROVE RunInv'
  <2>1. attempts' = attempts /\ state' = state
    BY <1>5, OneLog DEF Crash
  <2>2. \A d \in Callers : call'[d].auth = call[d].auth /\ call'[d].pc \in {"idle", call[d].pc}
    BY <1>0, <1>5 DEF Crash, Calls
  <2>3. \A d \in Callers : call'[d].pc = "dispatch" => StateOf(d)' = "ACTIVE"
    BY <2>1, <2>2 DEF RunInv, StateOf, Run
  <2>4. QED
    BY <1>1, <2>1, <2>2, <2>3 DEF Owns
<1>6. ASSUME NEW a \in Auths, Expire(a) PROVE RunInv'
  <2>1. attempts' = attempts /\ state' = state /\ call' = call
    BY <1>6 DEF Expire
  <2>2. QED
    BY <2>1 DEF RunInv, Owns, StateOf, Run
<1>7. CASE UNCHANGED vars
  BY <1>7 DEF vars, RunInv, Owns, StateOf, Run
<1>8. QED
  BY <1>3, <1>4, <1>5, <1>6, <1>7 DEF Next

LEMMA RunInvInit == Init => RunInv
<1> SUFFICES ASSUME Init PROVE RunInv
  OBVIOUS
<1>1. \A c \in Callers : ~ Owns(c) /\ call[c].pc # "dispatch"
  BY DEF Init, Owns
<1>2. \A a \in Auths : attempts[a] = 0
  BY DEF Init
<1>3. QED
  BY <1>1, <1>2 DEF RunInv

LEMMA DelegationInvariant == Spec => [](TypeOK /\ AuthInv /\ (SharedDurableLog => RunInv))
<1>1. Init => AuthInv /\ (SharedDurableLog => RunInv)
  <2> SUFFICES ASSUME Init PROVE AuthInv
    BY RunInvInit
  <2>1. \A c \in Callers : ~ Holding(c)
    BY DEF Init, Holding
  <2>2. \A a \in Auths : attempts[a] = 0
    BY DEF Init
  <2>3. QED
    BY <2>1, <2>2 DEF AuthInv
<1>2. TypeOK /\ AuthInv /\ (SharedDurableLog => RunInv) /\ [Next]_vars
        => AuthInv' /\ (SharedDurableLog => RunInv)'
  <2>1. SharedDurableLog' <=> SharedDurableLog
    BY DEF SharedDurableLog
  <2>2. QED
    BY <2>1, AuthInvStep, RunInvStep
<1>3. QED
  BY <1>1, <1>2, TypeCorrect, PTL DEF Spec

\* With one durable log a run is attempted at most once, whatever number of
\* authorizations is signed for it.
THEOREM SingleAttemptPerRun == Spec => []OneDispatchPerRun
<1>1. (SharedDurableLog => RunInv) => OneDispatchPerRun
  BY DEF RunInv, OneDispatchPerRun
<1>2. QED
  BY <1>1, DelegationInvariant, PTL

\* With one durable log an attempt implies the claim row and the recorded
\* start of its run.
THEOREM AttemptOnRecord == Spec => []DispatchIsOnRecord
<1>1. TypeOK /\ AuthInv /\ (SharedDurableLog => RunInv) => DispatchIsOnRecord
  <2> SUFFICES ASSUME TypeOK, AuthInv, SharedDurableLog, RunInv,
                      NEW a \in Auths, NEW c \in Callers, attempts[a] > 0
               PROVE  claims[a] # NoClaim /\ state[LogOf[c]][RunOf[a]] = "ACTIVE"
    BY DEF DispatchIsOnRecord
  <2>1. attempts[a] = 1
    BY DEF AuthInv
  <2>2. QED
    BY <2>1 DEF AuthInv, RunInv
<1>2. QED
  BY <1>1, DelegationInvariant, PTL

-----------------------------------------------------------------------------
\* A step of one authorization that the one-shot token allows, or none.
LEMMA PhaseStep ==
  ASSUME TypeOK, AuthInv, AuthInv', [Next]_vars
  PROVE  \/ \A a \in Auths : Phase(a)' = Phase(a)
         \/ \E t \in Auths :
              /\ \A a \in Auths \ {t} : Phase(a)' = Phase(a)
              /\ \/ Phase(t) = "fresh" /\ Phase(t)' = "spent"
                 \/ Phase(t) = "spent" /\ Phase(t)' = "attempted"
<1>0. \A c \in Callers : call[c].auth \in Auths /\ call[c].route \in Routes
  BY DEF TypeOK, Calls
<1>1. ASSUME claims' = claims, attempts' = attempts
      PROVE  \A a \in Auths : Phase(a)' = Phase(a)
  BY <1>1 DEF Phase
<1>2. ASSUME NEW c \in Callers, NEW t \in Auths, t = call[c].auth,
             Insert(c), attempts' = attempts
      PROVE  /\ \A a \in Auths \ {t} : Phase(a)' = Phase(a)
             /\ Phase(t) = "fresh" /\ Phase(t)' = "spent"
  <2>1. \A a \in Auths \ {t} : claims'[a] = claims[a]
    BY <1>2 DEF Insert, TypeOK
  <2>2. claims[t] = NoClaim /\ claims'[t] # NoClaim
    BY <1>0, <1>2, NoClaimAssumption DEF Insert, TypeOK
  <2>3. attempts[t] = 0
    BY <2>2 DEF AuthInv
  <2>4. QED
    BY <1>2, <2>1, <2>2, <2>3 DEF Phase
<1>3. ASSUME NEW c \in Callers, NEW t \in Auths, t = call[c].auth, Dispatch(c)
      PROVE  /\ \A a \in Auths \ {t} : Phase(a)' = Phase(a)
             /\ Phase(t) = "spent" /\ Phase(t)' = "attempted"
  <2>1. claims[t] # NoClaim /\ attempts[t] = 0 /\ claims' = claims
    BY <1>3 DEF Dispatch, AuthInv, Holding
  <2>2. attempts'[t] = 1 /\ \A a \in Auths \ {t} : attempts'[a] = attempts[a]
    BY <1>3, <2>1 DEF Dispatch, TypeOK
  <2>3. QED
    BY <2>1, <2>2 DEF Phase
<1>4. ASSUME NEW c \in Callers, Step(c)
      PROVE  \/ claims' = claims /\ attempts' = attempts
             \/ Insert(c) /\ attempts' = attempts
             \/ Dispatch(c)
  BY <1>4 DEF Step, CreateRecorded, CreateFailed, Claimed, AlreadyClaimed, ClaimFailed,
     StartRecorded, StartFailed
<1>5. CASE \E c \in Callers : Step(c)
  BY <1>0, <1>1, <1>2, <1>3, <1>4, <1>5
<1>6. CASE \E c \in Callers : Submit(c) \/ Crash(c)
  BY <1>1, <1>6 DEF Submit, Crash
<1>7. CASE \E a \in Auths : Expire(a)
  BY <1>1, <1>7 DEF Expire
<1>8. CASE UNCHANGED vars
  BY <1>1, <1>8 DEF vars
<1>9. QED
  BY <1>5, <1>6, <1>7, <1>8 DEF Next

\* Claim table and dispatch port together implement the one-shot token: an
\* authorization is durably spent before its one attempt and never restored.
THEOREM DelegationIsOneShot == Spec => ImplementsOneShot
<1>1. Init => Token!Init
  BY DEF Init, Token!Init, Phase
<1>2. TypeOK /\ AuthInv /\ AuthInv' /\ [Next]_vars => [Token!Next]_[a \in Auths |-> Phase(a)]
  <2> SUFFICES ASSUME TypeOK, AuthInv, AuthInv', [Next]_vars
               PROVE  Token!Next \/ [a \in Auths |-> Phase(a)]' = [a \in Auths |-> Phase(a)]
    OBVIOUS
  <2>1. CASE \A a \in Auths : Phase(a)' = Phase(a)
    BY <2>1
  <2>2. ASSUME NEW t \in Auths, \A a \in Auths \ {t} : Phase(a)' = Phase(a),
               Phase(t) = "fresh", Phase(t)' = "spent"
        PROVE  Token!Next
    BY <2>2 DEF Token!Next, Token!Spend
  <2>3. ASSUME NEW t \in Auths, \A a \in Auths \ {t} : Phase(a)' = Phase(a),
               Phase(t) = "spent", Phase(t)' = "attempted"
        PROVE  Token!Next
    BY <2>3 DEF Token!Next, Token!Attempt
  <2>4. QED
    BY <2>1, <2>2, <2>3, PhaseStep
<1>3. QED
  BY <1>1, <1>2, DelegationInvariant, PTL DEF Spec, ImplementsOneShot, Token!Spec

-----------------------------------------------------------------------------
(* What a result says                                                      *)

\* ResultsAreHonest and the flags of a call that is still running.
HonestCall(x) ==
  /\ x.pc \in {"create", "claim", "REJECTED_NOT_CLAIMED", "PRECLAIM_PERSISTENCE_FAILED",
               "NOT_CLAIMED"} => ~ x.inserted /\ ~ x.sent
  /\ x.pc \in {"start", "dispatch"} => x.inserted
  /\ x.pc \in {"start", "dispatch", "CLAIM_UNCERTAIN", "CLAIMED_PERSISTENCE_UNCERTAIN"}
       => ~ x.sent
  /\ x.pc \in {"SUCCEEDED", "DISPATCH_UNCERTAIN"} => x.inserted /\ x.sent

HonestInv == \A c \in Callers : HonestCall(call[c])

\* A step changes the record of one call, to one that is honest; a crash
\* makes calls idle.
LEMMA HonestCallStep ==
  ASSUME TypeOK, NEW c \in Callers, HonestCall(call[c]), Step(c)
  PROVE  /\ \A d \in Callers \ {c} : call'[d] = call[d]
         /\ HonestCall(call'[c])
<1>1. call \in [Callers -> Calls] /\ call[c] \in Calls
  BY DEF TypeOK
<1>2. CASE CreateRecorded(c)
  BY <1>1, <1>2 DEF CreateRecorded, Goto, HonestCall, Calls
<1>3. CASE CreateFailed(c)
  BY <1>1, <1>3 DEF CreateFailed, Goto, HonestCall, Calls
<1>4. CASE Claimed(c)
  BY <1>1, <1>4 DEF Claimed, HonestCall, Calls
<1>5. CASE AlreadyClaimed(c)
  BY <1>1, <1>5 DEF AlreadyClaimed, Goto, HonestCall, Calls
<1>6. CASE ClaimFailed(c)
  BY <1>1, <1>6 DEF ClaimFailed, Goto, HonestCall, Calls
<1>7. CASE StartRecorded(c)
  BY <1>1, <1>7 DEF StartRecorded, Goto, HonestCall, Calls
<1>8. CASE StartFailed(c)
  BY <1>1, <1>8 DEF StartFailed, Goto, HonestCall, Calls
<1>9. CASE Dispatch(c)
  BY <1>1, <1>9 DEF Dispatch, HonestCall, Calls
<1> QED
  BY <1>2, <1>3, <1>4, <1>5, <1>6, <1>7, <1>8, <1>9 DEF Step

LEMMA HonestStep ==
  ASSUME TypeOK, HonestInv, [Next]_vars
  PROVE  HonestInv'
<1>0. call \in [Callers -> Calls]
  BY DEF TypeOK
<1>1. ASSUME NEW c \in Callers, Submit(c) PROVE HonestInv'
  <2>1. PICK a \in Auths, route \in Routes :
          call' = [call EXCEPT ![c] =
               [ pc |-> IF Admitted(c, a, route) THEN "create" ELSE "REJECTED_NOT_CLAIMED",
                 auth |-> a, route |-> route, inserted |-> FALSE, sent |-> FALSE ]]
    BY <1>1 DEF Submit
  <2>2. HonestCall(call'[c])
    BY <1>0, <2>1 DEF HonestCall
  <2> QED
    BY <1>0, <2>1, <2>2 DEF HonestInv
<1>2. ASSUME NEW c \in Callers, Step(c) PROVE HonestInv'
  BY <1>2, HonestCallStep DEF HonestInv
<1>3. ASSUME NEW c \in Callers, Crash(c) PROVE HonestInv'
  <2> SUFFICES ASSUME NEW d \in Callers PROVE HonestCall(call'[d])
    BY DEF HonestInv
  <2>1. call'[d] = call[d] \/ call'[d] = [call[d] EXCEPT !.pc = "idle"]
    BY <1>3 DEF Crash
  <2>2. call[d] \in Calls /\ HonestCall(call[d])
    BY <1>0 DEF HonestInv
  <2> QED
    BY <2>1, <2>2 DEF HonestCall, Calls
<1>4. CASE (\E a \in Auths : Expire(a)) \/ UNCHANGED vars
  BY <1>4 DEF Expire, vars, HonestInv
<1> QED
  BY <1>1, <1>2, <1>3, <1>4 DEF Next

\* Whatever commits unreported and whichever process dies, with a durable log
\* or one in process memory, the result of a call tells what may have happened.
THEOREM ResultsHonest == Spec => []ResultsAreHonest
<1>1. Init => HonestInv
  BY DEF Init, HonestInv, HonestCall
<1>2. TypeOK /\ HonestInv /\ [Next]_vars => HonestInv'
  BY HonestStep
<1>3. HonestInv => ResultsAreHonest
  BY DEF HonestInv, HonestCall, ResultsAreHonest
<1> QED
  BY <1>1, <1>2, <1>3, TypeCorrect, PTL DEF Spec

\* What a step leaves of an orphaned run: the state of its stream, its calls,
\* claims and attempts.
LEMMA OrphanStep ==
  ASSUME TypeOK, SharedDurableLog, NEW r \in Runs, Orphaned(r), NEW c \in Callers, Step(c)
  PROVE  /\ Orphaned(r)'
         /\ \A a \in Auths : RunOf[a] = r => attempts'[a] = attempts[a] /\ claims'[a] = claims[a]
<1>1. /\ call \in [Callers -> Calls] /\ call[c].auth \in Auths /\ LogOf[c] \in Logs
      /\ \A d \in Callers : LogOf[d] = LogOf[c]
      /\ state \in [Logs -> [Runs -> {"INITIAL", "CREATED", "ACTIVE"}]]
  BY ConstantsAssumption DEF TypeOK, Calls, SharedDurableLog
<1>2. state[LogOf[c]][r] # "INITIAL" /\ (call[c].pc \in {"claim", "start", "dispatch"} => Run(c) # r)
  BY DEF Orphaned
<1>3. \/ Run(c) # r
      \/ /\ state' = state /\ call'[c].pc \notin {"claim", "start", "dispatch"}
         /\ claims' = claims /\ attempts' = attempts
  <2>1. CASE call[c].pc = "create"
    <3>0. StateOf(c) = "INITIAL" => Run(c) # r
      BY <1>2 DEF StateOf
    <3>1. CASE CreateRecorded(c)
      BY <3>0, <3>1 DEF CreateRecorded
    <3>2. CASE CreateFailed(c)
      <4>1. call' = [call EXCEPT ![c].pc = "PRECLAIM_PERSISTENCE_FAILED"]
        BY <3>2 DEF CreateFailed, Goto
      <4>2. call'[c].pc = "PRECLAIM_PERSISTENCE_FAILED"
        BY <1>1, <4>1 DEF Calls
      <4> QED
        BY <3>0, <3>2, <4>2 DEF CreateFailed
    <3> QED
      BY <2>1, <3>1, <3>2 DEF Step, Claimed, AlreadyClaimed, ClaimFailed, StartRecorded,
                              StartFailed, Dispatch
  <2>2. CASE call[c].pc # "create"
    <3>1. call[c].pc \in {"claim", "start", "dispatch"}
      BY <2>2 DEF Step, CreateRecorded, CreateFailed, Claimed, AlreadyClaimed, ClaimFailed,
                  StartRecorded, StartFailed, Dispatch
    <3> QED
      BY <1>2, <3>1
  <2> QED
    BY <2>1, <2>2
<1>4. /\ \A d \in Callers \ {c} : call'[d] = call[d]
      /\ call'[c].auth = call[c].auth
  BY <1>1 DEF Step, CreateRecorded, CreateFailed, Claimed, AlreadyClaimed, ClaimFailed,
              StartRecorded, StartFailed, Dispatch, Goto, Calls
<1>5. state' = state \/ \E t \in {"CREATED", "ACTIVE"} : Record(c, t)
  BY DEF Step, CreateRecorded, CreateFailed, Claimed, AlreadyClaimed, ClaimFailed,
         StartRecorded, StartFailed, Dispatch
<1>6. state'[LogOf[c]][r] # "INITIAL"
  BY <1>1, <1>2, <1>5 DEF Record
<1>7. claims' = claims \/ claims' = [claims EXCEPT ![call[c].auth] = call[c].route]
  BY DEF Step, CreateRecorded, CreateFailed, Claimed, AlreadyClaimed, ClaimFailed,
         StartRecorded, StartFailed, Dispatch, Insert
<1>8. attempts' = attempts \/ attempts' = [attempts EXCEPT ![call[c].auth] = @ + 1]
  BY DEF Step, CreateRecorded, CreateFailed, Claimed, AlreadyClaimed, ClaimFailed,
         StartRecorded, StartFailed, Dispatch
<1>9. ASSUME NEW a \in Auths, RunOf[a] = r
      PROVE  attempts'[a] = attempts[a] /\ claims'[a] = claims[a]
  BY <1>1, <1>3, <1>7, <1>8, <1>9 DEF Run, TypeOK
<1>10. ASSUME NEW d \in Callers, call'[d].pc \in {"claim", "start", "dispatch"}
       PROVE  RunOf[call'[d].auth] # r
  <2>1. CASE d = c
    BY <1>3, <1>4, <1>10, <2>1 DEF Run
  <2>2. CASE d # c
    BY <1>4, <1>10, <2>2 DEF Orphaned, Run
  <2> QED
    BY <2>1, <2>2
<1> QED
  BY <1>1, <1>6, <1>9, <1>10 DEF Orphaned, Run

\* With one durable log, a run whose call ended or died is never claimed for,
\* started or dispatched by anybody (OrphansStayOrphaned).
THEOREM OrphansAreLeft == Spec => OrphansStayOrphaned
<1>1. ASSUME TypeOK, [Next]_vars, SharedDurableLog, NEW r \in Runs, Orphaned(r)
      PROVE  /\ Orphaned(r)'
             /\ \A a \in Auths : RunOf[a] = r =>
                  attempts'[a] = attempts[a] /\ claims'[a] = claims[a]
  <2>0. call \in [Callers -> Calls]
    BY <1>1 DEF TypeOK
  <2>1. ASSUME NEW c \in Callers, Submit(c)
        PROVE  Orphaned(r)' /\ claims' = claims /\ attempts' = attempts
    <3>1. PICK a \in Auths, route \in Routes :
            call' = [call EXCEPT ![c] =
                      [ pc |-> IF Admitted(c, a, route) THEN "create" ELSE "REJECTED_NOT_CLAIMED",
                        auth |-> a, route |-> route, inserted |-> FALSE, sent |-> FALSE ]]
      BY <2>1 DEF Submit
    <3>2. state' = state
      BY <2>1 DEF Submit
    <3> QED
      BY <1>1, <2>0, <2>1, <3>1, <3>2 DEF Submit, Orphaned, Run
  <2>2. ASSUME NEW c \in Callers, Crash(c)
        PROVE  Orphaned(r)' /\ claims' = claims /\ attempts' = attempts
    <3>1. LogOf[c] \notin Volatile
      BY <1>1 DEF SharedDurableLog
    <3>2. state' = state /\ call' = [d \in Callers |-> IF d = c THEN [call[d] EXCEPT !.pc = "idle"]
                                                      ELSE call[d]]
      BY <2>2, <3>1 DEF Crash
    <3>3. \A d \in Callers : call'[d] = call[d] \/ call'[d].pc = "idle"
      BY <2>0, <3>2 DEF Calls
    <3> QED
      BY <1>1, <2>2, <3>2, <3>3 DEF Crash, Orphaned, Run
  <2>3. ASSUME NEW a \in Auths, Expire(a)
        PROVE  Orphaned(r)' /\ claims' = claims /\ attempts' = attempts
    BY <1>1, <2>3 DEF Expire, Orphaned, Run
  <2>4. CASE UNCHANGED vars
    BY <1>1, <2>4 DEF vars, Orphaned, Run
  <2> QED
    BY <1>1, <2>1, <2>2, <2>3, <2>4, OrphanStep DEF Next
<1>2. TypeOK /\ [Next]_vars =>
        [ SharedDurableLog =>
            \A r \in Runs : Orphaned(r) =>
              /\ Orphaned(r)'
              /\ \A a \in Auths : RunOf[a] = r =>
                   attempts'[a] = attempts[a] /\ claims'[a] = claims[a] ]_vars
  BY <1>1
<1> QED
  BY <1>2, TypeCorrect, PTL DEF Spec, OrphansStayOrphaned
=============================================================================
