----------------------------- MODULE Delegation -----------------------------
(***************************************************************************)
(* DelegatedRequestIngress.submit: verify the grant, record RUN_CREATED,   *)
(* claim the authorization, record WORK_STARTED, dispatch once.  The call  *)
(* never retries; every step may fail, with or without having taken        *)
(* effect, and the process may die between any two.                        *)
(*                                                                         *)
(* The event log is PostgresEventLog, shared by all callers and durable,   *)
(* or InMemoryEventLog, one per process and lost with it: LogOf says which *)
(* log a caller writes to and Volatile which logs die.  Only the lifecycle *)
(* state of a run matters here.  The claim table (claim_store.py) is one   *)
(* durable append-only table with the authorization digest as its key.     *)
(***************************************************************************)
EXTENDS Naturals

CONSTANTS
  Auths,        \* signed authorizations (authorization_digest)
  Runs,         \* run identities
  RunOf,        \* the correlation_id an authorization is signed for
  Routes,       \* values of route_ref
  Callers,      \* threads of control that call submit
  PolicyRoute,  \* route_ref of the packaged overlay a caller runs with
  Enabled,      \* callers whose overlay has execute_enabled set
  Logs, LogOf,  \* event logs, and the one each caller was given
  Volatile      \* the logs that are process memory

ASSUME ConstantsAssumption ==
  /\ RunOf \in [Auths -> Runs]
  /\ PolicyRoute \in [Callers -> Routes]
  /\ Enabled \subseteq Callers
  /\ LogOf \in [Callers -> Logs]
  /\ Volatile \subseteq Logs

NoClaim == "unclaimed"
ASSUME NoClaimAssumption == NoClaim \notin Routes

VARIABLES
  state,        \* per log and run, the lifecycle state of the stream
  claims,       \* delegation_claims: the binding stored for an authorization
  expired,      \* authorizations whose expires_at has passed
  attempts,     \* history: dispatch calls made for an authorization
  call          \* per caller, the submit call in progress or last returned

vars == <<state, claims, expired, attempts, call>>

Steps == {"create", "claim", "start", "dispatch"}

Results ==
  { "REJECTED_NOT_CLAIMED", "PRECLAIM_PERSISTENCE_FAILED", "CLAIM_UNCERTAIN", "NOT_CLAIMED",
    "CLAIMED_PERSISTENCE_UNCERTAIN", "DISPATCH_UNCERTAIN", "SUCCEEDED" }

\* inserted, sent: history, whether this call's claim row and this call's
\* dispatch took place, whatever the caller was told.
Calls ==
  [ pc : {"idle"} \cup Steps \cup Results, auth : Auths, route : Routes,
    inserted : BOOLEAN, sent : BOOLEAN ]

TypeOK ==
  /\ state \in [Logs -> [Runs -> {"INITIAL", "CREATED", "ACTIVE"}]]
  /\ claims \in [Auths -> Routes \cup {NoClaim}]
  /\ expired \subseteq Auths
  /\ attempts \in [Auths -> Nat]
  /\ call \in [Callers -> Calls]

Init ==
  /\ state = [l \in Logs |-> [r \in Runs |-> "INITIAL"]]
  /\ claims = [a \in Auths |-> NoClaim]
  /\ expired = {}
  /\ attempts = [a \in Auths |-> 0]
  /\ call \in [Callers -> [ pc : {"idle"}, auth : Auths, route : Routes,
                            inserted : {FALSE}, sent : {FALSE} ]]

Run(c) == RunOf[call[c].auth]
StateOf(c) == state[LogOf[c]][Run(c)]
Goto(c, pc) == call' = [call EXCEPT ![c].pc = pc]

\* The stream of the call's run moves on in the caller's log.
Record(c, target) == state' = [state EXCEPT ![LogOf[c]][Run(c)] = target]

-----------------------------------------------------------------------------
\* What submit demands before it touches anything: an enabled policy, a grant
\* that verifies now, and a request that names the policy's route (_claim_for;
\* the other fields it compares are those of the signed grant).
Admitted(c, a, route) ==
  /\ c \in Enabled
  /\ a \notin expired
  /\ route = PolicyRoute[c]

Submit(c) ==
  /\ call[c].pc \notin Steps
  /\ \E a \in Auths, route \in Routes :
       call' = [call EXCEPT ![c] =
                 [ pc |-> IF Admitted(c, a, route) THEN "create" ELSE "REJECTED_NOT_CLAIMED",
                   auth |-> a, route |-> route, inserted |-> FALSE, sent |-> FALSE ]]
  /\ UNCHANGED <<state, claims, expired, attempts>>

\* Mutant of CreateRecorded: the log does not look at the run's state.
CreateRecordedAgain(c) ==
  /\ call[c].pc = "create"
  /\ Record(c, "CREATED")
  /\ Goto(c, "claim")
  /\ UNCHANGED <<claims, expired, attempts>>

\* ingest(RUN_CREATED): the run must be new in this log.
CreateRecorded(c) ==
  /\ call[c].pc = "create"
  /\ StateOf(c) = "INITIAL"
  /\ Record(c, "CREATED")
  /\ Goto(c, "claim")
  /\ UNCHANGED <<claims, expired, attempts>>

\* ingest raised: the transition is refused, the store failed before its
\* commit, or a durable store committed and could not say so.
CreateFailed(c) ==
  /\ call[c].pc = "create"
  /\ Goto(c, "PRECLAIM_PERSISTENCE_FAILED")
  /\ \/ UNCHANGED state
     \/ LogOf[c] \notin Volatile /\ StateOf(c) = "INITIAL" /\ Record(c, "CREATED")
  /\ UNCHANGED <<claims, expired, attempts>>

\* The binding hash covers the signed facts, the request and the policy; what
\* may differ between two claims of one authorization is the route.
Insert(c) ==
  /\ claims[call[c].auth] = NoClaim
  /\ claims' = [claims EXCEPT ![call[c].auth] = call[c].route]

\* INSERT ... ON CONFLICT DO NOTHING returned our row and committed.
Claimed(c) ==
  /\ call[c].pc = "claim"
  /\ Insert(c)
  /\ call' = [call EXCEPT ![c].pc = "start", ![c].inserted = TRUE]
  /\ UNCHANGED <<state, expired, attempts>>

\* The row was there with our binding.
AlreadyClaimed(c) ==
  /\ call[c].pc = "claim"
  /\ claims[call[c].auth] = call[c].route
  /\ Goto(c, "NOT_CLAIMED")
  /\ UNCHANGED <<state, claims, expired, attempts>>

\* Mutant of ClaimFailed: every exception counts as a definite refusal.
ClaimFailedDefinitely(c) ==
  /\ call[c].pc = "claim"
  /\ \/ Goto(c, "NOT_CLAIMED") /\ UNCHANGED claims
     \/ /\ Insert(c)
        /\ call' = [call EXCEPT ![c].pc = "NOT_CLAIMED", ![c].inserted = TRUE]
  /\ UNCHANGED <<state, expired, attempts>>

\* The claim raised: the row carries another binding, the transaction failed,
\* or it committed and the caller was not told.
ClaimFailed(c) ==
  /\ call[c].pc = "claim"
  /\ \/ Goto(c, "CLAIM_UNCERTAIN") /\ UNCHANGED claims
     \/ /\ Insert(c)
        /\ call' = [call EXCEPT ![c].pc = "CLAIM_UNCERTAIN", ![c].inserted = TRUE]
  /\ UNCHANGED <<state, expired, attempts>>

\* ingest(WORK_STARTED) on the run this call created.
StartRecorded(c) ==
  /\ call[c].pc = "start"
  /\ StateOf(c) = "CREATED"
  /\ Record(c, "ACTIVE")
  /\ Goto(c, "dispatch")
  /\ UNCHANGED <<claims, expired, attempts>>

StartFailed(c) ==
  /\ call[c].pc = "start"
  /\ Goto(c, "CLAIMED_PERSISTENCE_UNCERTAIN")
  /\ \/ UNCHANGED state
     \/ LogOf[c] \notin Volatile /\ StateOf(c) = "CREATED" /\ Record(c, "ACTIVE")
  /\ UNCHANGED <<claims, expired, attempts>>

\* dispatch(claim) is called; it returns, or raises with or without having
\* acted.  Either way the call was made.
Dispatch(c) ==
  /\ call[c].pc = "dispatch"
  /\ attempts' = [attempts EXCEPT ![call[c].auth] = @ + 1]
  /\ \E result \in {"SUCCEEDED", "DISPATCH_UNCERTAIN"} :
       call' = [call EXCEPT ![c].pc = result, ![c].sent = TRUE]
  /\ UNCHANGED <<state, claims, expired>>

\* The process of a caller dies: every call on the same process memory ends
\* without a result, and that memory is lost.  With a durable log the callers
\* are separate processes.
Crash(c) ==
  LET dead == IF LogOf[c] \in Volatile THEN { d \in Callers : LogOf[d] = LogOf[c] } ELSE {c}
  IN  /\ call' = [d \in Callers |-> IF d \in dead THEN [call[d] EXCEPT !.pc = "idle"] ELSE call[d]]
      /\ state' = IF LogOf[c] \in Volatile
                  THEN [state EXCEPT ![LogOf[c]] = [r \in Runs |-> "INITIAL"]]
                  ELSE state
      /\ UNCHANGED <<claims, expired, attempts>>

\* The verifier's clock passes expires_at.
Expire(a) ==
  /\ expired' = expired \cup {a}
  /\ UNCHANGED <<state, claims, attempts, call>>

Step(c) ==
  \/ CreateRecorded(c) \/ CreateFailed(c)
  \/ Claimed(c) \/ AlreadyClaimed(c) \/ ClaimFailed(c)
  \/ StartRecorded(c) \/ StartFailed(c)
  \/ Dispatch(c)

Next ==
  \/ \E c \in Callers : Submit(c) \/ Step(c) \/ Crash(c)
  \/ \E a \in Auths : Expire(a)

Spec == Init /\ [][Next]_vars

-----------------------------------------------------------------------------
\* Every caller writes to the same durable log, as with PostgresEventLog.
SharedDurableLog == Volatile = {} /\ \A c, d \in Callers : LogOf[c] = LogOf[d]

\* The single-attempt posture of a grant: over all callers, processes, crashes
\* and unreported commits, one authorization is dispatched at most once.
OneDispatchPerAuthorization == \A a \in Auths : attempts[a] <= 1

\* A durable log makes a run single-attempt too, even when several
\* authorizations are signed for it: RUN_CREATED is recorded once per run and
\* only the call that recorded it goes on.
OneDispatchPerRun ==
  SharedDurableLog =>
    \A a, b \in Auths : RunOf[a] = RunOf[b] /\ attempts[a] > 0 /\ attempts[b] > 0 => a = b

\* A dispatched run is on record as started: the two durable writes precede
\* the side effect, and no later failure takes them back.
DispatchIsOnRecord ==
  SharedDurableLog =>
    \A a \in Auths, c \in Callers :
      attempts[a] > 0 => claims[a] # NoClaim /\ state[LogOf[c]][RunOf[a]] = "ACTIVE"

\* The result tells the caller what may have happened, unreported commits
\* included: a definite refusal consumed nothing, a persistence failure sent
\* nothing, and success means both happened.
ResultsAreHonest ==
  \A c \in Callers :
    /\ call[c].pc \in {"REJECTED_NOT_CLAIMED", "PRECLAIM_PERSISTENCE_FAILED", "NOT_CLAIMED"}
         => ~ call[c].inserted /\ ~ call[c].sent
    /\ call[c].pc \in {"CLAIM_UNCERTAIN", "CLAIMED_PERSISTENCE_UNCERTAIN"} => ~ call[c].sent
    /\ call[c].pc \in {"SUCCEEDED", "DISPATCH_UNCERTAIN"} => call[c].inserted /\ call[c].sent

\* A run on record that no live call is working on.
Orphaned(r) ==
  \A c \in Callers :
    /\ state[LogOf[c]][r] # "INITIAL"
    /\ call[c].pc \in {"claim", "start", "dispatch"} => Run(c) # r

\* Nothing resumes: once the call that recorded a run has ended or died, no
\* submission of any grant ever claims for, starts or dispatches that run.
OrphansStayOrphaned ==
  [][ SharedDurableLog =>
        \A r \in Runs : Orphaned(r) =>
          /\ Orphaned(r)'
          /\ \A a \in Auths : RunOf[a] = r => attempts'[a] = attempts[a] /\ claims'[a] = claims[a] ]_vars

\* An authorization as a one-shot token: its claim row is the spending, the
\* dispatch call the attempt.
Phase(a) ==
  IF attempts[a] = 0 THEN (IF claims[a] = NoClaim THEN "fresh" ELSE "spent")
  ELSE IF attempts[a] = 1 /\ claims[a] # NoClaim THEN "attempted" ELSE "broken"

Token == INSTANCE OneShot WITH Tokens <- Auths, phase <- [a \in Auths |-> Phase(a)]

\* Claiming and dispatching implement the one-shot token.
ImplementsOneShot == Token!Spec
=============================================================================
