------------------------ MODULE ObservedAuthorization ------------------------
(***************************************************************************)
(* The observed lifecycle operation of authorization.py: the genesis of    *)
(* its own journal (_provision_journal), the run that executes the effect  *)
(* (_run_observed_authorization), and the three ways an operator resolves  *)
(* what was interrupted: reconcile_genesis, require_recovery and           *)
(* reconcile_ambiguous_effect.                                             *)
(*                                                                         *)
(* A genesis receipt is signed for the one operation of the artifact set   *)
(* and names a journal.  Provisioning and running hold an artifact root,   *)
(* which several copies of may exist; the genesis artifact in it says      *)
(* which receipt was used.  The journal's identity lease covers the making *)
(* of its files, and for a moment every later look at them.  The lease of  *)
(* the operation lies beside the journal.  Signed evidence that an effect  *)
(* was performed is true evidence, whoever still waits for the effect.     *)
(*                                                                         *)
(* JournalGenesis models the making of the three journal files write by    *)
(* write for the sibling journal; here they are absent, partial or whole.  *)
(* A crash inside a row transaction leaves a rollback file: the journal    *)
(* then refuses every use ("hot").                                         *)
(***************************************************************************)
EXTENDS Naturals

CONSTANTS
  Receipts,    \* signed genesis receipts of the operation
  Journals,    \* journal paths
  JournalOf,   \* the journal a receipt names
  Roots,       \* artifact roots
  Actors       \* processes that provision, run or resolve

Nobody == "nobody"
NoReceipt == "absent"
Torn == "torn"

\* What the constants must satisfy; whoever instantiates the module assumes it.
ObservedAssumption ==
  /\ JournalOf \in [Receipts -> Journals]
  /\ Nobody \notin Actors
  /\ {NoReceipt, Torn} \cap Receipts = {}

VARIABLES
  stages,       \* allocation and materialization: unfinished, committed, lost
  genesisSpent, \* the operation's genesis tombstone exists
  spent,        \* the operation's own tombstone exists
  marker,       \* per journal, its marker: state and receipt
  store,        \* per journal, database and anchor together
  row,          \* per journal, the row of the operation
  genesisFile,  \* per artifact root, the genesis artifact
  rootLock, idLock, opLock,
  actor,        \* per actor, its step, what it works on and what it returned
  calls,        \* history: effects called
  performed     \* history: the effect has happened

leases == <<rootLock, idLock, opLock>>
journal == <<marker, store, row>>
effect == <<calls, performed>>
vars == <<stages, genesisSpent, spent, journal, genesisFile, leases, actor, effect>>

Mark(state, g) == [state |-> state, receipt |-> g]
Marks ==
  { Mark(state, g) : state \in {"pending", "current", "abandon"}, g \in Receipts }
    \cup {Mark(NoReceipt, Nobody), Mark(Torn, Nobody)}
NoMark == Mark(NoReceipt, Nobody)
TornMark == Mark(Torn, Nobody)

Stores == {"absent", "partial", "whole", "hot"}
RowStates == {"none", "claimed", "in_progress", "committed", "failed"}

UnderIdentity == {"beginning", "completing", "making", "filled", "reconciling"}
Provisioning == {"provision", "eligible", "beginning", "pending", "genesis_spent", "recorded",
                 "completing", "making", "filled"}
UnderOperation == {"leased", "spent", "claimed", "begun", "calling", "effected", "stable", "marking"}
Running == {"run", "admitted"} \cup UnderOperation
Resolving == {"waiting", "reconciling", "recovering", "evidence"}
Steps == Provisioning \cup Running \cup Resolving

\* What a run of the effect may report: nothing yet, its receipt, a refusal,
\* effect_failed_recovery_required, or an error after its own commit
\* (terminal_stability, provider_release).
Results == {"none", "receipt", "refused", "ambiguous", "unconfirmed"}
Outcomes == {"provisioning_completed", "provisioning_abandoned"}

Work == [ pc : {"idle"} \cup Steps, root : Roots \cup {Nobody}, receipt : Receipts \cup {Nobody},
          outcome : Outcomes \cup {"none"}, called : BOOLEAN, result : Results ]
Task(pc, r, g, outcome) ==
  [pc |-> pc, root |-> r, receipt |-> g, outcome |-> outcome, called |-> FALSE, result |-> "none"]
Idle == Task("idle", Nobody, Nobody, "none")

Receipt(a) == actor[a].receipt
Journal(a) == JournalOf[Receipt(a)]
Root(a) == actor[a].root

\* A held lease belongs to an actor that is at work under it.
TypeOK ==
  /\ stages \in {"unfinished", "committed", "lost"}
  /\ genesisSpent \in BOOLEAN /\ spent \in BOOLEAN
  /\ marker \in [Journals -> Marks]
  /\ store \in [Journals -> Stores]
  /\ row \in [Journals -> RowStates]
  /\ genesisFile \in [Roots -> Receipts \cup {NoReceipt, Torn}]
  /\ rootLock \in [Roots -> Actors \cup {Nobody}]
  /\ idLock \in [Journals -> Actors \cup {Nobody}]
  /\ opLock \in [Journals -> Actors \cup {Nobody}]
  /\ actor \in [Actors -> Work]
  /\ \A a \in Actors :
       /\ actor[a].pc # "idle" => Receipt(a) \in Receipts
       /\ actor[a].pc \in Provisioning \cup Running => Root(a) \in Roots
       /\ \A r \in Roots : rootLock[r] = a <=> actor[a].pc \in Provisioning \cup Running /\ Root(a) = r
       /\ \A j \in Journals :
            /\ idLock[j] = a <=> actor[a].pc \in UnderIdentity /\ Journal(a) = j
            /\ opLock[j] = a <=>
                 actor[a].pc \in UnderOperation \cup {"recovering", "evidence"} /\ Journal(a) = j
  /\ calls \in Nat
  /\ performed \in BOOLEAN

Init ==
  /\ stages = "unfinished"
  /\ genesisSpent = FALSE /\ spent = FALSE
  /\ marker = [j \in Journals |-> NoMark]
  /\ store = [j \in Journals |-> "absent"]
  /\ row = [j \in Journals |-> "none"]
  /\ genesisFile = [r \in Roots |-> NoReceipt]
  /\ rootLock = [r \in Roots |-> Nobody]
  /\ idLock = [j \in Journals |-> Nobody]
  /\ opLock = [j \in Journals |-> Nobody]
  /\ actor = [a \in Actors |-> Idle]
  /\ calls = 0 /\ performed = FALSE

Proceed(a, pc) == actor' = [actor EXCEPT ![a].pc = pc] /\ UNCHANGED leases

Freed(lock, a) == [x \in DOMAIN lock |-> IF lock[x] = a THEN Nobody ELSE lock[x]]

\* The actor is done; its leases go with the with-blocks it leaves.
Finish(a, result) ==
  /\ actor' = [actor EXCEPT ![a] = [Idle EXCEPT !.result = result, !.called = actor[a].called]]
  /\ rootLock' = Freed(rootLock, a)
  /\ idLock' = Freed(idLock, a)
  /\ opLock' = Freed(opLock, a)

Leave(a) == Finish(a, "none")

TakeIdentity(a, pc) ==
  /\ idLock[Journal(a)] = Nobody
  /\ idLock' = [idLock EXCEPT ![Journal(a)] = a]
  /\ actor' = [actor EXCEPT ![a].pc = pc]
  /\ UNCHANGED <<rootLock, opLock>>

GiveIdentity(a, pc) ==
  /\ idLock' = [idLock EXCEPT ![Journal(a)] = Nobody]
  /\ actor' = [actor EXCEPT ![a].pc = pc]
  /\ UNCHANGED <<rootLock, opLock>>

\* _established_identity: under the identity lease for the moment it takes.
Current(j) ==
  /\ idLock[j] = Nobody
  /\ marker[j].state = "current"
  /\ store[j] = "whole"

-----------------------------------------------------------------------------
\* ArtifactRootLease of provision_journal, refused while somebody has it.
Provision(a, r, g) ==
  /\ actor[a].pc = "idle"
  /\ rootLock[r] = Nobody
  /\ rootLock' = [rootLock EXCEPT ![r] = a]
  /\ actor' = [actor EXCEPT ![a] = Task("provision", r, g, "none")]
  /\ UNCHANGED <<stages, genesisSpent, spent, journal, genesisFile, idLock, opLock, effect>>

\* Both predecessor stages are committed and their journal is as it was
\* pinned (_check_observed_stage_stability and the committed-stage asserts).
Finished == stages = "committed"

\* The checks before anything is written: migration_status is ABSENT.
Eligible(a) ==
  /\ actor[a].pc = "provision"
  /\ Finished
  /\ marker[Journal(a)] = NoMark /\ store[Journal(a)] = "absent"
  /\ genesisFile[Root(a)] = NoReceipt
  /\ Proceed(a, "eligible")
  /\ UNCHANGED <<stages, genesisSpent, spent, journal, genesisFile, effect>>

BeginGenesis(a) ==
  /\ actor[a].pc = "eligible"
  /\ TakeIdentity(a, "beginning")
  /\ UNCHANGED <<stages, genesisSpent, spent, journal, genesisFile, effect>>

\* Under the lease: no marker, no database, no anchor; O_EXCL of the marker.
WriteMarker(a) ==
  LET j == Journal(a)
      Left(m) == marker' = [marker EXCEPT ![j] = m]
  IN /\ actor[a].pc = "beginning"
     /\ marker[j] = NoMark /\ store[j] = "absent"
     /\ \/ Left(Mark("pending", Receipt(a))) /\ GiveIdentity(a, "pending")
        \/ (\E m \in {TornMark, Mark("pending", Receipt(a))} : Left(m)) /\ Leave(a)
     /\ UNCHANGED <<stages, genesisSpent, spent, store, row, genesisFile, effect>>

\* claim_once of the genesis tombstone, between two looks at the stages.
SpendGenesis(a) ==
  /\ actor[a].pc = "pending"
  /\ Finished
  /\ ~ genesisSpent
  /\ genesisSpent' = TRUE
  /\ Proceed(a, "genesis_spent") \/ Leave(a)
  /\ UNCHANGED <<stages, spent, journal, genesisFile, effect>>

RecordGenesis(a) ==
  LET Left(f) == genesisFile' = [genesisFile EXCEPT ![Root(a)] = f]
  IN /\ actor[a].pc = "genesis_spent"
     /\ Finished
     /\ genesisFile[Root(a)] = NoReceipt
     /\ \/ Left(Receipt(a)) /\ Proceed(a, "recorded")
        \/ (Left(Torn) \/ Left(Receipt(a))) /\ Leave(a)
     /\ UNCHANGED <<stages, genesisSpent, spent, journal, effect>>

CompleteGenesis(a) ==
  /\ actor[a].pc = "recorded"
  /\ TakeIdentity(a, "completing")
  /\ UNCHANGED <<stages, genesisSpent, spent, journal, genesisFile, effect>>

StillPending(a) == marker[Journal(a)] = Mark("pending", Receipt(a))

\* _initialize_identity: database, tables, anchor, metadata row.
MakeStore(a) ==
  LET j == Journal(a)
      Left(s) == store' = [store EXCEPT ![j] = s]
  IN /\ \/ actor[a].pc = "completing" /\ StillPending(a) /\ store[j] = "absent"
           /\ Left("partial") /\ (Proceed(a, "making") \/ Leave(a))
        \/ actor[a].pc = "making" /\ Left("whole") /\ (Proceed(a, "filled") \/ Leave(a))
        \/ actor[a].pc = "making" /\ Left("hot") /\ Leave(a)
     /\ UNCHANGED <<stages, genesisSpent, spent, marker, row, genesisFile, effect>>

\* _set_genesis_marker_state truncates the marker and writes it anew.
RewriteMarker(a, state) ==
  LET j == Journal(a)
  IN /\ marker' \in { [marker EXCEPT ![j] = m] : m \in {TornMark, Mark(state, Receipt(a))} }
     /\ Leave(a)
     /\ UNCHANGED <<stages, genesisSpent, spent, store, row, genesisFile, effect>>

SetCurrent(a) == actor[a].pc = "filled" /\ RewriteMarker(a, "current")

-----------------------------------------------------------------------------
\* reconcile_genesis with a signed receipt, under the identity lease.
Reconcile(a, g, outcome) ==
  /\ actor[a].pc = "idle"
  /\ actor' = [actor EXCEPT ![a] = Task("waiting", Nobody, g, outcome)]
  /\ UNCHANGED <<stages, genesisSpent, spent, journal, genesisFile, leases, effect>>

LeaseReconciliation(a) ==
  /\ actor[a].pc = "waiting"
  /\ TakeIdentity(a, "reconciling")
  /\ UNCHANGED <<stages, genesisSpent, spent, journal, genesisFile, effect>>

\* Mutant of Reconcilable: database and anchor need only be there.
ReconcilableByPresence(a) ==
  /\ StillPending(a)
  /\ actor[a].outcome = "provisioning_completed" => store[Journal(a)] # "absent"

Reconcilable(a) ==
  /\ StillPending(a)
  /\ actor[a].outcome = "provisioning_completed" => store[Journal(a)] = "whole"

ApplyReconciliation(a) ==
  /\ actor[a].pc = "reconciling"
  /\ Reconcilable(a)
  /\ RewriteMarker(a, IF actor[a].outcome = "provisioning_completed" THEN "current" ELSE "abandon")

-----------------------------------------------------------------------------
\* authorize_and_execute: the artifact root; the receipt is the one on record.
Run(a, r, g) ==
  /\ actor[a].pc = "idle"
  /\ rootLock[r] = Nobody
  /\ rootLock' = [rootLock EXCEPT ![r] = a]
  /\ actor' = [actor EXCEPT ![a] = Task("run", r, g, "none")]
  /\ UNCHANGED <<stages, genesisSpent, spent, journal, genesisFile, idLock, opLock, effect>>

\* Everything before the operation lease: current journal, genesis artifact
\* that matches it (assert_genesis), finished stages, provider lease.
Admit(a) ==
  /\ actor[a].pc = "run"
  /\ genesisFile[Root(a)] = Receipt(a)
  /\ Current(Journal(a)) /\ marker[Journal(a)].receipt = Receipt(a)
  /\ Finished
  /\ Proceed(a, "admitted")
  /\ UNCHANGED <<stages, genesisSpent, spent, journal, genesisFile, effect>>

\* flock without LOCK_NB.
LeaseOperation(a) ==
  /\ actor[a].pc = "admitted"
  /\ opLock[Journal(a)] = Nobody
  /\ opLock' = [opLock EXCEPT ![Journal(a)] = a]
  /\ actor' = [actor EXCEPT ![a].pc = "leased"]
  /\ UNCHANGED <<stages, genesisSpent, spent, journal, genesisFile, rootLock, idLock, effect>>

\* _check_execution_stability and _check_observed_stage_stability.
Stable(a) == Current(Journal(a)) /\ Finished

SpendOperation(a) ==
  /\ actor[a].pc = "leased"
  /\ Stable(a)
  /\ ~ spent
  /\ spent' = TRUE
  /\ Proceed(a, "spent") \/ Finish(a, "refused")
  /\ UNCHANGED <<stages, genesisSpent, journal, genesisFile, effect>>

\* A transaction on the row.  It needs the journal current; the identity
\* check after COMMIT may raise although it committed.
Transact(a, from, to) ==
  /\ Current(Journal(a))
  /\ row[Journal(a)] \in from
  /\ row' = [row EXCEPT ![Journal(a)] = to]

ClaimRow(a) ==
  /\ actor[a].pc = "spent"
  /\ Stable(a)
  /\ Transact(a, {"none"}, "claimed")
  /\ Proceed(a, "claimed") \/ Finish(a, "refused")
  /\ UNCHANGED <<stages, genesisSpent, spent, marker, store, genesisFile, effect>>

BeginEffect(a) ==
  /\ actor[a].pc = "claimed"
  /\ Transact(a, {"claimed"}, "in_progress")
  /\ Proceed(a, "begun") \/ Finish(a, "refused")
  /\ UNCHANGED <<stages, genesisSpent, spent, marker, store, genesisFile, effect>>

CallEffect(a) ==
  /\ actor[a].pc = "begun"
  /\ Stable(a)
  /\ calls' = calls + 1
  /\ actor' = [actor EXCEPT ![a].pc = "calling", ![a].called = TRUE]
  /\ UNCHANGED <<stages, genesisSpent, spent, journal, genesisFile, leases, performed>>

\* The effect happens, while its caller waits or after the caller is gone.
Perform ==
  /\ calls > 0 /\ ~ performed
  /\ performed' = TRUE
  /\ UNCHANGED <<stages, genesisSpent, spent, journal, genesisFile, leases, actor, calls>>

\* Mutant of EffectReturns: what it returns is not validated.
EffectReturnsAnything(a) ==
  /\ actor[a].pc = "calling"
  /\ Proceed(a, "effected") \/ Proceed(a, "marking")
  /\ UNCHANGED <<stages, genesisSpent, spent, journal, genesisFile, effect>>

\* A receipt that validates is for a performed effect; anything else the call
\* returns or raises leaves the outcome unknown.
EffectReturns(a) ==
  /\ actor[a].pc = "calling"
  /\ \/ performed /\ Proceed(a, "effected")
     \/ Proceed(a, "marking")
  /\ UNCHANGED <<stages, genesisSpent, spent, journal, genesisFile, effect>>

\* Stability, stages and provider material after the effect.
CheckAfterEffect(a) ==
  /\ actor[a].pc = "effected"
  /\ \/ Stable(a) /\ Proceed(a, "stable")
     \/ Proceed(a, "marking")
  /\ UNCHANGED <<stages, genesisSpent, spent, journal, genesisFile, effect>>

\* _commit_effect; then the run ends with its receipt, or with an error of a
\* later check or of the provider release, or takes the commit for failed.
CommitEffect(a) ==
  /\ actor[a].pc = "stable"
  /\ \/ /\ Transact(a, {"in_progress"}, "committed")
        /\ \/ Finished /\ Finish(a, "receipt")
           \/ Finish(a, "unconfirmed")
           \/ Proceed(a, "marking")
     \/ UNCHANGED row /\ Proceed(a, "marking")
  /\ UNCHANGED <<stages, genesisSpent, spent, marker, store, genesisFile, effect>>

\* _fail_effect: an UPDATE of a row that is in progress.
Fail(a) == Transact(a, {"in_progress"}, "failed")

\* _mark_effect_ambiguous, which may itself fail.
MarkAmbiguous(a) ==
  /\ actor[a].pc = "marking"
  /\ Fail(a) \/ UNCHANGED row
  /\ Finish(a, "ambiguous")
  /\ UNCHANGED <<stages, genesisSpent, spent, marker, store, genesisFile, effect>>

\* Mutant of Refuse: an error of the effect is passed on as it is.
RefuseAnytime(a) ==
  /\ actor[a].pc \in Running
  /\ Finish(a, "refused")
  /\ UNCHANGED <<stages, genesisSpent, spent, journal, genesisFile, effect>>

\* Any check before the effect raises.
Refuse(a) ==
  /\ actor[a].pc \in {"run", "admitted", "leased", "spent", "claimed", "begun"}
  /\ Finish(a, "refused")
  /\ UNCHANGED <<stages, genesisSpent, spent, journal, genesisFile, effect>>

-----------------------------------------------------------------------------
\* Mutant of LeaseResolution: the operation may be live.
LeaseResolutionLive(a, g, pc) ==
  /\ actor[a].pc = "idle"
  /\ actor' = [actor EXCEPT ![a] = Task(pc, Nobody, g, "none")]
  /\ UNCHANGED <<stages, genesisSpent, spent, journal, genesisFile, leases, effect>>

\* require_recovery and reconcile_ambiguous_effect take the operation lease
\* without waiting and without an artifact root.
LeaseResolution(a, g, pc) ==
  /\ actor[a].pc = "idle"
  /\ opLock[JournalOf[g]] = Nobody
  /\ opLock' = [opLock EXCEPT ![JournalOf[g]] = a]
  /\ actor' = [actor EXCEPT ![a] = Task(pc, Nobody, g, "none")]
  /\ UNCHANGED <<stages, genesisSpent, spent, journal, genesisFile, rootLock, idLock, effect>>

RequireRecovery(a, g) == LeaseResolution(a, g, "recovering")

\* Evidence is signed once the effect was performed.
ReconcileEffect(a, g) == performed /\ LeaseResolution(a, g, "evidence")

Reconcilables == {"in_progress", "failed"}

ResolveRow(a) ==
  /\ \/ actor[a].pc = "recovering" /\ Transact(a, {"claimed", "in_progress"}, "failed")
     \/ actor[a].pc = "evidence" /\ Transact(a, Reconcilables, "committed")
  /\ Leave(a)
  /\ UNCHANGED <<stages, genesisSpent, spent, marker, store, genesisFile, effect>>

\* Provisioning or resolving ends in an error, or its process dies.
Abort(a) ==
  /\ actor[a].pc \in Provisioning \cup Resolving
  /\ Leave(a)
  /\ UNCHANGED <<stages, genesisSpent, spent, journal, genesisFile, effect>>

\* The process dies, perhaps inside a row transaction.
Crash(a) ==
  /\ actor[a].pc \in Running \cup {"recovering", "evidence"}
  /\ Leave(a)
  /\ \/ UNCHANGED store
     \/ /\ actor[a].pc \in {"spent", "claimed", "stable", "marking", "recovering", "evidence"}
        /\ Current(Journal(a))
        /\ store' = [store EXCEPT ![Journal(a)] = "hot"]
  /\ UNCHANGED <<stages, genesisSpent, spent, marker, row, genesisFile, effect>>

\* The allocation journal's side: its stages commit; it may break later.
StagesMove ==
  /\ \/ stages = "unfinished" /\ stages' = "committed"
     \/ stages = "committed" /\ stages' = "lost"
  /\ UNCHANGED <<genesisSpent, spent, journal, genesisFile, leases, actor, effect>>

\* Somebody copies an artifact root, genesis artifact included.
CopyRoot(r, s) ==
  /\ rootLock[r] = Nobody /\ rootLock[s] = Nobody
  /\ genesisFile[s] = NoReceipt /\ genesisFile[r] \in Receipts
  /\ genesisFile' = [genesisFile EXCEPT ![s] = genesisFile[r]]
  /\ UNCHANGED <<stages, genesisSpent, spent, journal, leases, actor, effect>>

Advance(a) ==
  \/ Eligible(a) \/ WriteMarker(a) \/ SpendGenesis(a) \/ RecordGenesis(a) \/ MakeStore(a)
  \/ SetCurrent(a) \/ ApplyReconciliation(a)
  \/ Admit(a) \/ SpendOperation(a) \/ ClaimRow(a) \/ BeginEffect(a) \/ CallEffect(a)
  \/ EffectReturns(a) \/ CheckAfterEffect(a) \/ CommitEffect(a) \/ MarkAmbiguous(a) \/ Refuse(a)
  \/ ResolveRow(a) \/ Abort(a)

Acquire(a) == BeginGenesis(a) \/ CompleteGenesis(a) \/ LeaseReconciliation(a) \/ LeaseOperation(a)

Begin(a) ==
  \E g \in Receipts :
    \/ \E r \in Roots : Provision(a, r, g) \/ Run(a, r, g)
    \/ \E outcome \in Outcomes : Reconcile(a, g, outcome)
    \/ RequireRecovery(a, g)
    \/ ReconcileEffect(a, g)

Next ==
  \/ \E a \in Actors : Begin(a) \/ Advance(a) \/ Acquire(a) \/ Crash(a)
  \/ Perform \/ StagesMove
  \/ \E r, s \in Roots : CopyRoot(r, s)

Spec == Init /\ [][Next]_vars

-----------------------------------------------------------------------------
\* A journal that admits runs was made for one receipt whose genesis was
\* spent, whole, and after the stages it depends on; its artifact is on record.
CurrentIsComplete ==
  \A j \in Journals : marker[j].state = "current" =>
    /\ JournalOf[marker[j].receipt] = j
    /\ genesisSpent /\ stages # "unfinished"
    /\ store[j] \in {"whole", "hot"}
    /\ \E r \in Roots : genesisFile[r] = marker[j].receipt

\* A committed row is backed by an effect that happened, however the row got
\* there: through the run, or from signed evidence after a failure.
CommittedIsPerformed ==
  \A j \in Journals : row[j] = "committed" => performed /\ calls = 1 /\ spent

\* While a run is between beginning its row and ending, neither a recovery
\* nor a signed reconciliation moves the row.
LiveEffectKeepsItsRow ==
  \A a \in Actors :
    actor[a].pc \in {"begun", "calling", "effected", "stable"} => row[Journal(a)] = "in_progress"

\* What a run reports is true: a receipt or an error after the commit means
\* the effect happened and is committed, a refusal that this run called
\* nothing, and nothing else hides a call.
ResultsAreHonest ==
  \A a \in Actors : actor[a].pc = "idle" =>
    /\ actor[a].result \in {"receipt", "unconfirmed"} =>
         performed /\ \E j \in Journals : row[j] = "committed"
    /\ actor[a].result = "refused" => ~ actor[a].called
=============================================================================
