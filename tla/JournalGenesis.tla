--------------------------- MODULE JournalGenesis ---------------------------
(***************************************************************************)
(* Genesis of the allocation journal (authorization.py): three files next  *)
(* to each other, a marker, a database and an anchor, made once from a     *)
(* signed allocation intent by _provision_allocation_journal, or settled   *)
(* after an interruption by a signed reconciliation receipt.               *)
(*                                                                         *)
(* Provisioning holds an artifact root; the journal's identity lease it    *)
(* holds twice, while it writes the pending marker and while it makes the  *)
(* database.  In between it spends the genesis tombstone of the allocation *)
(* operation.  Reconciliation takes the identity lease only.  The intent   *)
(* names the journal and not the artifact root, so two artifact roots may  *)
(* provision the same journal.  Leases are flocks: a second lease taken    *)
(* through another descriptor waits, in the same process too.              *)
(*                                                                         *)
(* Any step may fail and end its run; a file being written is then torn,   *)
(* a SQLite transaction leaves its rollback file (hot).  The process dying *)
(* and an exception have the same effect here: the leases go, the files    *)
(* stay.                                                                   *)
(***************************************************************************)
EXTENDS Naturals

CONSTANTS
  Intents,      \* signed allocation intents that name this journal
  Operations,   \* allocation operation ids: a genesis tombstone's account
  OperationOf,  \* the operation an intent is signed for
  Roots,        \* artifact roots
  Actors,       \* processes that provision or reconcile
  MaxRemovals   \* bound on files deleted by hand

Nobody == "nobody"
NoFile == "absent"
Torn == "torn"

ASSUME GenesisAssumption ==
  /\ OperationOf \in [Intents -> Operations]
  /\ Nobody \notin Actors
  /\ Intents \cap {NoFile, Torn, "empty", "schema"} = {}
  /\ Intents # {} /\ Roots # {}
  /\ MaxRemovals \in Nat

VARIABLES
  tombstones,   \* operations whose genesis tombstone exists
  marker,       \* the journal's marker file
  db,           \* its database: empty, with tables, with the metadata of an intent
  anchor,       \* its anchor file: the intent it was written for
  hot,          \* a rollback file lies beside the database
  documents,    \* per root, control and replay policies: the intent they bind
  intentFile,   \* per root, the allocation intent artifact
  rootLock, idLock, \* who holds an artifact root, the identity lease
  actor,        \* per actor, its step and what it works on
  made,         \* history: databases created for an operation
  removals      \* files removed so far

journal == <<marker, db, anchor, hot>>
artifacts == <<documents, intentFile>>
leases == <<rootLock, idLock>>
vars == <<tombstones, marker, db, anchor, hot, documents, intentFile, rootLock, idLock,
          actor, made, removals>>

Mark(state, i) == [state |-> state, intent |-> i]
Marks == { Mark(state, i) : state \in {"pending", "current", "abandoned"}, i \in Intents }
NoMark == Mark(NoFile, Nobody)
TornMark == Mark(Torn, Nobody)

\* Steps of a provisioning in order; those under the identity lease.
Making == {"completing", "created", "tables", "anchored", "filled"}
UnderIdentity == {"beginning"} \cup Making \cup {"reconciling"}
Provisioning == {"entered", "documented", "beginning", "pending", "tombstoned", "recorded"}
                \cup Making \cup {"made"}
Steps == Provisioning \cup {"waiting", "reconciling"}
Receipts == {"provisioning_completed", "provisioning_abandoned"}

NoReceipt == "none"
Work == [ pc : {"idle"} \cup Steps, root : Roots \cup {Nobody}, intent : Intents \cup {Nobody},
          outcome : Receipts \cup {NoReceipt} ]
Start(pc, r, i, outcome) == [pc |-> pc, root |-> r, intent |-> i, outcome |-> outcome]
Idle == Start("idle", Nobody, Nobody, NoReceipt)

\* A held lease belongs to a run that is at work under it.
TypeOK ==
  /\ tombstones \subseteq Operations
  /\ marker \in Marks \cup {NoMark, TornMark}
  /\ db \in Intents \cup {NoFile, "empty", "schema"}
  /\ anchor \in Intents \cup {NoFile, Torn}
  /\ hot \in BOOLEAN
  /\ documents \in [Roots -> Intents \cup {NoFile, Torn}]
  /\ intentFile \in [Roots -> Intents \cup {NoFile, Torn}]
  /\ rootLock \in [Roots -> Actors \cup {Nobody}]
  /\ idLock \in Actors \cup {Nobody}
  /\ actor \in [Actors -> Work]
  /\ \A a \in Actors :
       /\ actor[a].pc # "idle" => actor[a].intent \in Intents
       /\ actor[a].pc \in Provisioning => actor[a].root \in Roots
       /\ actor[a].pc \in {"waiting", "reconciling"} => actor[a].outcome \in Receipts
       /\ idLock = a <=> actor[a].pc \in UnderIdentity
       /\ \A r \in Roots : rootLock[r] = a <=> actor[a].pc \in Provisioning /\ actor[a].root = r
  /\ made \in [Operations -> Nat]
  /\ removals \in 0..MaxRemovals

Init ==
  /\ tombstones = {}
  /\ marker = NoMark /\ db = NoFile /\ anchor = NoFile /\ hot = FALSE
  /\ documents = [r \in Roots |-> NoFile]
  /\ intentFile = [r \in Roots |-> NoFile]
  /\ rootLock = [r \in Roots |-> Nobody]
  /\ idLock = Nobody
  /\ actor = [a \in Actors |-> Idle]
  /\ made = [o \in Operations |-> 0]
  /\ removals = 0

Intent(a) == actor[a].intent
Root(a) == actor[a].root
Operation(a) == OperationOf[Intent(a)]

\* migration_status: ABSENT, and the case in which it reads the identity.
Absent == marker = NoMark /\ db = NoFile /\ anchor = NoFile
LooksCurrent ==
  /\ marker.state = "current"
  /\ db # NoFile /\ anchor # NoFile

\* _established_identity of an intent: marker, database and anchor agree.
Established(i) ==
  /\ marker = Mark("current", i)
  /\ db = i /\ anchor = i
  /\ ~ hot

Proceed(a, pc) == actor' = [actor EXCEPT ![a].pc = pc] /\ UNCHANGED leases

\* The run goes on and takes or gives back the identity lease.
Lease(a, pc) ==
  /\ idLock = Nobody
  /\ idLock' = a
  /\ actor' = [actor EXCEPT ![a].pc = pc]
  /\ UNCHANGED rootLock

Release(a, pc) ==
  /\ idLock' = Nobody
  /\ actor' = [actor EXCEPT ![a].pc = pc]
  /\ UNCHANGED rootLock

\* The run is over, however it ended.
Leave(a) ==
  /\ actor' = [actor EXCEPT ![a] = Idle]
  /\ rootLock' = [r \in Roots |-> IF rootLock[r] = a THEN Nobody ELSE rootLock[r]]
  /\ idLock' = IF idLock = a THEN Nobody ELSE idLock

-----------------------------------------------------------------------------
\* ArtifactRootLease, then the refusals before anything is written.
Enter(a, r, i) ==
  /\ actor[a].pc = "idle"
  /\ rootLock[r] = Nobody
  /\ Absent
  /\ intentFile[r] = NoFile
  /\ rootLock' = [rootLock EXCEPT ![r] = a]
  /\ actor' = [actor EXCEPT ![a] = Start("entered", r, i, NoReceipt)]
  /\ UNCHANGED <<tombstones, journal, artifacts, idLock, made, removals>>

\* write_once_or_require_exact of the control policies, then of the replay
\* policy that the tombstone will name.
WriteDocuments(a) ==
  /\ actor[a].pc = "entered"
  /\ \/ /\ documents[Root(a)] \in {NoFile, Intent(a)}
        /\ documents' = [documents EXCEPT ![Root(a)] = Intent(a)]
        /\ Proceed(a, "documented")
     \/ /\ documents[Root(a)] = NoFile
        /\ documents' = [documents EXCEPT ![Root(a)] = Torn]
        /\ Leave(a)
  /\ UNCHANGED <<tombstones, journal, intentFile, made, removals>>

\* _begin_verified_intent: the identity lease ...
BeginIntent(a) ==
  /\ actor[a].pc = "documented"
  /\ Lease(a, "beginning")
  /\ UNCHANGED <<tombstones, journal, artifacts, made, removals>>

\* ... and the pending marker, when the journal is still absent.
WriteMarker(a) ==
  /\ actor[a].pc = "beginning"
  /\ Absent
  /\ \/ marker' = Mark("pending", Intent(a)) /\ Release(a, "pending")
     \/ marker' \in {TornMark, Mark("pending", Intent(a))} /\ Leave(a)
  /\ UNCHANGED <<tombstones, db, anchor, hot, artifacts, made, removals>>

\* claim_once answers CREATED, or created the tombstone and could not say so.
ClaimTombstone(a) ==
  /\ actor[a].pc = "pending"
  /\ Operation(a) \notin tombstones
  /\ tombstones' = tombstones \cup {Operation(a)}
  /\ Proceed(a, "tombstoned") \/ Leave(a)
  /\ UNCHANGED <<journal, artifacts, made, removals>>

RecordIntent(a) ==
  /\ actor[a].pc = "tombstoned"
  /\ intentFile[Root(a)] = NoFile
  /\ \/ /\ intentFile' = [intentFile EXCEPT ![Root(a)] = Intent(a)]
        /\ Proceed(a, "recorded")
     \/ /\ \E left \in {Torn, Intent(a)} : intentFile' = [intentFile EXCEPT ![Root(a)] = left]
        /\ Leave(a)
  /\ UNCHANGED <<tombstones, journal, documents, made, removals>>

\* _complete_verified_intent: under the identity lease, marker still pending
\* for this intent, neither database nor anchor.
CompleteIntent(a) ==
  /\ actor[a].pc = "recorded"
  /\ Lease(a, "completing")
  /\ UNCHANGED <<tombstones, journal, artifacts, made, removals>>

Completable(a) ==
  /\ marker = Mark("pending", Intent(a))
  /\ db = NoFile /\ anchor = NoFile

CreateDatabase(a) ==
  /\ actor[a].pc = "completing"
  /\ Completable(a)
  /\ db' = "empty"
  /\ made' = [made EXCEPT ![Operation(a)] = @ + 1]
  /\ Proceed(a, "created") \/ Leave(a)
  /\ UNCHANGED <<tombstones, marker, anchor, hot, artifacts, removals>>

\* A transaction on the database being made: it commits, perhaps unreported,
\* or leaves its rollback file.
Transact(a, from, contents, to) ==
  /\ actor[a].pc = from
  /\ \/ db' = contents /\ UNCHANGED hot /\ (Proceed(a, to) \/ Leave(a))
     \/ hot' = TRUE /\ UNCHANGED db /\ Leave(a)
  /\ UNCHANGED <<tombstones, marker, anchor, artifacts, made, removals>>

CreateTables(a) == Transact(a, "created", "schema", "tables")

WriteAnchor(a) ==
  /\ actor[a].pc = "tables"
  /\ \/ anchor' = Intent(a) /\ Proceed(a, "anchored")
     \/ anchor' \in {Torn, Intent(a)} /\ Leave(a)
  /\ UNCHANGED <<tombstones, marker, db, hot, artifacts, made, removals>>

InsertMetadata(a) == Transact(a, "anchored", Intent(a), "filled")

\* _set_marker_current truncates the marker and writes it anew.
SetMarkerCurrent(a) ==
  /\ actor[a].pc = "filled"
  /\ \/ marker' = Mark("current", Intent(a)) /\ Release(a, "made")
     \/ marker' \in {TornMark, Mark("current", Intent(a))} /\ Leave(a)
  /\ UNCHANGED <<tombstones, db, anchor, hot, artifacts, made, removals>>

\* assert_intent reads the identity once more; a receipt or an error returns.
AssertIntent(a) ==
  /\ actor[a].pc = "made"
  /\ idLock = Nobody
  /\ Leave(a)
  /\ UNCHANGED <<tombstones, journal, artifacts, made, removals>>

\* A check, a read or a callee fails, or the process dies.  (A run that waits
\* for a lease can only die.)
Die(a) ==
  /\ actor[a].pc \in Steps
  /\ Leave(a)
  /\ UNCHANGED <<tombstones, journal, artifacts, made, removals>>

-----------------------------------------------------------------------------
\* reconcile_allocation_journal_genesis with a receipt signed for an intent.
Reconcile(a, i, outcome) ==
  /\ actor[a].pc = "idle"
  /\ actor' = [actor EXCEPT ![a] = Start("waiting", Nobody, i, outcome)]
  /\ UNCHANGED <<tombstones, journal, artifacts, leases, made, removals>>

LeaseReconciliation(a) ==
  /\ actor[a].pc = "waiting"
  /\ Lease(a, "reconciling")
  /\ UNCHANGED <<tombstones, journal, artifacts, made, removals>>

\* Mutant of Reconcilable: the files need only be there.
ReconcilableByPresence(a) ==
  /\ marker = Mark("pending", Intent(a))
  /\ actor[a].outcome = "provisioning_completed" => db # NoFile /\ anchor # NoFile

\* The marker is pending for the receipt's intent; completion asks that
\* database and anchor were finished for it.
Reconcilable(a) ==
  /\ marker = Mark("pending", Intent(a))
  /\ actor[a].outcome = "provisioning_completed" => db = Intent(a) /\ anchor = Intent(a) /\ ~ hot

Settlement(a) ==
  Mark(IF actor[a].outcome = "provisioning_abandoned" THEN "abandoned" ELSE "current", Intent(a))

\* The marker is rewritten, whole or in part; nothing else is touched.
Settle(a) ==
  /\ actor[a].pc = "reconciling"
  /\ Reconcilable(a)
  /\ marker' \in {Settlement(a), TornMark}
  /\ Leave(a)
  /\ UNCHANGED <<tombstones, db, anchor, hot, artifacts, made, removals>>

\* What a run finds in its way and raises for.  In BeginIntent, a journal that
\* is not absent; but to tell a current one migration_status takes the identity
\* lease a second time, which waits for the lease this run holds: no step.
Refused(a) ==
  \/ actor[a].pc = "entered" /\ documents[Root(a)] \notin {NoFile, Intent(a)}
  \/ actor[a].pc = "beginning" /\ ~ Absent /\ ~ LooksCurrent
  \/ actor[a].pc = "pending" /\ Operation(a) \in tombstones
  \/ actor[a].pc = "completing" /\ ~ Completable(a)
  \/ actor[a].pc = "reconciling" /\ ~ Reconcilable(a)

Refuse(a) ==
  /\ Refused(a)
  /\ Leave(a)
  /\ UNCHANGED <<tombstones, journal, artifacts, made, removals>>

\* Somebody deletes the marker, the anchor, or the database with its rollback
\* file, while nobody is at work on it.
Remove ==
  /\ removals < MaxRemovals
  /\ idLock = Nobody
  /\ \/ marker # NoMark /\ marker' = NoMark /\ UNCHANGED <<db, anchor, hot>>
     \/ db # NoFile /\ db' = NoFile /\ hot' = FALSE /\ UNCHANGED <<marker, anchor>>
     \/ anchor # NoFile /\ anchor' = NoFile /\ UNCHANGED <<marker, db, hot>>
  /\ removals' = removals + 1
  /\ UNCHANGED <<tombstones, artifacts, leases, actor, made>>

Acquire(a) == BeginIntent(a) \/ CompleteIntent(a) \/ AssertIntent(a) \/ LeaseReconciliation(a)

Advance(a) ==
  \/ WriteDocuments(a) \/ WriteMarker(a) \/ ClaimTombstone(a) \/ RecordIntent(a)
  \/ CreateDatabase(a) \/ CreateTables(a) \/ WriteAnchor(a) \/ InsertMetadata(a)
  \/ SetMarkerCurrent(a) \/ Settle(a) \/ Refuse(a)

Begins(a) ==
  \/ \E r \in Roots, i \in Intents : Enter(a, r, i)
  \/ \E i \in Intents, outcome \in Receipts : Reconcile(a, i, outcome)

Next ==
  \/ \E a \in Actors : Begins(a) \/ Acquire(a) \/ Advance(a) \/ Die(a)
  \/ Remove

Spec == Init /\ [][Next]_vars

\* A run executes its statements and flock admits its waiters in turn.
\* Starting a run, dying and deleting files are not fair.
Fairness == \A a \in Actors : WF_vars(Advance(a)) /\ SF_vars(Acquire(a))

FairSpec == Spec /\ Fairness

-----------------------------------------------------------------------------
\* A journal is opened for use only when every step of its genesis is behind
\* it: tombstone spent, policies and intent on record in one artifact root,
\* database and anchor whole.  No crash and no reconciliation shortens it.
CurrentIsComplete ==
  \A i \in Intents : marker = Mark("current", i) =>
    /\ OperationOf[i] \in tombstones /\ made[OperationOf[i]] = 1
    /\ \E r \in Roots : documents[r] = i /\ intentFile[r] = i
    /\ removals = 0 => Established(i)

\* A settled genesis is settled: a marker that is current or abandoned, or
\* was torn while it was rewritten, never changes again and no run makes
\* another database for that journal.
SettledStaysSettled ==
  [][ marker.state \notin {NoFile, "pending"} /\ removals' = 0 =>
        marker' = marker /\ made' = made ]_vars

\* The genesis of one operation as a one-shot token: the tombstone is the
\* spending, creating the database the attempt.
Phase(o) ==
  IF made[o] = 0 THEN (IF o \in tombstones THEN "spent" ELSE "fresh")
  ELSE IF made[o] = 1 /\ o \in tombstones THEN "attempted" ELSE "broken"

Token == INSTANCE OneShot WITH Tokens <- Operations, phase <- [o \in Operations |-> Phase(o)]

\* A journal is made at most once for an operation, whichever of its files
\* are lost and whoever tries again with whatever intent and artifact root.
ImplementsOneShot == Token!Spec

\* A provisioning that has begun ends, with a receipt or a refusal.
EveryProvisioningEnds == \A a \in Actors : actor[a].pc # "idle" ~> actor[a].pc = "idle"
=============================================================================
