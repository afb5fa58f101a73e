------------------------ MODULE JournalGenesis_proofs ------------------------
(***************************************************************************)
(* Proofs about the two journals of the authorization module and the       *)
(* leases around an effect: JournalGenesis, ObservedAuthorization (Obs)    *)
(* and ControlLeases (Ctl), for any number of intents, receipts, journals, *)
(* artifact roots, actors, stages, removed files and drifts.               *)
(***************************************************************************)
EXTENDS MCJournals, Sequences, TLAPS

PCs == {"idle"} \cup Steps

\* What TypeOK says of the actors and the leases.
LeaseInv ==
  /\ rootLock \in [Roots -> Actors \cup {Nobody}]
  /\ idLock \in Actors \cup {Nobody}
  /\ actor \in [Actors -> Work]
  /\ \A a \in Actors :
       /\ actor[a].pc # "idle" => actor[a].intent \in Intents
       /\ actor[a].pc \in Provisioning => actor[a].root \in Roots
       /\ actor[a].pc \in {"waiting", "reconciling"} => actor[a].outcome \in Receipts
       /\ idLock = a <=> actor[a].pc \in UnderIdentity
       /\ \A r \in Roots : rootLock[r] = a <=> actor[a].pc \in Provisioning /\ actor[a].root = r

\* What it says of the files.
FileTypes ==
  /\ tombstones \subseteq Operations
  /\ marker \in Marks \cup {NoMark, TornMark}
  /\ db \in Intents \cup {NoFile, "empty", "schema"}
  /\ anchor \in Intents \cup {NoFile, Torn}
  /\ hot \in BOOLEAN
  /\ documents \in [Roots -> Intents \cup {NoFile, Torn}]
  /\ intentFile \in [Roots -> Intents \cup {NoFile, Torn}]
  /\ made \in [Operations -> Nat]
  /\ removals \in 0..MaxRemovals

LEMMA TypeParts == TypeOK <=> LeaseInv /\ FileTypes
BY DEF TypeOK, LeaseInv, FileTypes

\* The step of one actor, seen from the others.
Alone(a) == \A b \in Actors \ {a} : actor'[b] = actor[b]

LEMMA GotoFacts ==
  ASSUME LeaseInv, NEW a \in Actors, NEW pc \in PCs, actor' = [actor EXCEPT ![a].pc = pc]
  PROVE  /\ actor' \in [Actors -> Work]
         /\ actor'[a].pc = pc
         /\ actor'[a].root = actor[a].root
         /\ actor'[a].intent = actor[a].intent
         /\ actor'[a].outcome = actor[a].outcome
         /\ Alone(a)
<1>1. actor[a] \in Work
  BY DEF LeaseInv
<1>2. actor' = [actor EXCEPT ![a] = [actor[a] EXCEPT !.pc = pc]]
  BY DEF LeaseInv
<1>3. [actor[a] EXCEPT !.pc = pc] \in Work
  BY <1>1 DEF Work, PCs
<1>4. QED
  BY <1>1, <1>2, <1>3 DEF LeaseInv, Alone, Work

\* A provisioning that goes on with the leases it has.
LEMMA ProceedFacts ==
  ASSUME LeaseInv, NEW a \in Actors, NEW pc \in Provisioning, Proceed(a, pc),
         actor[a].pc \in Provisioning,
         actor[a].pc \in UnderIdentity <=> pc \in UnderIdentity
  PROVE  LeaseInv'
<1>1. pc \in PCs /\ pc \notin {"idle", "waiting", "reconciling"} /\ actor[a].pc # "idle"
  BY DEF PCs, Steps, Provisioning, Making
<1>2. /\ actor' \in [Actors -> Work] /\ actor'[a].pc = pc /\ actor'[a].root = actor[a].root
      /\ actor'[a].intent = actor[a].intent /\ actor'[a].outcome = actor[a].outcome
      /\ Alone(a) /\ UNCHANGED <<rootLock, idLock>>
  BY <1>1, GotoFacts DEF Proceed, leases
<1>3. QED
  BY <1>1, <1>2 DEF LeaseInv, Alone

LEMMA LeaseFacts ==
  ASSUME LeaseInv, NEW a \in Actors, NEW pc \in UnderIdentity, Lease(a, pc),
         \/ actor[a].pc \in Provisioning /\ pc \in Provisioning
         \/ actor[a].pc = "waiting" /\ pc = "reconciling"
  PROVE  LeaseInv'
<1>1. pc \in PCs /\ pc \notin {"idle", "waiting"} /\ actor[a].pc # "idle"
      /\ ("reconciling" \notin Provisioning) /\ ("waiting" \notin Provisioning)
  BY DEF PCs, Steps, Provisioning, Making, UnderIdentity
<1>2. /\ actor' \in [Actors -> Work] /\ actor'[a].pc = pc /\ actor'[a].root = actor[a].root
      /\ actor'[a].intent = actor[a].intent /\ actor'[a].outcome = actor[a].outcome
      /\ Alone(a) /\ UNCHANGED rootLock
  BY <1>1, GotoFacts DEF Lease
<1>3. idLock = Nobody /\ idLock' = a
  BY DEF Lease
<1>4. QED
  BY <1>1, <1>2, <1>3, GenesisAssumption DEF LeaseInv, Alone

LEMMA ReleaseFacts ==
  ASSUME LeaseInv, NEW a \in Actors, NEW pc \in Provisioning, Release(a, pc), idLock = a,
         actor[a].pc \in Provisioning, pc \notin UnderIdentity
  PROVE  LeaseInv'
<1>1. pc \in PCs /\ pc \notin {"idle", "waiting", "reconciling"} /\ actor[a].pc # "idle"
  BY DEF PCs, Steps, Provisioning, Making
<1>2. /\ actor' \in [Actors -> Work] /\ actor'[a].pc = pc /\ actor'[a].root = actor[a].root
      /\ actor'[a].intent = actor[a].intent /\ actor'[a].outcome = actor[a].outcome
      /\ Alone(a) /\ UNCHANGED rootLock
  BY <1>1, GotoFacts DEF Release
<1>3. idLock' = Nobody
  BY DEF Release
<1>4. QED
  BY <1>1, <1>2, <1>3, GenesisAssumption DEF LeaseInv, Alone

LEMMA IdleFacts ==
  /\ Idle \in Work /\ Idle.pc = "idle"
  /\ "idle" \notin Provisioning /\ "idle" \notin UnderIdentity /\ "idle" \notin Steps
BY DEF Idle, Start, Work, Provisioning, Making, UnderIdentity, Steps

LEMMA LeaveFacts ==
  ASSUME LeaseInv, NEW a \in Actors, Leave(a)
  PROVE  LeaseInv' /\ Alone(a) /\ actor'[a].pc = "idle"
<1>1. actor' \in [Actors -> Work] /\ actor'[a] = Idle /\ Alone(a)
  BY IdleFacts DEF Leave, LeaseInv, Alone
<1>2. actor'[a].pc = "idle" /\ actor'[a].pc \notin {"waiting", "reconciling"}
  BY <1>1, IdleFacts
<1>3. \A b \in Actors \ {a} : /\ idLock' = b <=> idLock = b
                              /\ \A r \in Roots : rootLock'[r] = b <=> rootLock[r] = b
  BY GenesisAssumption DEF Leave, LeaseInv
<1>4. idLock' # a /\ \A r \in Roots : rootLock'[r] # a
  BY GenesisAssumption DEF Leave, LeaseInv
<1>5. rootLock' \in [Roots -> Actors \cup {Nobody}] /\ idLock' \in Actors \cup {Nobody}
  BY DEF Leave, LeaseInv
<1>6. \A b \in Actors :
        /\ actor'[b].pc # "idle" => actor'[b].intent \in Intents
        /\ actor'[b].pc \in Provisioning => actor'[b].root \in Roots
        /\ actor'[b].pc \in {"waiting", "reconciling"} => actor'[b].outcome \in Receipts
        /\ idLock' = b <=> actor'[b].pc \in UnderIdentity
        /\ \A r \in Roots : rootLock'[r] = b <=> actor'[b].pc \in Provisioning /\ actor'[b].root = r
  <2>1. TAKE b \in Actors
  <2>2. CASE b = a
    BY <1>2, <1>4, <2>2, IdleFacts
  <2>3. CASE b # a
    BY <1>1, <1>3, <2>3 DEF LeaseInv, Alone
  <2>4. QED
    BY <2>2, <2>3
<1>7. QED
  BY <1>1, <1>2, <1>5, <1>6 DEF LeaseInv

LEMMA EnterFacts ==
  ASSUME LeaseInv, NEW a \in Actors, NEW r \in Roots, NEW i \in Intents, Enter(a, r, i)
  PROVE  LeaseInv' /\ Alone(a)
<1>1. Start("entered", r, i, NoReceipt) \in Work
  BY DEF Start, Work, Steps, Provisioning
<1>2. /\ actor' \in [Actors -> Work] /\ Alone(a)
      /\ actor'[a].pc = "entered" /\ actor'[a].root = r /\ actor'[a].intent = i
  BY <1>1 DEF Enter, LeaseInv, Alone, Start
<1>3. /\ "entered" \in Provisioning /\ "entered" \notin UnderIdentity
      /\ actor[a].pc = "idle"
  BY DEF Provisioning, UnderIdentity, Making, Enter
<1>4. QED
  BY <1>2, <1>3, IdleFacts, GenesisAssumption DEF Enter, LeaseInv, Alone

LEMMA ReconcileFacts ==
  ASSUME LeaseInv, NEW a \in Actors, NEW i \in Intents, NEW outcome \in Receipts,
         Reconcile(a, i, outcome)
  PROVE  LeaseInv' /\ Alone(a)
<1>1. Start("waiting", Nobody, i, outcome) \in Work
  BY DEF Start, Work, Steps
<1>2. /\ actor' \in [Actors -> Work] /\ Alone(a)
      /\ actor'[a].pc = "waiting" /\ actor'[a].intent = i /\ actor'[a].outcome = outcome
      /\ UNCHANGED <<rootLock, idLock>>
  BY <1>1 DEF Reconcile, LeaseInv, Alone, Start, leases
<1>3. /\ "waiting" \notin Provisioning /\ "waiting" \notin UnderIdentity
      /\ actor[a].pc = "idle"
  BY DEF Provisioning, UnderIdentity, Making, Reconcile
<1>4. QED
  BY <1>2, <1>3, IdleFacts DEF LeaseInv, Alone

\* The actions of an actor, by what they do to its step and leases.
LEMMA ActorMoves ==
  ASSUME NEW a \in Actors, Acquire(a) \/ Advance(a) \/ Die(a)
  PROVE  \/ Leave(a)
         \/ \E pc \in Provisioning :
              /\ Proceed(a, pc)
              /\ actor[a].pc \in Provisioning
              /\ actor[a].pc \in UnderIdentity <=> pc \in UnderIdentity
         \/ \E pc \in UnderIdentity :
              /\ Lease(a, pc)
              /\ \/ actor[a].pc \in Provisioning /\ pc \in Provisioning
                 \/ actor[a].pc = "waiting" /\ pc = "reconciling"
         \/ \E pc \in Provisioning :
              /\ Release(a, pc)
              /\ actor[a].pc \in Provisioning \cap UnderIdentity /\ pc \notin UnderIdentity
BY DEF Acquire, Advance, Die, BeginIntent, CompleteIntent, AssertIntent, LeaseReconciliation,
   WriteDocuments, WriteMarker, ClaimTombstone, RecordIntent, CreateDatabase, CreateTables,
   WriteAnchor, InsertMetadata, Transact, SetMarkerCurrent, Settle, Refuse,
   Provisioning, UnderIdentity, Making

LEMMA ActorLeases ==
  ASSUME LeaseInv, NEW a \in Actors, Begins(a) \/ Acquire(a) \/ Advance(a) \/ Die(a)
  PROVE  LeaseInv' /\ Alone(a)
<1>1. CASE Begins(a)
  BY <1>1, EnterFacts, ReconcileFacts DEF Begins
<1>2. CASE Leave(a)
  BY <1>2, LeaveFacts
<1>3. ASSUME NEW pc \in Provisioning, Proceed(a, pc), actor[a].pc \in Provisioning,
             actor[a].pc \in UnderIdentity <=> pc \in UnderIdentity
      PROVE  LeaseInv' /\ Alone(a)
  <2>1. pc \in PCs
    BY DEF PCs, Steps
  <2>2. QED
    BY <1>3, <2>1, ProceedFacts, GotoFacts DEF Proceed
<1>4. ASSUME NEW pc \in UnderIdentity, Lease(a, pc),
             \/ actor[a].pc \in Provisioning /\ pc \in Provisioning
             \/ actor[a].pc = "waiting" /\ pc = "reconciling"
      PROVE  LeaseInv' /\ Alone(a)
  <2>1. pc \in PCs
    BY DEF PCs, Steps, UnderIdentity, Provisioning
  <2>2. QED
    BY <1>4, <2>1, LeaseFacts, GotoFacts DEF Lease
<1>5. ASSUME NEW pc \in Provisioning, Release(a, pc),
             actor[a].pc \in Provisioning \cap UnderIdentity, pc \notin UnderIdentity
      PROVE  LeaseInv' /\ Alone(a)
  <2>1. pc \in PCs /\ idLock = a
    BY <1>5 DEF PCs, Steps, LeaseInv
  <2>2. QED
    BY <1>5, <2>1, ReleaseFacts, GotoFacts DEF Release
<1>6. QED
  BY <1>1, <1>2, <1>3, <1>4, <1>5, ActorMoves

LEMMA ActorFiles ==
  ASSUME TypeOK, NEW a \in Actors, Begins(a) \/ Acquire(a) \/ Advance(a) \/ Die(a)
  PROVE  FileTypes'
<1> USE DEF journal, artifacts
<1>1. FileTypes /\ LeaseInv
  BY TypeParts
<1>2. CASE \/ Begins(a) \/ Acquire(a) \/ Die(a) \/ Refuse(a)
  BY <1>1, <1>2 DEF FileTypes, Begins, Enter, Reconcile, Acquire, BeginIntent, CompleteIntent,
     AssertIntent, LeaseReconciliation, Die, Refuse
<1>3. ASSUME actor[a].pc # "idle" PROVE Intent(a) \in Intents /\ Operation(a) \in Operations
  BY <1>1, <1>3, GenesisAssumption DEF LeaseInv, Intent, Operation
<1>4. \A state \in {"pending", "current", "abandoned"}, i \in Intents : Mark(state, i) \in Marks
  BY DEF Marks
<1>5. CASE WriteDocuments(a)
  BY <1>1, <1>3, <1>5 DEF WriteDocuments, FileTypes
<1>6. CASE WriteMarker(a)
  BY <1>1, <1>3, <1>4, <1>6 DEF WriteMarker, FileTypes
<1>7. CASE ClaimTombstone(a)
  BY <1>1, <1>3, <1>7 DEF ClaimTombstone, FileTypes
<1>8. CASE RecordIntent(a)
  BY <1>1, <1>3, <1>8 DEF RecordIntent, FileTypes
<1>9. CASE CreateDatabase(a)
  BY <1>1, <1>3, <1>9 DEF CreateDatabase, FileTypes
<1>10. CASE CreateTables(a)
  BY <1>1, <1>3, <1>10 DEF CreateTables, Transact, FileTypes
<1>11. CASE WriteAnchor(a)
  BY <1>1, <1>3, <1>11 DEF WriteAnchor, FileTypes
<1>12. CASE InsertMetadata(a)
  BY <1>1, <1>3, <1>12 DEF InsertMetadata, Transact, FileTypes
<1>13. CASE SetMarkerCurrent(a)
  BY <1>1, <1>3, <1>4, <1>13 DEF SetMarkerCurrent, FileTypes
<1>14. CASE Settle(a)
  <2>1. Settlement(a) \in Marks
    BY <1>3, <1>4, <1>14 DEF Settle, Settlement
  <2>2. QED
    BY <1>1, <1>14, <2>1 DEF Settle, FileTypes
<1>15. QED
  BY <1>2, <1>5, <1>6, <1>7, <1>8, <1>9, <1>10, <1>11, <1>12, <1>13, <1>14 DEF Advance

LEMMA RemoveFacts ==
  ASSUME TypeOK, Remove
  PROVE  LeaseInv' /\ FileTypes' /\ UNCHANGED <<actor, leases, tombstones, artifacts, made>>
<1>1. /\ UNCHANGED <<actor, rootLock, idLock, tombstones, documents, intentFile, made>>
      /\ marker' \in {marker, NoMark} /\ db' \in {db, NoFile} /\ anchor' \in {anchor, NoFile}
      /\ hot' \in {hot, FALSE} /\ removals < MaxRemovals /\ removals' = removals + 1
  BY DEF Remove, artifacts, leases
<1>2. removals' \in 0..MaxRemovals
  BY <1>1, TypeParts, GenesisAssumption DEF FileTypes
<1>3. FileTypes'
  BY <1>1, <1>2, TypeParts DEF FileTypes
<1>4. LeaseInv'
  BY <1>1, TypeParts DEF LeaseInv
<1>5. QED
  BY <1>1, <1>3, <1>4 DEF artifacts, leases

LEMMA TypeInductive == TypeOK /\ [Next]_vars => TypeOK'
<1>1. ASSUME TypeOK, UNCHANGED vars PROVE TypeOK'
  BY <1>1 DEF TypeOK, vars
<1>2. ASSUME TypeOK, NEW a \in Actors, Begins(a) \/ Acquire(a) \/ Advance(a) \/ Die(a)
      PROVE  TypeOK'
  BY <1>2, TypeParts, ActorLeases, ActorFiles DEF TypeOK, LeaseInv, FileTypes
<1>3. ASSUME TypeOK, Remove PROVE TypeOK'
  BY <1>3, RemoveFacts DEF TypeOK, LeaseInv, FileTypes
<1>4. QED
  BY <1>1, <1>2, <1>3 DEF Next

LEMMA TypeInit == Init => TypeOK
<1>1. ASSUME Init PROVE FileTypes
  <2>1. /\ tombstones = {} /\ marker = NoMark /\ db = NoFile /\ anchor = NoFile
        /\ documents = [r \in Roots |-> NoFile] /\ intentFile = [r \in Roots |-> NoFile]
        /\ made = [o \in Operations |-> 0]
        /\ removals = 0
    BY <1>1 DEF Init
  <2>2. hot \in BOOLEAN
    BY <1>1 DEF Init
  <2>3. removals \in 0..MaxRemovals
    BY <2>1, GenesisAssumption
  <2>4. made \in [Operations -> Nat]
    BY <2>1
  <2>5. /\ documents \in [Roots -> Intents \cup {NoFile, Torn}]
        /\ intentFile \in [Roots -> Intents \cup {NoFile, Torn}]
    BY <2>1
  <2>6. QED
    BY <2>1, <2>2, <2>3, <2>4, <2>5 DEF FileTypes
<1>2. ASSUME Init PROVE LeaseInv
  <2>1. \A a \in Actors : actor[a] = Idle /\ actor[a].pc = "idle"
    BY <1>2, IdleFacts DEF Init
  <2>2. actor \in [Actors -> Work] /\ idLock = Nobody /\ rootLock = [r \in Roots |-> Nobody]
    BY <1>2, IdleFacts DEF Init
  <2>3. "idle" \notin {"waiting", "reconciling"}
    OBVIOUS
  <2>4. QED
    BY <2>1, <2>2, <2>3, IdleFacts, GenesisAssumption DEF LeaseInv
<1>3. QED
  BY <1>1, <1>2, TypeParts

\* The leases are held by whom they should, and every file holds what a
\* genesis writes into it, in every reachable state.
THEOREM TypeCorrect == Spec => []TypeOK
BY TypeInit, TypeInductive, PTL DEF Spec

-----------------------------------------------------------------------------
\* A run that has spent its tombstone is the only one of its operation that
\* ever will; it makes the database between "completing" and "created".
BeforeMaking == {"tombstoned", "recorded", "completing"}
AfterMaking == {"created", "tables", "anchored", "filled", "made"}

SpendInv ==
  /\ \A o \in Operations : made[o] \in {0, 1} /\ (made[o] = 1 => o \in tombstones)
  /\ \A a \in Actors :
       /\ actor[a].pc \in BeforeMaking => Operation(a) \in tombstones /\ made[Operation(a)] = 0
       /\ actor[a].pc \in AfterMaking => Operation(a) \in tombstones /\ made[Operation(a)] = 1
  /\ \A a, b \in Actors :
       /\ actor[a].pc \in BeforeMaking \cup AfterMaking
       /\ actor[b].pc \in BeforeMaking \cup AfterMaking
       /\ Operation(a) = Operation(b)
       => a = b

\* What a provisioning has written into its artifact root is there.
RecordInv ==
  \A a \in Actors :
    /\ actor[a].pc \in Provisioning \ {"entered"} => documents[Root(a)] = Intent(a)
    /\ actor[a].pc \in {"recorded"} \cup Making \cup {"made"} => intentFile[Root(a)] = Intent(a)

\* The files of the journal while it is being made.
MakingInv ==
  /\ db \in Intents \cup {NoFile} => ~ hot
  /\ \A a \in Actors :
       /\ actor[a].pc \in Making \ {"completing"} => marker = Mark("pending", Intent(a)) /\ ~ hot
       /\ actor[a].pc = "created" => db = "empty" /\ anchor = NoFile
       /\ actor[a].pc = "tables" => db = "schema" /\ anchor = NoFile
       /\ actor[a].pc = "anchored" => db = "schema" /\ anchor = Intent(a)
       /\ actor[a].pc = "filled" => db = Intent(a) /\ anchor = Intent(a)

\* What stands behind a database with the metadata of an intent.
Backed(i) ==
  /\ OperationOf[i] \in tombstones /\ made[OperationOf[i]] = 1
  /\ \E r \in Roots : documents[r] = i /\ intentFile[r] = i

FinishedInv ==
  \A i \in Intents :
    /\ db = i \/ marker = Mark("current", i) => Backed(i)
    /\ removals = 0 /\ marker = Mark("current", i) => Established(i)

GenesisInv == TypeOK /\ SpendInv /\ RecordInv /\ MakingInv /\ FinishedInv

LEMMA Steps1 ==
  ASSUME TypeOK, NEW a \in Actors, NEW pc \in PCs, Proceed(a, pc) \/ Lease(a, pc) \/ Release(a, pc)
  PROVE  /\ Alone(a) /\ actor'[a].pc = pc
         /\ Intent(a)' = Intent(a) /\ Root(a)' = Root(a) /\ Operation(a)' = Operation(a)
BY TypeParts, GotoFacts DEF Proceed, Lease, Release, Intent, Root, Operation

LEMMA OthersKeep ==
  ASSUME NEW a \in Actors, Alone(a), NEW b \in Actors \ {a}
  PROVE  /\ actor'[b].pc = actor[b].pc
         /\ Intent(b)' = Intent(b) /\ Root(b)' = Root(b) /\ Operation(b)' = Operation(b)
BY DEF Alone, Intent, Root, Operation

LEMMA Busy ==
  ASSUME TypeOK, NEW a \in Actors, actor[a].pc # "idle"
  PROVE  /\ Intent(a) \in Intents /\ Operation(a) \in Operations
         /\ actor[a].pc \in Provisioning => Root(a) \in Roots
BY GenesisAssumption, TypeParts DEF LeaseInv, Intent, Operation, Root

\* A run that neither spends nor makes, by where it is before and after.
QuietMove(a) ==
  /\ Alone(a)
  /\ \/ actor'[a].pc \notin BeforeMaking \cup AfterMaking
     \/ /\ Operation(a)' = Operation(a)
        /\ \/ actor[a].pc \in BeforeMaking /\ actor'[a].pc \in BeforeMaking
           \/ actor[a].pc \in AfterMaking /\ actor'[a].pc \in AfterMaking

LEMMA QuietSpend ==
  ASSUME SpendInv, NEW a \in Actors, QuietMove(a), UNCHANGED <<tombstones, made>>
  PROVE  SpendInv'
<1>1. \A b \in Actors :
        actor'[b].pc \in BeforeMaking \cup AfterMaking =>
          /\ Operation(b)' = Operation(b)
          /\ actor[b].pc \in BeforeMaking <=> actor'[b].pc \in BeforeMaking
          /\ actor[b].pc \in AfterMaking <=> actor'[b].pc \in AfterMaking
  <2>1. BeforeMaking \cap AfterMaking = {}
    BY DEF BeforeMaking, AfterMaking
  <2>2. QED
    BY <2>1, OthersKeep DEF QuietMove
<1>2. QED
  BY <1>1 DEF SpendInv

LEMMA QuietMoves ==
  ASSUME TypeOK, NEW a \in Actors,
         \/ Begins(a) \/ Acquire(a) \/ Die(a) \/ Refuse(a) \/ WriteDocuments(a) \/ WriteMarker(a)
         \/ RecordIntent(a) \/ CreateTables(a) \/ WriteAnchor(a) \/ InsertMetadata(a)
         \/ SetMarkerCurrent(a) \/ Settle(a)
  PROVE  QuietMove(a) /\ UNCHANGED <<tombstones, made>>
<1> USE DEF BeforeMaking, AfterMaking
<1>0. Alone(a)
  BY TypeParts, ActorLeases DEF Advance
<1>1. CASE Leave(a)
  <2>1. actor'[a].pc \notin BeforeMaking \cup AfterMaking
    BY <1>1, TypeParts, LeaveFacts
  <2>2. UNCHANGED <<tombstones, made>>
    BY DEF Begins, Enter, Reconcile, Acquire, BeginIntent, CompleteIntent, AssertIntent,
       LeaseReconciliation, Die, Refuse, WriteDocuments, WriteMarker, RecordIntent, CreateTables,
       WriteAnchor, InsertMetadata, Transact, SetMarkerCurrent, Settle
  <2>3. QED
    BY <1>0, <2>1, <2>2 DEF QuietMove
<1>2. CASE Begins(a)
  <2>1. actor'[a].pc \in {"entered", "waiting"}
    BY <1>2, TypeParts DEF Begins, Enter, Reconcile, Start, LeaseInv
  <2>2. QED
    BY <1>0, <1>2, <2>1 DEF QuietMove, Begins, Enter, Reconcile
<1>3. ASSUME NEW pc \in PCs, Proceed(a, pc) \/ Lease(a, pc) \/ Release(a, pc),
             \/ pc \notin BeforeMaking \cup AfterMaking
             \/ actor[a].pc \in BeforeMaking /\ pc \in BeforeMaking
             \/ actor[a].pc \in AfterMaking /\ pc \in AfterMaking,
             UNCHANGED <<tombstones, made>>
      PROVE  QuietMove(a) /\ UNCHANGED <<tombstones, made>>
  BY <1>0, <1>3, Steps1 DEF QuietMove
<1>4. ASSUME NEW pc \in PCs, BeginIntent(a) \/ LeaseReconciliation(a) \/ WriteDocuments(a) \/ WriteMarker(a),
             Proceed(a, pc) \/ Lease(a, pc) \/ Release(a, pc),
             pc \in {"beginning", "reconciling", "documented", "pending"}
      PROVE  QuietMove(a) /\ UNCHANGED <<tombstones, made>>
  BY <1>3, <1>4 DEF BeginIntent, LeaseReconciliation, WriteDocuments, WriteMarker
<1>5. {"beginning", "reconciling", "documented", "pending", "recorded", "completing", "tables",
       "anchored", "filled", "made"} \subseteq PCs
  BY DEF PCs, Steps, Provisioning, Making
<1>6. CASE BeginIntent(a) \/ LeaseReconciliation(a) \/ WriteDocuments(a) \/ WriteMarker(a)
  BY <1>1, <1>4, <1>5, <1>6 DEF BeginIntent, LeaseReconciliation, WriteDocuments, WriteMarker
<1>7. CASE RecordIntent(a)
  BY <1>1, <1>3, <1>5, <1>7 DEF RecordIntent
<1>8. CASE CompleteIntent(a)
  BY <1>1, <1>3, <1>5, <1>8 DEF CompleteIntent
<1>9. CASE CreateTables(a) \/ InsertMetadata(a)
  BY <1>1, <1>3, <1>5, <1>9 DEF CreateTables, InsertMetadata, Transact
<1>10. CASE WriteAnchor(a)
  BY <1>1, <1>3, <1>5, <1>10 DEF WriteAnchor
<1>11. CASE SetMarkerCurrent(a)
  BY <1>1, <1>3, <1>5, <1>11 DEF SetMarkerCurrent
<1>12. CASE AssertIntent(a) \/ Die(a) \/ Refuse(a) \/ Settle(a)
  BY <1>1, <1>12 DEF AssertIntent, Die, Refuse, Settle
<1>13. QED
  BY <1>2, <1>6, <1>7, <1>8, <1>9, <1>10, <1>11, <1>12 DEF Acquire

LEMMA SpendClaim ==
  ASSUME TypeOK, SpendInv, NEW a \in Actors, ClaimTombstone(a)
  PROVE  SpendInv'
<1> DEFINE o == Operation(a)
<1>1. o \in Operations /\ o \notin tombstones /\ tombstones' = tombstones \cup {o} /\ made' = made
  BY Busy DEF ClaimTombstone
<1>2. made[o] = 0
  BY <1>1 DEF SpendInv
<1>3. \A b \in Actors : actor[b].pc \in BeforeMaking \cup AfterMaking => Operation(b) # o
  BY <1>1 DEF SpendInv
<1>4. CASE Proceed(a, "tombstoned")
  <2>1. "tombstoned" \in PCs /\ "tombstoned" \in BeforeMaking /\ "tombstoned" \notin AfterMaking
    BY DEF PCs, Steps, Provisioning, BeforeMaking, AfterMaking
  <2>2. Alone(a) /\ actor'[a].pc = "tombstoned" /\ Operation(a)' = o
    BY <1>4, <2>1, Steps1
  <2>3. QED
    BY <1>1, <1>2, <1>3, <2>1, <2>2, OthersKeep DEF SpendInv
<1>5. CASE Leave(a)
  <2>1. Alone(a) /\ actor'[a].pc = "idle"
    BY <1>5, TypeParts, LeaveFacts
  <2>2. "idle" \notin BeforeMaking \cup AfterMaking
    BY DEF BeforeMaking, AfterMaking
  <2>3. QED
    BY <1>1, <1>2, <1>3, <2>1, <2>2, OthersKeep DEF SpendInv
<1>6. QED
  BY <1>4, <1>5 DEF ClaimTombstone

LEMMA SpendMake ==
  ASSUME TypeOK, SpendInv, NEW a \in Actors, CreateDatabase(a)
  PROVE  SpendInv'
<1> DEFINE o == Operation(a)
<1>1. /\ o \in Operations /\ tombstones' = tombstones /\ made' = [made EXCEPT ![o] = @ + 1]
      /\ actor[a].pc = "completing"
  BY Busy DEF CreateDatabase
<1>2. actor[a].pc \in BeforeMaking
  BY <1>1 DEF BeforeMaking
<1>3. made[o] = 0 /\ o \in tombstones
  BY <1>2 DEF SpendInv
<1>4. made \in [Operations -> Nat]
  BY DEF TypeOK
<1>5. made'[o] = 1 /\ \A p \in Operations \ {o} : made'[p] = made[p]
  BY <1>1, <1>3, <1>4
<1>6. \A b \in Actors \ {a} :
        actor[b].pc \in BeforeMaking \cup AfterMaking => Operation(b) # o /\ Operation(b) \in Operations
  <2>1. "idle" \notin BeforeMaking \cup AfterMaking
    BY DEF BeforeMaking, AfterMaking
  <2>2. QED
    BY <1>2, <2>1, Busy DEF SpendInv
<1>7. CASE Proceed(a, "created")
  <2>1. "created" \in PCs /\ "created" \in AfterMaking /\ "created" \notin BeforeMaking
    BY DEF PCs, Steps, Provisioning, Making, BeforeMaking, AfterMaking
  <2>2. Alone(a) /\ actor'[a].pc = "created" /\ Operation(a)' = o
    BY <1>7, <2>1, Steps1
  <2>3. QED
    BY <1>1, <1>3, <1>5, <1>6, <2>1, <2>2, OthersKeep DEF SpendInv
<1>8. CASE Leave(a)
  <2>1. Alone(a) /\ actor'[a].pc = "idle"
    BY <1>8, TypeParts, LeaveFacts
  <2>2. "idle" \notin BeforeMaking \cup AfterMaking
    BY DEF BeforeMaking, AfterMaking
  <2>3. QED
    BY <1>1, <1>3, <1>5, <1>6, <2>1, <2>2, OthersKeep DEF SpendInv
<1>9. QED
  BY <1>7, <1>8 DEF CreateDatabase

LEMMA SpendInductive == TypeOK /\ SpendInv /\ [Next]_vars => SpendInv'
<1>1. ASSUME SpendInv, UNCHANGED <<tombstones, made, actor>> PROVE SpendInv'
  BY <1>1 DEF SpendInv, Operation, Intent
<1>2. ASSUME TypeOK, SpendInv, NEW a \in Actors, Begins(a) \/ Acquire(a) \/ Advance(a) \/ Die(a)
      PROVE  SpendInv'
  BY <1>2, QuietMoves, QuietSpend, SpendClaim, SpendMake DEF Advance
<1>3. QED
  BY <1>1, <1>2, RemoveFacts DEF Next, vars

-----------------------------------------------------------------------------
\* Files of an artifact root that were written stay as they are.
Kept ==
  \A r \in Roots :
    /\ documents[r] \in Intents => documents'[r] = documents[r]
    /\ intentFile[r] \in Intents => intentFile'[r] = intentFile[r]

LEMMA ArtifactsKept ==
  ASSUME TypeOK, NEW a \in Actors, Begins(a) \/ Acquire(a) \/ Advance(a) \/ Die(a)
  PROVE  Kept
<1>1. NoFile \notin Intents
  BY GenesisAssumption
<1>2. CASE WriteDocuments(a)
  <2>1. Root(a) \in Roots
    BY <1>2, Busy DEF WriteDocuments, Provisioning
  <2>2. QED
    BY <1>1, <1>2, <2>1 DEF WriteDocuments, Kept, TypeOK
<1>3. CASE RecordIntent(a)
  <2>1. Root(a) \in Roots
    BY <1>3, Busy DEF RecordIntent, Provisioning
  <2>2. QED
    BY <1>1, <1>3, <2>1 DEF RecordIntent, Kept, TypeOK
<1>4. CASE UNCHANGED artifacts
  BY <1>4 DEF artifacts, Kept
<1>5. QED
  BY <1>2, <1>3, <1>4 DEF Begins, Enter, Reconcile, Acquire, BeginIntent, CompleteIntent, AssertIntent,
     LeaseReconciliation, Advance, Die, Refuse, WriteMarker, ClaimTombstone, CreateDatabase,
     CreateTables, WriteAnchor, InsertMetadata, Transact, SetMarkerCurrent, Settle, artifacts

\* The run of a step is beyond writing its documents (its intent) only when
\* it was so before, or has just written them.
LEMMA RecordProgress ==
  ASSUME TypeOK, NEW a \in Actors, Begins(a) \/ Acquire(a) \/ Advance(a) \/ Die(a)
  PROVE  /\ actor'[a].pc \in Provisioning \ {"entered"} =>
              /\ Intent(a)' = Intent(a) /\ Root(a)' = Root(a)
              /\ \/ actor[a].pc \in Provisioning \ {"entered"}
                 \/ actor[a].pc = "entered" /\ documents'[Root(a)] = Intent(a)
         /\ actor'[a].pc \in {"recorded"} \cup Making \cup {"made"} =>
              \/ actor[a].pc \in {"recorded"} \cup Making \cup {"made"}
              \/ actor[a].pc = "tombstoned" /\ intentFile'[Root(a)] = Intent(a)
<1> USE DEF Provisioning, Making
<1>1. CASE Leave(a)
  BY <1>1, TypeParts, LeaveFacts
<1>2. CASE Begins(a)
  BY <1>2, TypeParts DEF Begins, Enter, Reconcile, Start, LeaseInv
<1>3. PCs = {"idle", "waiting", "reconciling"} \cup Provisioning
  BY DEF PCs, Steps
<1>4. CASE WriteDocuments(a) /\ ~ Leave(a)
  <2>1. Root(a) \in Roots
    BY <1>4, Busy DEF WriteDocuments
  <2>2. documents'[Root(a)] = Intent(a)
    BY <1>4, <2>1, TypeParts DEF WriteDocuments, FileTypes
  <2>3. Proceed(a, "documented")
    BY <1>4 DEF WriteDocuments
  <2>4. actor[a].pc = "entered"
    BY <1>4 DEF WriteDocuments
  <2>5. QED
    BY <1>3, <2>2, <2>3, <2>4, Steps1
<1>5. CASE RecordIntent(a) /\ ~ Leave(a)
  <2>1. Root(a) \in Roots
    BY <1>5, Busy DEF RecordIntent
  <2>2. intentFile'[Root(a)] = Intent(a)
    BY <1>5, <2>1, TypeParts DEF RecordIntent, FileTypes
  <2>3. Proceed(a, "recorded")
    BY <1>5 DEF RecordIntent
  <2>4. actor[a].pc = "tombstoned"
    BY <1>5 DEF RecordIntent
  <2>5. QED
    BY <1>3, <2>2, <2>3, <2>4, Steps1
<1>6. CASE (BeginIntent(a) \/ LeaseReconciliation(a) \/ WriteMarker(a) \/ ClaimTombstone(a)) /\ ~ Leave(a)
  <2>1. \E pc \in {"beginning", "reconciling", "pending", "tombstoned"} :
          /\ Proceed(a, pc) \/ Lease(a, pc) \/ Release(a, pc)
          /\ \/ actor[a].pc \in {"documented", "beginning", "pending"}
             \/ pc = "reconciling"
    BY <1>6 DEF BeginIntent, LeaseReconciliation, WriteMarker, ClaimTombstone
  <2>2. QED
    BY <1>3, <2>1, Steps1
<1>7. CASE (CompleteIntent(a) \/ CreateDatabase(a) \/ CreateTables(a) \/ WriteAnchor(a)
            \/ InsertMetadata(a) \/ SetMarkerCurrent(a)) /\ ~ Leave(a)
  <2>1. \E pc \in Making \cup {"made"} :
          /\ Proceed(a, pc) \/ Lease(a, pc) \/ Release(a, pc)
          /\ actor[a].pc \in {"recorded"} \cup Making
    BY <1>7 DEF CompleteIntent, CreateDatabase, CreateTables, WriteAnchor, InsertMetadata, Transact,
       SetMarkerCurrent
  <2>2. QED
    BY <1>3, <2>1, Steps1
<1>8. QED
  BY <1>1, <1>2, <1>4, <1>5, <1>6, <1>7 DEF Acquire, Advance, AssertIntent, Die, Refuse, Settle

LEMMA RecordInductive == TypeOK /\ RecordInv /\ [Next]_vars => RecordInv'
<1>1. ASSUME RecordInv, UNCHANGED <<artifacts, actor>> PROVE RecordInv'
  BY <1>1 DEF RecordInv, artifacts, Root, Intent
<1>2. ASSUME TypeOK, RecordInv, NEW a \in Actors, Begins(a) \/ Acquire(a) \/ Advance(a) \/ Die(a)
      PROVE  RecordInv'
  <2>1. Alone(a) /\ Kept
    BY <1>2, TypeParts, ActorLeases, ArtifactsKept
  <2>2. \A b \in Actors : actor[b].pc \in Provisioning => Intent(b) \in Intents /\ Root(b) \in Roots
    BY <1>2, TypeParts, IdleFacts, Busy
  <2>3. {"recorded"} \cup Making \cup {"made"} \subseteq Provisioning \ {"entered"}
    BY DEF Provisioning, Making
  <2>4. \A b \in Actors \ {a} :
          /\ actor'[b].pc \in Provisioning \ {"entered"} => documents'[Root(b)'] = Intent(b)'
          /\ actor'[b].pc \in {"recorded"} \cup Making \cup {"made"} => intentFile'[Root(b)'] = Intent(b)'
    BY <1>2, <2>1, <2>2, <2>3, OthersKeep DEF RecordInv, Kept
  <2>5. /\ actor'[a].pc \in Provisioning \ {"entered"} => documents'[Root(a)'] = Intent(a)'
        /\ actor'[a].pc \in {"recorded"} \cup Making \cup {"made"} => intentFile'[Root(a)'] = Intent(a)'
    BY <1>2, <2>1, <2>2, <2>3, RecordProgress DEF RecordInv, Kept
  <2>6. QED
    BY <2>4, <2>5 DEF RecordInv
<1>3. QED
  BY <1>1, <1>2, RemoveFacts DEF Next, vars, artifacts

-----------------------------------------------------------------------------
LEMMA MarksDiffer ==
  \A i, j : /\ Mark("pending", i) # Mark("current", j) /\ Mark("pending", i) # Mark("abandoned", j)
            /\ Mark("abandoned", i) # Mark("current", j)
            /\ Mark("current", i) = Mark("current", j) => i = j
            /\ Mark("pending", i) = Mark("pending", j) => i = j
            /\ NoMark # Mark("current", j) /\ NoMark # Mark("pending", j)
            /\ TornMark # Mark("current", j) /\ TornMark # Mark("pending", j)
BY DEF Mark, NoMark, TornMark, NoFile, Torn

\* The journal's files are written under its identity lease only.
LEMMA JournalWriters ==
  ASSUME TypeOK, NEW a \in Actors, Begins(a) \/ Acquire(a) \/ Advance(a) \/ Die(a)
  PROVE  UNCHANGED journal \/ idLock = a
<1>1. CASE UNCHANGED journal
  BY <1>1
<1>2. CASE WriteMarker(a) \/ CreateDatabase(a) \/ CreateTables(a) \/ WriteAnchor(a)
           \/ InsertMetadata(a) \/ SetMarkerCurrent(a) \/ Settle(a)
  <2>1. actor[a].pc \in UnderIdentity
    BY <1>2 DEF WriteMarker, CreateDatabase, CreateTables, WriteAnchor, InsertMetadata, Transact,
       SetMarkerCurrent, Settle, UnderIdentity, Making
  <2>2. QED
    BY <2>1, TypeParts DEF LeaseInv
<1>3. QED
  BY <1>1, <1>2 DEF Begins, Enter, Reconcile, Acquire, BeginIntent, CompleteIntent, AssertIntent,
     LeaseReconciliation, Advance, Die, Refuse, WriteDocuments, ClaimTombstone, RecordIntent, journal

\* MakingInv of one actor.
MakingOf(a) ==
  /\ actor[a].pc \in Making \ {"completing"} => marker = Mark("pending", Intent(a)) /\ ~ hot
  /\ actor[a].pc = "created" => db = "empty" /\ anchor = NoFile
  /\ actor[a].pc = "tables" => db = "schema" /\ anchor = NoFile
  /\ actor[a].pc = "anchored" => db = "schema" /\ anchor = Intent(a)
  /\ actor[a].pc = "filled" => db = Intent(a) /\ anchor = Intent(a)

LEMMA MakingStep ==
  ASSUME TypeOK, MakingInv, NEW a \in Actors, Begins(a) \/ Acquire(a) \/ Advance(a) \/ Die(a)
  PROVE  MakingOf(a)' /\ (db' \in Intents \cup {NoFile} => ~ hot')
<1> USE DEF Making
<1>1. /\ "empty" \notin Intents \cup {NoFile} /\ "schema" \notin Intents \cup {NoFile}
      /\ NoFile \notin Intents
  BY GenesisAssumption DEF NoFile
<1>2. MakingOf(a) /\ (db \in Intents \cup {NoFile} => ~ hot)
  BY DEF MakingInv, MakingOf
<1>3. PCs = {"idle", "waiting", "reconciling"} \cup Provisioning /\ Making \subseteq Provisioning
      /\ "made" \in Provisioning
  BY DEF PCs, Steps, Provisioning
<1>4. CASE actor'[a].pc \notin Making \ {"completing"} /\ UNCHANGED <<db, hot>>
  BY <1>2, <1>4 DEF MakingOf
<1>5. ASSUME Leave(a) PROVE actor'[a].pc \notin Making \ {"completing"}
  BY <1>5, TypeParts, LeaveFacts
<1>6. CASE CreateDatabase(a)
  <2>1. db = NoFile /\ ~ hot /\ anchor = NoFile /\ marker = Mark("pending", Intent(a))
    BY <1>2, <1>6 DEF CreateDatabase, Completable
  <2>2. db' = "empty" /\ UNCHANGED <<hot, anchor, marker>>
    BY <1>6 DEF CreateDatabase
  <2>3. CASE Proceed(a, "created")
    BY <1>1, <1>3, <2>1, <2>2, <2>3, Steps1 DEF MakingOf
  <2>4. CASE Leave(a)
    BY <1>1, <1>5, <2>2, <2>4 DEF MakingOf
  <2>5. QED
    BY <1>6, <2>3, <2>4 DEF CreateDatabase
<1>7. CASE CreateTables(a)
  <2>1. db = "empty" /\ ~ hot /\ anchor = NoFile /\ marker = Mark("pending", Intent(a))
    BY <1>2, <1>7 DEF CreateTables, Transact, MakingOf
  <2>2. UNCHANGED <<anchor, marker>> /\ db' \in {"empty", "schema"}
    BY <1>7, <2>1 DEF CreateTables, Transact
  <2>3. CASE Proceed(a, "tables") /\ db' = "schema" /\ hot' = hot
    BY <1>1, <1>3, <2>1, <2>2, <2>3, Steps1 DEF MakingOf
  <2>4. CASE Leave(a)
    BY <1>1, <1>5, <2>2, <2>4 DEF MakingOf
  <2>5. QED
    BY <1>7, <2>3, <2>4 DEF CreateTables, Transact
<1>8. CASE WriteAnchor(a)
  <2>1. db = "schema" /\ ~ hot /\ marker = Mark("pending", Intent(a))
    BY <1>2, <1>8 DEF WriteAnchor, MakingOf
  <2>2. UNCHANGED <<db, hot, marker>>
    BY <1>8 DEF WriteAnchor
  <2>3. CASE Proceed(a, "anchored") /\ anchor' = Intent(a)
    BY <1>1, <1>3, <2>1, <2>2, <2>3, Steps1 DEF MakingOf
  <2>4. CASE Leave(a)
    BY <1>1, <1>5, <2>1, <2>2, <2>4 DEF MakingOf
  <2>5. QED
    BY <1>8, <2>3, <2>4 DEF WriteAnchor
<1>9. CASE InsertMetadata(a)
  <2>1. db = "schema" /\ ~ hot /\ anchor = Intent(a) /\ marker = Mark("pending", Intent(a))
    BY <1>2, <1>9 DEF InsertMetadata, Transact, MakingOf
  <2>2. UNCHANGED <<anchor, marker>>
    BY <1>9 DEF InsertMetadata, Transact
  <2>3. CASE Proceed(a, "filled") /\ db' = Intent(a) /\ hot' = hot
    BY <1>1, <1>3, <2>1, <2>2, <2>3, Steps1 DEF MakingOf
  <2>4. CASE Leave(a)
    <3>1. db' \in Intents \cup {NoFile} => hot' = hot
      BY <1>1, <1>9, <2>1 DEF InsertMetadata, Transact
    <3>2. QED
      BY <1>5, <2>1, <2>4, <3>1 DEF MakingOf
  <2>5. QED
    BY <1>9, <2>3, <2>4 DEF InsertMetadata, Transact
<1>10. CASE Leave(a) /\ UNCHANGED <<db, hot>>
  BY <1>4, <1>5, <1>10
<1>11. CASE Begins(a)
  BY <1>4, <1>11, TypeParts DEF Begins, Enter, Reconcile, Start, journal, LeaseInv
<1>12. CASE (BeginIntent(a) \/ LeaseReconciliation(a) \/ WriteDocuments(a) \/ WriteMarker(a)
             \/ ClaimTombstone(a) \/ RecordIntent(a) \/ CompleteIntent(a) \/ SetMarkerCurrent(a))
             /\ ~ Leave(a)
  <2>1. /\ UNCHANGED <<db, hot>>
        /\ \E pc \in {"beginning", "reconciling", "documented", "pending", "tombstoned", "recorded",
                      "completing", "made"} :
             Proceed(a, pc) \/ Lease(a, pc) \/ Release(a, pc)
    BY <1>12 DEF BeginIntent, LeaseReconciliation, WriteDocuments, WriteMarker, ClaimTombstone,
       RecordIntent, CompleteIntent, SetMarkerCurrent, journal
  <2>2. {"beginning", "reconciling", "documented", "pending", "tombstoned", "recorded", "completing",
         "made"} \subseteq PCs
    BY DEF PCs, Steps, Provisioning
  <2>3. actor'[a].pc \notin Making \ {"completing"}
    BY <2>1, <2>2, Steps1
  <2>4. QED
    BY <1>4, <2>1, <2>3
<1>13. QED
  BY <1>6, <1>7, <1>8, <1>9, <1>10, <1>11, <1>12 DEF Acquire, Advance, BeginIntent, LeaseReconciliation,
     WriteDocuments, WriteMarker, ClaimTombstone, RecordIntent, CompleteIntent, SetMarkerCurrent,
     AssertIntent, Die, Refuse, Settle, journal

LEMMA MakingInductive == TypeOK /\ MakingInv /\ [Next]_vars => MakingInv'
<1>1. ASSUME MakingInv, UNCHANGED <<journal, actor>> PROVE MakingInv'
  BY <1>1 DEF MakingInv, journal, Intent
<1>2. ASSUME TypeOK, MakingInv, NEW a \in Actors, Begins(a) \/ Acquire(a) \/ Advance(a) \/ Die(a)
      PROVE  MakingInv'
  <2>1. MakingOf(a)' /\ (db' \in Intents \cup {NoFile} => ~ hot')
    BY <1>2, MakingStep
  <2>2. Alone(a)
    BY <1>2, TypeParts, ActorLeases
  <2>3. ASSUME NEW b \in Actors \ {a} PROVE MakingOf(b)'
    <3>1. actor'[b].pc = actor[b].pc /\ Intent(b)' = Intent(b)
      BY <2>2, OthersKeep
    <3>2. CASE actor[b].pc \in Making \ {"completing"}
      <4>1. idLock = b
        BY <1>2, <3>2, TypeParts DEF LeaseInv, UnderIdentity
      <4>2. UNCHANGED journal
        BY <1>2, <4>1, JournalWriters
      <4>3. QED
        BY <1>2, <3>1, <4>2 DEF MakingInv, MakingOf, journal
    <3>3. CASE actor[b].pc \notin Making \ {"completing"}
      BY <3>1, <3>3 DEF MakingOf, Making
    <3>4. QED
      BY <3>2, <3>3
  <2>4. QED
    BY <2>1, <2>3 DEF MakingInv, MakingOf
<1>3. ASSUME TypeOK, MakingInv, Remove PROVE MakingInv'
  <2>1. \A b \in Actors : actor[b].pc \notin Making
    BY <1>3, TypeParts, GenesisAssumption DEF Remove, LeaseInv, UnderIdentity
  <2>2. actor' = actor
    BY <1>3, RemoveFacts
  <2>3. \A b \in Actors : MakingOf(b)'
    BY <2>1, <2>2 DEF MakingOf, Making
  <2>4. db' \in Intents \cup {NoFile} => ~ hot'
    BY <1>3 DEF Remove, MakingInv
  <2>5. QED
    BY <2>3, <2>4 DEF MakingInv, MakingOf
<1>4. QED
  BY <1>1, <1>2, <1>3 DEF Next, vars, journal

-----------------------------------------------------------------------------
\* What backs an intent is never lost.
LEMMA BackedStays ==
  ASSUME TypeOK, SpendInv, SpendInv', NEW a \in Actors,
         Begins(a) \/ Acquire(a) \/ Advance(a) \/ Die(a),
         NEW i \in Intents, Backed(i)
  PROVE  Backed(i)'
<1>1. tombstones \subseteq tombstones'
  BY QuietMoves DEF Advance, ClaimTombstone, CreateDatabase
<1>2. OperationOf[i] \in Operations
  BY GenesisAssumption
<1>3. made'[OperationOf[i]] # 0
  <2>1. CASE made' = made
    BY <2>1 DEF Backed
  <2>2. CASE CreateDatabase(a)
    <3>1. Operation(a) \in Operations /\ made \in [Operations -> Nat]
      BY <2>2, Busy DEF CreateDatabase, TypeOK
    <3>2. QED
      BY <1>2, <2>2, <3>1 DEF CreateDatabase, Backed
  <2>3. QED
    BY <2>1, <2>2, QuietMoves DEF Advance, ClaimTombstone
<1>4. made'[OperationOf[i]] = 1
  BY <1>2, <1>3 DEF SpendInv
<1>5. QED
  BY <1>1, <1>4, ArtifactsKept DEF Backed, Kept

\* A run that inserts its metadata has everything behind it.
LEMMA MakerBacked ==
  ASSUME TypeOK, SpendInv, RecordInv, NEW a \in Actors, actor[a].pc \in {"anchored", "filled"}
  PROVE  Intent(a) \in Intents /\ Backed(Intent(a))
<1>1. Intent(a) \in Intents /\ Root(a) \in Roots
  BY Busy DEF Provisioning, Making
<1>2. Operation(a) \in tombstones /\ made[Operation(a)] = 1
  BY DEF SpendInv, AfterMaking
<1>3. documents[Root(a)] = Intent(a) /\ intentFile[Root(a)] = Intent(a)
  BY DEF RecordInv, Provisioning, Making
<1>4. QED
  BY <1>1, <1>2, <1>3 DEF Backed, Operation

\* What a step can add: a finished database, a current marker.
LEMMA NewFinished ==
  ASSUME TypeOK, SpendInv, RecordInv, MakingInv, FinishedInv, NEW a \in Actors,
         Begins(a) \/ Acquire(a) \/ Advance(a) \/ Die(a), NEW i \in Intents
  PROVE  /\ db' = i => db = i \/ Backed(i)
         /\ marker' = Mark("current", i) =>
              \/ marker = marker' /\ (Established(i) => UNCHANGED <<db, anchor, hot>>)
              \/ Backed(i) /\ Established(i)'
<1>1. i # "empty" /\ i # "schema" /\ i # NoFile
  BY GenesisAssumption
<1>2. CASE UNCHANGED journal
  BY <1>2 DEF journal
<1>3. CASE WriteMarker(a)
  BY <1>3, MarksDiffer DEF WriteMarker
<1>4. CASE CreateDatabase(a)
  BY <1>1, <1>4, MarksDiffer DEF CreateDatabase, Completable
<1>5. CASE CreateTables(a)
  <2>1. marker = Mark("pending", Intent(a)) /\ marker' = marker
    BY <1>5 DEF CreateTables, Transact, MakingInv, Making
  <2>2. QED
    BY <1>1, <1>5, <2>1, MarksDiffer DEF CreateTables, Transact
<1>6. CASE WriteAnchor(a)
  <2>1. marker = Mark("pending", Intent(a)) /\ UNCHANGED <<marker, db>>
    BY <1>6 DEF WriteAnchor, MakingInv, Making
  <2>2. QED
    BY <2>1, MarksDiffer
<1>7. CASE InsertMetadata(a)
  <2>1. marker = Mark("pending", Intent(a)) /\ marker' = marker
    BY <1>7 DEF InsertMetadata, Transact, MakingInv, Making
  <2>2. db' = i => db = i \/ i = Intent(a)
    BY <1>7 DEF InsertMetadata, Transact
  <2>3. Backed(Intent(a))
    BY <1>7, MakerBacked DEF InsertMetadata, Transact
  <2>4. QED
    BY <2>1, <2>2, <2>3, MarksDiffer
<1>8. CASE SetMarkerCurrent(a)
  <2>1. db = Intent(a) /\ anchor = Intent(a) /\ ~ hot /\ UNCHANGED <<db, anchor, hot>>
    BY <1>8 DEF SetMarkerCurrent, MakingInv, Making
  <2>2. Backed(Intent(a))
    BY <1>8, MakerBacked DEF SetMarkerCurrent
  <2>3. marker' = Mark("current", i) => i = Intent(a)
    BY <1>8, MarksDiffer DEF SetMarkerCurrent
  <2>4. QED
    BY <2>1, <2>2, <2>3 DEF Established
<1>9. CASE Settle(a)
  <2>1. UNCHANGED <<db, anchor, hot>>
    BY <1>9 DEF Settle
  <2>2. ASSUME marker' = Mark("current", i)
        PROVE  i = Intent(a) /\ db = i /\ anchor = i /\ ~ hot
    <3>1. actor[a].outcome # "provisioning_abandoned" /\ i = Intent(a)
      BY <1>9, <2>2, MarksDiffer DEF Settle, Settlement
    <3>2. actor[a].outcome = "provisioning_completed"
      BY <1>9, <3>1, TypeParts DEF Settle, LeaseInv, Receipts
    <3>3. QED
      BY <1>9, <3>1, <3>2 DEF Settle, Reconcilable
  <2>3. QED
    BY <2>1, <2>2 DEF FinishedInv, Established
<1>10. QED
  BY <1>2, <1>3, <1>4, <1>5, <1>6, <1>7, <1>8, <1>9 DEF Begins, Enter, Reconcile, Acquire, BeginIntent,
     CompleteIntent, AssertIntent, LeaseReconciliation, Advance, Die, Refuse, WriteDocuments,
     ClaimTombstone, RecordIntent, journal

LEMMA FinishedInductive ==
  TypeOK /\ SpendInv /\ SpendInv' /\ RecordInv /\ MakingInv /\ FinishedInv /\ [Next]_vars => FinishedInv'
<1>1. ASSUME FinishedInv, UNCHANGED vars PROVE FinishedInv'
  BY <1>1 DEF FinishedInv, Backed, Established, vars
<1>2. ASSUME TypeOK, SpendInv, SpendInv', RecordInv, MakingInv, FinishedInv, NEW a \in Actors,
             Begins(a) \/ Acquire(a) \/ Advance(a) \/ Die(a)
      PROVE  FinishedInv'
  <2>1. removals' = removals
    BY <1>2 DEF Begins, Enter, Reconcile, Acquire, BeginIntent, CompleteIntent, AssertIntent,
       LeaseReconciliation, Advance, Die, Refuse, WriteDocuments, WriteMarker, ClaimTombstone,
       RecordIntent, CreateDatabase, CreateTables, WriteAnchor, InsertMetadata, Transact,
       SetMarkerCurrent, Settle
  <2>2. SUFFICES ASSUME NEW i \in Intents
                 PROVE  /\ db' = i \/ marker' = Mark("current", i) => Backed(i)'
                        /\ removals' = 0 /\ marker' = Mark("current", i) => Established(i)'
    BY DEF FinishedInv
  <2>3. db' = i \/ marker' = Mark("current", i) => Backed(i)
    BY <1>2, NewFinished DEF FinishedInv
  <2>4. db' = i \/ marker' = Mark("current", i) => Backed(i)'
    BY <1>2, <2>3, BackedStays
  <2>5. removals' = 0 /\ marker' = Mark("current", i) => Established(i)'
    BY <1>2, <2>1, NewFinished DEF FinishedInv, Established
  <2>6. QED
    BY <2>4, <2>5
<1>3. ASSUME TypeOK, FinishedInv, Remove PROVE FinishedInv'
  <2>1. removals \in Nat /\ removals' = removals + 1
    BY <1>3, GenesisAssumption DEF Remove, TypeOK
  <2>2. \A i \in Intents : db' = i \/ marker' = Mark("current", i) => db = i \/ marker = Mark("current", i)
    BY <1>3, GenesisAssumption, MarksDiffer DEF Remove
  <2>3. QED
    BY <1>3, <2>1, <2>2, RemoveFacts DEF FinishedInv, Backed, artifacts
<1>4. QED
  BY <1>1, <1>2, <1>3 DEF Next

LEMMA GenesisInit == Init => GenesisInv
<1>1. ASSUME Init PROVE \A a \in Actors : actor[a].pc = "idle"
  BY <1>1, IdleFacts DEF Init
<1>2. "idle" \notin BeforeMaking \cup AfterMaking \cup Making \cup {"recorded", "made"}
  BY DEF BeforeMaking, AfterMaking, Making
<1>3. ASSUME Init PROVE SpendInv
  <2>1. \A o \in Operations : made[o] = 0
    BY <1>3 DEF Init
  <2>2. QED
    BY <1>1, <1>2, <1>3, <2>1 DEF SpendInv
<1>4. ASSUME Init PROVE RecordInv
  BY <1>1, <1>2, <1>4, IdleFacts DEF RecordInv
<1>5. ASSUME Init PROVE MakingInv
  BY <1>1, <1>2, <1>5 DEF Init, MakingInv
<1>6. ASSUME Init PROVE FinishedInv
  BY <1>6, GenesisAssumption, MarksDiffer DEF Init, FinishedInv
<1>7. QED
  BY <1>3, <1>4, <1>5, <1>6, TypeInit DEF GenesisInv

LEMMA GenesisInductive == GenesisInv /\ [Next]_vars => GenesisInv'
BY TypeInductive, SpendInductive, RecordInductive, MakingInductive, FinishedInductive DEF GenesisInv

LEMMA GenesisCorrect == Spec => []GenesisInv
BY GenesisInit, GenesisInductive, PTL DEF Spec

\* A journal that is open for use went through its whole genesis: the
\* invariant follows the intent from the run that writes its files to the
\* database, and from there to the marker, whoever sets it.
THEOREM CurrentComplete == Spec => []CurrentIsComplete
<1>1. GenesisInv => CurrentIsComplete
  BY DEF GenesisInv, FinishedInv, Backed, CurrentIsComplete
<1>2. QED
  BY <1>1, GenesisCorrect, PTL

\* A settled genesis never moves again.  Only a run that finds the marker
\* pending, or missing, writes the marker or makes a database.
THEOREM SettledForGood == Spec => SettledStaysSettled
<1>1. ASSUME GenesisInv, [Next]_vars, marker.state \notin {NoFile, "pending"}, removals' = 0
      PROVE  marker' = marker /\ made' = made
  <2>1. \A i : marker # Mark("pending", i) /\ marker # NoMark
    BY <1>1 DEF Mark, NoMark
  <2>2. ASSUME NEW a \in Actors, Begins(a) \/ Acquire(a) \/ Advance(a) \/ Die(a)
        PROVE  marker' = marker /\ made' = made
    <3>1. actor[a].pc # "filled"
      BY <1>1, <2>1 DEF GenesisInv, MakingInv, Making
    <3>2. ~ WriteMarker(a) /\ ~ CreateDatabase(a) /\ ~ SetMarkerCurrent(a) /\ ~ Settle(a)
      BY <2>1, <3>1 DEF WriteMarker, Absent, CreateDatabase, Completable, SetMarkerCurrent, Settle,
         Reconcilable
    <3>3. QED
      BY <2>2, <3>2 DEF Begins, Enter, Reconcile, Acquire, BeginIntent, CompleteIntent, AssertIntent,
         LeaseReconciliation, Advance, Die, Refuse, WriteDocuments, ClaimTombstone, RecordIntent,
         CreateTables, WriteAnchor, InsertMetadata, Transact, journal
  <2>3. ~ Remove
    <3>1. removals \in Nat
      BY <1>1, GenesisAssumption DEF GenesisInv, TypeOK
    <3>2. QED
      BY <1>1, <3>1 DEF Remove
  <2>4. QED
    BY <1>1, <2>2, <2>3 DEF Next, vars
<1>2. QED
  BY <1>1, GenesisCorrect, PTL DEF Spec, SettledStaysSettled

-----------------------------------------------------------------------------
\* A step of the genesis spends or attempts one token, or none.
LEMMA TokenStep ==
  ASSUME GenesisInv, GenesisInv', [Next]_vars
  PROVE  [Token!Next]_([o \in Operations |-> Phase(o)])
<1> DEFINE phase == [o \in Operations |-> Phase(o)]
<1>1. ASSUME UNCHANGED <<tombstones, made>> PROVE UNCHANGED phase
  BY <1>1 DEF Phase
<1>2. ASSUME NEW a \in Actors, ClaimTombstone(a) PROVE Token!Spend(Operation(a)) /\ Operation(a) \in Operations
  <2>1. /\ Operation(a) \in Operations /\ Operation(a) \notin tombstones
        /\ tombstones' = tombstones \cup {Operation(a)} /\ made' = made
    BY <1>2, Busy DEF ClaimTombstone, GenesisInv
  <2>2. made[Operation(a)] = 0
    BY <2>1 DEF GenesisInv, SpendInv
  <2>3. \A o \in Operations : Phase(o)' = IF o = Operation(a) THEN "spent" ELSE Phase(o)
    BY <2>1, <2>2 DEF Phase
  <2>4. Phase(Operation(a)) = "fresh"
    BY <2>1, <2>2 DEF Phase
  <2>5. phase' = [phase EXCEPT ![Operation(a)] = "spent"]
    BY <2>3
  <2>6. QED
    BY <2>1, <2>4, <2>5 DEF Token!Spend
<1>3. ASSUME NEW a \in Actors, CreateDatabase(a) PROVE Token!Attempt(Operation(a)) /\ Operation(a) \in Operations
  <2>1. /\ Operation(a) \in Operations /\ actor[a].pc \in BeforeMaking
        /\ made' = [made EXCEPT ![Operation(a)] = @ + 1] /\ tombstones' = tombstones
    BY <1>3, Busy DEF CreateDatabase, GenesisInv, BeforeMaking
  <2>2. made[Operation(a)] = 0 /\ Operation(a) \in tombstones /\ made \in [Operations -> Nat]
    BY <2>1 DEF GenesisInv, SpendInv, TypeOK
  <2>3. \A o \in Operations : Phase(o)' = IF o = Operation(a) THEN "attempted" ELSE Phase(o)
    BY <2>1, <2>2 DEF Phase
  <2>4. Phase(Operation(a)) = "spent"
    BY <2>1, <2>2 DEF Phase
  <2>5. phase' = [phase EXCEPT ![Operation(a)] = "attempted"]
    BY <2>3
  <2>6. QED
    BY <2>1, <2>4, <2>5 DEF Token!Attempt
<1>4. ASSUME NEW a \in Actors, Begins(a) \/ Acquire(a) \/ Advance(a) \/ Die(a)
      PROVE  Token!Next \/ UNCHANGED phase
  BY <1>1, <1>2, <1>3, <1>4, QuietMoves DEF Advance, Token!Next, GenesisInv
<1>5. ASSUME Remove \/ UNCHANGED vars PROVE UNCHANGED phase
  BY <1>1, <1>5, RemoveFacts DEF vars, GenesisInv
<1>6. QED
  BY <1>4, <1>5 DEF Next

\* The genesis of an operation is a one-shot token, whatever files are lost
\* and whatever the tombstone's caller is told.
THEOREM GenesisIsOneShot == Spec => ImplementsOneShot
<1>1. Init => Token!Init
  <2>1. ASSUME Init PROVE \A o \in Operations : Phase(o) = "fresh"
    BY <2>1 DEF Init, Phase
  <2>2. QED
    BY <2>1 DEF Token!Init
<1>2. GenesisInv /\ GenesisInv' /\ [Next]_vars => [Token!Next]_([o \in Operations |-> Phase(o)])
  BY TokenStep
<1>3. QED
  BY <1>1, <1>2, GenesisCorrect, PTL DEF Spec, ImplementsOneShot, Token!Spec

-----------------------------------------------------------------------------
(* ObservedAuthorization: what an actor holds and how it steps *)
ObservedPCs == {"idle"} \cup Obs!Steps
OpPCs == Obs!UnderOperation \cup {"recovering", "evidence"}
RootPCs == Obs!Provisioning \cup Obs!Running

\* What TypeOK says of one actor and its leases.
Held(a) ==
  /\ oActor[a].pc # "idle" => Obs!Receipt(a) \in GenesisReceipts
  /\ oActor[a].pc \in RootPCs => Obs!Root(a) \in Roots
  /\ \A r \in Roots : oRootLock[r] = a <=> oActor[a].pc \in RootPCs /\ Obs!Root(a) = r
  /\ \A j \in Journals :
       /\ oIdLock[j] = a <=> oActor[a].pc \in Obs!UnderIdentity /\ Obs!Journal(a) = j
       /\ oOpLock[j] = a <=> oActor[a].pc \in OpPCs /\ Obs!Journal(a) = j

Locks ==
  /\ oRootLock \in [Roots -> Actors \cup {Obs!Nobody}]
  /\ oIdLock \in [Journals -> Actors \cup {Obs!Nobody}]
  /\ oOpLock \in [Journals -> Actors \cup {Obs!Nobody}]

HoldInv == Locks /\ oActor \in [Actors -> Obs!Work] /\ \A a \in Actors : Held(a)

ObservedTypes ==
  /\ oStages \in {"unfinished", "committed", "lost"}
  /\ oGenesisSpent \in BOOLEAN /\ oSpent \in BOOLEAN
  /\ oMarker \in [Journals -> Obs!Marks]
  /\ oStore \in [Journals -> Obs!Stores]
  /\ oRow \in [Journals -> Obs!RowStates]
  /\ oGenesisFile \in [Roots -> GenesisReceipts \cup {Obs!NoReceipt, Obs!Torn}]
  /\ oCalls \in Nat
  /\ oPerformed \in BOOLEAN

LEMMA ObservedTypeParts == Obs!TypeOK <=> HoldInv /\ ObservedTypes
BY DEF Obs!TypeOK, HoldInv, Held, Locks, ObservedTypes, OpPCs, RootPCs

LEMMA ObservedTypePartsNext == ASSUME HoldInv', ObservedTypes' PROVE Obs!TypeOK'
BY DEF Obs!TypeOK, HoldInv, Held, Locks, ObservedTypes, OpPCs, RootPCs, Obs!Receipt, Obs!Root,
       Obs!Journal

-----------------------------------------------------------------------------
(* One actor's step *)

OneMoves(a) == \A b \in Actors \ {a} : oActor'[b] = oActor[b]

\* The actor goes on with what it works on.
Goes(a, pc) ==
  /\ oActor' \in [Actors -> Obs!Work] /\ OneMoves(a)
  /\ oActor'[a].pc = pc /\ oActor'[a].root = oActor[a].root
  /\ oActor'[a].receipt = oActor[a].receipt /\ oActor'[a].outcome = oActor[a].outcome
  /\ oActor'[a].called = oActor[a].called

\* The actor is done.
Ends(a, result) ==
  /\ oActor' \in [Actors -> Obs!Work] /\ OneMoves(a)
  /\ oActor'[a].pc = "idle" /\ oActor'[a].result = result /\ oActor'[a].called = oActor[a].called

\* The actor takes up a task.
Starts(a, pc, r, g, outcome) ==
  /\ oActor' \in [Actors -> Obs!Work] /\ OneMoves(a)
  /\ oActor'[a].pc = pc /\ oActor'[a].root = r /\ oActor'[a].receipt = g
  /\ oActor'[a].outcome = outcome /\ oActor'[a].called = FALSE /\ oActor'[a].result = "none"

LEMMA GoesFacts ==
  ASSUME HoldInv, NEW a \in Actors, NEW pc \in ObservedPCs, oActor' = [oActor EXCEPT ![a].pc = pc]
  PROVE  Goes(a, pc)
<1>1. oActor[a] \in Obs!Work
  BY DEF HoldInv
<1>2. oActor' = [oActor EXCEPT ![a] = [oActor[a] EXCEPT !.pc = pc]]
  BY DEF HoldInv
<1>3. [oActor[a] EXCEPT !.pc = pc] \in Obs!Work
  BY <1>1 DEF Obs!Work, ObservedPCs
<1> QED
  BY <1>1, <1>2, <1>3 DEF HoldInv, Goes, OneMoves, Obs!Work

LEMMA EndsFacts ==
  ASSUME HoldInv, NEW a \in Actors, NEW result \in Obs!Results, Obs!Finish(a, result)
  PROVE  Ends(a, result)
<1>1. oActor[a] \in Obs!Work
  BY DEF HoldInv
<1> DEFINE done == [Obs!Idle EXCEPT !.result = result, !.called = oActor[a].called]
<1>2. /\ done \in Obs!Work /\ done.pc = "idle" /\ done.result = result
      /\ done.called = oActor[a].called
  BY <1>1 DEF Obs!Idle, Obs!Task, Obs!Work
<1>3. oActor' = [oActor EXCEPT ![a] = done]
  BY DEF Obs!Finish
<1> HIDE DEF done
<1> QED
  BY <1>2, <1>3 DEF HoldInv, Ends, OneMoves

LEMMA StartsFacts ==
  ASSUME HoldInv, NEW a \in Actors, NEW pc \in ObservedPCs, NEW r \in Roots \cup {Obs!Nobody},
         NEW g \in GenesisReceipts, NEW outcome \in Obs!Outcomes \cup {"none"},
         oActor' = [oActor EXCEPT ![a] = Obs!Task(pc, r, g, outcome)]
  PROVE  Starts(a, pc, r, g, outcome)
<1>1. Obs!Task(pc, r, g, outcome) \in Obs!Work
  BY DEF Obs!Task, Obs!Work, ObservedPCs, Obs!Results
<1>2. /\ Obs!Task(pc, r, g, outcome).pc = pc /\ Obs!Task(pc, r, g, outcome).root = r
      /\ Obs!Task(pc, r, g, outcome).receipt = g /\ Obs!Task(pc, r, g, outcome).outcome = outcome
      /\ Obs!Task(pc, r, g, outcome).called = FALSE /\ Obs!Task(pc, r, g, outcome).result = "none"
  BY DEF Obs!Task
<1> QED
  BY <1>1, <1>2 DEF HoldInv, Starts, OneMoves

\* The leases, seen from the other actors.
OthersHold(a) ==
  \A b \in Actors \ {a} :
    /\ \A r \in Roots : oRootLock'[r] = b <=> oRootLock[r] = b
    /\ \A j \in Journals : /\ oIdLock'[j] = b <=> oIdLock[j] = b
                           /\ oOpLock'[j] = b <=> oOpLock[j] = b

LEMMA HoldFrom ==
  ASSUME HoldInv, NEW a \in Actors, OneMoves(a), OthersHold(a), oActor' \in [Actors -> Obs!Work],
         Locks',
         Held(a)'
  PROVE  HoldInv'
<1>1. ASSUME NEW b \in Actors \ {a}
      PROVE  Held(b)'
  <2>1. Held(b) /\ oActor'[b] = oActor[b]
    BY <1>1 DEF HoldInv, OneMoves
  <2> QED
    BY <1>1, <2>1 DEF Held, OthersHold, Obs!Receipt, Obs!Root, Obs!Journal
<1> QED
  BY <1>1 DEF HoldInv

\* The steps whose names belong to the same leases.
SameLeases(from, to) ==
  /\ from \in RootPCs <=> to \in RootPCs
  /\ from \in Obs!UnderIdentity <=> to \in Obs!UnderIdentity
  /\ from \in OpPCs <=> to \in OpPCs

LEMMA ProceedHolds ==
  ASSUME HoldInv, NEW a \in Actors, oActor[a].pc # "idle", NEW pc \in ObservedPCs, Goes(a, pc),
         UNCHANGED Obs!leases, SameLeases(oActor[a].pc, pc)
  PROVE  HoldInv'
<1>1. Held(a)'
  BY DEF HoldInv, Held, Goes, SameLeases, Obs!leases, Obs!Receipt, Obs!Root, Obs!Journal
<1> QED
  BY <1>1, HoldFrom DEF HoldInv, Locks, Goes, Obs!leases, OthersHold

LEMMA TakeHolds ==
  ASSUME Obs!ObservedAssumption, HoldInv, NEW a \in Actors, oActor[a].pc # "idle",
         NEW pc \in Obs!UnderIdentity, Obs!TakeIdentity(a, pc),
         oActor[a].pc \notin Obs!UnderIdentity, oActor[a].pc \in RootPCs <=> pc \in RootPCs,
         oActor[a].pc \notin OpPCs
  PROVE  HoldInv' /\ Goes(a, pc)
<1>1. Goes(a, pc)
  BY GoesFacts
  DEF Obs!TakeIdentity, ObservedPCs, Obs!Steps, Obs!UnderIdentity, Obs!Provisioning, Obs!Resolving
<1>2. pc \notin OpPCs /\ UNCHANGED <<oRootLock, oOpLock>> /\ Obs!Receipt(a) \in GenesisReceipts
      /\ Obs!Journal(a) \in Journals /\ oIdLock[Obs!Journal(a)] = Obs!Nobody
      /\ oIdLock' = [oIdLock EXCEPT ![Obs!Journal(a)] = a]
  BY DEF Obs!TakeIdentity, OpPCs, Obs!UnderOperation, Obs!UnderIdentity, HoldInv, Held,
         Obs!Journal, Obs!ObservedAssumption
<1>3. Locks' /\ OthersHold(a)
  BY <1>2, Obs!ObservedAssumption DEF Locks, HoldInv, OthersHold, Obs!ObservedAssumption
<1>4. Held(a)'
  BY <1>1, <1>2 DEF HoldInv, Held, Locks, Goes, Obs!Receipt, Obs!Root, Obs!Journal
<1> QED
  BY <1>1, <1>3, <1>4, HoldFrom DEF Goes

LEMMA GiveHolds ==
  ASSUME Obs!ObservedAssumption, HoldInv, NEW a \in Actors, oActor[a].pc \in Obs!UnderIdentity,
         NEW pc \in ObservedPCs, Obs!GiveIdentity(a, pc), pc \notin Obs!UnderIdentity,
         oActor[a].pc \in RootPCs <=> pc \in RootPCs, pc \notin OpPCs
  PROVE  HoldInv' /\ Goes(a, pc)
<1>1. Goes(a, pc)
  BY GoesFacts DEF Obs!GiveIdentity
<1>2. /\ oActor[a].pc \notin OpPCs /\ oActor[a].pc # "idle" /\ UNCHANGED <<oRootLock, oOpLock>>
      /\ Obs!Receipt(a) \in GenesisReceipts
      /\ Obs!Journal(a) \in Journals /\ oIdLock[Obs!Journal(a)] = a
      /\ oIdLock' = [oIdLock EXCEPT ![Obs!Journal(a)] = Obs!Nobody]
  BY DEF Obs!GiveIdentity, OpPCs, Obs!UnderOperation, Obs!UnderIdentity, HoldInv, Held,
         Obs!Journal, Obs!ObservedAssumption
<1>3. Locks' /\ OthersHold(a)
  BY <1>2 DEF Locks, HoldInv, OthersHold, Obs!ObservedAssumption
<1>4. Held(a)'
  BY <1>1, <1>2
  DEF HoldInv, Held, Locks, Goes, Obs!Receipt, Obs!Root, Obs!Journal, Obs!ObservedAssumption
<1> QED
  BY <1>1, <1>3, <1>4, HoldFrom DEF Goes

LEMMA FinishHolds ==
  ASSUME Obs!ObservedAssumption, HoldInv, NEW a \in Actors, NEW result \in Obs!Results,
         Obs!Finish(a, result)
  PROVE  HoldInv' /\ Ends(a, result)
<1>1. Ends(a, result)
  BY EndsFacts
<1>2. /\ \A r \in Roots : oRootLock'[r] = IF oRootLock[r] = a THEN Obs!Nobody ELSE oRootLock[r]
      /\ \A j \in Journals : /\ oIdLock'[j] = IF oIdLock[j] = a THEN Obs!Nobody ELSE oIdLock[j]
                             /\ oOpLock'[j] = IF oOpLock[j] = a THEN Obs!Nobody ELSE oOpLock[j]
  BY DEF Obs!Finish, Obs!Freed, HoldInv, Locks
<1>3. Locks'
  BY DEF Obs!Finish, Obs!Freed, HoldInv, Locks
<1>4. OthersHold(a)
  BY <1>2 DEF OthersHold, Obs!ObservedAssumption
<1>5. Held(a)'
  <2>1. "idle" \notin RootPCs /\ "idle" \notin Obs!UnderIdentity /\ "idle" \notin OpPCs
    BY DEF RootPCs, OpPCs, Obs!UnderIdentity, Obs!UnderOperation, Obs!Provisioning, Obs!Running
  <2> QED
    BY <1>1, <1>2, <2>1 DEF Held, Ends, Obs!ObservedAssumption
<1> QED
  BY <1>1, <1>3, <1>4, <1>5, HoldFrom DEF Ends

LEMMA ProceedStep ==
  ASSUME HoldInv, NEW a \in Actors, NEW pc \in ObservedPCs, Obs!Proceed(a, pc),
         oActor[a].pc # "idle",
         SameLeases(oActor[a].pc, pc)
  PROVE  HoldInv' /\ Goes(a, pc)
BY GoesFacts, ProceedHolds DEF Obs!Proceed

LEMMA RootHolds ==
  ASSUME Obs!ObservedAssumption, HoldInv, NEW a \in Actors, oActor[a].pc = "idle",
         NEW r \in Roots, NEW g \in GenesisReceipts, NEW pc \in {"provision", "run"},
         oRootLock[r] = Obs!Nobody, oRootLock' = [oRootLock EXCEPT ![r] = a],
         oActor' = [oActor EXCEPT ![a] = Obs!Task(pc, r, g, "none")], UNCHANGED <<oIdLock,
         oOpLock>>
  PROVE  HoldInv' /\ Starts(a, pc, r, g, "none")
<1>1. Starts(a, pc, r, g, "none")
  BY StartsFacts DEF ObservedPCs, Obs!Steps, Obs!Provisioning, Obs!Running
<1>2. /\ pc \in RootPCs /\ pc \notin Obs!UnderIdentity /\ pc \notin OpPCs
      /\ "idle" \notin RootPCs /\ "idle" \notin Obs!UnderIdentity /\ "idle" \notin OpPCs
  BY DEF RootPCs, OpPCs, Obs!UnderIdentity, Obs!UnderOperation, Obs!Provisioning, Obs!Running
<1>3. Locks' /\ OthersHold(a)
  BY Obs!ObservedAssumption DEF Locks, HoldInv, OthersHold, Obs!ObservedAssumption
<1>4. Held(a)'
  BY <1>1, <1>2 DEF HoldInv, Held, Locks, Starts, Obs!Receipt, Obs!Root, Obs!Journal
<1> QED
  BY <1>1, <1>3, <1>4, HoldFrom DEF Starts

LEMMA WaitHolds ==
  ASSUME Obs!ObservedAssumption, HoldInv, NEW a \in Actors, oActor[a].pc = "idle",
         NEW g \in GenesisReceipts, NEW outcome \in Obs!Outcomes,
         oActor' = [oActor EXCEPT ![a] = Obs!Task("waiting", Obs!Nobody, g, outcome)],
         UNCHANGED Obs!leases
  PROVE  HoldInv' /\ Starts(a, "waiting", Obs!Nobody, g, outcome)
<1>1. Starts(a, "waiting", Obs!Nobody, g, outcome)
  BY StartsFacts DEF ObservedPCs, Obs!Steps, Obs!Resolving
<1>2. /\ "waiting" \notin RootPCs /\ "waiting" \notin Obs!UnderIdentity /\ "waiting" \notin OpPCs
      /\ "idle" \notin RootPCs /\ "idle" \notin Obs!UnderIdentity /\ "idle" \notin OpPCs
  BY DEF RootPCs, OpPCs, Obs!UnderIdentity, Obs!UnderOperation, Obs!Provisioning, Obs!Running
<1>3. Locks' /\ OthersHold(a)
  BY DEF Locks, HoldInv, OthersHold, Obs!leases
<1>4. Held(a)'
  BY <1>1, <1>2 DEF HoldInv, Held, Locks, Starts, Obs!Receipt, Obs!Root, Obs!Journal, Obs!leases
<1> QED
  BY <1>1, <1>3, <1>4, HoldFrom DEF Starts

LEMMA ResolutionHolds ==
  ASSUME Obs!ObservedAssumption, HoldInv, NEW a \in Actors, NEW g \in GenesisReceipts,
         NEW pc \in {"recovering", "evidence"}, Obs!LeaseResolution(a, g, pc)
  PROVE  HoldInv' /\ Starts(a, pc, Obs!Nobody, g, "none")
<1>0. /\ oActor[a].pc = "idle" /\ oOpLock[JournalOf[g]] = Obs!Nobody /\ JournalOf[g] \in Journals
      /\ oOpLock' = [oOpLock EXCEPT ![JournalOf[g]] = a] /\ UNCHANGED <<oRootLock, oIdLock>>
  BY DEF Obs!LeaseResolution, Obs!ObservedAssumption
<1>1. Starts(a, pc, Obs!Nobody, g, "none")
  BY StartsFacts DEF Obs!LeaseResolution, ObservedPCs, Obs!Steps, Obs!Resolving
<1>2. /\ pc \notin RootPCs /\ pc \notin Obs!UnderIdentity /\ pc \in OpPCs
      /\ "idle" \notin RootPCs /\ "idle" \notin Obs!UnderIdentity /\ "idle" \notin OpPCs
  BY DEF RootPCs, OpPCs, Obs!UnderIdentity, Obs!UnderOperation, Obs!Provisioning, Obs!Running
<1>3. Locks' /\ OthersHold(a)
  BY <1>0 DEF Locks, HoldInv, OthersHold, Obs!ObservedAssumption
<1>4. Held(a)'
  BY <1>0, <1>1, <1>2 DEF HoldInv, Held, Locks, Starts, Obs!Receipt, Obs!Root, Obs!Journal
<1> QED
  BY <1>1, <1>3, <1>4, HoldFrom DEF Starts

LEMMA OperationHolds ==
  ASSUME Obs!ObservedAssumption, HoldInv, NEW a \in Actors, Obs!LeaseOperation(a)
  PROVE  HoldInv' /\ Goes(a, "leased")
<1>1. Goes(a, "leased")
  BY GoesFacts DEF Obs!LeaseOperation, ObservedPCs, Obs!Steps, Obs!Running, Obs!UnderOperation
<1>2. /\ "leased" \in RootPCs /\ "leased" \notin Obs!UnderIdentity /\ "leased" \in OpPCs
      /\ "admitted" \in RootPCs /\ "admitted" \notin Obs!UnderIdentity /\ "admitted" \notin OpPCs
  BY DEF RootPCs, OpPCs, Obs!UnderIdentity, Obs!UnderOperation, Obs!Provisioning, Obs!Running
<1>3. /\ oActor[a].pc = "admitted"
      /\ Obs!Receipt(a) \in GenesisReceipts /\ Obs!Journal(a) \in Journals
      /\ oOpLock[Obs!Journal(a)] = Obs!Nobody /\ oOpLock' = [oOpLock EXCEPT ![Obs!Journal(a)] = a]
      /\ UNCHANGED <<oRootLock, oIdLock>>
  BY DEF Obs!LeaseOperation, HoldInv, Held, Obs!Journal, Obs!ObservedAssumption
<1>4. Locks' /\ OthersHold(a)
  BY <1>3 DEF Locks, HoldInv, OthersHold, Obs!ObservedAssumption
<1>5. Held(a)'
  BY <1>1, <1>2, <1>3 DEF HoldInv, Held, Locks, Goes, Obs!Receipt, Obs!Root, Obs!Journal
<1> QED
  BY <1>1, <1>4, <1>5, HoldFrom DEF Goes

\* Calling the effect also notes, in the actor, that it was called.
Calls(a) ==
  /\ oActor' \in [Actors -> Obs!Work] /\ OneMoves(a)
  /\ oActor'[a].pc = "calling" /\ oActor'[a].root = oActor[a].root
  /\ oActor'[a].receipt = oActor[a].receipt

LEMMA CallHolds ==
  ASSUME HoldInv, NEW a \in Actors, Obs!CallEffect(a)
  PROVE  HoldInv' /\ Calls(a)
<1>1. oActor[a] \in Obs!Work
  BY DEF HoldInv
<1> DEFINE now == [oActor[a] EXCEPT !.pc = "calling", !.called = TRUE]
<1>2. /\ now \in Obs!Work /\ now.pc = "calling" /\ now.root = oActor[a].root
      /\ now.receipt = oActor[a].receipt
  BY <1>1 DEF Obs!Work, Obs!Steps, Obs!Running, Obs!UnderOperation
<1>3. oActor' = [oActor EXCEPT ![a] = now]
  BY DEF Obs!CallEffect, HoldInv
<1> HIDE DEF now
<1>4. Calls(a)
  BY <1>2, <1>3 DEF HoldInv, Calls, OneMoves
<1>5. /\ "begun" \in RootPCs /\ "begun" \notin Obs!UnderIdentity /\ "begun" \in OpPCs
      /\ "calling" \in RootPCs /\ "calling" \notin Obs!UnderIdentity /\ "calling" \in OpPCs
      /\ oActor[a].pc = "begun" /\ UNCHANGED Obs!leases
  BY DEF RootPCs, OpPCs, Obs!UnderIdentity, Obs!UnderOperation, Obs!Provisioning, Obs!Running,
         Obs!CallEffect
<1>6. Held(a)'
  BY <1>4, <1>5 DEF HoldInv, Held, Calls, Obs!leases, Obs!Receipt, Obs!Root, Obs!Journal
<1> QED
  BY <1>4, <1>5, <1>6, HoldFrom DEF HoldInv, Locks, Calls, Obs!leases, OthersHold

-----------------------------------------------------------------------------
(* The step of every action, and the leases after it *)

LEMMA QuietSteps ==
  ASSUME Obs!ObservedAssumption, HoldInv, NEW a \in Actors
  PROVE  /\ Obs!Eligible(a) => HoldInv' /\ Goes(a, "eligible")
         /\ Obs!Admit(a) => HoldInv' /\ Goes(a, "admitted")
         /\ Obs!EffectReturns(a) => HoldInv' /\ (Goes(a, "effected") \/ Goes(a, "marking"))
         /\ Obs!CheckAfterEffect(a) => HoldInv' /\ (Goes(a, "stable") \/ Goes(a, "marking"))
         /\ Obs!BeginGenesis(a) => HoldInv' /\ Goes(a, "beginning")
         /\ Obs!CompleteGenesis(a) => HoldInv' /\ Goes(a, "completing")
         /\ Obs!LeaseReconciliation(a) => HoldInv' /\ Goes(a, "reconciling")
<1> USE DEF ObservedPCs, Obs!Steps, RootPCs, OpPCs, Obs!UnderIdentity, Obs!UnderOperation,
            Obs!Provisioning, Obs!Running, Obs!Resolving, SameLeases
<1>1. Obs!Eligible(a) => HoldInv' /\ Goes(a, "eligible")
  BY ProceedStep DEF Obs!Eligible
<1>2. Obs!Admit(a) => HoldInv' /\ Goes(a, "admitted")
  BY ProceedStep DEF Obs!Admit
<1>3. Obs!EffectReturns(a) => HoldInv' /\ (Goes(a, "effected") \/ Goes(a, "marking"))
  BY ProceedStep DEF Obs!EffectReturns
<1>4. Obs!CheckAfterEffect(a) => HoldInv' /\ (Goes(a, "stable") \/ Goes(a, "marking"))
  BY ProceedStep DEF Obs!CheckAfterEffect
<1>5. Obs!BeginGenesis(a) => HoldInv' /\ Goes(a, "beginning")
  BY TakeHolds DEF Obs!BeginGenesis
<1>6. Obs!CompleteGenesis(a) => HoldInv' /\ Goes(a, "completing")
  BY TakeHolds DEF Obs!CompleteGenesis
<1>7. Obs!LeaseReconciliation(a) => HoldInv' /\ Goes(a, "reconciling")
  BY TakeHolds DEF Obs!LeaseReconciliation
<1> QED
  BY <1>1, <1>2, <1>3, <1>4, <1>5, <1>6, <1>7

LEMMA LeaveStep ==
  ASSUME Obs!ObservedAssumption, HoldInv, NEW a \in Actors, Obs!Leave(a)
  PROVE  HoldInv' /\ Ends(a, "none")
BY FinishHolds DEF Obs!Leave, Obs!Results

\* The steps that write a file, or end without going on.
LEMMA FileSteps ==
  ASSUME Obs!ObservedAssumption, HoldInv, NEW a \in Actors
  PROVE  /\ Obs!WriteMarker(a) => HoldInv' /\ (Goes(a, "pending") \/ Ends(a, "none"))
         /\ Obs!SpendGenesis(a) => HoldInv' /\ (Goes(a, "genesis_spent") \/ Ends(a, "none"))
         /\ Obs!RecordGenesis(a) => HoldInv' /\ (Goes(a, "recorded") \/ Ends(a, "none"))
         /\ Obs!MakeStore(a) =>
              HoldInv' /\ (Goes(a, "making") \/ Goes(a, "filled") \/ Ends(a, "none"))
         /\ Obs!SetCurrent(a) => HoldInv' /\ Ends(a, "none")
         /\ Obs!ApplyReconciliation(a) => HoldInv' /\ Ends(a, "none")
         /\ Obs!ResolveRow(a) => HoldInv' /\ Ends(a, "none")
         /\ Obs!Abort(a) => HoldInv' /\ Ends(a, "none")
         /\ Obs!Crash(a) => HoldInv' /\ Ends(a, "none")
<1>1. Obs!WriteMarker(a) => HoldInv' /\ (Goes(a, "pending") \/ Ends(a, "none"))
  BY LeaveStep, GiveHolds
  DEF Obs!WriteMarker, ObservedPCs, Obs!Steps, RootPCs, OpPCs, Obs!UnderIdentity,
      Obs!UnderOperation, Obs!Provisioning, Obs!Running
<1>2. Obs!SpendGenesis(a) => HoldInv' /\ (Goes(a, "genesis_spent") \/ Ends(a, "none"))
  BY LeaveStep, ProceedStep
  DEF Obs!SpendGenesis, ObservedPCs, Obs!Steps, RootPCs, OpPCs, Obs!UnderIdentity,
      Obs!UnderOperation, Obs!Provisioning, Obs!Running, SameLeases
<1>3. Obs!RecordGenesis(a) => HoldInv' /\ (Goes(a, "recorded") \/ Ends(a, "none"))
  BY LeaveStep, ProceedStep
  DEF Obs!RecordGenesis, ObservedPCs, Obs!Steps, RootPCs, OpPCs, Obs!UnderIdentity,
      Obs!UnderOperation, Obs!Provisioning, Obs!Running, SameLeases
<1>4. Obs!MakeStore(a) => HoldInv' /\ (Goes(a, "making") \/ Goes(a, "filled") \/ Ends(a, "none"))
  BY LeaveStep, ProceedStep
  DEF Obs!MakeStore, ObservedPCs, Obs!Steps, RootPCs, OpPCs, Obs!UnderIdentity,
      Obs!UnderOperation, Obs!Provisioning, Obs!Running, SameLeases
<1>5. /\ Obs!SetCurrent(a) => HoldInv' /\ Ends(a, "none")
      /\ Obs!ApplyReconciliation(a) => HoldInv' /\ Ends(a, "none")
  BY LeaveStep DEF Obs!SetCurrent, Obs!ApplyReconciliation, Obs!RewriteMarker
<1>6. /\ Obs!ResolveRow(a) => HoldInv' /\ Ends(a, "none")
      /\ Obs!Abort(a) => HoldInv' /\ Ends(a, "none")
      /\ Obs!Crash(a) => HoldInv' /\ Ends(a, "none")
  BY LeaveStep DEF Obs!ResolveRow, Obs!Abort, Obs!Crash
<1> QED
  BY <1>1, <1>2, <1>3, <1>4, <1>5, <1>6

\* The steps of a run, up to the report it ends with.
LEMMA RunSteps ==
  ASSUME Obs!ObservedAssumption, HoldInv, NEW a \in Actors
  PROVE  /\ Obs!SpendOperation(a) => HoldInv' /\ (Goes(a, "spent") \/ Ends(a, "refused"))
         /\ Obs!ClaimRow(a) => HoldInv' /\ (Goes(a, "claimed") \/ Ends(a, "refused"))
         /\ Obs!BeginEffect(a) => HoldInv' /\ (Goes(a, "begun") \/ Ends(a, "refused"))
         /\ Obs!CommitEffect(a) =>
              /\ HoldInv'
              /\ \/ Goes(a, "marking")
                 \/ /\ Obs!Transact(a, {"in_progress"}, "committed")
                    /\ Ends(a, "receipt") \/ Ends(a, "unconfirmed")
         /\ Obs!MarkAmbiguous(a) => HoldInv' /\ Ends(a, "ambiguous")
         /\ Obs!Refuse(a) => HoldInv' /\ Ends(a, "refused")
<1> USE DEF ObservedPCs, Obs!Steps, RootPCs, OpPCs, Obs!UnderIdentity, Obs!UnderOperation,
            Obs!Provisioning, Obs!Running, SameLeases, Obs!Results
<1>1. Obs!SpendOperation(a) => HoldInv' /\ (Goes(a, "spent") \/ Ends(a, "refused"))
  BY FinishHolds, ProceedStep DEF Obs!SpendOperation
<1>2. Obs!ClaimRow(a) => HoldInv' /\ (Goes(a, "claimed") \/ Ends(a, "refused"))
  BY FinishHolds, ProceedStep DEF Obs!ClaimRow
<1>3. Obs!BeginEffect(a) => HoldInv' /\ (Goes(a, "begun") \/ Ends(a, "refused"))
  BY FinishHolds, ProceedStep DEF Obs!BeginEffect
<1>4. Obs!CommitEffect(a) => /\ HoldInv'
                             /\ \/ Goes(a, "marking")
                                \/ /\ Obs!Transact(a, {"in_progress"}, "committed")
                                   /\ Ends(a, "receipt") \/ Ends(a, "unconfirmed")
  BY FinishHolds, ProceedStep DEF Obs!CommitEffect
<1>5. Obs!MarkAmbiguous(a) => HoldInv' /\ Ends(a, "ambiguous")
  BY FinishHolds DEF Obs!MarkAmbiguous
<1>6. Obs!Refuse(a) => HoldInv' /\ Ends(a, "refused")
  BY FinishHolds DEF Obs!Refuse
<1> QED
  BY <1>1, <1>2, <1>3, <1>4, <1>5, <1>6

LEMMA BeginSteps ==
  ASSUME Obs!ObservedAssumption, HoldInv, NEW a \in Actors, NEW g \in GenesisReceipts
  PROVE  /\ \A r \in Roots :
              /\ Obs!Provision(a, r, g) => HoldInv' /\ Starts(a, "provision", r, g, "none")
              /\ Obs!Run(a, r, g) => HoldInv' /\ Starts(a, "run", r, g, "none")
         /\ \A outcome \in Obs!Outcomes :
              Obs!Reconcile(a, g, outcome) =>
                HoldInv' /\ Starts(a, "waiting", Obs!Nobody, g, outcome)
         /\ Obs!RequireRecovery(a, g) =>
              HoldInv' /\ Starts(a, "recovering", Obs!Nobody, g, "none")
         /\ Obs!ReconcileEffect(a, g) => HoldInv' /\ Starts(a, "evidence", Obs!Nobody, g, "none")
<1>1. ASSUME NEW r \in Roots
      PROVE  /\ Obs!Provision(a, r, g) => HoldInv' /\ Starts(a, "provision", r, g, "none")
             /\ Obs!Run(a, r, g) => HoldInv' /\ Starts(a, "run", r, g, "none")
  BY RootHolds DEF Obs!Provision, Obs!Run
<1>2. ASSUME NEW outcome \in Obs!Outcomes
      PROVE  Obs!Reconcile(a, g, outcome) =>
               HoldInv' /\ Starts(a, "waiting", Obs!Nobody, g, outcome)
  BY WaitHolds DEF Obs!Reconcile
<1>3. /\ Obs!RequireRecovery(a, g) => HoldInv' /\ Starts(a, "recovering", Obs!Nobody, g, "none")
      /\ Obs!ReconcileEffect(a, g) => HoldInv' /\ Starts(a, "evidence", Obs!Nobody, g, "none")
  BY ResolutionHolds DEF Obs!RequireRecovery, Obs!ReconcileEffect
<1> QED
  BY <1>1, <1>2, <1>3

-----------------------------------------------------------------------------
(* TypeOK is inductive *)

LEMMA ObservedBusy ==
  ASSUME Obs!ObservedAssumption, HoldInv, NEW a \in Actors, oActor[a].pc # "idle"
  PROVE  Obs!Receipt(a) \in GenesisReceipts /\ Obs!Journal(a) \in Journals
BY DEF HoldInv, Held, Obs!Journal, Obs!ObservedAssumption

LEMMA RootOf ==
  ASSUME HoldInv, NEW a \in Actors, oActor[a].pc \in RootPCs
  PROVE  Obs!Root(a) \in Roots
BY DEF HoldInv, Held

LEMMA MarkTypes ==
  /\ Obs!NoMark \in Obs!Marks /\ Obs!TornMark \in Obs!Marks
  /\ \A state \in {"pending", "current", "abandon"}, g \in GenesisReceipts :
       Obs!Mark(state, g) \in Obs!Marks
BY DEF Obs!Marks, Obs!NoMark, Obs!TornMark

LEMMA GenesisFiles ==
  ASSUME Obs!ObservedAssumption, HoldInv, ObservedTypes, NEW a \in Actors,
         \/ Obs!WriteMarker(a) \/ Obs!SpendGenesis(a) \/ Obs!RecordGenesis(a) \/ Obs!MakeStore(a)
         \/ Obs!SetCurrent(a) \/ Obs!ApplyReconciliation(a)
  PROVE  ObservedTypes'
<1>1. CASE Obs!WriteMarker(a)
  <2>1. oActor[a].pc # "idle"
    BY <1>1 DEF Obs!WriteMarker
  <2> QED
    BY <1>1, <2>1, ObservedBusy, MarkTypes DEF Obs!WriteMarker, ObservedTypes, Obs!effect
<1>2. CASE Obs!SpendGenesis(a)
  BY <1>2 DEF Obs!SpendGenesis, ObservedTypes, Obs!journal, Obs!effect
<1>3. CASE Obs!RecordGenesis(a)
  <2>1. oActor[a].pc # "idle"
    BY <1>3 DEF Obs!RecordGenesis
  <2> QED
    BY <1>3, <2>1, ObservedBusy DEF Obs!RecordGenesis, ObservedTypes, Obs!journal, Obs!effect
<1>4. CASE Obs!MakeStore(a)
  BY <1>4 DEF Obs!MakeStore, ObservedTypes, Obs!Stores, Obs!effect
<1>5. CASE Obs!SetCurrent(a) \/ Obs!ApplyReconciliation(a)
  <2>1. PICK state \in {"current", "abandon"} :
          Obs!RewriteMarker(a, state) /\ oActor[a].pc # "idle"
    BY <1>5 DEF Obs!SetCurrent, Obs!ApplyReconciliation
  <2>2. Obs!TornMark \in Obs!Marks /\ Obs!Mark(state, Obs!Receipt(a)) \in Obs!Marks
    BY <2>1, ObservedBusy, MarkTypes
  <2> QED
    BY <2>1, <2>2 DEF Obs!RewriteMarker, ObservedTypes, Obs!effect
<1> QED
  BY <1>1, <1>2, <1>3, <1>4, <1>5

\* What the genesis of the journal is about, and the row.
genesisVars == <<oStages, oGenesisSpent, oMarker, oStore, oGenesisFile>>

LEMMA RunFiles ==
  ASSUME ObservedTypes, NEW a \in Actors,
         \/ Obs!SpendOperation(a) \/ Obs!ClaimRow(a) \/ Obs!BeginEffect(a) \/ Obs!CallEffect(a)
         \/ Obs!CommitEffect(a) \/ Obs!MarkAmbiguous(a) \/ Obs!ResolveRow(a)
  PROVE  ObservedTypes' /\ UNCHANGED genesisVars
<1>1. UNCHANGED genesisVars
  BY DEF genesisVars, Obs!SpendOperation, Obs!ClaimRow, Obs!BeginEffect, Obs!CallEffect,
         Obs!CommitEffect, Obs!MarkAmbiguous, Obs!ResolveRow, Obs!journal
<1>2. oCalls' = oCalls \/ oCalls' = oCalls + 1
  BY DEF Obs!SpendOperation, Obs!ClaimRow, Obs!BeginEffect, Obs!CallEffect, Obs!CommitEffect,
         Obs!MarkAmbiguous, Obs!ResolveRow, Obs!effect
<1>3. (oSpent' = oSpent \/ oSpent' = TRUE) /\ UNCHANGED oPerformed
  BY DEF Obs!SpendOperation, Obs!ClaimRow, Obs!BeginEffect, Obs!CallEffect, Obs!CommitEffect,
         Obs!MarkAmbiguous, Obs!ResolveRow, Obs!effect
<1>4. oRow' \in [Journals -> Obs!RowStates]
  BY DEF ObservedTypes, Obs!SpendOperation, Obs!ClaimRow, Obs!BeginEffect, Obs!CallEffect,
         Obs!CommitEffect, Obs!MarkAmbiguous, Obs!ResolveRow, Obs!Fail, Obs!Transact,
         Obs!RowStates, Obs!journal
<1>5. oCalls' \in Nat
  BY <1>2 DEF ObservedTypes
<1>6. oSpent' \in BOOLEAN /\ oPerformed' \in BOOLEAN
  BY <1>3, Zenon DEF ObservedTypes
<1> QED
  BY <1>1, <1>4, <1>5, <1>6, Zenon DEF ObservedTypes, genesisVars

\* The actions that write nothing.
Silent(a) ==
  \/ Obs!Begin(a) \/ Obs!Acquire(a) \/ Obs!Eligible(a) \/ Obs!Admit(a) \/ Obs!EffectReturns(a)
  \/ Obs!CheckAfterEffect(a) \/ Obs!Refuse(a) \/ Obs!Abort(a)

observedFiles ==
  <<oStages, oGenesisSpent, oSpent, oMarker, oStore, oRow, oGenesisFile, oCalls, oPerformed>>

LEMMA SilentFiles ==
  ASSUME NEW a \in Actors, Silent(a)
  PROVE  UNCHANGED observedFiles
BY DEF observedFiles, Silent, Obs!Begin, Obs!Acquire, Obs!Provision, Obs!Run, Obs!Reconcile,
       Obs!RequireRecovery, Obs!ReconcileEffect, Obs!LeaseResolution, Obs!BeginGenesis,
       Obs!CompleteGenesis, Obs!LeaseReconciliation, Obs!LeaseOperation, Obs!Eligible, Obs!Admit,
       Obs!EffectReturns, Obs!CheckAfterEffect, Obs!Refuse, Obs!Abort, Obs!journal, Obs!effect

LEMMA StepsOfAnActor ==
  ASSUME NEW a \in Actors, Obs!Begin(a) \/ Obs!Advance(a) \/ Obs!Acquire(a) \/ Obs!Crash(a)
  PROVE  \/ Silent(a)
         \/ Obs!WriteMarker(a) \/ Obs!SpendGenesis(a) \/ Obs!RecordGenesis(a) \/ Obs!MakeStore(a)
         \/ Obs!SetCurrent(a) \/ Obs!ApplyReconciliation(a)
         \/ Obs!SpendOperation(a) \/ Obs!ClaimRow(a) \/ Obs!BeginEffect(a) \/ Obs!CallEffect(a)
         \/ Obs!CommitEffect(a) \/ Obs!MarkAmbiguous(a) \/ Obs!ResolveRow(a)
         \/ Obs!Crash(a)
BY DEF Obs!Advance, Silent

LEMMA HoldStep ==
  ASSUME Obs!ObservedAssumption, HoldInv, NEW a \in Actors,
         Obs!Begin(a) \/ Obs!Advance(a) \/ Obs!Acquire(a) \/ Obs!Crash(a)
  PROVE  HoldInv'
<1>1. CASE Obs!Begin(a)
  BY <1>1, BeginSteps DEF Obs!Begin
<1>2. CASE Obs!Advance(a)
  BY <1>2, QuietSteps, FileSteps, RunSteps, CallHolds DEF Obs!Advance
<1>3. CASE Obs!Acquire(a)
  BY <1>3, QuietSteps, OperationHolds DEF Obs!Acquire
<1> QED
  BY <1>1, <1>2, <1>3, FileSteps

\* The steps nobody takes: the effect, the other journal, a copied root.
LEMMA World ==
  ASSUME HoldInv, ObservedTypes, Obs!Perform \/ Obs!StagesMove \/ \E r,
         s \in Roots : Obs!CopyRoot(r, s)
  PROVE  HoldInv' /\ ObservedTypes' /\ UNCHANGED <<oActor, oRootLock, oIdLock, oOpLock>>
<1>1. UNCHANGED <<oActor, oRootLock, oIdLock, oOpLock>>
  BY DEF Obs!Perform, Obs!StagesMove, Obs!CopyRoot, Obs!leases
<1>2. HoldInv'
  BY <1>1 DEF HoldInv, Held, Locks, Obs!Receipt, Obs!Root, Obs!Journal
<1>3. ObservedTypes'
  BY DEF ObservedTypes, Obs!Perform, Obs!StagesMove, Obs!CopyRoot, Obs!journal, Obs!effect
<1> QED
  BY <1>1, <1>2, <1>3

LEMMA ObservedTypeInit == ASSUME Obs!ObservedAssumption, Obs!Init PROVE Obs!TypeOK
<1>1. ObservedTypes
  BY MarkTypes DEF Obs!Init, ObservedTypes, Obs!Stores, Obs!RowStates
<1>2. Locks
  BY DEF Obs!Init, Locks
<1>3. oActor \in [Actors -> Obs!Work] /\ \A a \in Actors : oActor[a].pc = "idle"
  <2>1. Obs!Idle \in Obs!Work /\ Obs!Idle.pc = "idle"
    BY DEF Obs!Idle, Obs!Task, Obs!Work, Obs!Results
  <2> QED
    BY <2>1 DEF Obs!Init
<1>4. "idle" \notin RootPCs /\ "idle" \notin Obs!UnderIdentity /\ "idle" \notin OpPCs
  BY DEF RootPCs, OpPCs, Obs!UnderIdentity, Obs!UnderOperation, Obs!Provisioning, Obs!Running
<1>5. \A a \in Actors : Held(a)
  BY <1>3, <1>4 DEF Held, Obs!Init, Obs!ObservedAssumption
<1> QED
  BY <1>1, <1>2, <1>3, <1>5, ObservedTypeParts DEF HoldInv

LEMMA ObservedTypeStep == ASSUME Obs!ObservedAssumption, Obs!TypeOK,
                                 [Obs!Next]_(Obs!vars) PROVE Obs!TypeOK'
<1>1. HoldInv /\ ObservedTypes
  BY ObservedTypeParts
<1>2. CASE \E a \in Actors : Obs!Begin(a) \/ Obs!Advance(a) \/ Obs!Acquire(a) \/ Obs!Crash(a)
  <2>1. PICK a \in Actors : Obs!Begin(a) \/ Obs!Advance(a) \/ Obs!Acquire(a) \/ Obs!Crash(a)
    BY <1>2
  <2>2. ASSUME Silent(a)
        PROVE  ObservedTypes'
    BY <1>1, <2>2, SilentFiles DEF ObservedTypes, observedFiles
  <2>3. ASSUME Obs!Crash(a)
        PROVE  ObservedTypes'
    BY <1>1, <2>3 DEF Obs!Crash, ObservedTypes, Obs!Stores, Obs!effect
  <2>4. ObservedTypes'
    BY <1>1, <2>1, <2>2, <2>3, StepsOfAnActor, GenesisFiles, RunFiles
  <2> QED
    BY <1>1, <2>1, <2>4, HoldStep, ObservedTypePartsNext
<1>3. CASE Obs!Perform \/ Obs!StagesMove \/ \E r, s \in Roots : Obs!CopyRoot(r, s)
  BY <1>1, <1>3, World, ObservedTypePartsNext
<1>4. CASE UNCHANGED Obs!vars
  BY <1>4
  DEF Obs!TypeOK, Obs!vars, Obs!leases, Obs!journal, Obs!effect, Obs!Receipt, Obs!Root,
      Obs!Journal
<1> QED
  BY <1>2, <1>3, <1>4 DEF Obs!Next

-----------------------------------------------------------------------------
(* The genesis: what its maker has established, and what the files say *)

Spending == {"genesis_spent", "recorded", "completing", "making", "filled"}

OnRecord(g) == \E r \in Roots : oGenesisFile[r] = g

MakerInv(a) ==
  /\ oActor[a].pc \in Spending => oGenesisSpent /\ oStages # "unfinished"
  /\ oActor[a].pc \in Spending \ {"genesis_spent"} => oGenesisFile[Obs!Root(a)] = Obs!Receipt(a)
  /\ oActor[a].pc = "making" => oStore[Obs!Journal(a)] = "partial"
  /\ oActor[a].pc = "filled" => oStore[Obs!Journal(a)] = "whole"

JournalInv(j) ==
  /\ oMarker[j].state \in {"pending", "current", "abandon"} =>
       oMarker[j].receipt \in GenesisReceipts /\ JournalOf[oMarker[j].receipt] = j
  /\ oStore[j] # "absent" => oGenesisSpent /\ oStages # "unfinished"
  /\ oStore[j] # "absent" /\ oMarker[j].state = "pending" => OnRecord(oMarker[j].receipt)
  /\ oMarker[j].state = "current" =>
       oStore[j] \in {"whole", "hot"} /\ OnRecord(oMarker[j].receipt)

ObservedGenesis == (\A a \in Actors : MakerInv(a)) /\ \A j \in Journals : JournalInv(j)

LEMMA MarkFields ==
  /\ Obs!NoMark.state = "absent" /\ Obs!TornMark.state = "torn"
  /\ \A state, g : Obs!Mark(state, g).state = state /\ Obs!Mark(state, g).receipt = g
BY DEF Obs!NoMark, Obs!TornMark, Obs!Mark, Obs!NoReceipt, Obs!Torn

LEMMA MakersKeep ==
  ASSUME NEW a \in Actors, OneMoves(a),
         UNCHANGED <<oStages, oGenesisSpent, oStore, oGenesisFile>>,
         \A b \in Actors : MakerInv(b),
         MakerInv(a)'
  PROVE  \A b \in Actors : MakerInv(b)'
BY DEF MakerInv, OneMoves, Obs!Root, Obs!Receipt, Obs!Journal

LEMMA JournalsKeep ==
  ASSUME NEW j \in Journals, JournalInv(j), UNCHANGED genesisVars
  PROVE  JournalInv(j)'
BY DEF JournalInv, OnRecord, genesisVars

\* A step that leaves the files of the genesis alone and is no progress of a
\* maker.
LEMMA GenesisKept ==
  ASSUME ObservedGenesis, NEW a \in Actors, UNCHANGED genesisVars, OneMoves(a),
         oActor'[a].pc \notin Spending
  PROVE  ObservedGenesis'
<1>1. MakerInv(a)'
  BY DEF MakerInv, Spending
<1> QED
  BY <1>1, MakersKeep, JournalsKeep DEF ObservedGenesis, genesisVars

LEMMA MoveAlone ==
  ASSUME NEW a \in Actors
  PROVE  /\ \A pc : Goes(a, pc) => OneMoves(a) /\ oActor'[a].pc = pc
                                   /\ Obs!Root(a)' = Obs!Root(a)
                                   /\ Obs!Receipt(a)' = Obs!Receipt(a)
                                   /\ Obs!Journal(a)' = Obs!Journal(a)
         /\ \A result : Ends(a, result) => OneMoves(a) /\ oActor'[a].pc = "idle"
         /\ \A pc, r, g, outcome :
              Starts(a, pc, r, g, outcome) => OneMoves(a) /\ oActor'[a].pc = pc
         /\ Calls(a) => OneMoves(a) /\ oActor'[a].pc = "calling"
BY DEF Goes, Ends, Starts, Calls, Obs!Root, Obs!Receipt, Obs!Journal

LEMMA GenesisSilent ==
  ASSUME Obs!ObservedAssumption, HoldInv, ObservedGenesis, NEW a \in Actors, Silent(a)
  PROVE  ObservedGenesis'
<1>1. UNCHANGED genesisVars
  BY SilentFiles DEF observedFiles, genesisVars
<1>2. CASE Obs!Begin(a)
  <2>1. OneMoves(a) /\ oActor'[a].pc \in {"provision", "run", "waiting", "recovering", "evidence"}
    BY <1>2, BeginSteps, MoveAlone DEF Obs!Begin
  <2> QED
    BY <1>1, <2>1, GenesisKept DEF Spending
<1>3. CASE Obs!CompleteGenesis(a)
  <2>1. Goes(a, "completing") /\ oActor[a].pc = "recorded"
    BY <1>3, QuietSteps DEF Obs!CompleteGenesis
  <2>2. MakerInv(a)'
    BY <1>1, <2>1, MoveAlone DEF ObservedGenesis, MakerInv, Spending, genesisVars
  <2> QED
    BY <1>1, <2>1, <2>2, MakersKeep, JournalsKeep, MoveAlone DEF ObservedGenesis, genesisVars
<1>4. CASE \/ Obs!BeginGenesis(a) \/ Obs!LeaseReconciliation(a) \/ Obs!LeaseOperation(a)
           \/ Obs!Eligible(a) \/ Obs!Admit(a) \/ Obs!EffectReturns(a) \/ Obs!CheckAfterEffect(a)
           \/ Obs!Refuse(a) \/ Obs!Abort(a)
  <2>1. \/ \E pc \in {"beginning", "reconciling", "leased", "eligible", "admitted", "effected",
                      "stable", "marking"} : Goes(a, pc)
        \/ \E result : Ends(a, result)
    BY <1>4, QuietSteps, OperationHolds, FileSteps, RunSteps
  <2>2. OneMoves(a) /\ oActor'[a].pc \notin Spending
    BY <2>1, MoveAlone DEF Spending
  <2> QED
    BY <1>1, <2>2, GenesisKept
<1> QED
  BY <1>2, <1>3, <1>4 DEF Silent, Obs!Acquire

LEMMA GenesisRun ==
  ASSUME Obs!ObservedAssumption, HoldInv, ObservedTypes, ObservedGenesis, NEW a \in Actors,
         \/ Obs!SpendOperation(a) \/ Obs!ClaimRow(a) \/ Obs!BeginEffect(a) \/ Obs!CallEffect(a)
         \/ Obs!CommitEffect(a) \/ Obs!MarkAmbiguous(a) \/ Obs!ResolveRow(a)
  PROVE  ObservedGenesis'
<1>1. UNCHANGED genesisVars
  BY RunFiles
<1>2. \/ \E pc \in {"spent", "claimed", "begun", "marking"} : Goes(a, pc)
      \/ \E result : Ends(a, result)
      \/ Calls(a)
  BY RunSteps, CallHolds, FileSteps
<1>3. OneMoves(a) /\ oActor'[a].pc \notin Spending
  BY <1>2, MoveAlone DEF Spending
<1> QED
  BY <1>1, <1>3, GenesisKept

\* Two actors at work under the identity lease work on different journals.
LEMMA IdentityAlone ==
  ASSUME Obs!ObservedAssumption, HoldInv, NEW a \in Actors, NEW b \in Actors,
         oActor[a].pc \in Obs!UnderIdentity, oActor[b].pc \in Obs!UnderIdentity,
         Obs!Journal(a) = Obs!Journal(b)
  PROVE  a = b
<1>1. Obs!Journal(a) \in Journals /\ oActor[a].pc # "idle"
  BY ObservedBusy DEF Obs!UnderIdentity
<1> QED
  BY <1>1 DEF HoldInv, Held

LEMMA GenesisMark ==
  ASSUME Obs!ObservedAssumption, HoldInv, ObservedTypes, ObservedGenesis, NEW a \in Actors,
         Obs!WriteMarker(a) \/ Obs!SetCurrent(a) \/ Obs!ApplyReconciliation(a)
  PROVE  ObservedGenesis'
<1>1. oActor[a].pc # "idle" /\ UNCHANGED <<oStages, oGenesisSpent, oStore, oGenesisFile>>
  BY DEF Obs!WriteMarker, Obs!SetCurrent, Obs!ApplyReconciliation, Obs!RewriteMarker
<1>2. OneMoves(a) /\ oActor'[a].pc \in {"pending", "idle"}
  BY FileSteps, MoveAlone
<1>3. \A b \in Actors : MakerInv(b)'
  <2>1. MakerInv(a)'
    BY <1>2 DEF MakerInv, Spending
  <2> QED
    BY <1>1, <1>2, <2>1, MakersKeep DEF ObservedGenesis
<1>4. PICK m \in {Obs!TornMark, Obs!Mark("pending", Obs!Receipt(a)),
                  Obs!Mark("current", Obs!Receipt(a)), Obs!Mark("abandon", Obs!Receipt(a))} :
        oMarker' = [oMarker EXCEPT ![Obs!Journal(a)] = m]
  BY DEF Obs!WriteMarker, Obs!SetCurrent, Obs!ApplyReconciliation, Obs!RewriteMarker
<1>5. Obs!Journal(a) \in Journals /\ Obs!Receipt(a) \in GenesisReceipts
  BY <1>1, ObservedBusy
<1>6. ASSUME NEW j \in Journals, j # Obs!Journal(a)
      PROVE  JournalInv(j)'
  <2>1. oMarker'[j] = oMarker[j]
    BY <1>4, <1>6 DEF ObservedTypes
  <2> QED
    BY <1>1, <2>1 DEF ObservedGenesis, JournalInv, OnRecord
<1>7. oMarker'[Obs!Journal(a)] = m
  BY <1>4, <1>5 DEF ObservedTypes
<1>8. m.state \in {"pending", "current", "abandon"} => m.receipt = Obs!Receipt(a)
  BY MarkFields
<1>9. m.state = "pending" => oStore[Obs!Journal(a)] = "absent"
  <2>1. CASE Obs!WriteMarker(a)
    BY <2>1 DEF Obs!WriteMarker
  <2>2. CASE Obs!SetCurrent(a) \/ Obs!ApplyReconciliation(a)
    <3>1. PICK state \in {"current", "abandon"} :
            oMarker' \in { [oMarker EXCEPT ![Obs!Journal(a)] = n] :
                           n \in {Obs!TornMark, Obs!Mark(state, Obs!Receipt(a))} }
      BY <2>2 DEF Obs!SetCurrent, Obs!ApplyReconciliation, Obs!RewriteMarker
    <3>2. oMarker'[Obs!Journal(a)] \in {Obs!TornMark, Obs!Mark(state, Obs!Receipt(a))}
      BY <1>5, <3>1 DEF ObservedTypes
    <3> QED
      BY <1>7, <3>2, MarkFields
  <2> QED
    BY <2>1, <2>2
<1>10. m.state = "current" =>
         oStore[Obs!Journal(a)] \in {"whole", "hot"} /\ OnRecord(Obs!Receipt(a))
  <2>0. SUFFICES ASSUME m.state = "current"
                 PROVE  oStore[Obs!Journal(a)] \in {"whole", "hot"} /\ OnRecord(Obs!Receipt(a))
    OBVIOUS
  <2>1. CASE Obs!WriteMarker(a)
    <3>1. oMarker' = [oMarker EXCEPT ![Obs!Journal(a)] = Obs!TornMark]
          \/ oMarker' = [oMarker EXCEPT ![Obs!Journal(a)] = Obs!Mark("pending", Obs!Receipt(a))]
      BY <2>1 DEF Obs!WriteMarker
    <3>2. oMarker'[Obs!Journal(a)] \in {Obs!TornMark, Obs!Mark("pending", Obs!Receipt(a))}
      BY <1>5, <3>1 DEF ObservedTypes
    <3> QED
      BY <1>7, <2>0, <3>2, MarkFields
  <2>2. CASE Obs!SetCurrent(a)
    <3>1. oActor[a].pc = "filled"
      BY <2>2 DEF Obs!SetCurrent
    <3>2. oStore[Obs!Journal(a)] = "whole" /\ oGenesisFile[Obs!Root(a)] = Obs!Receipt(a)
      BY <3>1 DEF ObservedGenesis, MakerInv, Spending
    <3>3. Obs!Root(a) \in Roots
      BY <3>1, RootOf DEF RootPCs, Obs!Provisioning
    <3> QED
      BY <3>2, <3>3 DEF OnRecord
  <2>3. CASE Obs!ApplyReconciliation(a)
    <3>1. oActor[a].outcome = "provisioning_completed"
      <4>1. CASE oActor[a].outcome # "provisioning_completed"
        <5>1. oMarker' \in { [oMarker EXCEPT ![Obs!Journal(a)] = n] :
                             n \in {Obs!TornMark, Obs!Mark("abandon", Obs!Receipt(a))} }
          BY <2>3, <4>1 DEF Obs!ApplyReconciliation, Obs!RewriteMarker
        <5>2. oMarker'[Obs!Journal(a)] \in {Obs!TornMark, Obs!Mark("abandon", Obs!Receipt(a))}
          BY <1>5, <5>1 DEF ObservedTypes
        <5> QED
          BY <1>7, <2>0, <5>2, MarkFields
      <4> QED
        BY <4>1
    <3>2. /\ oStore[Obs!Journal(a)] = "whole"
          /\ oMarker[Obs!Journal(a)] = Obs!Mark("pending", Obs!Receipt(a))
      BY <2>3, <3>1 DEF Obs!ApplyReconciliation, Obs!Reconcilable, Obs!StillPending
    <3>3. OnRecord(Obs!Receipt(a))
      BY <1>5, <3>2, MarkFields DEF ObservedGenesis, JournalInv
    <3> QED
      BY <3>2, <3>3
  <2> QED
    BY <2>1, <2>2, <2>3
<1>11. ASSUME NEW j \in Journals, j = Obs!Journal(a)
       PROVE  JournalInv(j)'
  <2>1. /\ oMarker'[j] = m /\ JournalInv(j) /\ JournalOf[Obs!Receipt(a)] = j
        /\ m.state = "pending" => oStore[j] = "absent"
        /\ m.state = "current" => oStore[j] \in {"whole", "hot"} /\ OnRecord(Obs!Receipt(a))
    BY <1>5, <1>7, <1>9, <1>10, <1>11 DEF ObservedGenesis, Obs!Journal
  <2> QED
    BY <1>1, <1>5, <1>8, <2>1 DEF JournalInv, OnRecord
<1> QED
  BY <1>3, <1>6, <1>11 DEF ObservedGenesis

LEMMA GenesisSpend ==
  ASSUME Obs!ObservedAssumption, HoldInv, ObservedTypes, ObservedGenesis, NEW a \in Actors,
         Obs!SpendGenesis(a)
  PROVE  ObservedGenesis'
<1>1. /\ oGenesisSpent' = TRUE /\ UNCHANGED <<oStages, oMarker, oStore, oGenesisFile>>
      /\ oStages = "committed"
  BY DEF Obs!SpendGenesis, Obs!journal, Obs!Finished
<1>2. OneMoves(a) /\ oActor'[a].pc \in {"genesis_spent", "idle"}
  BY FileSteps, MoveAlone
<1>3. \A b \in Actors : MakerInv(b)'
  BY <1>1, <1>2
  DEF ObservedGenesis, MakerInv, OneMoves, Spending, Obs!Root, Obs!Receipt, Obs!Journal
<1>4. \A j \in Journals : JournalInv(j)'
  BY <1>1 DEF ObservedGenesis, JournalInv, OnRecord
<1> QED
  BY <1>3, <1>4 DEF ObservedGenesis

\* A genesis artifact is written where none is: what is on record stays.
LEMMA RecordKept ==
  ASSUME Obs!ObservedAssumption, ObservedTypes, ObservedGenesis, NEW r \in Roots, NEW f,
         oGenesisFile[r] = Obs!NoReceipt, oGenesisFile' = [oGenesisFile EXCEPT ![r] = f],
         UNCHANGED <<oStages, oGenesisSpent, oMarker, oStore>>
  PROVE  /\ \A g \in GenesisReceipts : OnRecord(g) => OnRecord(g)'
         /\ \A j \in Journals : JournalInv(j)'
         /\ \A s \in Roots : oGenesisFile[s] # Obs!NoReceipt => oGenesisFile'[s] = oGenesisFile[s]
<1>1. ASSUME NEW s \in Roots, oGenesisFile[s] # Obs!NoReceipt
      PROVE  oGenesisFile'[s] = oGenesisFile[s]
  BY <1>1 DEF ObservedTypes
<1>2. ASSUME NEW g \in GenesisReceipts, OnRecord(g)
      PROVE  OnRecord(g)'
  BY <1>1, <1>2 DEF OnRecord, Obs!ObservedAssumption
<1>3. ASSUME NEW j \in Journals
      PROVE  JournalInv(j)'
  BY <1>2 DEF ObservedGenesis, JournalInv
<1> QED
  BY <1>1, <1>2, <1>3

LEMMA GenesisRecord ==
  ASSUME Obs!ObservedAssumption, HoldInv, ObservedTypes, ObservedGenesis, NEW a \in Actors,
         Obs!RecordGenesis(a)
  PROVE  ObservedGenesis'
<1>1. /\ oActor[a].pc = "genesis_spent" /\ oGenesisFile[Obs!Root(a)] = Obs!NoReceipt
      /\ UNCHANGED <<oStages, oGenesisSpent, oMarker, oStore>>
      /\ \/ /\ Goes(a, "recorded")
            /\ oGenesisFile' = [oGenesisFile EXCEPT ![Obs!Root(a)] = Obs!Receipt(a)]
         \/ Ends(a, "none") /\ \E f : oGenesisFile' = [oGenesisFile EXCEPT ![Obs!Root(a)] = f]
  <2>1. /\ oActor[a].pc = "genesis_spent" /\ oGenesisFile[Obs!Root(a)] = Obs!NoReceipt
        /\ UNCHANGED <<oStages, oGenesisSpent, oMarker, oStore>>
    BY DEF Obs!RecordGenesis, Obs!journal
  <2>2. \/ /\ oGenesisFile' = [oGenesisFile EXCEPT ![Obs!Root(a)] = Obs!Receipt(a)]
           /\ Obs!Proceed(a, "recorded")
        \/ /\ \E f : oGenesisFile' = [oGenesisFile EXCEPT ![Obs!Root(a)] = f]
           /\ Obs!Leave(a)
    BY DEF Obs!RecordGenesis
  <2>3. "recorded" \in ObservedPCs /\ SameLeases("genesis_spent", "recorded")
    BY DEF ObservedPCs, Obs!Steps, RootPCs, OpPCs, Obs!UnderIdentity, Obs!UnderOperation,
           Obs!Provisioning, Obs!Running, SameLeases
  <2> QED
    BY <2>1, <2>2, <2>3, ProceedStep, LeaveStep
<1>2. Obs!Root(a) \in Roots /\ Obs!Receipt(a) \in GenesisReceipts
  BY <1>1, RootOf, ObservedBusy DEF RootPCs, Obs!Provisioning
<1>3. PICK f : oGenesisFile' = [oGenesisFile EXCEPT ![Obs!Root(a)] = f]
  BY <1>1
<1>4. /\ \A j \in Journals : JournalInv(j)'
      /\ \A s \in Roots : oGenesisFile[s] # Obs!NoReceipt => oGenesisFile'[s] = oGenesisFile[s]
  BY <1>1, <1>2, <1>3, RecordKept
<1>5. ASSUME NEW b \in Actors, b # a
      PROVE  MakerInv(b)'
  <2>1. oActor'[b] = oActor[b] /\ MakerInv(b)
    BY <1>1, <1>5, MoveAlone DEF OneMoves, ObservedGenesis
  <2>2. oActor[b].pc \in Spending => Obs!Root(b) \in Roots /\ Obs!Receipt(b) \in GenesisReceipts
    BY RootOf, ObservedBusy DEF Spending, RootPCs, Obs!Provisioning
  <2>3. oActor[b].pc \in Spending \ {"genesis_spent"} =>
          oGenesisFile'[Obs!Root(b)] = Obs!Receipt(b)
    BY <1>4, <2>1, <2>2 DEF MakerInv, Obs!ObservedAssumption
  <2> QED
    BY <1>1, <2>1, <2>3 DEF MakerInv, Obs!Root, Obs!Receipt, Obs!Journal
<1>6. MakerInv(a)'
  <2>1. CASE /\ Goes(a, "recorded")
             /\ oGenesisFile' = [oGenesisFile EXCEPT ![Obs!Root(a)] = Obs!Receipt(a)]
    <3>1. oGenesisFile'[Obs!Root(a)] = Obs!Receipt(a)
      BY <1>2, <2>1 DEF ObservedTypes
    <3> QED
      BY <1>1, <2>1, <3>1, MoveAlone DEF ObservedGenesis, MakerInv, Spending
  <2>2. CASE Ends(a, "none")
    BY <2>2, MoveAlone DEF MakerInv, Spending
  <2> QED
    BY <1>1, <2>1, <2>2
<1> QED
  BY <1>4, <1>5, <1>6 DEF ObservedGenesis

LEMMA GenesisStore ==
  ASSUME Obs!ObservedAssumption, HoldInv, ObservedTypes, ObservedGenesis, NEW a \in Actors,
         Obs!MakeStore(a)
  PROVE  ObservedGenesis'
<1>1. /\ oActor[a].pc \in {"completing", "making"}
      /\ UNCHANGED <<oStages, oGenesisSpent, oMarker, oGenesisFile>>
  BY DEF Obs!MakeStore
<1>2. /\ Obs!Receipt(a) \in GenesisReceipts /\ Obs!Journal(a) \in Journals
      /\ Obs!Root(a) \in Roots /\ oActor[a].pc \in Obs!UnderIdentity
      /\ oGenesisSpent /\ oStages # "unfinished" /\ oGenesisFile[Obs!Root(a)] = Obs!Receipt(a)
  BY <1>1, ObservedBusy, RootOf
  DEF RootPCs, Obs!Provisioning, Obs!UnderIdentity, ObservedGenesis, MakerInv, Spending
<1>3. PICK s \in {"partial", "whole", "hot"} :
        /\ oStore' = [oStore EXCEPT ![Obs!Journal(a)] = s]
        /\ \/ s = "partial" /\ (Obs!Proceed(a, "making") \/ Obs!Leave(a))
           \/ s = "whole" /\ (Obs!Proceed(a, "filled") \/ Obs!Leave(a))
           \/ s = "hot" /\ Obs!Leave(a)
        /\ s = "partial" => Obs!StillPending(a)
        /\ s # "partial" => oActor[a].pc = "making"
  BY DEF Obs!MakeStore
<1>4. /\ OneMoves(a)
      /\ \/ Goes(a, "making") /\ s = "partial"
         \/ Goes(a, "filled") /\ s = "whole"
         \/ Ends(a, "none")
  <2>1. /\ "making" \in ObservedPCs /\ SameLeases(oActor[a].pc, "making")
        /\ "filled" \in ObservedPCs /\ SameLeases(oActor[a].pc, "filled") /\ oActor[a].pc # "idle"
    BY <1>1
    DEF ObservedPCs, Obs!Steps, RootPCs, OpPCs, Obs!UnderIdentity, Obs!UnderOperation,
        Obs!Provisioning, Obs!Running, SameLeases
  <2> QED
    BY <1>3, <2>1, ProceedStep, LeaveStep, MoveAlone
<1>5. oStore'[Obs!Journal(a)] = s /\ \A j \in Journals \ {Obs!Journal(a)} : oStore'[j] = oStore[j]
  BY <1>2, <1>3 DEF ObservedTypes
<1>6. ASSUME NEW b \in Actors, b # a
      PROVE  MakerInv(b)'
  <2>1. oActor'[b] = oActor[b] /\ MakerInv(b)
    BY <1>4, <1>6 DEF OneMoves, ObservedGenesis
  <2>2. oActor[b].pc \in {"making", "filled"} => Obs!Journal(b) \in Journals \ {Obs!Journal(a)}
    BY <1>2, <1>6, IdentityAlone, ObservedBusy DEF Obs!UnderIdentity
  <2> QED
    BY <1>1, <1>5, <2>1, <2>2 DEF MakerInv, Obs!Root, Obs!Receipt, Obs!Journal
<1>7. MakerInv(a)'
  BY <1>1, <1>2, <1>4, <1>5, MoveAlone DEF MakerInv, Spending
<1>8. ASSUME NEW j \in Journals
      PROVE  JournalInv(j)'
  <2>1. CASE j # Obs!Journal(a)
    BY <1>1, <1>5, <2>1 DEF ObservedGenesis, JournalInv, OnRecord
  <2>2. CASE j = Obs!Journal(a) /\ s = "partial"
    <3>1. oMarker[j].state = "pending" /\ oMarker[j].receipt = Obs!Receipt(a)
      BY <1>3, <2>2, MarkFields DEF Obs!StillPending
    <3>2. OnRecord(Obs!Receipt(a))
      BY <1>2 DEF OnRecord
    <3> QED
      BY <1>1, <1>2, <1>5, <2>2, <3>1, <3>2 DEF ObservedGenesis, JournalInv, OnRecord
  <2>3. CASE j = Obs!Journal(a) /\ s # "partial"
    <3>1. oStore[j] = "partial"
      BY <1>3, <2>3 DEF ObservedGenesis, MakerInv
    <3> QED
      BY <1>1, <1>2, <1>5, <2>3, <3>1 DEF ObservedGenesis, JournalInv, OnRecord
  <2> QED
    BY <2>1, <2>2, <2>3
<1> QED
  BY <1>6, <1>7, <1>8 DEF ObservedGenesis

\* A crash inside a row transaction meets a current journal, which nobody is
\* making.
LEMMA GenesisCrash ==
  ASSUME Obs!ObservedAssumption, HoldInv, ObservedTypes, ObservedGenesis, NEW a \in Actors,
         Obs!Crash(a)
  PROVE  ObservedGenesis'
<1>1. /\ OneMoves(a) /\ oActor'[a].pc = "idle"
      /\ UNCHANGED <<oStages, oGenesisSpent, oMarker, oGenesisFile>>
  BY FileSteps, MoveAlone DEF Obs!Crash
<1>2. CASE UNCHANGED oStore
  BY <1>1, <1>2, GenesisKept DEF genesisVars, Spending
<1>3. CASE Obs!Current(Obs!Journal(a)) /\ oStore' = [oStore EXCEPT ![Obs!Journal(a)] = "hot"]
  <2>1. Obs!Journal(a) \in Journals
    BY ObservedBusy DEF Obs!Crash, Obs!Running, Obs!UnderOperation
  <2>2. /\ oStore[Obs!Journal(a)] = "whole" /\ oIdLock[Obs!Journal(a)] = Obs!Nobody
        /\ oStore'[Obs!Journal(a)] = "hot"
        /\ \A j \in Journals \ {Obs!Journal(a)} : oStore'[j] = oStore[j]
    BY <1>3, <2>1 DEF Obs!Current, ObservedTypes
  <2>3. ASSUME NEW b \in Actors
        PROVE  MakerInv(b)'
    <3>1. CASE b = a
      BY <1>1, <3>1 DEF MakerInv, Spending
    <3>2. CASE b # a
      <4>1. oActor[b].pc \in {"making", "filled"} =>
              Obs!Journal(b) \in Journals \ {Obs!Journal(a)}
        BY <2>1, <2>2, ObservedBusy DEF Obs!UnderIdentity, HoldInv, Held, Obs!ObservedAssumption
      <4> QED
        BY <1>1, <2>2, <3>2, <4>1
        DEF ObservedGenesis, MakerInv, OneMoves, Obs!Root, Obs!Receipt, Obs!Journal
    <3> QED
      BY <3>1, <3>2
  <2>4. \A j \in Journals : JournalInv(j)'
    BY <1>1, <2>2 DEF ObservedGenesis, JournalInv, OnRecord
  <2> QED
    BY <2>3, <2>4 DEF ObservedGenesis
<1> QED
  BY <1>2, <1>3 DEF Obs!Crash

LEMMA GenesisWorld ==
  ASSUME Obs!ObservedAssumption, HoldInv, ObservedTypes, ObservedGenesis,
         Obs!Perform \/ Obs!StagesMove \/ \E r, s \in Roots : Obs!CopyRoot(r, s)
  PROVE  ObservedGenesis'
<1>1. UNCHANGED <<oActor, oRootLock, oIdLock, oOpLock>>
  BY World
<1>2. CASE Obs!Perform
  BY <1>1, <1>2
  DEF Obs!Perform, ObservedGenesis, MakerInv, JournalInv, OnRecord, Obs!journal, Obs!Root,
      Obs!Receipt, Obs!Journal
<1>3. CASE Obs!StagesMove
  BY <1>1, <1>3
  DEF Obs!StagesMove, ObservedGenesis, MakerInv, JournalInv, OnRecord, Obs!journal, Obs!Root,
      Obs!Receipt, Obs!Journal
<1>4. CASE \E r, s \in Roots : Obs!CopyRoot(r, s)
  <2>1. PICK r \in Roots, s \in Roots : Obs!CopyRoot(r, s)
    BY <1>4
  <2>2. /\ \A j \in Journals : JournalInv(j)'
        /\ \A q \in Roots : oGenesisFile[q] # Obs!NoReceipt => oGenesisFile'[q] = oGenesisFile[q]
    BY <2>1, RecordKept DEF Obs!CopyRoot, Obs!journal
  <2>3. ASSUME NEW b \in Actors
        PROVE  MakerInv(b)'
    <3>1. oActor[b].pc \in Spending => Obs!Root(b) \in Roots /\ Obs!Receipt(b) \in GenesisReceipts
      BY RootOf, ObservedBusy DEF Spending, RootPCs, Obs!Provisioning
    <3>2. oActor[b].pc \in Spending \ {"genesis_spent"} =>
            oGenesisFile'[Obs!Root(b)] = Obs!Receipt(b)
      BY <2>2, <3>1 DEF ObservedGenesis, MakerInv, Obs!ObservedAssumption
    <3> QED
      BY <1>1, <2>1, <3>2
      DEF Obs!CopyRoot, ObservedGenesis, MakerInv, Obs!Root, Obs!Receipt, Obs!Journal, Obs!journal
  <2> QED
    BY <2>2, <2>3 DEF ObservedGenesis
<1> QED
  BY <1>2, <1>3, <1>4

LEMMA GenesisStep ==
  ASSUME Obs!ObservedAssumption, Obs!TypeOK, ObservedGenesis, [Obs!Next]_(Obs!vars)
  PROVE  ObservedGenesis'
<1>1. HoldInv /\ ObservedTypes
  BY ObservedTypeParts
<1>2. CASE \E a \in Actors : Obs!Begin(a) \/ Obs!Advance(a) \/ Obs!Acquire(a) \/ Obs!Crash(a)
  BY <1>1, <1>2, StepsOfAnActor, GenesisSilent, GenesisRun, GenesisMark, GenesisSpend,
     GenesisRecord, GenesisStore, GenesisCrash
<1>3. CASE Obs!Perform \/ Obs!StagesMove \/ \E r, s \in Roots : Obs!CopyRoot(r, s)
  BY <1>1, <1>3, GenesisWorld
<1>4. CASE UNCHANGED Obs!vars
  BY <1>4
  DEF Obs!vars, Obs!journal, ObservedGenesis, MakerInv, JournalInv, OnRecord, Obs!Root,
      Obs!Receipt, Obs!Journal
<1> QED
  BY <1>2, <1>3, <1>4 DEF Obs!Next

-----------------------------------------------------------------------------
(* The run: one spender of the operation, one call, and the row it works on *)

Before == {"spent", "claimed", "begun"}
After == {"calling", "effected", "stable", "marking"}

\* What an idle actor reported is true.
HonestOf(a) ==
  /\ oActor[a].result \in {"receipt", "unconfirmed"} =>
       oPerformed /\ \E j \in Journals : oRow[j] = "committed"
  /\ oActor[a].result = "refused" => oActor[a].called = FALSE

RunnerInv(a) ==
  /\ oActor[a].pc \in Before => oSpent /\ oCalls = 0
  /\ oActor[a].pc \in After => oSpent /\ oCalls = 1
  /\ oActor[a].pc \in {"effected", "stable", "evidence"} => oPerformed
  /\ oActor[a].pc \notin After \cup {"idle"} => oActor[a].called = FALSE
  /\ oActor[a].pc \in {"begun", "calling", "effected", "stable"} =>
       oRow[Obs!Journal(a)] = "in_progress"
  /\ oActor[a].pc = "idle" => HonestOf(a)

OneSpender ==
  \A a, b \in Actors :
    oActor[a].pc \in Before \cup After /\ oActor[b].pc \in Before \cup After => a = b

CallsInv ==
  /\ oCalls \in {0, 1}
  /\ oCalls = 1 => oSpent
  /\ oPerformed => oCalls = 1
  /\ \A j \in Journals : oRow[j] = "committed" => oPerformed

RunInv == (\A a \in Actors : RunnerInv(a)) /\ OneSpender /\ CallsInv

\* A step that neither calls nor performs the effect and writes only a row it
\* has the lease of, and that is not committed.
Mild(a) ==
  /\ OneMoves(a)
  /\ UNCHANGED <<oCalls, oPerformed>>
  /\ oSpent' = oSpent \/ oSpent' = TRUE
  /\ \A j \in Journals :
       oRow'[j] # oRow[j] => oOpLock[j] = a /\ oRow[j] # "committed"

LEMMA OthersKept ==
  ASSUME Obs!ObservedAssumption, HoldInv, NEW a \in Actors, Mild(a),
         NEW b \in Actors, b # a, RunnerInv(b)
  PROVE  RunnerInv(b)'
<1>1. oActor'[b] = oActor[b] /\ Obs!Journal(b)' = Obs!Journal(b)
  BY DEF Mild, OneMoves, Obs!Journal, Obs!Receipt
<1>2. HonestOf(b) => HonestOf(b)'
  BY <1>1 DEF Mild, HonestOf
<1>3. oActor[b].pc \in {"begun", "calling", "effected", "stable"} =>
        oRow'[Obs!Journal(b)] = oRow[Obs!Journal(b)]
  BY ObservedBusy DEF HoldInv, Held, OpPCs, Obs!UnderOperation, Mild
<1> QED
  BY <1>1, <1>2, <1>3 DEF RunnerInv, Mild

\* What a mild step has to show for the actor that takes it.
LEMMA RunKept ==
  ASSUME Obs!ObservedAssumption, HoldInv, RunInv, NEW a \in Actors, Mild(a), RunnerInv(a)',
         \/ oActor'[a].pc \notin Before \cup After
         \/ oActor[a].pc \in Before \cup After
         \/ ~ oSpent,
         \A j \in Journals : oRow'[j] = "committed" => oRow[j] = "committed" \/ oPerformed
  PROVE  RunInv'
<1>1. \A b \in Actors : RunnerInv(b)'
  BY OthersKept DEF RunInv
<1>2. OneSpender'
  BY DEF RunInv, RunnerInv, OneSpender, Mild, OneMoves
<1>3. CallsInv'
  BY DEF RunInv, CallsInv, Mild
<1> QED
  BY <1>1, <1>2, <1>3 DEF RunInv

\* The fields of an actor after its step.
LEMMA AfterMove ==
  ASSUME NEW a \in Actors
  PROVE  /\ \A pc : Goes(a, pc) => /\ OneMoves(a) /\ oActor'[a].pc = pc
                                   /\ oActor'[a].called = oActor[a].called
                                   /\ Obs!Journal(a)' = Obs!Journal(a)
         /\ \A result : Ends(a, result) => /\ OneMoves(a) /\ oActor'[a].pc = "idle"
                                           /\ oActor'[a].result = result
                                           /\ oActor'[a].called = oActor[a].called
         /\ \A pc, r, g, outcome :
              Starts(a, pc, r, g, outcome) =>
                OneMoves(a) /\ oActor'[a].pc = pc /\ oActor'[a].called = FALSE
BY DEF Goes, Ends, Starts, Obs!Receipt, Obs!Journal

LEMMA RunGenesis ==
  ASSUME Obs!ObservedAssumption, HoldInv, RunInv, NEW a \in Actors,
         \/ Obs!WriteMarker(a) \/ Obs!SpendGenesis(a) \/ Obs!RecordGenesis(a) \/ Obs!MakeStore(a)
         \/ Obs!SetCurrent(a) \/ Obs!ApplyReconciliation(a) \/ Obs!Crash(a)
  PROVE  RunInv'
<1>1. UNCHANGED <<oCalls, oPerformed, oSpent, oRow>>
  BY DEF Obs!WriteMarker, Obs!SpendGenesis, Obs!RecordGenesis, Obs!MakeStore, Obs!SetCurrent,
         Obs!ApplyReconciliation, Obs!RewriteMarker, Obs!Crash, Obs!journal, Obs!effect
<1>2. \/ /\ \E pc \in {"pending", "genesis_spent", "recorded", "making", "filled"} : Goes(a, pc)
         /\ oActor[a].pc \in Obs!Provisioning
      \/ Ends(a, "none")
  BY FileSteps
  DEF Obs!WriteMarker, Obs!SpendGenesis, Obs!RecordGenesis, Obs!MakeStore, Obs!Provisioning
<1>3. oActor[a].pc \in Obs!Provisioning => oActor[a].pc \notin After \cup {"idle"}
  BY DEF Obs!Provisioning, After
<1>4. /\ OneMoves(a)
      /\ \/ /\ oActor'[a].pc \in {"pending", "genesis_spent", "recorded", "making", "filled"}
            /\ oActor'[a].called = oActor[a].called
         \/ oActor'[a].pc = "idle" /\ oActor'[a].result = "none"
  BY <1>2, AfterMove
<1>5. oActor'[a].pc # "idle" => oActor'[a].called = FALSE
  BY <1>2, <1>3, <1>4, AfterMove DEF RunInv, RunnerInv
<1>6. RunnerInv(a)' /\ oActor'[a].pc \notin Before \cup After
  BY <1>4, <1>5 DEF RunnerInv, HonestOf, Before, After
<1> QED
  BY <1>1, <1>4, <1>6, RunKept DEF Mild

LEMMA RunSilent ==
  ASSUME Obs!ObservedAssumption, HoldInv, RunInv, NEW a \in Actors, Silent(a)
  PROVE  RunInv'
<1>1. UNCHANGED <<oCalls, oPerformed, oSpent, oRow>>
  BY SilentFiles DEF observedFiles
<1>2. SUFFICES /\ RunnerInv(a)' /\ OneMoves(a)
               /\ oActor'[a].pc \notin Before \cup After \/ oActor[a].pc \in Before \cup After
  BY <1>1, RunKept DEF Mild
<1>3. CASE Obs!Begin(a)
  <2>0. \E r, g, outcome :
          \/ \E pc \in {"provision", "run", "waiting", "recovering"} :
               Starts(a, pc, r, g, outcome)
          \/ Starts(a, "evidence", r, g, outcome) /\ oPerformed
    BY <1>3, BeginSteps DEF Obs!Begin, Obs!ReconcileEffect
  <2>1. /\ OneMoves(a) /\ oActor'[a].called = FALSE
        /\ \/ oActor'[a].pc \in {"provision", "run", "waiting", "recovering"}
           \/ oActor'[a].pc = "evidence" /\ oPerformed
    BY <2>0, AfterMove
  <2>2. RunnerInv(a)'
    BY <1>1, <2>1 DEF RunnerInv, Before, After
  <2> QED
    BY <2>1, <2>2 DEF Before, After
<1>4. CASE \/ Obs!BeginGenesis(a) \/ Obs!CompleteGenesis(a) \/ Obs!LeaseReconciliation(a)
           \/ Obs!LeaseOperation(a) \/ Obs!Eligible(a) \/ Obs!Admit(a)
  <2>1. /\ \E pc \in {"beginning", "completing", "reconciling", "leased", "eligible",
                      "admitted"} : Goes(a, pc)
        /\ oActor[a].pc \in {"eligible", "recorded", "waiting", "admitted", "provision", "run"}
    BY <1>4, QuietSteps, OperationHolds
    DEF Obs!BeginGenesis, Obs!CompleteGenesis, Obs!LeaseReconciliation, Obs!LeaseOperation,
        Obs!Eligible, Obs!Admit
  <2>2. oActor[a].called = FALSE
    BY <2>1 DEF RunInv, RunnerInv, After
  <2> QED
    BY <2>1, <2>2, AfterMove DEF RunnerInv, Before, After
<1>5. CASE Obs!EffectReturns(a) \/ Obs!CheckAfterEffect(a)
  <2>1. /\ oActor[a].pc \in {"calling", "effected"}
        /\ \/ Goes(a, "effected") /\ oPerformed
           \/ Goes(a, "stable") /\ oActor[a].pc = "effected"
           \/ Goes(a, "marking")
    <3>1. ASSUME Obs!EffectReturns(a), Goes(a, "effected")
          PROVE  oPerformed
      <4>1. oActor[a].pc = "calling" /\ (oPerformed \/ Obs!Proceed(a, "marking"))
        BY <3>1 DEF Obs!EffectReturns
      <4>2. Obs!Proceed(a, "marking") => Goes(a, "marking")
        BY <4>1, GoesFacts
        DEF Obs!Proceed, ObservedPCs, Obs!Steps, Obs!Running, Obs!UnderOperation
      <4> QED
        BY <3>1, <4>1, <4>2 DEF Goes
    <3> QED
      BY <1>5, <3>1, QuietSteps DEF Obs!EffectReturns, Obs!CheckAfterEffect
  <2>2. /\ OneMoves(a) /\ Obs!Journal(a)' = Obs!Journal(a)
        /\ oActor'[a].pc \in {"effected", "stable", "marking"}
        /\ oActor'[a].pc \in {"effected", "stable"} => oPerformed
    <3>1. oActor[a].pc = "effected" => oPerformed
      BY DEF RunInv, RunnerInv
    <3>2. CASE Goes(a, "effected") /\ oPerformed
      BY <3>2, AfterMove
    <3>3. CASE Goes(a, "stable") /\ oActor[a].pc = "effected"
      BY <3>1, <3>3, AfterMove
    <3>4. CASE Goes(a, "marking")
      <4>1. OneMoves(a) /\ oActor'[a].pc = "marking" /\ Obs!Journal(a)' = Obs!Journal(a)
        BY <3>4, AfterMove
      <4> QED
        BY <4>1
    <3> QED
      BY <2>1, <3>2, <3>3, <3>4
  <2>3. /\ oSpent /\ oCalls = 1
        /\ oRow[Obs!Journal(a)] = "in_progress"
    BY <2>1 DEF RunInv, RunnerInv, After
  <2>4. RunnerInv(a)'
    BY <1>1, <2>2, <2>3 DEF RunnerInv, Before, After
  <2> QED
    BY <2>1, <2>2, <2>4 DEF After
<1>6. CASE Obs!Refuse(a) \/ Obs!Abort(a)
  <2>1. (Ends(a, "refused") /\ oActor[a].called = FALSE) \/ Ends(a, "none")
    BY <1>6, FileSteps, RunSteps DEF Obs!Refuse, RunInv, RunnerInv, After
  <2>2. /\ OneMoves(a) /\ oActor'[a].pc = "idle"
        /\ \/ oActor'[a].result = "refused" /\ oActor'[a].called = FALSE
           \/ oActor'[a].result = "none"
    BY <2>1, AfterMove
  <2>3. RunnerInv(a)'
    BY <2>2 DEF RunnerInv, HonestOf, Before, After
  <2> QED
    BY <2>2, <2>3 DEF Before, After
<1> QED
  BY <1>3, <1>4, <1>5, <1>6 DEF Silent, Obs!Acquire

LEMMA RunSpend ==
  ASSUME Obs!ObservedAssumption, HoldInv, RunInv, NEW a \in Actors, Obs!SpendOperation(a)
  PROVE  RunInv'
<1>1. /\ UNCHANGED <<oCalls, oPerformed, oRow>> /\ ~ oSpent /\ oSpent' = TRUE
      /\ oActor[a].pc = "leased"
  BY DEF Obs!SpendOperation, Obs!journal, Obs!effect
<1>2. oCalls = 0 /\ oActor[a].called = FALSE
  BY <1>1 DEF RunInv, CallsInv, RunnerInv, After
<1>3. /\ OneMoves(a) /\ oActor'[a].called = FALSE
      /\ oActor'[a].pc = "spent" \/ (oActor'[a].pc = "idle" /\ oActor'[a].result = "refused")
  BY <1>2, RunSteps, AfterMove
<1>4. RunnerInv(a)'
  BY <1>1, <1>2, <1>3 DEF RunnerInv, HonestOf, Before, After
<1> QED
  BY <1>1, <1>3, <1>4, RunKept DEF Mild

\* The row an actor writes under the lease of the operation.
LEMMA RowKept ==
  ASSUME Obs!ObservedAssumption, HoldInv, ObservedTypes, NEW a \in Actors, oActor[a].pc \in OpPCs,
         NEW from, NEW to, Obs!Transact(a, from, to), "committed" \notin from
  PROVE  /\ Obs!Journal(a) \in Journals /\ oRow'[Obs!Journal(a)] = to
         /\ \A j \in Journals : oRow'[j] # oRow[j] => oOpLock[j] = a /\ oRow[j] # "committed"
         /\ \A j \in Journals :
              oRow'[j] = "committed" => oRow[j] = "committed" \/ to = "committed"
<1>1. Obs!Journal(a) \in Journals /\ oOpLock[Obs!Journal(a)] = a
  BY ObservedBusy DEF OpPCs, Obs!UnderOperation, HoldInv, Held
<1> QED
  BY <1>1 DEF Obs!Transact, ObservedTypes

LEMMA RunRow ==
  ASSUME Obs!ObservedAssumption, HoldInv, ObservedTypes, RunInv, NEW a \in Actors,
         Obs!ClaimRow(a) \/ Obs!BeginEffect(a)
  PROVE  RunInv'
<1>1. /\ UNCHANGED <<oCalls, oPerformed, oSpent>>
      /\ oActor[a].pc \in {"spent", "claimed"}
  BY DEF Obs!ClaimRow, Obs!BeginEffect, Obs!effect
<1>2. oActor[a].pc \in OpPCs /\ oActor[a].called = FALSE /\ oSpent /\ oCalls = 0
  BY <1>1 DEF OpPCs, Obs!UnderOperation, RunInv, RunnerInv, Before, After
<1>3. /\ OneMoves(a) /\ oActor'[a].called = FALSE
      /\ \/ oActor'[a].pc \in {"claimed", "begun"} /\ Obs!Journal(a)' = Obs!Journal(a)
         \/ oActor'[a].pc = "idle" /\ oActor'[a].result = "refused"
  BY <1>2, RunSteps, AfterMove
<1>4. PICK from \in {{"none"}, {"claimed"}}, to \in {"claimed", "in_progress"} :
        Obs!Transact(a, from, to)
  BY DEF Obs!ClaimRow, Obs!BeginEffect
<1>5. /\ \A j \in Journals : oRow'[j] # oRow[j] => oOpLock[j] = a /\ oRow[j] # "committed"
      /\ \A j \in Journals : oRow'[j] = "committed" => oRow[j] = "committed"
  BY <1>2, <1>4, RowKept
<1>6. oActor'[a].pc = "begun" => oRow'[Obs!Journal(a)] = "in_progress"
  <2>1. ASSUME Obs!ClaimRow(a)
        PROVE  oActor'[a].pc # "begun"
    <3>1. Goes(a, "claimed") \/ Ends(a, "refused")
      BY <2>1, RunSteps
    <3>2. oActor'[a].pc = "claimed" \/ oActor'[a].pc = "idle"
      BY <3>1, AfterMove
    <3> QED
      BY <3>2
  <2>2. ASSUME Obs!BeginEffect(a)
        PROVE  oRow'[Obs!Journal(a)] = "in_progress"
    BY <1>2, <2>2, RowKept DEF Obs!BeginEffect
  <2> QED
    BY <2>1, <2>2
<1>7. RunnerInv(a)'
  BY <1>1, <1>2, <1>3, <1>6 DEF RunnerInv, HonestOf, Before, After
<1> QED
  BY <1>1, <1>2, <1>3, <1>5, <1>7, RunKept DEF Mild, Before

\* The one call: the spender finds that nobody called before.
LEMMA RunCall ==
  ASSUME Obs!ObservedAssumption, HoldInv, RunInv, NEW a \in Actors, Obs!CallEffect(a)
  PROVE  RunInv'
<1>1. /\ oCalls' = oCalls + 1 /\ UNCHANGED <<oSpent, oRow, oPerformed>> /\ oActor[a].pc = "begun"
  BY DEF Obs!CallEffect, Obs!journal
<1>2. /\ oCalls = 0 /\ oSpent /\ oRow[Obs!Journal(a)] = "in_progress"
  BY <1>1 DEF RunInv, RunnerInv, Before
<1>3. OneMoves(a) /\ oActor'[a].pc = "calling" /\ Obs!Journal(a)' = Obs!Journal(a)
  BY CallHolds DEF Calls, Obs!Receipt, Obs!Journal
<1>4. ASSUME NEW b \in Actors, b # a
      PROVE  RunnerInv(b)'
  <2>1. oActor'[b] = oActor[b] /\ RunnerInv(b) /\ Obs!Journal(b)' = Obs!Journal(b)
    BY <1>3, <1>4 DEF OneMoves, RunInv, Obs!Receipt, Obs!Journal
  <2>2. oActor[b].pc \notin Before \cup After
    BY <1>1, <1>4 DEF RunInv, OneSpender, Before
  <2>3. HonestOf(b) => HonestOf(b)'
    BY <1>1, <2>1 DEF HonestOf
  <2> QED
    BY <1>1, <2>1, <2>2, <2>3 DEF RunnerInv
<1>5. RunnerInv(a)'
  BY <1>1, <1>2, <1>3 DEF RunnerInv, Before, After
<1>6. OneSpender'
  BY <1>1, <1>3 DEF RunInv, OneSpender, OneMoves, Before
<1>7. CallsInv'
  BY <1>1, <1>2 DEF RunInv, CallsInv
<1> QED
  BY <1>4, <1>5, <1>6, <1>7 DEF RunInv

LEMMA RunCommit ==
  ASSUME Obs!ObservedAssumption, HoldInv, ObservedTypes, RunInv, NEW a \in Actors,
         Obs!CommitEffect(a) \/ Obs!MarkAmbiguous(a)
  PROVE  RunInv'
<1>1. /\ UNCHANGED <<oCalls, oPerformed, oSpent>>
      /\ oActor[a].pc \in {"stable", "marking"}
  BY DEF Obs!CommitEffect, Obs!MarkAmbiguous, Obs!effect
<1>2. /\ oActor[a].pc \in OpPCs /\ oSpent /\ oCalls = 1
      /\ oActor[a].pc = "stable" => oPerformed
  BY <1>1 DEF OpPCs, Obs!UnderOperation, RunInv, RunnerInv, Before, After
<1>3. \/ UNCHANGED oRow
      \/ Obs!Transact(a, {"in_progress"}, "committed") /\ oActor[a].pc = "stable"
      \/ Obs!Transact(a, {"in_progress"}, "failed")
  BY DEF Obs!CommitEffect, Obs!MarkAmbiguous, Obs!Fail
<1>4. /\ \A j \in Journals : oRow'[j] # oRow[j] => oOpLock[j] = a /\ oRow[j] # "committed"
      /\ \A j \in Journals : oRow'[j] = "committed" => oRow[j] = "committed" \/ oPerformed
  BY <1>2, <1>3, RowKept
<1>5. \/ Goes(a, "marking")
      \/ Ends(a, "ambiguous")
      \/ /\ Obs!Transact(a, {"in_progress"}, "committed") /\ oActor[a].pc = "stable"
         /\ Ends(a, "receipt") \/ Ends(a, "unconfirmed")
  BY RunSteps DEF Obs!CommitEffect
<1>6. OneMoves(a) /\ RunnerInv(a)'
  <2>1. CASE Goes(a, "marking")
    <3>1. OneMoves(a) /\ oActor'[a].pc = "marking"
      BY <2>1, AfterMove
    <3> QED
      BY <1>1, <1>2, <3>1 DEF RunnerInv, Before, After
  <2>2. CASE Ends(a, "ambiguous")
    <3>1. OneMoves(a) /\ oActor'[a].pc = "idle" /\ oActor'[a].result = "ambiguous"
      BY <2>2, AfterMove
    <3> QED
      BY <3>1 DEF RunnerInv, HonestOf, Before, After
  <2>3. CASE /\ Obs!Transact(a, {"in_progress"}, "committed") /\ oActor[a].pc = "stable"
             /\ Ends(a, "receipt") \/ Ends(a, "unconfirmed")
    <3>1. /\ OneMoves(a) /\ oActor'[a].pc = "idle"
          /\ oActor'[a].result \in {"receipt", "unconfirmed"}
      BY <2>3, AfterMove
    <3>2. \E j \in Journals : oRow'[j] = "committed"
      BY <1>2, <2>3, RowKept
    <3>3. oPerformed'
      BY <1>1, <1>2, <2>3
    <3> QED
      BY <3>1, <3>2, <3>3 DEF RunnerInv, HonestOf, Before, After
  <2> QED
    BY <1>5, <2>1, <2>2, <2>3
<1> QED
  BY <1>1, <1>4, <1>6, RunKept DEF Mild, Before, After

LEMMA RunResolve ==
  ASSUME Obs!ObservedAssumption, HoldInv, ObservedTypes, RunInv, NEW a \in Actors,
         Obs!ResolveRow(a)
  PROVE  RunInv'
<1>1. /\ UNCHANGED <<oCalls, oPerformed, oSpent>>
      /\ \/ Obs!Transact(a, {"claimed", "in_progress"}, "failed")
         \/ Obs!Transact(a, {"in_progress", "failed"}, "committed") /\ oActor[a].pc = "evidence"
      /\ oActor[a].pc \in OpPCs
  BY DEF Obs!ResolveRow, Obs!effect, Obs!Reconcilables, OpPCs
<1>2. oActor[a].pc = "evidence" => oPerformed
  BY DEF RunInv, RunnerInv
<1>3. /\ \A j \in Journals : oRow'[j] # oRow[j] => oOpLock[j] = a /\ oRow[j] # "committed"
      /\ \A j \in Journals : oRow'[j] = "committed" => oRow[j] = "committed" \/ oPerformed
  BY <1>1, <1>2, RowKept
<1>4. OneMoves(a) /\ oActor'[a].pc = "idle" /\ oActor'[a].result = "none"
  BY FileSteps, AfterMove
<1>5. RunnerInv(a)'
  BY <1>4 DEF RunnerInv, HonestOf, Before, After
<1> QED
  BY <1>1, <1>3, <1>4, <1>5, RunKept DEF Mild, Before, After

LEMMA RunWorld ==
  ASSUME HoldInv, ObservedTypes, RunInv,
         Obs!Perform \/ Obs!StagesMove \/ \E r, s \in Roots : Obs!CopyRoot(r, s)
  PROVE  RunInv'
<1>1. UNCHANGED <<oActor, oRootLock, oIdLock, oOpLock>>
  BY World
<1>2. /\ UNCHANGED <<oSpent, oRow, oCalls>>
      /\ oPerformed' = oPerformed \/ (oPerformed' = TRUE /\ oCalls > 0)
  BY DEF Obs!Perform, Obs!StagesMove, Obs!CopyRoot, Obs!journal, Obs!effect
<1>3. oCalls > 0 => oCalls = 1
  BY DEF RunInv, CallsInv
<1>4. \A a \in Actors : HonestOf(a) => HonestOf(a)'
  BY <1>1, <1>2 DEF HonestOf
<1>5. \A a \in Actors : RunnerInv(a)'
  BY <1>1, <1>2, <1>4 DEF RunInv, RunnerInv, Obs!Receipt, Obs!Journal
<1>6. OneSpender' /\ CallsInv'
  BY <1>1, <1>2, <1>3 DEF RunInv, OneSpender, CallsInv
<1> QED
  BY <1>5, <1>6 DEF RunInv

LEMMA RunStep ==
  ASSUME Obs!ObservedAssumption, Obs!TypeOK, RunInv, [Obs!Next]_(Obs!vars)
  PROVE  RunInv'
<1>1. HoldInv /\ ObservedTypes
  BY ObservedTypeParts
<1>2. CASE \E a \in Actors : Obs!Begin(a) \/ Obs!Advance(a) \/ Obs!Acquire(a) \/ Obs!Crash(a)
  BY <1>1, <1>2, StepsOfAnActor, RunGenesis, RunSilent, RunSpend, RunRow, RunCall, RunCommit,
     RunResolve
<1>3. CASE Obs!Perform \/ Obs!StagesMove \/ \E r, s \in Roots : Obs!CopyRoot(r, s)
  BY <1>1, <1>3, RunWorld
<1>4. CASE UNCHANGED Obs!vars
  <2>1. UNCHANGED <<oActor, oSpent, oRow, oCalls, oPerformed>>
    BY <1>4 DEF Obs!vars, Obs!journal, Obs!effect
  <2>2. \A a \in Actors : HonestOf(a) => HonestOf(a)'
    BY <2>1 DEF HonestOf
  <2>3. \A a \in Actors : RunnerInv(a)'
    BY <2>1, <2>2 DEF RunInv, RunnerInv, Obs!Receipt, Obs!Journal
  <2> QED
    BY <2>1, <2>3 DEF RunInv, OneSpender, CallsInv
<1> QED
  BY <1>2, <1>3, <1>4 DEF Obs!Next

-----------------------------------------------------------------------------
ObservedInv == Obs!TypeOK /\ ObservedGenesis /\ RunInv

LEMMA ObservedInit == ASSUME Obs!ObservedAssumption, Obs!Init PROVE ObservedInv
<1>1. Obs!TypeOK
  BY ObservedTypeInit
<1>2. \A a \in Actors : /\ oActor[a].pc = "idle" /\ oActor[a].result = "none"
  BY DEF Obs!Init, Obs!Idle, Obs!Task
<1>3. ObservedGenesis
  <2>1. \A a \in Actors : MakerInv(a)
    BY <1>2 DEF MakerInv, Spending
  <2>2. \A j \in Journals : JournalInv(j)
    BY MarkFields DEF Obs!Init, JournalInv
  <2> QED
    BY <2>1, <2>2 DEF ObservedGenesis
<1>4. RunInv
  <2>1. \A a \in Actors : RunnerInv(a)
    BY <1>2 DEF RunnerInv, HonestOf, Before, After
  <2>2. OneSpender /\ CallsInv
    BY <1>2 DEF OneSpender, CallsInv, Obs!Init, Before, After
  <2> QED
    BY <2>1, <2>2 DEF RunInv
<1> QED
  BY <1>1, <1>3, <1>4 DEF ObservedInv

LEMMA ObservedIsObserved == OneSpec => Obs!Spec
<1>1. OneInit => Obs!Init
  BY DEF OneInit
<1>2. [OneNext]_<<at, vars, observedVars, leaseVars>> => [Obs!Next]_(Obs!vars)
  <2>0. UNCHANGED observedVars => UNCHANGED Obs!vars
    BY DEF observedVars, Obs!vars, Obs!journal, Obs!leases, Obs!effect
  <2> QED
    BY <2>0 DEF OneNext
<1> QED
  BY <1>1, <1>2, PTL DEF OneSpec, Obs!Spec

LEMMA ObservedCorrect == OneSpec => []ObservedInv
<1>1. Obs!Init => ObservedInv
  BY ObservedConstants, ObservedInit
<1>2. ObservedInv /\ [Obs!Next]_(Obs!vars) => ObservedInv'
  BY ObservedConstants, ObservedTypeStep, GenesisStep, RunStep DEF ObservedInv
<1> QED
  BY ObservedIsObserved, <1>1, <1>2, PTL DEF Obs!Spec

\* A journal that admits runs was made for one receipt whose genesis was
\* spent, whole, and after the stages it depends on (_provision_journal,
\* reconcile_genesis).
THEOREM ObservedComplete == OneSpec => []ObservedCurrentIsComplete
<1>1. ObservedInv => ObservedCurrentIsComplete
  BY DEF ObservedInv, ObservedGenesis, JournalInv, OnRecord, ObservedCurrentIsComplete,
         Obs!CurrentIsComplete
<1> QED
  BY ObservedCorrect, <1>1, PTL

\* A committed row is backed by the one effect, which happened, whether the
\* run committed it or signed evidence did (_commit_effect,
\* reconcile_ambiguous_effect).
THEOREM CommittedPerformed == OneSpec => []CommittedIsPerformed
<1>1. ObservedInv => CommittedIsPerformed
  BY DEF ObservedInv, RunInv, CallsInv, CommittedIsPerformed, Obs!CommittedIsPerformed
<1> QED
  BY ObservedCorrect, <1>1, PTL

\* No recovery and no reconciliation moves the row of a run that is under way
\* (OperationLease).
THEOREM LiveKept == OneSpec => []LiveEffectKeepsItsRow
<1>1. ObservedInv => LiveEffectKeepsItsRow
  BY DEF ObservedInv, RunInv, RunnerInv, LiveEffectKeepsItsRow, Obs!LiveEffectKeepsItsRow
<1> QED
  BY ObservedCorrect, <1>1, PTL

\* What a run reports is true: its receipt, its refusal, and an error after
\* the commit (_run_observed_authorization).
THEOREM ReportsHonest == OneSpec => []ResultsAreHonest
<1>1. ObservedInv => ResultsAreHonest
  BY DEF ObservedInv, RunInv, RunnerInv, HonestOf, ResultsAreHonest, Obs!ResultsAreHonest
<1> QED
  BY ObservedCorrect, <1>1, PTL
-----------------------------------------------------------------------------
(* ControlLeases: what a run holds and what it has seen *)

\* The invariant of a run: which leases it holds, where its row is, and how
\* what it has seen relates to what capabilities report now.
ReleasedUpTo(n) ==
  /\ \A i \in 1..Len(Ctl!Releases(lStage)) :
       lReleased[Ctl!Releases(lStage)[i]] =
         IF Ctl!Releases(lStage)[i] \in lAcquired /\ i <= n THEN 1 ELSE 0
  /\ \A c \in Ctl!Capabilities \ Ctl!ToSet(Ctl!Releases(lStage)) : lReleased[c] = 0

NothingReleased == \A c \in Ctl!Capabilities : lReleased[c] = 0

Holding == {"inspect", "recheck", "claim", "begun", "recheck_after", "commit", "fail"}

HeldInv ==
  /\ lPc = "acquire" => lAcquired = {Ctl!Leases(lStage)[i] : i \in 1..lK} /\ NothingReleased
  /\ lPc \in Holding => lAcquired = Ctl!ToSet(Ctl!Leases(lStage)) /\ NothingReleased
  /\ lPc = "release" => lAcquired \subseteq Ctl!ToSet(Ctl!Leases(lStage)) /\ ReleasedUpTo(lK)
  /\ Ctl!EveryLeaseIsExited

RowInv ==
  /\ lPc \in {"acquire", "inspect", "recheck", "claim"} => lRow = "none"
  /\ lPc \in {"begun", "recheck_after", "commit"} => lRow = "in_progress"

DriftInv ==
  /\ \A c \in Ctl!Capabilities : lSeen[c] <= lVersion[c] /\ lAtReturn[c] <= lVersion[c]
  /\ lPc = "recheck_after" =>
        /\ \A c \in Ctl!Capabilities : lSeen[c] <= lAtReturn[c]
        /\ \A i \in 1..lK :
             lAtReturn[Ctl!ChecksAfter(lStage)[i]] = lSeen[Ctl!ChecksAfter(lStage)[i]]
  /\ lPc = "commit" \/ lRow = "committed" =>
        \A c \in Ctl!ToSet(Ctl!ChecksAfter(lStage)) : lAtReturn[c] = lSeen[c]

ControlInv == Ctl!TypeOK /\ HeldInv /\ RowInv /\ DriftInv

-----------------------------------------------------------------------------
(* The sequences of the stages *)

LEMMA LeaseSequences ==
  ASSUME NEW s \in Ctl!StageNames
  PROVE  /\ Ctl!Leases(s) \in Seq(Ctl!Capabilities) /\ Len(Ctl!Leases(s)) \in 1..4
         /\ Ctl!Releases(s) \in Seq(Ctl!Capabilities) /\ Len(Ctl!Releases(s)) = Len(Ctl!Leases(s))
         /\ Ctl!ToSet(Ctl!Releases(s)) = Ctl!ToSet(Ctl!Leases(s))
         /\ \A i, j \in 1..Len(Ctl!Releases(s)) : Ctl!Releases(s)[i] = Ctl!Releases(s)[j] => i = j
<1>1. CASE s = "allocate"
  BY <1>1 DEF Ctl!Leases, Ctl!Releases, Ctl!Capabilities, Ctl!Bound, Ctl!ToSet
<1>2. CASE s = "materialize"
  BY <1>2 DEF Ctl!Leases, Ctl!Releases, Ctl!Capabilities, Ctl!Bound, Ctl!ToSet
<1>3. CASE s = "start"
  BY <1>3 DEF Ctl!Leases, Ctl!Releases, Ctl!Capabilities, Ctl!Bound, Ctl!ToSet
<1>4. CASE s = "observe"
  BY <1>4 DEF Ctl!Leases, Ctl!Releases, Ctl!Capabilities, Ctl!Bound, Ctl!ToSet
<1> QED
  BY <1>1, <1>2, <1>3, <1>4 DEF Ctl!StageNames

LEMMA CheckSequences ==
  ASSUME NEW s \in Ctl!StageNames
  PROVE  /\ Ctl!Checks(s) \in Seq(Ctl!Capabilities)
         /\ Ctl!ChecksAfter(s) \in Seq(Ctl!Capabilities)
         /\ \A c \in Ctl!ToSet(Ctl!Checks(s)) :
              \/ c \in Ctl!ToSet(Ctl!ChecksAfter(s))
              \/ c = "provider" /\ s \in {"allocate", "observe"}
<1>1. CASE s = "allocate"
  BY <1>1 DEF Ctl!Checks, Ctl!ChecksAfter, Ctl!Capabilities, Ctl!Bound, Ctl!ToSet
<1>2. CASE s = "materialize"
  <2>1. /\ Ctl!Checks(s) = <<"provider", "executor", "login", "secret", "delivery">>
        /\ Ctl!ChecksAfter(s) = <<"provider", "executor", "secret", "login", "delivery">>
    BY <1>2 DEF Ctl!Checks, Ctl!ChecksAfter
  <2>2. Ctl!Checks(s) \in Seq(Ctl!Capabilities) /\ Ctl!ChecksAfter(s) \in Seq(Ctl!Capabilities)
    BY <2>1 DEF Ctl!Capabilities, Ctl!Bound
  <2>3. Ctl!ToSet(Ctl!Checks(s)) = {"provider", "executor", "login", "secret", "delivery"}
    BY <2>1 DEF Ctl!ToSet
  <2>4. Ctl!ToSet(Ctl!ChecksAfter(s)) = {"provider", "executor", "secret", "login", "delivery"}
    BY <2>1 DEF Ctl!ToSet
  <2> QED
    BY <2>2, <2>3, <2>4
<1>3. CASE s = "start"
  <2>1. /\ Ctl!Checks(s) = <<"provider", "executor", "secret", "delivery", "remote">>
        /\ Ctl!ChecksAfter(s) = <<"provider", "executor", "secret", "delivery", "remote">>
    BY <1>3 DEF Ctl!Checks, Ctl!ChecksAfter
  <2>2. Ctl!Checks(s) \in Seq(Ctl!Capabilities) /\ Ctl!ChecksAfter(s) \in Seq(Ctl!Capabilities)
    BY <2>1 DEF Ctl!Capabilities, Ctl!Bound
  <2>3. Ctl!ToSet(Ctl!Checks(s)) = {"provider", "executor", "secret", "delivery", "remote"}
    BY <2>1 DEF Ctl!ToSet
  <2>4. Ctl!ToSet(Ctl!ChecksAfter(s)) = {"provider", "executor", "secret", "delivery", "remote"}
    BY <2>1 DEF Ctl!ToSet
  <2> QED
    BY <2>2, <2>3, <2>4
<1>4. CASE s = "observe"
  BY <1>4 DEF Ctl!Checks, Ctl!ChecksAfter, Ctl!Capabilities, Ctl!Bound, Ctl!ToSet
<1> QED
  BY <1>1, <1>2, <1>3, <1>4 DEF Ctl!StageNames

LEMMA LeaseLengths ==
  ASSUME NEW s \in Ctl!StageNames
  PROVE  /\ Len(Ctl!Leases(s)) \in 1..4 /\ Len(Ctl!Releases(s)) = Len(Ctl!Leases(s))
         /\ Len(Ctl!Checks(s)) \in Nat /\ Len(Ctl!ChecksAfter(s)) \in Nat
         /\ \A i \in 1..Len(Ctl!Leases(s)) : Ctl!Leases(s)[i] \in Ctl!Capabilities
         /\ \A i \in 1..Len(Ctl!Releases(s)) : Ctl!Releases(s)[i] \in Ctl!Capabilities
         /\ \A i \in 1..Len(Ctl!Checks(s)) : Ctl!Checks(s)[i] \in Ctl!Capabilities
         /\ \A i \in 1..Len(Ctl!ChecksAfter(s)) : Ctl!ChecksAfter(s)[i] \in Ctl!Capabilities
BY LeaseSequences, CheckSequences

-----------------------------------------------------------------------------
(* Types *)

LEMMA LeaseTypeInit ==
  ASSUME Ctl!LeasesAssumption, Ctl!Init
  PROVE  Ctl!TypeOK
BY LeaseLengths
DEF Ctl!LeasesAssumption, Ctl!Init, Ctl!TypeOK, Ctl!StageNames, Ctl!Rows, Ctl!Results

LEMMA LeaseTypeStep ==
  ASSUME Ctl!LeasesAssumption, Ctl!TypeOK, [Ctl!Next]_(Ctl!vars)
  PROVE  Ctl!TypeOK'
<1>1. CASE UNCHANGED Ctl!vars
  BY <1>1 DEF Ctl!vars, Ctl!TypeOK
<1>2. CASE Ctl!Begin
  BY <1>2, LeaseLengths
  DEF Ctl!LeasesAssumption, Ctl!Begin, Ctl!Go, Ctl!TypeOK, Ctl!Rows, Ctl!Results, Ctl!Steps
<1>3. CASE Ctl!Acquire
  <2>1. lStage \in Ctl!StageNames /\ lK \in 0..Len(Ctl!Leases(lStage))
    BY <1>3 DEF Ctl!TypeOK, Ctl!Acquire
  <2>2. CASE /\ lK < Len(Ctl!Leases(lStage))
             /\ lAcquired' = lAcquired \cup {Ctl!Leases(lStage)[lK + 1]}
             /\ lK' = lK + 1 /\ UNCHANGED <<lPc, lResult>>
    <3>1. lK' \in 0..Len(Ctl!Leases(lStage)) /\ Ctl!Leases(lStage)[lK + 1] \in Ctl!Capabilities
      BY <2>1, <2>2, LeaseLengths
    <3> QED
      BY <1>3, <2>2, <3>1 DEF Ctl!Acquire, Ctl!TypeOK
  <2>3. CASE Ctl!AcquireFailed /\ UNCHANGED lAcquired
    BY <1>3, <2>1, <2>3, LeaseLengths
    DEF Ctl!Acquire, Ctl!AcquireFailed, Ctl!Unwind, Ctl!Go, Ctl!TypeOK, Ctl!Results, Ctl!Steps
  <2>4. CASE Ctl!Go("inspect") /\ UNCHANGED <<lAcquired, lResult>>
    BY <1>3, <2>1, <2>4, LeaseLengths DEF Ctl!Acquire, Ctl!Go, Ctl!TypeOK, Ctl!Steps
  <2> QED
    BY <1>3, <2>2, <2>3, <2>4 DEF Ctl!Acquire
<1>4. CASE Ctl!Inspect
  <2>1. lStage \in Ctl!StageNames /\ lK \in 0..Len(Ctl!Checks(lStage))
    BY <1>4 DEF Ctl!TypeOK, Ctl!Inspect
  <2>2. CASE lK < Len(Ctl!Checks(lStage)) /\ lK' = lK + 1 /\ UNCHANGED <<lPc, lResult>>
             /\ lSeen' =
                  [lSeen EXCEPT ![Ctl!Checks(lStage)[lK + 1]] = lVersion[Ctl!Checks(lStage)[lK + 1]]]
    <3>1. lK' \in 0..Len(Ctl!Checks(lStage)) /\ Ctl!Checks(lStage)[lK + 1] \in Ctl!Capabilities
      BY <2>1, <2>2, LeaseLengths
    <3>2. lSeen' \in [Ctl!Capabilities -> 0..MaxDrift]
      BY <2>2, <3>1 DEF Ctl!TypeOK
    <3> QED
      BY <1>4, <2>2, <3>1, <3>2 DEF Ctl!Inspect, Ctl!TypeOK
  <2>3. CASE Ctl!Go("recheck") /\ UNCHANGED <<lSeen, lResult>>
    BY <1>4, <2>1, <2>3, LeaseLengths DEF Ctl!Inspect, Ctl!Go, Ctl!TypeOK, Ctl!Steps
  <2>4. CASE Ctl!Unwind("refused") /\ UNCHANGED lSeen
    BY <1>4, <2>1, <2>4, LeaseLengths
    DEF Ctl!Inspect, Ctl!Unwind, Ctl!Go, Ctl!TypeOK, Ctl!Results, Ctl!Steps
  <2> QED
    BY <1>4, <2>2, <2>3, <2>4 DEF Ctl!Inspect
<1>5. CASE Ctl!Recheck
  BY <1>5, LeaseLengths DEF Ctl!Recheck, Ctl!Unwind, Ctl!Go, Ctl!TypeOK, Ctl!Results, Ctl!Steps
<1>6. CASE Ctl!BeginRow
  BY <1>6, LeaseLengths
  DEF Ctl!BeginRow, Ctl!Unwind, Ctl!Go, Ctl!TypeOK, Ctl!Rows, Ctl!Results, Ctl!Steps
<1>7. CASE Ctl!CallEffect
  BY <1>7, LeaseLengths DEF Ctl!CallEffect, Ctl!Go, Ctl!TypeOK, Ctl!Steps
<1>8. CASE Ctl!RecheckAfter
  BY <1>8, LeaseLengths DEF Ctl!RecheckAfter, Ctl!Go, Ctl!TypeOK, Ctl!Steps
<1>9. CASE Ctl!Commit
  BY <1>9, LeaseLengths
  DEF Ctl!Commit, Ctl!Unwind, Ctl!Go, Ctl!TypeOK, Ctl!Rows, Ctl!Results, Ctl!Steps
<1>10. CASE Ctl!MarkAmbiguous
  BY <1>10, LeaseLengths
  DEF Ctl!MarkAmbiguous, Ctl!Unwind, Ctl!Go, Ctl!TypeOK, Ctl!Rows, Ctl!Results, Ctl!Steps
<1>11. CASE Ctl!Release
  <2>1. lStage \in Ctl!StageNames /\ lK' \in 0..Len(Ctl!Leases(lStage))
        /\ Ctl!Releases(lStage)[lK + 1] \in Ctl!Capabilities
    BY <1>11, LeaseLengths DEF Ctl!Release, Ctl!TypeOK
  <2>2. /\ lPc' = lPc
        /\ \/ lReleased' = lReleased
           \/ lReleased' = [lReleased EXCEPT ![Ctl!Releases(lStage)[lK + 1]] = @ + 1]
    BY <1>11 DEF Ctl!Release, Ctl!Continue
  <2>5. lReleased' \in [Ctl!Capabilities -> Nat]
    <3>1. lReleased \in [Ctl!Capabilities -> Nat]
      BY DEF Ctl!TypeOK
    <3> QED
      BY <2>1, <2>2, <3>1
  <2>3. \/ \E ok \in BOOLEAN : lReleasesOk' = (lReleasesOk /\ ok)
        \/ lReleasesOk' = lReleasesOk
    BY <1>11 DEF Ctl!Release
  <2>4. lReleasesOk' \in BOOLEAN
    BY <2>3 DEF Ctl!TypeOK
  <2> QED
    BY <1>11, <2>1, <2>2, <2>4, <2>5 DEF Ctl!Release, Ctl!TypeOK
<1>12. CASE Ctl!Return
  BY <1>12, LeaseLengths DEF Ctl!Return, Ctl!Report, Ctl!Go, Ctl!TypeOK, Ctl!Results
<1>13. CASE Ctl!Interrupt
  BY <1>13, LeaseLengths DEF Ctl!Interrupt, Ctl!Unwind, Ctl!Go, Ctl!TypeOK, Ctl!Results, Ctl!Steps
<1>14. ASSUME NEW c \in Ctl!Capabilities, Ctl!Drift(c)
       PROVE  Ctl!TypeOK'
  BY <1>14 DEF Ctl!LeasesAssumption, Ctl!Drift, Ctl!TypeOK
<1>15. CASE Ctl!InterruptRelease
  <2>1. lReleased' \in [Ctl!Capabilities -> Nat]
    <3>1. lStage \in Ctl!StageNames /\ lReleased \in [Ctl!Capabilities -> Nat]
      BY DEF Ctl!TypeOK
    <3>2. Ctl!Releases(lStage)[lK + 1] \in Ctl!Capabilities
      <4>1. lK \in Nat /\ lK < Len(Ctl!Releases(lStage))
        BY <1>15, <3>1, LeaseLengths DEF Ctl!InterruptRelease, Ctl!TypeOK
      <4>2. Len(Ctl!Releases(lStage)) \in Nat
        BY <3>1, LeaseLengths
      <4>3. lK + 1 \in 1..Len(Ctl!Releases(lStage))
        BY <4>1, <4>2
      <4> QED
        BY <3>1, <4>3, LeaseLengths
    <3>3. \/ lReleased' = lReleased
          \/ lReleased' = [lReleased EXCEPT ![Ctl!Releases(lStage)[lK + 1]] = @ + 1]
      BY <1>15 DEF Ctl!InterruptRelease
    <3> QED
      BY <3>1, <3>2, <3>3
  <2> QED
    BY <1>15, <2>1 DEF Ctl!InterruptRelease, Ctl!Go, Ctl!TypeOK, Ctl!Results
<1> QED
  BY <1>1, <1>2, <1>3, <1>4, <1>5, <1>6, <1>7, <1>8, <1>9, <1>10, <1>11, <1>12, <1>13, <1>14, <1>15
  DEF Ctl!Next, Ctl!Advance

-----------------------------------------------------------------------------
(* The leases held *)

LEMMA HeldInit == Ctl!Init => HeldInv
BY DEF Ctl!Init, HeldInv, Holding, Ctl!EveryLeaseIsExited

\* Steps that leave the leases alone, and the next one that ends the body.
LEMMA HeldMoves ==
  ASSUME Ctl!TypeOK, HeldInv, lPc \in Holding, UNCHANGED <<lStage, lAcquired, lReleased>>,
         lPc' \in Holding \/ (lPc' = "release" /\ lK' = 0)
  PROVE  HeldInv'
<1>1. lAcquired = Ctl!ToSet(Ctl!Leases(lStage)) /\ NothingReleased /\ lStage \in Ctl!StageNames
  BY DEF HeldInv, Ctl!TypeOK
<1>2. CASE lPc' \in Holding
  BY <1>1, <1>2 DEF HeldInv, Holding, NothingReleased, Ctl!EveryLeaseIsExited
<1>3. CASE lPc' = "release" /\ lK' = 0
  <2>1. ReleasedUpTo(0)'
    BY <1>1, <1>3, LeaseLengths, LeaseSequences DEF ReleasedUpTo, NothingReleased, Ctl!ToSet
  <2> QED
    BY <1>1, <1>3, <2>1 DEF HeldInv, Holding, Ctl!EveryLeaseIsExited
<1> QED
  BY <1>2, <1>3

LEMMA AcquireHeld ==
  ASSUME Ctl!TypeOK, HeldInv, Ctl!Acquire
  PROVE  HeldInv'
<1>1. /\ lStage \in Ctl!StageNames /\ lK \in 0..Len(Ctl!Leases(lStage))
      /\ lAcquired = {Ctl!Leases(lStage)[i] : i \in 1..lK} /\ NothingReleased
      /\ UNCHANGED <<lStage, lReleased>>
  BY DEF HeldInv, Ctl!TypeOK, Ctl!Acquire
<1>2. NothingReleased'
  BY <1>1 DEF NothingReleased
<1>3. CASE /\ lK < Len(Ctl!Leases(lStage))
           /\ lAcquired' = lAcquired \cup {Ctl!Leases(lStage)[lK + 1]}
           /\ lK' = lK + 1 /\ lPc' = lPc
  <2>1. lAcquired' = {Ctl!Leases(lStage)[i] : i \in 1..lK'}
    BY <1>1, <1>3, LeaseLengths
  <2> QED
    BY <1>1, <1>2, <1>3, <2>1 DEF HeldInv, Holding, Ctl!EveryLeaseIsExited, Ctl!Acquire
<1>4. CASE lK < Len(Ctl!Leases(lStage)) /\ Ctl!AcquireFailed /\ UNCHANGED lAcquired
  <2>1. CASE lK = 0
    BY <1>1, <1>2, <1>4, <2>1
    DEF Ctl!AcquireFailed, Ctl!Go, HeldInv, Holding, Ctl!EveryLeaseIsExited, NothingReleased
  <2>2. CASE lK # 0
    <3>1. lPc' = "release" /\ lK' = 0
      BY <1>4, <2>2 DEF Ctl!AcquireFailed, Ctl!Unwind, Ctl!Go
    <3>2. lAcquired' \subseteq Ctl!ToSet(Ctl!Leases(lStage))
      BY <1>1, <1>4, LeaseLengths, LeaseSequences DEF Ctl!ToSet
    <3>3. ReleasedUpTo(0)'
      BY <1>1, <1>2, LeaseLengths DEF ReleasedUpTo, NothingReleased
    <3> QED
      BY <1>1, <3>1, <3>2, <3>3 DEF HeldInv, Holding, Ctl!EveryLeaseIsExited
  <2> QED
    BY <2>1, <2>2
<1>5. CASE lK = Len(Ctl!Leases(lStage)) /\ Ctl!Go("inspect") /\ UNCHANGED lAcquired
  <2>1. lAcquired' = Ctl!ToSet(Ctl!Leases(lStage))
    BY <1>1, <1>5, LeaseSequences DEF Ctl!ToSet
  <2> QED
    BY <1>1, <1>2, <1>5, <2>1 DEF Ctl!Go, HeldInv, Holding, Ctl!EveryLeaseIsExited
<1> QED
  BY <1>3, <1>4, <1>5 DEF Ctl!Acquire

LEMMA ReleaseHeld ==
  ASSUME Ctl!TypeOK, HeldInv, Ctl!Release
  PROVE  HeldInv'
<1>1. /\ lStage \in Ctl!StageNames /\ lK \in Nat /\ lK < Len(Ctl!Releases(lStage)) /\ lK' = lK + 1
      /\ lAcquired \subseteq Ctl!ToSet(Ctl!Leases(lStage)) /\ ReleasedUpTo(lK)
      /\ lPc = "release" /\ lPc' = "release" /\ UNCHANGED <<lStage, lAcquired>>
      /\ lReleased \in [Ctl!Capabilities -> Nat]
  BY LeaseLengths DEF HeldInv, Ctl!TypeOK, Ctl!Release, Ctl!Continue
<1> DEFINE c == Ctl!Releases(lStage)[lK + 1]
<1>0. lK + 1 \in 1..Len(Ctl!Releases(lStage))
  BY <1>1, LeaseLengths
<1>2. c \in Ctl!Capabilities /\ lReleased[c] = 0
  BY <1>0, <1>1, LeaseLengths DEF ReleasedUpTo
<1>3. /\ lReleased'[c] = IF c \in lAcquired THEN 1 ELSE 0
      /\ \A d \in Ctl!Capabilities \ {c} : lReleased'[d] = lReleased[d]
  BY <1>1, <1>2 DEF Ctl!Release
<1>4. ASSUME NEW i \in 1..Len(Ctl!Releases(lStage))
      PROVE  lReleased'[Ctl!Releases(lStage)[i]] =
               IF Ctl!Releases(lStage)[i] \in lAcquired /\ i <= lK + 1 THEN 1 ELSE 0
  <2>1. CASE i = lK + 1
    BY <1>3, <2>1
  <2>2. CASE i # lK + 1
    <3>1. Ctl!Releases(lStage)[i] \in Ctl!Capabilities \ {c}
      BY <1>0, <1>1, <2>2, LeaseLengths, LeaseSequences
    <3>2. i <= lK <=> i <= lK + 1
      BY <1>1, <2>2
    <3> QED
      BY <1>1, <1>3, <3>1, <3>2 DEF ReleasedUpTo
  <2> QED
    BY <2>1, <2>2
<1>5. ASSUME NEW d \in Ctl!Capabilities \ Ctl!ToSet(Ctl!Releases(lStage))
      PROVE  lReleased'[d] = 0
  <2>1. d # c
    BY <1>1, LeaseSequences DEF Ctl!ToSet
  <2> QED
    BY <1>1, <1>3, <2>1 DEF ReleasedUpTo
<1>6. ReleasedUpTo(lK)'
  BY <1>1, <1>4, <1>5 DEF ReleasedUpTo
<1> QED
  BY <1>1, <1>6 DEF HeldInv, Holding, Ctl!EveryLeaseIsExited

LEMMA ReturnHeld ==
  ASSUME Ctl!TypeOK, HeldInv, Ctl!Return
  PROVE  HeldInv'
<1>1. /\ lStage \in Ctl!StageNames /\ lK = Len(Ctl!Releases(lStage))
      /\ lAcquired \subseteq Ctl!ToSet(Ctl!Leases(lStage))
      /\ ReleasedUpTo(lK) /\ lPc' = "idle" /\ UNCHANGED <<lAcquired, lReleased>>
  BY DEF HeldInv, Ctl!TypeOK, Ctl!Return, Ctl!Go
<1>2. ASSUME NEW c \in Ctl!Capabilities
      PROVE  lReleased[c] = IF c \in lAcquired THEN 1 ELSE 0
  <2>1. CASE c \in Ctl!ToSet(Ctl!Releases(lStage))
    <3>1. PICK i \in 1..Len(Ctl!Releases(lStage)) : c = Ctl!Releases(lStage)[i]
      BY <1>1, <2>1, LeaseSequences DEF Ctl!ToSet
    <3> QED
      BY <1>1, <3>1 DEF ReleasedUpTo
  <2>2. CASE c \notin Ctl!ToSet(Ctl!Releases(lStage))
    BY <1>1, <2>2, LeaseSequences DEF ReleasedUpTo
  <2> QED
    BY <2>1, <2>2
<1> QED
  BY <1>1, <1>2 DEF HeldInv, Holding, Ctl!EveryLeaseIsExited

\* The exit under way happened or not, those before it did, the others did not.
LEMMA InterruptedHeld ==
  ASSUME Ctl!TypeOK, HeldInv, Ctl!InterruptRelease
  PROVE  HeldInv'
<1>1. /\ lStage \in Ctl!StageNames /\ lK \in Nat /\ lK < Len(Ctl!Releases(lStage))
      /\ lAcquired \subseteq Ctl!ToSet(Ctl!Leases(lStage)) /\ ReleasedUpTo(lK)
      /\ lPc' = "idle" /\ lResult' = "cut_short" /\ lAcquired' = lAcquired
      /\ lReleased \in [Ctl!Capabilities -> Nat]
  BY LeaseLengths DEF HeldInv, Ctl!TypeOK, Ctl!InterruptRelease, Ctl!Go
<1> DEFINE d == Ctl!Releases(lStage)[lK + 1]
<1>2. d \in Ctl!Capabilities /\ lReleased[d] = 0
  <2>1. lK + 1 \in 1..Len(Ctl!Releases(lStage))
    BY <1>1, LeaseLengths
  <2> QED
    BY <1>1, <2>1, LeaseLengths DEF ReleasedUpTo
<1>3. lReleased' = lReleased \/ (d \in lAcquired /\ lReleased' = [lReleased EXCEPT ![d] = @ + 1])
  BY DEF Ctl!InterruptRelease
<1>4. ASSUME NEW c \in Ctl!Capabilities
      PROVE  lReleased[c] = 0 \/ (lReleased[c] = 1 /\ c \in lAcquired)
  <2>1. CASE c \in Ctl!ToSet(Ctl!Releases(lStage))
    <3>1. PICK i \in 1..Len(Ctl!Releases(lStage)) : c = Ctl!Releases(lStage)[i]
      BY <1>1, <2>1, LeaseSequences DEF Ctl!ToSet
    <3> QED
      BY <1>1, <3>1 DEF ReleasedUpTo
  <2>2. CASE c \notin Ctl!ToSet(Ctl!Releases(lStage))
    BY <1>1, <2>2, LeaseSequences DEF ReleasedUpTo
  <2> QED
    BY <2>1, <2>2
<1> HIDE DEF d
<1>5. ASSUME NEW c \in Ctl!Capabilities
      PROVE  lReleased'[c] = 0 \/ (lReleased'[c] = 1 /\ c \in lAcquired)
  BY <1>1, <1>2, <1>3, <1>4
<1> QED
  BY <1>1, <1>5 DEF HeldInv, Holding, Ctl!EveryLeaseIsExited

LEMMA HeldStep ==
  ASSUME Ctl!TypeOK, HeldInv, [Ctl!Next]_(Ctl!vars)
  PROVE  HeldInv'
<1>1. CASE UNCHANGED Ctl!vars
  BY <1>1 DEF Ctl!vars, HeldInv, NothingReleased, ReleasedUpTo, Ctl!EveryLeaseIsExited
<1>2. CASE Ctl!Begin
  BY <1>2 DEF Ctl!Begin, Ctl!Go, HeldInv, Holding, NothingReleased, Ctl!EveryLeaseIsExited
<1>3. CASE Ctl!Inspect \/ Ctl!Recheck
  BY <1>3, HeldMoves DEF Ctl!Inspect, Ctl!Recheck, Ctl!Unwind, Ctl!Go, Holding
<1>4. CASE Ctl!BeginRow \/ Ctl!CallEffect \/ Ctl!RecheckAfter \/ Ctl!Commit \/ Ctl!MarkAmbiguous
  BY <1>4, HeldMoves
  DEF Ctl!BeginRow, Ctl!CallEffect, Ctl!RecheckAfter, Ctl!Commit, Ctl!MarkAmbiguous, Ctl!Unwind,
      Ctl!Go, Holding
<1>5. CASE Ctl!Interrupt
  BY <1>5, HeldMoves DEF Ctl!Interrupt, Ctl!Unwind, Ctl!Go, Holding, Ctl!Steps
<1>6. CASE \E c \in Ctl!Capabilities : Ctl!Drift(c)
  BY <1>6 DEF Ctl!Drift, HeldInv, NothingReleased, ReleasedUpTo, Ctl!EveryLeaseIsExited
<1> QED
  BY <1>1, <1>2, <1>3, <1>4, <1>5, <1>6, AcquireHeld, ReleaseHeld, ReturnHeld, InterruptedHeld
  DEF Ctl!Next, Ctl!Advance

-----------------------------------------------------------------------------
(* The row, and what the capabilities report *)

LEMMA RowStep ==
  ASSUME RowInv, [Ctl!Next]_(Ctl!vars)
  PROVE  RowInv'
<1>1. CASE UNCHANGED <<lPc, lRow>>
  BY <1>1 DEF RowInv
<1>2. CASE Ctl!Begin \/ Ctl!Acquire \/ Ctl!Inspect \/ Ctl!Recheck
  BY <1>2
  DEF Ctl!Begin, Ctl!Acquire, Ctl!AcquireFailed, Ctl!Inspect, Ctl!Recheck, Ctl!Unwind, Ctl!Go,
      RowInv
<1>3. CASE Ctl!BeginRow \/ Ctl!CallEffect \/ Ctl!RecheckAfter \/ Ctl!Commit \/ Ctl!MarkAmbiguous
  BY <1>3
  DEF Ctl!BeginRow, Ctl!CallEffect, Ctl!RecheckAfter, Ctl!Commit, Ctl!MarkAmbiguous, Ctl!Unwind,
      Ctl!Go, RowInv
<1>4. CASE Ctl!Release \/ Ctl!Return \/ Ctl!Interrupt \/ Ctl!InterruptRelease
  BY <1>4
  DEF Ctl!Release, Ctl!Continue, Ctl!Return, Ctl!Interrupt, Ctl!InterruptRelease, Ctl!Unwind, Ctl!Go,
      RowInv
<1> QED
  BY <1>1, <1>2, <1>3, <1>4 DEF Ctl!Next, Ctl!Advance, Ctl!Drift, Ctl!vars

\* Versions do not come back; the ways a step leaves what was seen alone.
LEMMA DriftMoves ==
  ASSUME Ctl!TypeOK, DriftInv, UNCHANGED <<lStage, lVersion, lSeen, lAtReturn>>,
         lPc' \notin {"recheck_after", "commit"}, lRow' = "committed" => lRow = "committed"
  PROVE  DriftInv'
BY DEF DriftInv

LEMMA InspectDrift ==
  ASSUME Ctl!TypeOK, RowInv, DriftInv, Ctl!Inspect
  PROVE  DriftInv'
<1>1. /\ lStage \in Ctl!StageNames /\ lK \in 0..Len(Ctl!Checks(lStage))
      /\ lRow = "none" /\ lPc' \notin {"commit"}
      /\ lPc' # "recheck_after" /\ UNCHANGED <<lStage, lVersion, lRow, lAtReturn>>
  BY DEF Ctl!TypeOK, Ctl!Inspect, RowInv, Ctl!Unwind, Ctl!Go
<1>2. ASSUME NEW c \in Ctl!Capabilities
      PROVE  lSeen'[c] <= lVersion[c]
  <2>1. CASE UNCHANGED lSeen
    BY <2>1 DEF DriftInv
  <2>2. CASE lSeen' =
               [lSeen EXCEPT ![Ctl!Checks(lStage)[lK + 1]] = lVersion[Ctl!Checks(lStage)[lK + 1]]]
    BY <2>2 DEF DriftInv, Ctl!TypeOK
  <2> QED
    BY <2>1, <2>2 DEF Ctl!Inspect
<1> QED
  BY <1>1, <1>2 DEF DriftInv

LEMMA RecheckAfterDrift ==
  ASSUME Ctl!TypeOK, RowInv, DriftInv, Ctl!RecheckAfter
  PROVE  DriftInv'
<1>1. /\ lStage \in Ctl!StageNames /\ lK \in 0..Len(Ctl!ChecksAfter(lStage))
      /\ lRow = "in_progress"
      /\ UNCHANGED <<lStage, lVersion, lSeen, lRow, lAtReturn>>
      /\ \A c \in Ctl!Capabilities : lSeen[c] <= lAtReturn[c]
      /\ \A i \in 1..lK :
           lAtReturn[Ctl!ChecksAfter(lStage)[i]] = lSeen[Ctl!ChecksAfter(lStage)[i]]
  BY DEF Ctl!TypeOK, Ctl!RecheckAfter, RowInv, DriftInv
<1>2. CASE /\ lK < Len(Ctl!ChecksAfter(lStage)) /\ lK' = lK + 1 /\ lPc' = lPc
           /\ lVersion[Ctl!ChecksAfter(lStage)[lK + 1]] = lSeen[Ctl!ChecksAfter(lStage)[lK + 1]]
  <2>1. Ctl!ChecksAfter(lStage)[lK + 1] \in Ctl!Capabilities
    BY <1>1, <1>2, LeaseLengths
  <2>2. lAtReturn[Ctl!ChecksAfter(lStage)[lK + 1]] = lSeen[Ctl!ChecksAfter(lStage)[lK + 1]]
    BY <1>1, <1>2, <2>1 DEF DriftInv, Ctl!TypeOK
  <2>3. \A i \in 1..(lK + 1) :
          lAtReturn[Ctl!ChecksAfter(lStage)[i]] = lSeen[Ctl!ChecksAfter(lStage)[i]]
    BY <1>1, <2>2
  <2> QED
    BY <1>1, <1>2, <2>3 DEF DriftInv, Ctl!RecheckAfter
<1>3. CASE lK = Len(Ctl!ChecksAfter(lStage)) /\ Ctl!Go("commit")
  <2>1. \A c \in Ctl!ToSet(Ctl!ChecksAfter(lStage)) : lAtReturn[c] = lSeen[c]
    BY <1>1, <1>3, CheckSequences DEF Ctl!ToSet
  <2> QED
    BY <1>1, <1>3, <2>1 DEF DriftInv, Ctl!Go
<1>4. CASE Ctl!Go("fail")
  BY <1>1, <1>4 DEF DriftInv, Ctl!Go
<1> QED
  BY <1>2, <1>3, <1>4 DEF Ctl!RecheckAfter

LEMMA DriftStep ==
  ASSUME Ctl!LeasesAssumption, Ctl!TypeOK, RowInv, DriftInv, [Ctl!Next]_(Ctl!vars)
  PROVE  DriftInv'
<1>1. CASE UNCHANGED Ctl!vars
  BY <1>1 DEF Ctl!vars, DriftInv
<1>2. CASE Ctl!Begin
  BY <1>2 DEF Ctl!Begin, Ctl!Go, DriftInv, Ctl!TypeOK
<1>3. CASE Ctl!Acquire
  BY <1>3, DriftMoves DEF Ctl!Acquire, Ctl!AcquireFailed, Ctl!Unwind, Ctl!Go
<1>4. CASE Ctl!Recheck
  BY <1>4, DriftMoves DEF Ctl!Recheck, Ctl!Unwind, Ctl!Go
<1>5. CASE Ctl!BeginRow \/ Ctl!MarkAmbiguous \/ Ctl!Interrupt
  BY <1>5, DriftMoves DEF Ctl!BeginRow, Ctl!MarkAmbiguous, Ctl!Interrupt, Ctl!Unwind, Ctl!Go
<1>6. CASE Ctl!Release \/ Ctl!Return \/ Ctl!InterruptRelease
  BY <1>6, DriftMoves
  DEF Ctl!Release, Ctl!Continue, Ctl!Return, Ctl!InterruptRelease, Ctl!Go
<1>7. CASE Ctl!CallEffect
  BY <1>7 DEF Ctl!CallEffect, Ctl!Go, DriftInv, Ctl!TypeOK, RowInv
<1>8. CASE Ctl!Commit
  BY <1>8 DEF Ctl!Commit, Ctl!Unwind, Ctl!Go, DriftInv
<1>9. ASSUME NEW c \in Ctl!Capabilities, Ctl!Drift(c)
      PROVE  DriftInv'
  BY <1>9 DEF Ctl!Drift, DriftInv, Ctl!TypeOK, Ctl!LeasesAssumption
<1> QED
  BY <1>1, <1>2, <1>3, <1>4, <1>5, <1>6, <1>7, <1>8, <1>9, InspectDrift, RecheckAfterDrift
  DEF Ctl!Next, Ctl!Advance

-----------------------------------------------------------------------------
(* Theorems *)

LEMMA ControlInit ==
  ASSUME Ctl!LeasesAssumption, Ctl!Init
  PROVE  ControlInv
<1>1. RowInv /\ DriftInv
  BY DEF Ctl!Init, RowInv, DriftInv
<1> QED
  BY <1>1, LeaseTypeInit, HeldInit DEF ControlInv

LEMMA ControlStep ==
  ASSUME Ctl!LeasesAssumption, ControlInv, [Ctl!Next]_(Ctl!vars)
  PROVE  ControlInv'
BY LeaseTypeStep, HeldStep, RowStep, DriftStep DEF ControlInv

LEMMA LeasesAreLeases == OneSpec => Ctl!Spec
<1>1. OneInit => Ctl!Init
  BY DEF OneInit
<1>2. [OneNext]_<<at, vars, observedVars, leaseVars>> => [Ctl!Next]_(Ctl!vars)
  <2>0. UNCHANGED leaseVars => UNCHANGED Ctl!vars
    BY DEF leaseVars, Ctl!vars
  <2> QED
    BY <2>0 DEF OneNext
<1> QED
  BY <1>1, <1>2, PTL DEF OneSpec, Ctl!Spec

LEMMA ControlCorrect == OneSpec => []ControlInv
<1>1. Ctl!Init => ControlInv
  BY LeasesConstants, ControlInit
<1>2. ControlInv /\ [Ctl!Next]_(Ctl!vars) => ControlInv'
  BY LeasesConstants, ControlStep
<1> QED
  BY LeasesAreLeases, <1>1, <1>2, PTL DEF Ctl!Spec

\* Once a run has ended, every lease it acquired was exited, once, whatever
\* raised on the way (the finally clauses of the stages).  Only an interrupt
\* of the finally clause leaves leases open, and none is exited twice then.
THEOREM LeasesExited == OneSpec => []EveryLeaseIsExited
<1>1. ControlInv => EveryLeaseIsExited
  BY DEF ControlInv, HeldInv, EveryLeaseIsExited
<1> QED
  BY ControlCorrect, <1>1, PTL

\* A committed row saw, when its effect returned, what the inspection had
\* found in every capability the stage rechecks.
THEOREM CommittedUnchanged == OneSpec => []CommittedSawNoDrift
<1>1. ControlInv => CommittedSawNoDrift
  BY CheckSequences
  DEF ControlInv, Ctl!TypeOK, DriftInv, CommittedSawNoDrift, Ctl!CommittedSawNoDrift
<1> QED
  BY ControlCorrect, <1>1, PTL

\* The row is begun and committed under every lease of the stage.
THEOREM LeasesSpan == OneSpec => LeasesSpanTheEffect
<1>1. ASSUME ControlInv, [Ctl!Next]_(Ctl!vars), lRow' # lRow, lRow' \in {"in_progress", "committed"}
      PROVE  /\ lAcquired = Ctl!ToSet(Ctl!Leases(lStage))
             /\ \A c \in Ctl!Capabilities : lReleased[c] = 0
  <2>1. Ctl!BeginRow \/ Ctl!Commit
    BY <1>1
    DEF Ctl!Next, Ctl!Advance, Ctl!vars, Ctl!Begin, Ctl!Acquire, Ctl!Inspect, Ctl!Recheck,
        Ctl!CallEffect, Ctl!RecheckAfter, Ctl!MarkAmbiguous, Ctl!Release, Ctl!Return,
        Ctl!Interrupt, Ctl!InterruptRelease, Ctl!Drift
  <2>2. lPc \in Holding
    BY <2>1 DEF Ctl!BeginRow, Ctl!Commit, Holding
  <2> QED
    BY <1>1, <2>2 DEF ControlInv, HeldInv, NothingReleased
<1>2. ControlInv /\ [Ctl!Next]_(Ctl!vars) =>
        [lRow' # lRow /\ lRow' \in {"in_progress", "committed"} =>
           /\ lAcquired = Ctl!ToSet(Ctl!Leases(lStage))
           /\ \A c \in Ctl!Capabilities : lReleased[c] = 0]_(Ctl!vars)
  BY <1>1
<1> QED
  BY <1>2, LeasesAreLeases, ControlCorrect, PTL
  DEF Ctl!Spec, LeasesSpanTheEffect, Ctl!LeasesSpanTheEffect
=============================================================================
