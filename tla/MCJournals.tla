----------------------------- MODULE MCJournals -----------------------------
(* The two journals of the authorization module and the leases around an   *)
(* effect, one of them at work: the genesis of the allocation journal (two *)
(* artifact roots, two intents signed for one operation), the journal of   *)
(* the observed operation (two genesis receipts, each for a journal of its *)
(* own), or the control leases of one stage.                               *)
EXTENDS JournalGenesis, TLC

CONSTANTS
  op1, g1, g2, j1, j2,
  GenesisReceipts, Journals, JournalOf,
  Stages, MaxDrift

MCOperationOf == [i \in Intents |-> op1]
MCJournalOf == [g \in GenesisReceipts |-> IF g = g1 THEN j1 ELSE j2]

VARIABLES
  at,
  oStages, oGenesisSpent, oSpent, oMarker, oStore, oRow, oGenesisFile,
  oRootLock, oIdLock, oOpLock, oActor, oCalls, oPerformed,
  lStage, lPc, lK, lVersion, lSeen, lAcquired, lReleased, lReleasesOk,
  lRow, lResult, lAtReturn

Obs ==
  INSTANCE ObservedAuthorization
    WITH Receipts <- GenesisReceipts,
         stages <- oStages, genesisSpent <- oGenesisSpent, spent <- oSpent,
         marker <- oMarker, store <- oStore, row <- oRow, genesisFile <- oGenesisFile,
         rootLock <- oRootLock, idLock <- oIdLock, opLock <- oOpLock,
         actor <- oActor, calls <- oCalls, performed <- oPerformed

Ctl ==
  INSTANCE ControlLeases
    WITH stage <- lStage, pc <- lPc, k <- lK, version <- lVersion, seen <- lSeen,
         acquired <- lAcquired, released <- lReleased, releasesOk <- lReleasesOk,
         row <- lRow, result <- lResult, atReturn <- lAtReturn

ASSUME ObservedConstants == Obs!ObservedAssumption
ASSUME LeasesConstants == Ctl!LeasesAssumption

observedVars ==
  <<oStages, oGenesisSpent, oSpent, oMarker, oStore, oRow, oGenesisFile,
    oRootLock, oIdLock, oOpLock, oActor, oCalls, oPerformed>>
leaseVars ==
  <<lStage, lPc, lK, lVersion, lSeen, lAcquired, lReleased, lReleasesOk,
    lRow, lResult, lAtReturn>>

OneInit ==
  /\ Init /\ Obs!Init /\ Ctl!Init
  /\ at \in {"genesis", "observed", "leases"}
  /\ at # "leases" => lStage = "observe"

OneNext ==
  /\ UNCHANGED at
  /\ \/ at = "genesis" /\ Next /\ UNCHANGED <<observedVars, leaseVars>>
     \/ at = "observed" /\ Obs!Next /\ UNCHANGED <<vars, leaseVars>>
     \/ at = "leases" /\ Ctl!Next /\ UNCHANGED <<vars, observedVars>>

OneSpec == OneInit /\ [][OneNext]_<<at, vars, observedVars, leaseVars>>

Perms == Permutations(Actors) \cup Permutations(Roots)

\* The properties of the instances, by a name of this module.
ObservedCurrentIsComplete == Obs!CurrentIsComplete
CommittedIsPerformed == Obs!CommittedIsPerformed
LiveEffectKeepsItsRow == Obs!LiveEffectKeepsItsRow
ResultsAreHonest == Obs!ResultsAreHonest
EveryLeaseIsExited == Ctl!EveryLeaseIsExited
CommittedSawNoDrift == Ctl!CommittedSawNoDrift
LeasesSpanTheEffect == Ctl!LeasesSpanTheEffect
=============================================================================
