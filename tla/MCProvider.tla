----------------------------- MODULE MCProvider -----------------------------
(* The documents an operator issues, and the provider material they rest   *)
(* on, one of them at work: the stages that genuine documents can pass, or *)
(* two processes, two roots whose policies list two items in opposite      *)
(* orders, and two generations.                                            *)
EXTENDS MCIssuance

CONSTANTS Roots, r1, Actors, Generations, Items, i1, i2, OrderOf

MCOrderOf == [r \in Roots |-> IF r = r1 THEN <<i1, i2>> ELSE <<i2, i1>>]

VARIABLES at, file, keychain, pin, actor, drawn

\* The component.
Material == INSTANCE ProviderMaterial

ASSUME MaterialConstants == Material!MaterialAssumption
ASSUME PassableChained == \A s \in Stages \cap MCPassable : Chained(s)

materialVars == <<file, keychain, pin, actor, drawn>>

OneInit ==
  /\ Init /\ Material!Init
  /\ at \in {"documents", "material"}
  /\ at = "documents" => \A i \in DOMAIN keychain : keychain[i] = "absent"
  /\ at = "material" => stage = "preflight"

OneNext ==
  \/ at = "documents" /\ Next /\ UNCHANGED <<at, materialVars>>
  \/ at = "material" /\ Material!Next /\ UNCHANGED <<at, vars>>

\* The fairness of Issuance; it says nothing of what happens at the material.
OneSpec ==
  /\ OneInit /\ [][OneNext]_<<at, vars, materialVars>>
  /\ WF_<<at, vars>>(at = "documents" /\ Issue /\ UNCHANGED <<at, materialVars>>)
  /\ WF_<<at, vars>>(at = "documents" /\ Verify /\ UNCHANGED <<at, materialVars>>)

\* The properties of the instance, and that of the documents, by a name of
\* this module.
AttestedIsStored == Material!AttestedIsStored
StoredIsReceipted == Material!StoredIsReceipted
BlockedStaysBlocked == Material!BlockedStaysBlocked
AlwaysAccepted == at = "documents" => EventuallyAccepted
=============================================================================
