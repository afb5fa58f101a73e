---------------------------- MODULE MCDelegation ----------------------------
(* Three callers; s2 has another packaged route than s1 and s3.  Either    *)
(* they share one PostgreSQL log and two authorizations signed for one     *)
(* run, or s1 and s3 are threads of one process, s2 runs in another, each  *)
(* process has a log of its own that dies with it, and the authorization   *)
(* is one.                                                                 *)
EXTENDS Delegation

CONSTANTS a, b, run1, route1, route2, s1, s2, s3, db, mem1, mem2

MCRunOf == [x \in Auths |-> run1]
MCPolicyRoute == [x \in Callers |-> IF x = s2 THEN route2 ELSE route1]
MCDurableLogOf == [x \in Callers |-> db]

ASSUME InstanceConstants == run1 \in Runs

VARIABLES logs, pState, pClaims, pExpired, pAttempts, pCall

Process ==
  INSTANCE Delegation_proofs
    WITH Auths <- {a}, RunOf <- [x \in {a} |-> run1], Enabled <- Callers,
         Logs <- {mem1, mem2}, Volatile <- {mem1, mem2},
         LogOf <- [x \in Callers |-> IF x = s2 THEN mem2 ELSE mem1],
         state <- pState, claims <- pClaims, expired <- pExpired,
         attempts <- pAttempts, call <- pCall

processVars == <<pState, pClaims, pExpired, pAttempts, pCall>>

OneInit ==
  /\ Init /\ Process!Init /\ logs \in {"shared", "of the process"}
  /\ logs = "shared" => \A c \in Callers : pCall[c].route = route1
  /\ logs # "shared" => \A c \in Callers : call[c].auth = a /\ call[c].route = route1

OneNext ==
  \/ logs = "shared" /\ Next /\ UNCHANGED <<logs, processVars>>
  \/ logs # "shared" /\ Process!Next /\ UNCHANGED <<logs, vars>>

OneSpec == OneInit /\ [][OneNext]_<<logs, vars, processVars>>

\* The results are honest whichever log is used.
EveryResultIsHonest == ResultsAreHonest /\ Process!ResultsAreHonest
=============================================================================
