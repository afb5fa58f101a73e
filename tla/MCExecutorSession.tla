------------------------- MODULE MCExecutorSession -------------------------
(* The daemon of an executor host, and the allocation backend it drives, one *)
(* of them at work.  Sessions: one allocation, one materialization and one   *)
(* start of it, each with two engine steps; two daemon processes and three   *)
(* request ids.  Backend: two allocations that plan the same names, and a    *)
(* removal by the operator.                                                  *)
EXTENDS ExecutorSession, TLC

CONSTANTS m1, s1, Attempts, MaxRemovals

MCMaterializationOf == [s \in Starts |-> m1]
MCPlanLength == [op \in Ops |-> 2]

VARIABLES at, there, begun, serving, pending, seen, witness, receipts, removed, removals,
          review, changed

Host == INSTANCE AllocationBackend WITH session <- serving

ASSUME BackendConstants == Host!BackendAssumption

backendVars == <<there, begun, serving, pending, seen, witness, receipts, removed, removals,
                 review, changed>>

OneInit == Init /\ Host!Init /\ at \in {"sessions", "backend"}

OneNext ==
  \/ at = "sessions" /\ Next /\ UNCHANGED <<at, backendVars>>
  \/ at = "backend" /\ Host!Next /\ UNCHANGED <<at, vars>>

OneSpec == OneInit /\ [][OneNext]_<<at, vars, backendVars>>

Perms == Permutations(RequestIds) \cup Permutations(Daemons) \cup Permutations(Attempts)

\* The properties of the instance, by a name of this module.
ReceiptIsASnapshot == Host!ReceiptIsASnapshot
NothingAdopted == Host!NothingAdopted
ClassificationIsRight == Host!ClassificationIsRight
=============================================================================
