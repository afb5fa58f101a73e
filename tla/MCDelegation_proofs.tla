------------------------ MODULE MCDelegation_proofs ------------------------
(***************************************************************************)
(* The theorems about Delegation, carried over to the composition of       *)
(* callers that share a durable log and callers whose logs are the memory  *)
(* of their processes.                                                     *)
(***************************************************************************)
EXTENDS MCDelegation, Delegation_proofs

\* What the theorems ask of the constants holds of the instance.
LEMMA ProcessConstants ==
  /\ [x \in {a} |-> run1] \in [{a} -> Runs]
  /\ PolicyRoute \in [Callers -> Routes]
  /\ [x \in Callers |-> IF x = s2 THEN mem2 ELSE mem1] \in [Callers -> {mem1, mem2}]
  /\ Process!NoClaim \notin Routes
BY ConstantsAssumption, NoClaimAssumption, InstanceConstants DEF NoClaim, Process!NoClaim

\* Whichever log is used, the calls of the other log do not move.
LEMMA EachIsDelegation == OneSpec => Spec /\ Process!Spec
<1>1. OneInit => Init /\ Process!Init
  BY DEF OneInit
<1>2. [OneNext]_<<logs, vars, processVars>> => [Next]_vars /\ [Process!Next]_(Process!vars)
  BY DEF OneNext, processVars, Process!vars
<1> QED
  BY <1>1, <1>2, PTL DEF OneSpec, Spec, Process!Spec

\* The result of a call tells what may have happened: no claim and no
\* dispatch behind a refusal, none left out of an uncertain one, for callers
\* of any number on one durable log, and for threads of processes whose logs
\* die with them (DelegatedRequestIngress.submit).
THEOREM EveryResultHonest == OneSpec => []EveryResultIsHonest
<1>1. Spec => []ResultsAreHonest
  BY ResultsHonest
<1>2. Process!Spec => []Process!ResultsAreHonest
  BY ProcessConstants, Process!ResultsHonest
<1>3. ResultsAreHonest /\ Process!ResultsAreHonest => EveryResultIsHonest
  BY DEF EveryResultIsHonest
<1> QED
  BY <1>1, <1>2, <1>3, EachIsDelegation, PTL
=============================================================================
