------------------------------- MODULE OneShot -------------------------------
(***************************************************************************)
(* What every single-attempt authority of this code base promises: a token *)
(* (a signed authorization) is spent at most once, durably and for good,   *)
(* before the one effect it stands for, and that effect is attempted at    *)
(* most once.  Nothing gives a token back: an attempt that never came or   *)
(* whose outcome is unknown leaves the token spent.                        *)
(***************************************************************************)
CONSTANT Tokens

VARIABLE phase

Init == phase = [t \in Tokens |-> "fresh"]

Spend(t) ==
  /\ phase[t] = "fresh"
  /\ phase' = [phase EXCEPT ![t] = "spent"]

Attempt(t) ==
  /\ phase[t] = "spent"
  /\ phase' = [phase EXCEPT ![t] = "attempted"]

Next == \E t \in Tokens : Spend(t) \/ Attempt(t)

Spec == Init /\ [][Next]_phase
=============================================================================
