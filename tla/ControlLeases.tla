---------------------------- MODULE ControlLeases ----------------------------
(***************************************************************************)
(* The capability leases one run of a stage of authorization.py holds      *)
(* around its effect: provider snapshot, executor control, PostgreSQL      *)
(* control or login transition, secret material, remote session.  The run  *)
(* acquires them in order, inspects each, rechecks each, begins its row,   *)
(* calls the effect, rechecks what the stage rechecks, commits, and        *)
(* releases in its finally clause whatever it acquired.                    *)
(*                                                                         *)
(* The adapters are injected: acquiring, checking and releasing may each   *)
(* raise, and what a capability reports may change at any time, leased or  *)
(* not.  A capability reports a version; the signed policy fixes version 0 *)
(* of those it binds.  Versions do not come back.                          *)
(*                                                                         *)
(* Runs follow one another here; what two runs share is in                 *)
(* StagedAuthorization and ObservedAuthorization.                          *)
(***************************************************************************)
EXTENDS Naturals, Sequences, SequencesExt

CONSTANTS
  Stages,    \* the stages that are run, of StageNames
  MaxDrift   \* bound on changes of a capability

StageNames == {"allocate", "materialize", "start", "observe"}

\* What the constants must satisfy; whoever instantiates the module assumes it.
LeasesAssumption == Stages \subseteq StageNames /\ MaxDrift \in Nat

\* The order of acquisition.
Leases(stage) ==
  CASE stage = "allocate" -> <<"provider", "executor", "postgres">>
    [] stage = "materialize" -> <<"provider", "executor", "login", "secret">>
    [] stage = "start" -> <<"provider", "executor", "secret", "remote">>
    [] stage = "observe" -> <<"provider">>

\* The order in which the finally clause releases; not always the reverse.
Releases(stage) ==
  CASE stage = "allocate" -> <<"postgres", "executor", "provider">>
    [] stage = "materialize" -> <<"secret", "executor", "login", "provider">>
    [] stage = "start" -> <<"remote", "secret", "executor", "provider">>
    [] stage = "observe" -> <<"provider">>

\* What is inspected, and rechecked before the effect.  The delivery session
\* is a second question to the secret lease.
Checks(stage) ==
  CASE stage = "allocate" -> <<"provider", "executor", "postgres">>
    [] stage = "materialize" -> <<"provider", "executor", "login", "secret", "delivery">>
    [] stage = "start" -> <<"provider", "executor", "secret", "delivery", "remote">>
    [] stage = "observe" -> <<"provider">>

\* Mutant of ChecksAfter: the session is not asked again after the effect.
ChecksAfterShort(stage) ==
  CASE stage = "allocate" -> <<"executor", "postgres">>
    [] stage = "materialize" -> <<"provider", "executor", "secret", "login">>
    [] stage = "start" -> <<"provider", "executor", "secret", "remote">>
    [] stage = "observe" -> << >>

\* What is rechecked after the effect: not the provider lease of an
\* allocation or an observed operation.
ChecksAfter(stage) ==
  CASE stage = "allocate" -> <<"executor", "postgres">>
    [] stage = "materialize" -> <<"provider", "executor", "secret", "login", "delivery">>
    [] stage = "start" -> <<"provider", "executor", "secret", "delivery", "remote">>
    [] stage = "observe" -> << >>

\* Capabilities whose whole report is fixed by a signed policy; PostgreSQL
\* capabilities have a fingerprint that inspection takes as it finds it.
Bound == {"provider", "executor", "secret", "delivery", "remote"}
Capabilities == Bound \cup {"postgres", "login"}

VARIABLES
  stage,      \* the stage of the run
  pc, k,      \* its step, and how far the step's sequence is done
  version,    \* per capability, what it would report now
  seen,       \* per capability, what the inspection found
  acquired,   \* managers this run has entered
  released,   \* how often each was exited
  releasesOk, \* no exit has raised so far
  row,        \* the journal row of the run
  result,     \* what the run ended with
  atReturn    \* history: versions when the effect returned

vars == <<stage, pc, k, version, seen, acquired, released, releasesOk, row, result, atReturn>>

Steps == {"acquire", "inspect", "recheck", "claim", "begun", "recheck_after", "commit",
          "fail", "release"}
Rows == {"none", "in_progress", "committed", "failed"}
Results == {"none", "receipt", "refused", "ambiguous", "interrupted", "control_release", "cut_short"}

TypeOK ==
  /\ stage \in StageNames /\ pc \in {"idle"} \cup Steps 
  /\ k \in 0..(CASE pc \in {"acquire", "release"} -> Len(Leases(stage))
                 [] pc \in {"inspect", "recheck"} -> Len(Checks(stage))
                 [] pc = "recheck_after" -> Len(ChecksAfter(stage))
                 [] OTHER -> 0)
  /\ version \in [Capabilities -> 0..MaxDrift]
  /\ seen \in [Capabilities -> 0..MaxDrift] /\ atReturn \in [Capabilities -> 0..MaxDrift]
  /\ acquired \subseteq Capabilities /\ released \in [Capabilities -> Nat]
  /\ releasesOk \in BOOLEAN
  /\ row \in Rows /\ result \in Results

Init ==
  /\ stage \in Stages /\ pc = "idle" /\ k = 0
  /\ version = [c \in Capabilities |-> 0]
  /\ seen = [c \in Capabilities |-> 0] /\ atReturn = [c \in Capabilities |-> 0]
  /\ acquired = {} /\ released = [c \in Capabilities |-> 0]
  /\ releasesOk = TRUE
  /\ row = "none" /\ result = "none"

Go(step) == pc' = step /\ k' = 0

\* The body of the try clause is over; its own error decides the result.
Unwind(outcome) == Go("release") /\ result' = outcome

Begin ==
  /\ pc = "idle"
  /\ stage' \in Stages
  /\ Go("acquire")
  /\ seen' = [c \in Capabilities |-> 0] /\ atReturn' = seen'
  /\ acquired' = {} /\ released' = [c \in Capabilities |-> 0] /\ releasesOk' = TRUE
  /\ row' = "none" /\ result' = "none"
  /\ UNCHANGED version

\* Mutant of AcquireFailed: the run goes on without the lease.
AcquireFailedSkipped == k' = k + 1 /\ UNCHANGED <<pc, result>>

\* The error ends the run; the provider is acquired outside the try clause.
AcquireFailed == IF k = 0 THEN Go("idle") /\ result' = "refused" ELSE Unwind("refused")

\* _acquire_provider_lease, _acquire_control_lease: the manager is entered, or
\* acquiring fails and nothing of it is kept.
Acquire ==
  LET todo == Leases(stage)
  IN /\ pc = "acquire"
     /\ \/ /\ k < Len(todo)
           /\ acquired' = acquired \cup {todo[k + 1]}
           /\ k' = k + 1
           /\ UNCHANGED <<pc, result>>
        \/ /\ k < Len(todo)
           /\ AcquireFailed
           /\ UNCHANGED acquired
        \/ k = Len(todo) /\ Go("inspect") /\ UNCHANGED <<acquired, result>>
     /\ UNCHANGED <<stage, version, seen, released, releasesOk, row, atReturn>>

\* The *_commitment functions with recheck=False.
Inspect ==
  LET todo == Checks(stage)
  IN /\ pc = "inspect"
     /\ \/ /\ k < Len(todo)
           /\ todo[k + 1] \in Bound => version[todo[k + 1]] = 0
           /\ seen' = [seen EXCEPT ![todo[k + 1]] = version[todo[k + 1]]]
           /\ k' = k + 1
           /\ UNCHANGED <<pc, result>>
        \/ k = Len(todo) /\ Go("recheck") /\ UNCHANGED <<seen, result>>
        \/ Unwind("refused") /\ UNCHANGED seen
     /\ UNCHANGED <<stage, version, acquired, released, releasesOk, row, atReturn>>

\* The same with recheck=True, compared with what was inspected.
Recheck ==
  LET todo == Checks(stage)
  IN /\ pc = "recheck"
     /\ \/ /\ k < Len(todo)
           /\ version[todo[k + 1]] = seen[todo[k + 1]]
           /\ k' = k + 1
           /\ UNCHANGED <<pc, result>>
        \/ k = Len(todo) /\ Go("claim") /\ UNCHANGED result
        \/ Unwind("refused")
     /\ UNCHANGED <<stage, version, seen, acquired, released, releasesOk, row, atReturn>>

\* Operation lease, tombstone, row claimed and begun; any of it may refuse.
BeginRow ==
  /\ pc = "claim"
  /\ \/ row' = "in_progress" /\ Go("begun") /\ UNCHANGED result
     \/ row' \in {"none", "in_progress"} /\ Unwind("refused")
  /\ UNCHANGED <<stage, version, seen, acquired, released, releasesOk, atReturn>>

\* The effect is called with leases of the run; it returns or raises.
CallEffect ==
  /\ pc = "begun"
  /\ atReturn' = version
  /\ Go("recheck_after") \/ Go("fail")
  /\ UNCHANGED <<stage, version, seen, acquired, released, releasesOk, row, result>>

\* All rechecks are made; a difference or an error of any is ambiguous.
RecheckAfter ==
  LET todo == ChecksAfter(stage)
  IN /\ pc = "recheck_after"
     /\ \/ /\ k < Len(todo)
           /\ version[todo[k + 1]] = seen[todo[k + 1]]
           /\ k' = k + 1
           /\ UNCHANGED pc
        \/ k = Len(todo) /\ Go("commit")
        \/ Go("fail")
     /\ UNCHANGED <<stage, version, seen, acquired, released, releasesOk, row, result, atReturn>>

\* Receipt file and commit.
Commit ==
  /\ pc = "commit"
  /\ \/ row' = "committed" /\ Unwind("receipt")
     \/ row' \in {row, "committed"} /\ Go("fail") /\ UNCHANGED result
  /\ UNCHANGED <<stage, version, seen, acquired, released, releasesOk, atReturn>>

\* _mark_..._ambiguous moves a row that is in progress, or fails itself.
MarkAmbiguous ==
  /\ pc = "fail"
  /\ row' \in {row} \cup (IF row = "in_progress" THEN {"failed"} ELSE {})
  /\ Unwind("ambiguous")
  /\ UNCHANGED <<stage, version, seen, acquired, released, releasesOk, atReturn>>

\* Mutant of Continue: the first exit that raises ends the unwinding.
ContinueIfOk(ok) == IF ok THEN UNCHANGED pc ELSE pc' = "idle"

\* The next release is made whether the last one raised or not.
Continue(ok) == UNCHANGED pc

\* The finally clause: what was entered is exited, and an exit that raises is
\* remembered.
Release ==
  /\ pc = "release" /\ k < Len(Releases(stage))
  /\ LET c == Releases(stage)[k + 1]
     IN \/ /\ c \in acquired
           /\ released' = [released EXCEPT ![c] = @ + 1]
           /\ \E ok \in BOOLEAN : releasesOk' = (releasesOk /\ ok) /\ Continue(ok)
        \/ c \notin acquired /\ UNCHANGED <<released, releasesOk, pc>>
  /\ k' = k + 1
  /\ UNCHANGED <<stage, version, seen, acquired, row, result, atReturn>>

\* An error of the body goes first; only then a failed release is reported.
Report == IF result = "receipt" /\ ~ releasesOk THEN "control_release" ELSE result

Return ==
  /\ pc = "release" /\ k = Len(Releases(stage))
  /\ result' = Report
  /\ Go("idle")
  /\ UNCHANGED <<stage, version, seen, acquired, released, releasesOk, row, atReturn>>

\* Something that is not an Exception (an interrupt) passes through the try
\* clause and leaves the row as it is.
Interrupt ==
  /\ pc \in Steps \ {"acquire", "release"}
  /\ Unwind("interrupted")
  /\ UNCHANGED <<stage, version, seen, acquired, released, releasesOk, row, atReturn>>

\* The same inside the finally clause, whose exits stop only an Exception:
\* the exit under way may have happened, those that follow are skipped.
InterruptRelease ==
  /\ pc = "release" /\ k < Len(Releases(stage))
  /\ LET c == Releases(stage)[k + 1]
     IN \/ UNCHANGED released
        \/ c \in acquired /\ released' = [released EXCEPT ![c] = @ + 1]
  /\ Go("idle") /\ result' = "cut_short"
  /\ UNCHANGED <<stage, version, seen, acquired, releasesOk, row, atReturn>>

Drift(c) ==
  /\ version[c] < MaxDrift
  /\ version' = [version EXCEPT ![c] = @ + 1]
  /\ UNCHANGED <<stage, pc, k, seen, acquired, released, releasesOk, row, result, atReturn>>

Advance ==
  Acquire \/ Inspect \/ Recheck \/ BeginRow \/ CallEffect \/ RecheckAfter \/ Commit
  \/ MarkAmbiguous \/ Release \/ Return

Next == Begin \/ Advance \/ Interrupt \/ InterruptRelease \/ \E c \in Capabilities : Drift(c)

Spec == Init /\ [][Next]_vars

-----------------------------------------------------------------------------
\* However a run ends (refused anywhere in its acquisitions, ambiguous,
\* committed, interrupted in its body, other exits raising), every lease it
\* entered was exited exactly once, and no lease it did not enter.  Only an
\* interrupt of the finally clause itself may leave leases open; then too
\* none is exited twice.
EveryLeaseIsExited ==
  pc = "idle" =>
    \A c \in Capabilities :
      \/ released[c] = IF c \in acquired THEN 1 ELSE 0
      \/ result = "cut_short" /\ released[c] = 0

\* From the beginning of the row to its commit the run holds every lease of
\* its stage: none is missing and none has been given back.
LeasesSpanTheEffect ==
  [][ row' # row /\ row' \in {"in_progress", "committed"} =>
        acquired = ToSet(Leases(stage))
          /\ \A c \in Capabilities : released[c] = 0 ]_vars

\* A committed row vouches for the capabilities: what the stage inspects was
\* unchanged until the effect returned.  Of an allocation and an observed
\* operation that excludes the provider, which they do not ask again.
CommittedSawNoDrift ==
  row = "committed" =>
    \A c \in ToSet(Checks(stage)) :
      \/ c = "provider" /\ stage \in {"allocate", "observe"}
      \/ atReturn[c] = seen[c]

=============================================================================
