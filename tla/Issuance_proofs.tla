--------------------------- MODULE Issuance_proofs ---------------------------
(***************************************************************************)
(* Proofs about Issuance, for any catalogue of documents and verifiers and *)
(* any number of documents re-issued or mixed up: types, that a stage      *)
(* accepts the documents of one deployment and nothing superseded, and     *)
(* that documents whose compared digests or dates form a cycle are never   *)
(* accepted.  And about the provider material they rest on, for any roots, *)
(* processes, generations and items, listed in any order: what is stored   *)
(* is receipted, what is attested is stored, and a generation that was     *)
(* left stays blocked.                                                     *)
(***************************************************************************)
EXTENDS MCProvider, Sequences, TLAPS

\* A filed document holds nothing of what was not there, or not its own, when
\* it was filed, and nothing of what was filed since.
StaleIsTracked ==
  \A j, k \in Documents :
    Follows(j, k) /\ filed[j] # "missing" /\ (filed[j] = "foreign" \/ filed[k] # "own")
      => <<j, k>> \in stale

\* What was accepted still is what the verifiers read.
AcceptedWasVerified ==
  accepted =>
    /\ \A k \in Documents : filed[k] # "missing"
    /\ (Checks[stage].digests \cup Checks[stage].dated) \cap stale = {}
    /\ \A q \in Checks[stage].alike : filed[q[1]] = filed[q[2]]

IInv == TypeOK /\ StaleIsTracked /\ AcceptedWasVerified

\* A step files one document before acceptance, or accepts.
LEMMA StepKinds ==
  ASSUME TypeOK, Next
  PROVE  \/ Verify
         \/ \E k \in Documents, as \in {"own", "foreign"} :
              /\ ~accepted
              /\ File(k, as)
              /\ stage' = stage /\ accepted' = accepted
              /\ slips' \in 0..MaxSlips
<1>1. CASE Verify
  BY <1>1
<1>2. CASE Issue
  <2>1. PICK k \in Due : Sign(k)
    BY <1>2 DEF Issue
  <2>2. k \in Documents
    BY <2>1 DEF Due, Wanted, Ready, TypeOK
  <2> QED
    BY <2>1, <2>2 DEF Sign, TypeOK
<1>3. CASE \E k \in Documents : Amend(k) \/ Mixup(k)
  <2>1. PICK k \in Documents : Amend(k) \/ Mixup(k)
    BY <1>3
  <2>2. slips' \in 0..MaxSlips
    BY <2>1, IssuanceAssumption DEF Amend, Mixup, Slip, TypeOK
  <2> QED
    BY <2>1, <2>2 DEF Amend, Mixup, Slip
<1> QED
  BY <1>1, <1>2, <1>3 DEF Next

\* Filing changes the state of one document only.
LEMMA FileKeepsTheRest ==
  ASSUME TypeOK, NEW k \in Documents, NEW as \in {"own", "foreign"}, File(k, as)
  PROVE  /\ Documents' = Documents
         /\ filed'[k] = as
         /\ \A j \in Documents \ {k} : filed'[j] = filed[j]
         /\ filed' \in [Reads(stage) -> {"missing", "own", "foreign"}]
BY DEF File, TypeOK, Documents

\* The pairs that are out of date after k is filed.
LEMMA FileMakesStale ==
  ASSUME TypeOK, NEW k \in Documents, NEW as \in {"own", "foreign"}, File(k, as)
  PROVE  /\ \A q \in stale : q[1] # k => q \in stale'
         /\ \A j \in Documents : filed[j] # "missing" /\ Follows(j, k) => <<j, k>> \in stale'
         /\ \A p \in Documents : Follows(k, p) /\ (as = "foreign" \/ filed[p] # "own")
                                   => <<k, p>> \in stale'
BY DEF File

LEMMA TypeStep ==
  ASSUME TypeOK, [Next]_vars
  PROVE  TypeOK'
<1>1. CASE UNCHANGED vars
  BY <1>1 DEF TypeOK, vars, Documents, Follows
<1>2. CASE Verify
  BY <1>2 DEF Verify, TypeOK, Documents, Follows
<1>3. ASSUME NEW k \in Documents, NEW as \in {"own", "foreign"},
             File(k, as), stage' = stage, accepted' = accepted, slips' \in 0..MaxSlips
      PROVE  TypeOK'
  <2>1. filed' \in [Reads(stage') -> {"missing", "own", "foreign"}] /\ Documents' = Documents
    BY <1>3, FileKeepsTheRest
  <2>2. \A j, p : Follows(j, p)' = Follows(j, p)
    BY <1>3 DEF Follows
  <2>3. ASSUME NEW q \in stale'
        PROVE  q \in Documents \X Documents /\ Follows(q[1], q[2])
    <3>1. CASE q \in stale
      BY <3>1 DEF TypeOK
    <3>2. CASE \E j \in Documents : Follows(j, k) /\ q = <<j, k>>
      BY <1>3, <3>2
    <3>3. CASE \E p \in Documents : Follows(k, p) /\ q = <<k, p>>
      BY <1>3, <3>3
    <3> QED
      BY <1>3, <3>1, <3>2, <3>3 DEF File
  <2>4. stale' \subseteq {q \in Documents' \X Documents' : Follows(q[1], q[2])'}
    BY <2>1, <2>2, <2>3
  <2> QED
    BY <1>3, <2>1, <2>4 DEF TypeOK
<1> QED
  BY <1>1, <1>2, <1>3, StepKinds

LEMMA InitOK ==
  ASSUME Init
  PROVE  TypeOK /\ Documents = Reads(stage) /\ \A k \in Documents : filed[k] = "missing"
<1>1. filed = [k \in Reads(stage) |-> "missing"]
  BY DEF Init
<1>2. filed \in [Reads(stage) -> {"missing", "own", "foreign"}]
  BY <1>1
<1>3. slips \in 0..MaxSlips
  BY IssuanceAssumption DEF Init
<1>4. stale \subseteq {q \in Documents \X Documents : Follows(q[1], q[2])}
  BY DEF Init
<1> QED
  BY <1>1, <1>2, <1>3, <1>4 DEF Init, TypeOK, Documents

\* The stage, the kind and the contents of every variable; and that what a
\* document holds is out of date only if it follows the document it holds.
THEOREM TypeCorrect == Spec => []TypeOK
<1>1. Init => TypeOK
  BY InitOK
<1>2. TypeOK /\ [Next]_vars => TypeOK'
  BY TypeStep
<1> QED
  BY <1>1, <1>2, PTL DEF Spec

LEMMA TrackedStep ==
  ASSUME TypeOK, StaleIsTracked, [Next]_vars
  PROVE  StaleIsTracked'
<1>1. CASE UNCHANGED vars
  BY <1>1 DEF StaleIsTracked, vars, Documents, Follows
<1>2. CASE Verify
  BY <1>2 DEF Verify, StaleIsTracked, Documents, Follows
<1>3. ASSUME NEW k \in Documents, NEW as \in {"own", "foreign"},
             File(k, as), stage' = stage
      PROVE  StaleIsTracked'
  <2> SUFFICES ASSUME NEW i \in Documents, NEW p \in Documents, Follows(i, p),
                      filed'[i] # "missing", filed'[i] = "foreign" \/ filed'[p] # "own"
               PROVE  <<i, p>> \in stale'
    BY <1>3, FileKeepsTheRest DEF StaleIsTracked, Follows
  <2>1. CASE i = k
    <3>1. CASE as = "foreign" \/ filed[p] # "own"
      BY <1>3, <2>1, <3>1, FileMakesStale
    <3>2. CASE as = "own" /\ filed[p] = "own"
      BY <1>3, <2>1, <3>2, FileKeepsTheRest
    <3> QED
      BY <3>1, <3>2
  <2>2. CASE i # k /\ p = k
    BY <1>3, <2>2, FileKeepsTheRest, FileMakesStale
  <2>3. CASE i # k /\ p # k
    <3>1. <<i, p>> \in stale
      BY <1>3, <2>3, FileKeepsTheRest DEF StaleIsTracked
    <3> QED
      BY <1>3, <2>3, <3>1, FileMakesStale
  <2> QED
    BY <2>1, <2>2, <2>3
<1> QED
  BY <1>1, <1>2, <1>3, StepKinds

LEMMA VerifiedStep ==
  ASSUME TypeOK, AcceptedWasVerified, [Next]_vars
  PROVE  AcceptedWasVerified'
<1>1. CASE UNCHANGED vars
  BY <1>1 DEF AcceptedWasVerified, vars, Documents
<1>2. CASE Verify
  BY <1>2 DEF Verify, AcceptedWasVerified, Documents
<1>3. ASSUME NEW k \in Documents, NEW as \in {"own", "foreign"}, ~accepted, accepted' = accepted
      PROVE  AcceptedWasVerified'
  BY <1>3 DEF AcceptedWasVerified
<1> QED
  BY <1>1, <1>2, <1>3, StepKinds

THEOREM InvariantHolds == Spec => []IInv
<1>1. Init => IInv
  <2>1. ASSUME Init PROVE StaleIsTracked
    BY <2>1, InitOK DEF StaleIsTracked
  <2>2. ASSUME Init PROVE AcceptedWasVerified
    BY <2>2 DEF Init, AcceptedWasVerified
  <2> QED
    BY <2>1, <2>2, InitOK DEF IInv
<1>2. IInv /\ [Next]_vars => IInv'
  BY TypeStep, TrackedStep, VerifiedStep DEF IInv
<1> QED
  BY <1>1, <1>2, PTL DEF Spec

\* A document of another deployment makes a compared pair stale, or differs
\* from the compared document it shares a part with.
LEMMA ForeignIsRefused ==
  ASSUME IInv, accepted, NEW k \in Compared(stage)
  PROVE  filed[k] = "own"
<1>1. PICK q \in Checks[stage].digests \cup Checks[stage].dated : k \in {q[1], q[2]}
  BY DEF Compared
<1>2. q[1] \in Documents /\ q[2] \in Documents
  BY <1>1 DEF IInv, TypeOK, Documents, Reads
<1>3. q = <<q[1], q[2]>>
  <2>1. q \in (DOMAIN Names) \X (DOMAIN Names)
    BY <1>1, IssuanceAssumption DEF IInv, TypeOK
  <2> QED
    BY <2>1
<1>5. Follows(q[1], q[2])
  BY <1>1, <1>3, IssuanceAssumption DEF IInv, TypeOK, Follows
<1>4. q \notin stale /\ filed[q[1]] # "missing"
  BY <1>1, <1>2 DEF IInv, AcceptedWasVerified
<1> QED
  BY <1>1, <1>2, <1>3, <1>4, <1>5 DEF IInv, StaleIsTracked, TypeOK, Documents

\* Whichever document of another deployment is filed, it is not accepted.
THEOREM OneDeploymentHolds == Spec => []OneDeployment
<1>1. IInv => OneDeployment
  <2> SUFFICES ASSUME IInv, accepted, NEW k \in Documents
               PROVE  filed[k] = "own"
    BY DEF OneDeployment
  <2>1. CASE k \in Compared(stage)
    BY <2>1, ForeignIsRefused
  <2>2. CASE k \notin Compared(stage)
    <3>1. k \in Reads(stage) /\ stage \in Stages
      BY DEF IInv, TypeOK, Documents
    <3>2. PICK p \in Compared(stage) :
            <<k, p>> \in Checks[stage].alike \/ <<p, k>> \in Checks[stage].alike
      BY <2>2, <3>1, AnchoredAssumption
    <3>3. filed[k] = filed[p]
      BY <3>2 DEF IInv, AcceptedWasVerified
    <3> QED
      BY <3>2, <3>3, ForeignIsRefused
  <2> QED
    BY <2>1, <2>2
<1> QED
  BY <1>1, InvariantHolds, PTL

-----------------------------------------------------------------------------
(* Digests nobody compares                                                 *)

\* t tells when a document was last filed: what is out of date of filed
\* documents is what was filed again later.
Times(n, t) ==
  /\ t \in [Documents -> 0..n]
  /\ \A j, k \in Documents :
       Follows(j, k) /\ filed[j] # "missing" /\ filed[k] # "missing" =>
         /\ <<j, k>> \notin stale => t[k] < t[j]
         /\ <<j, k>> \in stale /\ filed[j] = "own" /\ filed[k] = "own" => t[j] <= t[k]

Timed == \E n \in Nat : \E t : Times(n, t)

\* The pairs a filing puts out of date, or leaves so.
LEMMA FileOnlyMakesStale ==
  ASSUME TypeOK, NEW k \in Documents, NEW as \in {"own", "foreign"}, File(k, as),
         NEW j \in Documents, NEW p \in Documents, <<j, p>> \in stale'
  PROVE  \/ j # k /\ p # k /\ <<j, p>> \in stale
         \/ p = k
         \/ j = k /\ (as = "foreign" \/ filed[p] # "own")
BY DEF File

\* A document that is filed again is the latest.
LEMMA FileIsTimed ==
  ASSUME TypeOK, NEW k \in Documents, NEW as \in {"own", "foreign"},
         File(k, as), stage' = stage, Timed
  PROVE  Timed'
<1>0. PICK n \in Nat : \E t : Times(n, t)
  BY DEF Timed
<1>1. PICK t : Times(n, t)
  BY <1>0
<1> DEFINE u == [t EXCEPT ![k] = n + 1]
<1>2. Documents' = Documents /\ t \in [Documents -> 0..n]
  BY <1>1, FileKeepsTheRest DEF Times
<1>3. /\ u \in [Documents -> 0..(n + 1)] /\ u[k] = n + 1
      /\ \A j \in Documents \ {k} : u[j] = t[j] /\ t[j] \in 0..n
  BY <1>1, <1>2
<1>4. ASSUME NEW j \in Documents, NEW p \in Documents, Follows(j, p),
             filed'[j] # "missing", filed'[p] # "missing", <<j, p>> \notin stale'
      PROVE  u[p] < u[j]
  <2>1. p # k
    <3>1. CASE j = k
      BY <1>4, <3>1, FileMakesStale
    <3>2. CASE j # k
      BY <1>4, <3>2, FileMakesStale, FileKeepsTheRest
    <3> QED
      BY <3>1, <3>2
  <2>2. CASE j = k
    BY <1>1, <1>3, <2>1, <2>2
  <2>3. CASE j # k
    <3>1. <<j, p>> \notin stale /\ filed[j] # "missing" /\ filed[p] # "missing"
      BY <1>4, <2>1, <2>3, FileMakesStale, FileKeepsTheRest
    <3>2. t[p] < t[j]
      BY <1>1, <1>4, <3>1 DEF Times
    <3> QED
      BY <1>3, <2>1, <2>3, <3>2
  <2> QED
    BY <2>2, <2>3
<1>5. ASSUME NEW j \in Documents, NEW p \in Documents, Follows(j, p),
             filed'[j] = "own", filed'[p] = "own", <<j, p>> \in stale'
      PROVE  u[j] <= u[p]
  <2>1. CASE p = k
    BY <1>1, <1>3, <2>1
  <2>2. CASE j # k /\ p # k
    <3>0. filed[j] = "own" /\ filed[p] = "own"
      BY <1>5, <2>2, FileKeepsTheRest
    <3>1. <<j, p>> \in stale
      BY <1>5, <2>2, FileOnlyMakesStale
    <3>2. t[j] <= t[p]
      BY <1>1, <1>5, <3>0, <3>1 DEF Times
    <3> QED
      BY <1>3, <2>2, <3>2
  <2>3. CASE j = k /\ p # k
    <3>1. as = "own" /\ filed[p] = "own"
      BY <1>5, <2>3, FileKeepsTheRest
    <3> QED
      BY <1>5, <2>3, <3>1, FileOnlyMakesStale
  <2> QED
    BY <2>1, <2>2, <2>3
<1>6. \A j, p : Follows(j, p)' = Follows(j, p)
  BY DEF Follows
<1> HIDE DEF u
<1>7. Times(n + 1, u)'
  BY <1>2, <1>3, <1>4, <1>5, <1>6 DEF Times
<1>8. n + 1 \in Nat
  BY <1>1
<1> QED
  BY <1>7, <1>8 DEF Timed

LEMMA TimedStep ==
  ASSUME TypeOK, Timed, [Next]_vars
  PROVE  Timed'
<1>1. CASE UNCHANGED <<stage, filed, stale>>
  BY <1>1 DEF Timed, Times, Documents, Follows
<1> QED
  BY <1>1, StepKinds, FileIsTimed DEF vars, Verify

LEMMA InitTimed == Init => Timed
<1> SUFFICES ASSUME Init
             PROVE  Times(0, [k \in Documents |-> 0])
  BY DEF Timed
<1> QED
  BY InitOK DEF Times

LEMMA TimedHolds == Spec => []Timed
BY InitTimed, TimedStep, TypeCorrect, PTL DEF Spec

\* A compared pair of an accepted set is in order.
LEMMA ComparedInOrder ==
  ASSUME IInv, accepted, NEW n, NEW t, Times(n, t), NEW k, NEW p,
         <<k, p>> \in Checks[stage].digests \cup Checks[stage].dated
  PROVE  k \in Documents /\ p \in Documents /\ t[p] < t[k]
<1>1. k \in Documents /\ p \in Documents
  BY DEF IInv, TypeOK, Documents, Reads
<1>2. Follows(k, p)
  BY IssuanceAssumption DEF IInv, TypeOK, Follows
<1>3. <<k, p>> \notin stale /\ filed[k] # "missing" /\ filed[p] # "missing"
  BY <1>1 DEF IInv, AcceptedWasVerified
<1> QED
  BY <1>1, <1>2, <1>3 DEF Times

\* However often documents are re-issued or mixed up, no signed document that
\* is accepted holds the digest of a document re-issued after it: not even a
\* digest no verifier compares, if compared ones lead from document to document.
THEOREM AcceptedCurrent ==
  ASSUME \A s \in Stages : Chained(s)
  PROVE  Spec => []AcceptedIsCurrent
<1>1. ASSUME IInv, Timed, OneDeployment, accepted, NEW q \in stale,
             q[1] \notin Unsigned \cup Inherited[stage]
      PROVE  FALSE
  <2>0. PICK n \in Nat : \E t : Times(n, t)
    BY <1>1 DEF Timed
  <2>1. PICK t : Times(n, t)
    BY <2>0
  <2>2. PICK k \in Documents, p \in Documents : q = <<k, p>> /\ Follows(k, p)
    BY <1>1 DEF IInv, TypeOK
  <2>3. t[k] <= t[p] /\ t[k] \in Nat /\ t[p] \in Nat
    BY <1>1, <2>1, <2>2 DEF Times, OneDeployment
  <2>4. <<k, p>> \notin Checks[stage].digests \cup Checks[stage].dated
    BY <1>1, <2>2 DEF IInv, AcceptedWasVerified
  <2>5. stage \in Stages /\ k \in Reads(stage) /\ p \in Reads(stage) \cap Names[k]
    BY <1>1, <2>2, <2>4 DEF IInv, TypeOK, Documents, Follows
  <2>6. PICK x \in Reads(stage) :
          /\ <<k, x>> \in Checks[stage].digests \cup Checks[stage].dated
          /\ <<x, p>> \in Checks[stage].digests \cup Checks[stage].dated
    BY <1>1, <2>2, <2>4, <2>5 DEF Chained
  <2>7. x \in Documents /\ t[p] < t[x] /\ t[x] < t[k]
    BY <1>1, <2>1, <2>6, ComparedInOrder
  <2>8. t[x] \in Nat
    BY <2>1, <2>7 DEF Times
  <2> QED
    BY <2>3, <2>7, <2>8
<1>2. IInv /\ Timed /\ OneDeployment => AcceptedIsCurrent
  BY <1>1 DEF AcceptedIsCurrent
<1> QED
  BY <1>2, InvariantHolds, TimedHolds, OneDeploymentHolds, PTL

-----------------------------------------------------------------------------
(* Documents that wait for one another                                     *)

\* Every document of C has its digest or its time compared with what another
\* one of C holds.
Cycle(s, C) ==
  /\ C \subseteq Reads(s) /\ C # {}
  /\ \A k \in C : \E j \in C : <<j, k>> \in Checks[s].digests \cup Checks[s].dated

\* Once all of C is filed, one of its documents holds what another one was.
Knotted(s, C) ==
  stage = s /\ (\A k \in C : filed[k] # "missing")
    => \E q \in Checks[s].digests \cup Checks[s].dated :
         q \in stale /\ q[1] \in C /\ q[2] \in C

LEMMA CycleIsFollowed ==
  ASSUME TypeOK, NEW C, Cycle(stage, C), NEW k \in C
  PROVE  \E j \in C : /\ <<j, k>> \in Checks[stage].digests \cup Checks[stage].dated
                      /\ Follows(j, k) /\ j \in Documents
<1>1. PICK j \in C : <<j, k>> \in Checks[stage].digests \cup Checks[stage].dated
  BY DEF Cycle
<1>2. Follows(j, k)
  BY <1>1, IssuanceAssumption DEF TypeOK, Follows
<1> QED
  BY <1>1, <1>2 DEF Cycle, TypeOK, Documents

LEMMA KnottedStep ==
  ASSUME TypeOK, NEW s \in Stages, NEW C, Cycle(s, C), Knotted(s, C), [Next]_vars
  PROVE  Knotted(s, C)'
<1>1. CASE UNCHANGED vars
  BY <1>1 DEF Knotted, vars
<1>2. CASE Verify
  BY <1>2 DEF Knotted, Verify
<1>3. ASSUME NEW k \in Documents, NEW as \in {"own", "foreign"},
             File(k, as), stage' = stage, stage = s, \A i \in C : filed'[i] # "missing"
      PROVE  \E q \in Checks[s].digests \cup Checks[s].dated :
               q \in stale' /\ q[1] \in C /\ q[2] \in C
  <2>1. CASE k \in C
    <3>1. PICK j \in C : /\ <<j, k>> \in Checks[stage].digests \cup Checks[stage].dated
                         /\ Follows(j, k) /\ j \in Documents
      BY <1>3, <2>1, CycleIsFollowed
    <3>2. <<j, k>> \in stale'
      <4>1. CASE j = k /\ filed[k] # "own"
        BY <1>3, <3>1, <4>1, FileMakesStale
      <4>2. CASE filed[j] # "missing"
        BY <1>3, <3>1, <4>2, FileMakesStale
      <4>3. CASE j # k
        BY <1>3, <3>1, <4>2, <4>3, FileKeepsTheRest
      <4> QED
        BY <4>1, <4>2, <4>3
    <3> QED
      BY <1>3, <2>1, <3>1, <3>2
  <2>2. CASE k \notin C
    <3>1. \A i \in C : filed[i] # "missing"
      BY <1>3, <2>2, FileKeepsTheRest DEF Cycle, TypeOK, Documents
    <3>2. PICK q \in Checks[s].digests \cup Checks[s].dated :
            q \in stale /\ q[1] \in C /\ q[2] \in C
      BY <1>3, <3>1 DEF Knotted
    <3>3. q[1] # k
      BY <2>2, <3>2
    <3>4. q \in stale'
      BY <1>3, <3>2, <3>3, FileMakesStale
    <3> QED
      BY <3>2, <3>4
  <2> QED
    BY <2>1, <2>2
<1>4. ASSUME NEW k \in Documents, NEW as \in {"own", "foreign"}, File(k, as), stage' = stage
      PROVE  Knotted(s, C)'
  BY <1>3, <1>4 DEF Knotted
<1> QED
  BY <1>1, <1>2, <1>4, StepKinds

\* A stage whose verifiers compare digests or times around a cycle accepts no
\* documents at all, however often they are issued again: SHA-256 has no
\* document that holds the digest of one that holds its own.
THEOREM CyclesAreNeverAccepted ==
  ASSUME NEW s \in Stages, NEW C, Cycle(s, C)
  PROVE  Spec => [](stage = s => ~accepted)
<1>1. Init => Knotted(s, C)
  BY InitOK DEF Knotted, Cycle
<1>2. TypeOK /\ Knotted(s, C) /\ [Next]_vars => Knotted(s, C)'
  BY KnottedStep
<1>3. IInv /\ Knotted(s, C) => (stage = s => ~accepted)
  <2> SUFFICES ASSUME IInv, Knotted(s, C), stage = s, accepted PROVE FALSE
    OBVIOUS
  <2>1. \A k \in C : filed[k] # "missing"
    BY DEF IInv, AcceptedWasVerified, TypeOK, Documents, Cycle
  <2> QED
    BY <2>1 DEF Knotted, IInv, AcceptedWasVerified
<1> QED
  BY <1>1, <1>2, <1>3, TypeCorrect, InvariantHolds, PTL DEF Spec

\* A stage compares what any of its verifiers compares.
LEMMA StageCompares ==
  ASSUME NEW V, NEW v \in V
  PROVE  v.digests \subseteq Stage(V).digests /\ v.dated \subseteq Stage(V).dated
BY DEF Stage

LEMMA VerifierCompares ==
  ASSUME NEW d, NEW t, NEW a
  PROVE  Verifier(d, t, a).digests = d /\ Verifier(d, t, a).dated = t
BY DEF Verifier

\* load_verified_allocation_backend_artifacts: the allocation intent names the
\* executor control policy, that names the installation policy, and that names
\* the intent.
THEOREM BackendIsNeverAccepted ==
  ASSUME NEW s \in Stages, Checks[s] = Stage(Backend)
  PROVE  Spec => [](stage = s => ~accepted)
<1> DEFINE C == {"allocation_intent", "executor_control", "installation_policy"}
<1>2. <<"allocation_intent", "executor_control">> \in Stage(Backend).digests
  <2>1. VerifyAllocationControlPolicies \in Backend
    BY DEF Backend
  <2>2. <<"allocation_intent", "executor_control">> \in VerifyAllocationControlPolicies.digests
    BY VerifierCompares DEF VerifyAllocationControlPolicies, Of
  <2> QED
    BY <2>1, <2>2, StageCompares
<1>3. <<"executor_control", "installation_policy">> \in Stage(Backend).digests
  <2>1. VerifyAllocationBackend \in Backend
    BY DEF Backend
  <2>2. <<"executor_control", "installation_policy">> \in VerifyAllocationBackend.digests
    BY VerifierCompares DEF VerifyAllocationBackend, Of
  <2> QED
    BY <2>1, <2>2, StageCompares
<1>4. <<"installation_policy", "allocation_intent">> \in Stage(Backend).digests
  <2>1. VerifyInstallation \in Backend
    BY DEF Backend, Transport
  <2>2. <<"installation_policy", "allocation_intent">> \in VerifyInstallation.digests
    BY VerifierCompares DEF VerifyInstallation, Of
  <2> QED
    BY <2>1, <2>2, StageCompares
<1>5. Cycle(s, C)
  <2>1. C \subseteq Reads(s)
    BY <1>2, <1>3, <1>4 DEF Reads
  <2> QED
    BY <1>2, <1>3, <1>4, <2>1 DEF Cycle
<1> HIDE DEF C
<1> QED
  BY <1>5, CyclesAreNeverAccepted

\* _run_observed_authorization: the materialization intent is dated not before
\* the restore observation its digest covers, the materialization receipt not
\* before the intent, and the restore observation not before the receipt.
THEOREM ObservedIsNeverAccepted ==
  ASSUME NEW s \in Stages, Checks[s] = Stage(Observed)
  PROVE  Spec => [](stage = s => ~accepted)
<1> DEFINE C == {"materialization_intent", "observed_restore", "materialization_receipt"}
<1>2. <<"materialization_intent", "observed_restore">> \in Stage(Observed).digests
  <2>1. ObservedRuntimeTransition \in Observed
    BY DEF Observed, MaterializationStage
  <2>2. <<"materialization_intent", "observed_restore">> \in ObservedRuntimeTransition.digests
    BY VerifierCompares DEF ObservedRuntimeTransition, Of
  <2> QED
    BY <2>1, <2>2, StageCompares
<1>3. <<"observed_restore", "materialization_receipt">> \in Stage(Observed).dated
  <2>1. VerifyMaterializationStage \in Observed
    BY DEF Observed, MaterializationStage
  <2>2. <<"observed_restore", "materialization_receipt">> \in VerifyMaterializationStage.dated
    BY VerifierCompares DEF VerifyMaterializationStage, RuntimeStageTimes, Of
  <2> QED
    BY <2>1, <2>2, StageCompares
<1>4. <<"materialization_receipt", "materialization_intent">> \in Stage(Observed).digests
  <2>1. ObservedRuntimeTransition \in Observed
    BY DEF Observed, MaterializationStage
  <2>2. <<"materialization_receipt", "materialization_intent">> \in ObservedRuntimeTransition.digests
    BY VerifierCompares DEF ObservedRuntimeTransition, Of
  <2> QED
    BY <2>1, <2>2, StageCompares
<1>5. Cycle(s, C)
  <2>1. C \subseteq Reads(s)
    BY <1>2, <1>3, <1>4 DEF Reads
  <2> QED
    BY <1>2, <1>3, <1>4, <2>1 DEF Cycle
<1> HIDE DEF C
<1> QED
  BY <1>5, CyclesAreNeverAccepted

\* _run_materialization_authorization and the start run read the same
\* three documents and compare the same three digests.
THEOREM RuntimeStagesAreNeverAccepted ==
  ASSUME NEW s \in Stages, NEW V \in {Materialize, Start}, Checks[s] = Stage(V)
  PROVE  Spec => [](stage = s => ~accepted)
<1> DEFINE C == {"allocation_intent", "executor_control", "installation_policy"}
<1>1. VerifyAllocationControlPolicies \in V /\ VerifyExecutorInstallation \in V
  BY DEF Materialize, Start
<1>2. <<"allocation_intent", "executor_control">> \in Stage(V).digests
  <2>1. <<"allocation_intent", "executor_control">> \in VerifyAllocationControlPolicies.digests
    BY VerifierCompares DEF VerifyAllocationControlPolicies, Of
  <2> QED
    BY <1>1, <2>1, StageCompares
<1>3. /\ <<"executor_control", "installation_policy">> \in Stage(V).digests
      /\ <<"installation_policy", "allocation_intent">> \in Stage(V).digests
  <2>1. /\ <<"executor_control", "installation_policy">> \in VerifyExecutorInstallation.digests
        /\ <<"installation_policy", "allocation_intent">> \in VerifyExecutorInstallation.digests
    BY VerifierCompares DEF VerifyExecutorInstallation, Of
  <2> QED
    BY <1>1, <2>1, StageCompares
<1>4. Cycle(s, C)
  <2>1. C \subseteq Reads(s)
    BY <1>2, <1>3 DEF Reads
  <2> QED
    BY <1>2, <1>3, <2>1 DEF Cycle
<1> HIDE DEF C
<1> QED
  BY <1>4, CyclesAreNeverAccepted

-----------------------------------------------------------------------------
(* ProviderMaterial: who works on what, and what there may be together.    *)

\* What a root holds before a value of generation g is stored.
Backed(files, r, g) ==
  /\ files[r]["signer"] = "exact" /\ files[r]["policy"] = "exact"
  /\ files[r]["receipt"] = g /\ files[r]["genesis"] = g

\* A process works on the generation it drew; it stores values, one after the
\* other, only where they are backed, and attests when all are stored.
Works(a) ==
  LET me == actor[a]
  IN /\ me.gen \in drawn \cup {"none"}
     /\ me.doc \in {"receipt", "genesis", "attestation"} /\ me.pc # "generate"
          => me.gen \in drawn
     /\ me.pc = "fill" => file[me.root][me.doc] = "torn"
     /\ me.pc \in {"pin", "add"} => me.doc \in {"signer", "genesis"}
     /\ me.pc = "generate" => me.doc = "receipt"
     /\ me.pc = "add" /\ me.doc = "genesis" => Backed(file, me.root, me.gen)
     /\ me.doc = "attestation" =>
          /\ Backed(file, me.root, me.gen)
          /\ \A i \in Items : keychain[i] = me.gen
     /\ me.doc = "genesis" /\ me.pc \in {"pin", "add"} =>
          \A j \in 1..(me.k - 1) : keychain[OrderOf[me.root][j]] = me.gen
     /\ me.doc = "genesis" /\ me.pc \notin {"pin", "add"} => me.k = 1
     /\ me.doc \in {"signer", "policy", "receipt"} => me.k = 1

WorkInv == \A a \in Actors : Works(a)

\* No two processes share a generation or write one file.
Apart(a, b) ==
  /\ actor[a].gen # "none" => actor[a].gen # actor[b].gen
  /\ ~ /\ actor[a].pc = "fill" /\ actor[b].pc = "fill"
       /\ actor[a].root = actor[b].root /\ actor[a].doc = actor[b].doc

ApartInv == \A a, b \in Actors : a # b => Apart(a, b)

\* A generation is drawn before it is on file, on file in one root only, and
\* its attestation comes after its values.
Filing(r) ==
  /\ file[r]["signer"] \in {"absent", "torn", "exact"}
  /\ file[r]["policy"] \in {"absent", "torn", "exact"}
  /\ \A d \in {"receipt", "genesis", "attestation"} :
       file[r][d] \in {"absent", "torn"} \cup drawn
  /\ file[r]["attestation"] \in drawn =>
       /\ Backed(file, r, file[r]["attestation"])
       /\ \A i \in Items : keychain[i] = file[r]["attestation"]
  /\ file[r]["receipt"] \in drawn =>
       /\ \A s \in Roots : file[s]["receipt"] = file[r]["receipt"] => s = r
       /\ \A a \in Actors : actor[a].gen = file[r]["receipt"] => actor[a].root = r

FileInv == \A r \in Roots : Filing(r)

\* Every stored value is backed in some root.
KeyInv ==
  \A i \in Items : keychain[i] \in Generations => \E r \in Roots : Backed(file, r, keychain[i])

MaterialInv == Material!TypeOK /\ WorkInv /\ ApartInv /\ FileInv /\ KeyInv

\* The states of one process.
Work ==
  [ pc : {"idle", "look", "create", "fill", "generate", "pin", "add"},
    doc : Material!Files, root : Roots, gen : Generations \cup {"none"},
    k : 1..(Material!Cardinality(Items) + 1) ]

LEMMA ConstantFacts ==
  ASSUME Material!MaterialAssumption
  PROVE  /\ Material!Cardinality(Items) \in Nat
         /\ {"absent", "torn", "exact", "foreign", "none"} \cap Generations = {}
         /\ \A r \in Roots :
              \A i \in Items : \E j \in 1..Material!Cardinality(Items) : OrderOf[r][j] = i
         /\ \A r \in Roots : \A j \in 1..Material!Cardinality(Items) : OrderOf[r][j] \in Items
         /\ Material!Idle \in Work
<1>1. ASSUME NEW r \in Roots
      PROVE  /\ Len(OrderOf[r]) = Material!Cardinality(Items)
             /\ OrderOf[r] \in Seq(Items)
             /\ {OrderOf[r][i] : i \in DOMAIN OrderOf[r]} = Items
  BY <1>1 DEF Material!MaterialAssumption
<1>2. PICK r \in Roots : TRUE
  BY DEF Material!MaterialAssumption
<1>3. Material!Cardinality(Items) \in Nat
  BY <1>1, <1>2
<1>4. ASSUME NEW s \in Roots
      PROVE  DOMAIN OrderOf[s] = 1..Material!Cardinality(Items)
  BY <1>1, <1>4
<1>5. (CHOOSE s \in Roots : TRUE) \in Roots
  BY <1>2
<1>6. Material!Idle \in Work
  BY <1>3, <1>5 DEF Material!Idle, Material!Files, Work
<1>7. ASSUME NEW s \in Roots, NEW j \in 1..Material!Cardinality(Items)
      PROVE  OrderOf[s][j] \in Items
  BY <1>1, <1>4, <1>7
<1>8. ASSUME NEW s \in Roots, NEW i \in Items
      PROVE  \E j \in 1..Material!Cardinality(Items) : OrderOf[s][j] = i
  BY <1>1, <1>4, <1>8
<1> QED
  BY <1>3, <1>6, <1>7, <1>8 DEF Material!MaterialAssumption

------------------------------------------------------------------------------
(* How a process moves                                                      *)

LEMMA Moves ==
  ASSUME actor \in [Actors -> Work], NEW a \in Actors, NEW v \in Work,
         actor' = [actor EXCEPT ![a] = v]
  PROVE  /\ actor' \in [Actors -> Work]
         /\ actor'[a] = v
         /\ \A b \in Actors \ {a} : actor'[b] = actor[b]
OBVIOUS

LEMMA GotoMoves ==
  ASSUME actor \in [Actors -> Work], NEW a \in Actors,
         NEW pc \in {"idle", "look", "create", "fill", "generate", "pin", "add"},
         Material!Goto(a, pc)
  PROVE  /\ actor' \in [Actors -> Work]
         /\ actor'[a] = [actor[a] EXCEPT !.pc = pc]
         /\ \A b \in Actors \ {a} : actor'[b] = actor[b]
<1>1. actor[a] \in Work
  OBVIOUS
<1>2. [actor[a] EXCEPT !.pc = pc] \in Work
  BY <1>1 DEF Work
<1>3. actor' = [actor EXCEPT ![a] = [actor[a] EXCEPT !.pc = pc]]
  BY DEF Material!Goto
<1> QED
  BY <1>2, <1>3, Moves

LEMMA FiledMoves ==
  ASSUME Material!MaterialAssumption, actor \in [Actors -> Work], NEW a \in Actors,
         Material!Filed(a)
  PROVE  /\ actor' \in [Actors -> Work]
         /\ \A b \in Actors \ {a} : actor'[b] = actor[b]
         /\ actor[a].doc = "signer" =>
              actor'[a] = [actor[a] EXCEPT !.pc = "pin", !.doc = "signer"]
         /\ actor[a].doc = "policy" =>
              actor'[a] = [actor[a] EXCEPT !.pc = "generate", !.doc = "receipt"]
         /\ actor[a].doc = "receipt" =>
              actor'[a] = [actor[a] EXCEPT !.pc = "look", !.doc = "genesis"]
         /\ actor[a].doc = "genesis" =>
              actor'[a] = [actor[a] EXCEPT !.pc = "pin", !.doc = "genesis"]
         /\ actor[a].doc = "attestation" => actor'[a] = Material!Idle
<1>1. actor[a] \in Work /\ actor[a].doc \in Material!Files
  BY DEF Work
<1>2. ASSUME NEW pc \in {"look", "generate", "pin"}, NEW d \in Material!Files,
             actor' = [actor EXCEPT ![a].pc = pc, ![a].doc = d]
      PROVE  /\ actor' \in [Actors -> Work]
             /\ actor'[a] = [actor[a] EXCEPT !.pc = pc, !.doc = d]
             /\ \A b \in Actors \ {a} : actor'[b] = actor[b]
  <2>1. [actor[a] EXCEPT !.pc = pc, !.doc = d] \in Work
    BY <1>1, <1>2 DEF Work
  <2>2. actor' = [actor EXCEPT ![a] = [actor[a] EXCEPT !.pc = pc, !.doc = d]]
    BY <1>1, <1>2
  <2> QED
    BY <2>1, <2>2, Moves
<1>3. CASE actor[a].doc = "signer"
  BY <1>2, <1>3 DEF Material!Filed, Material!Files
<1>4. CASE actor[a].doc = "policy"
  BY <1>2, <1>4 DEF Material!Filed, Material!Files
<1>5. CASE actor[a].doc = "receipt"
  BY <1>2, <1>5 DEF Material!Filed, Material!Files
<1>6. CASE actor[a].doc = "genesis"
  BY <1>2, <1>6 DEF Material!Filed, Material!Files
<1>7. CASE actor[a].doc = "attestation"
  <2>1. actor' = [actor EXCEPT ![a] = Material!Idle]
    BY <1>7 DEF Material!Filed
  <2> QED
    BY <1>7, <2>1, ConstantFacts, Moves
<1> QED
  BY <1>1, <1>3, <1>4, <1>5, <1>6, <1>7 DEF Material!Files
------------------------------------------------------------------------------
(* The invariant is kept                                                    *)

\* A process moves and nothing else changes, except perhaps a lock.
LEMMA MoveKeeps ==
  ASSUME Material!MaterialAssumption, MaterialInv, NEW a \in Actors,
         file' = file, keychain' = keychain, drawn' = drawn,
         pin' \in [Roots -> Actors \cup {"none"}],
         actor' \in [Actors -> Work],
         \A b \in Actors \ {a} : actor'[b] = actor[b],
         actor'[a].gen \in {actor[a].gen, "none"},
         actor'[a].gen = "none" \/ actor'[a].root = actor[a].root,
         actor'[a].pc # "fill",
         Works(a)'
  PROVE  MaterialInv'
<1>1. Material!TypeOK'
  BY DEF MaterialInv, Material!TypeOK, Work
<1>3. WorkInv'
  <2> SUFFICES ASSUME NEW b \in Actors \ {a} PROVE Works(b)'
    BY DEF WorkInv
  <2>1. Works(b)
    BY DEF MaterialInv, WorkInv
  <2> QED
    BY <2>1 DEF Works
<1>4. ApartInv'
  BY DEF MaterialInv, ApartInv, Apart
<1>5. FileInv'
  <2> SUFFICES ASSUME NEW r \in Roots PROVE Filing(r)'
    BY DEF FileInv
  <2>1. Filing(r)
    BY DEF MaterialInv, FileInv
  <2>2. \A b \in Actors : actor'[b].gen \in {actor[b].gen, "none"}
                            /\ (actor'[b].gen = "none" \/ actor'[b].root = actor[b].root)
    OBVIOUS
  <2>3. "none" \notin drawn
    BY ConstantFacts DEF MaterialInv, Material!TypeOK
  <2> QED
    BY <2>1, <2>2, <2>3 DEF Filing
<1>6. KeyInv'
  BY DEF MaterialInv, KeyInv
<1> QED
  BY <1>1, <1>3, <1>4, <1>5, <1>6 DEF MaterialInv

LEMMA BeginKeeps ==
  ASSUME Material!MaterialAssumption, MaterialInv, NEW a \in Actors, Material!Begin(a)
  PROVE  MaterialInv'
<1>1. PICK r \in Roots, d \in {"signer", "policy"} :
        actor' = [actor EXCEPT ![a] = [Material!Idle EXCEPT !.pc = "look", !.doc = d, !.root = r]]
  BY DEF Material!Begin
<1>2. [Material!Idle EXCEPT !.pc = "look", !.doc = d, !.root = r] \in Work
  BY ConstantFacts DEF Work, Material!Files
<1>3. actor \in [Actors -> Work]
  BY DEF MaterialInv, Material!TypeOK, Work
<1>4. /\ actor' \in [Actors -> Work]
      /\ \A b \in Actors \ {a} : actor'[b] = actor[b]
      /\ actor'[a] = [Material!Idle EXCEPT !.pc = "look", !.doc = d, !.root = r]
  BY <1>1, <1>2, <1>3, Moves
<1>5. actor'[a].gen = "none" /\ actor'[a].pc = "look" /\ actor'[a].doc = d /\ actor'[a].k = 1
  BY <1>4 DEF Material!Idle
<1>6. Works(a)'
  BY <1>5 DEF Works
<1> QED
  BY <1>4, <1>5, <1>6, MoveKeeps DEF Material!Begin, MaterialInv, Material!TypeOK

LEMMA IdleWorks ==
  ASSUME NEW a \in Actors, actor'[a] = Material!Idle
  PROVE  Works(a)' /\ actor'[a].gen = "none" /\ actor'[a].pc = "idle"
BY DEF Works, Material!Idle

LEMMA UnpinType ==
  ASSUME Material!TypeOK, NEW a \in Actors, Material!Unpin(a)
  PROVE  pin' \in [Roots -> Actors \cup {"none"}]
BY DEF Material!TypeOK, Material!Unpin

\* What a write-once document does when it finds its own exact bytes.
LEMMA WriteOnceKeeps ==
  ASSUME Material!MaterialAssumption, MaterialInv, NEW a \in Actors,
         NEW d \in {"signer", "policy", "receipt", "genesis"},
         Material!WriteOnceOrRequireExact(a, d)
  PROVE  MaterialInv'
<1>1. actor \in [Actors -> Work] /\ actor[a] \in Work
  BY DEF MaterialInv, Material!TypeOK, Work
<1>2. Works(a)
  BY DEF MaterialInv, WorkInv
<1>3. CASE Material!Goto(a, "create")
  <2>1. /\ actor' \in [Actors -> Work]
        /\ actor'[a] = [actor[a] EXCEPT !.pc = "create"]
        /\ \A b \in Actors \ {a} : actor'[b] = actor[b]
    BY <1>1, <1>3, GotoMoves
  <2>2. /\ actor'[a].pc = "create" /\ actor'[a].doc = d /\ actor'[a].gen = actor[a].gen
        /\ actor'[a].k = actor[a].k /\ actor'[a].root = actor[a].root
    BY <1>1, <2>1 DEF Work, Material!WriteOnceOrRequireExact
  <2>3. Works(a)'
    BY <1>2, <2>2 DEF Works, Material!WriteOnceOrRequireExact
  <2> QED
    BY <2>1, <2>2, <2>3, MoveKeeps
    DEF Material!WriteOnceOrRequireExact, MaterialInv, Material!TypeOK
<1>4. CASE Material!Filed(a)
  <2>1. /\ actor' \in [Actors -> Work]
        /\ \A b \in Actors \ {a} : actor'[b] = actor[b]
        /\ d = "signer" => actor'[a] = [actor[a] EXCEPT !.pc = "pin", !.doc = "signer"]
        /\ d = "policy" => actor'[a] = [actor[a] EXCEPT !.pc = "generate", !.doc = "receipt"]
        /\ d = "receipt" => actor'[a] = [actor[a] EXCEPT !.pc = "look", !.doc = "genesis"]
        /\ d = "genesis" => actor'[a] = [actor[a] EXCEPT !.pc = "pin", !.doc = "genesis"]
    BY <1>1, <1>4, FiledMoves DEF Material!WriteOnceOrRequireExact
  <2>2. /\ actor'[a].gen = actor[a].gen /\ actor'[a].k = actor[a].k
        /\ actor'[a].root = actor[a].root
        /\ d = "signer" => actor'[a].pc = "pin" /\ actor'[a].doc = "signer"
        /\ d = "policy" => actor'[a].pc = "generate" /\ actor'[a].doc = "receipt"
        /\ d = "receipt" => actor'[a].pc = "look" /\ actor'[a].doc = "genesis"
        /\ d = "genesis" => actor'[a].pc = "pin" /\ actor'[a].doc = "genesis"
    BY <1>1, <2>1 DEF Work
  <2>3. Works(a)'
    BY <1>2, <2>2 DEF Works, Material!WriteOnceOrRequireExact
  <2> QED
    BY <2>1, <2>2, <2>3, MoveKeeps
    DEF Material!WriteOnceOrRequireExact, MaterialInv, Material!TypeOK
<1> QED
  BY <1>3, <1>4 DEF Material!WriteOnceOrRequireExact

LEMMA WriteAttestationKeeps ==
  ASSUME Material!MaterialAssumption, MaterialInv, NEW a \in Actors, Material!WriteAttestation(a)
  PROVE  MaterialInv'
<1>1. actor \in [Actors -> Work] /\ actor[a] \in Work
  BY DEF MaterialInv, Material!TypeOK, Work
<1>2. Works(a)
  BY DEF MaterialInv, WorkInv
<1>3. /\ actor' \in [Actors -> Work]
      /\ actor'[a] = [actor[a] EXCEPT !.pc = "create"]
      /\ \A b \in Actors \ {a} : actor'[b] = actor[b]
  BY <1>1, GotoMoves DEF Material!WriteAttestation
<1>4. /\ actor'[a].pc = "create" /\ actor'[a].doc = "attestation" /\ actor'[a].gen = actor[a].gen
      /\ actor'[a].root = actor[a].root
  BY <1>1, <1>3 DEF Work, Material!WriteAttestation
<1>5. Works(a)'
  BY <1>2, <1>4 DEF Works, Material!WriteAttestation, Backed
<1> QED
  BY <1>3, <1>4, <1>5, MoveKeeps DEF Material!WriteAttestation, MaterialInv, Material!TypeOK

LEMMA PinKeeps ==
  ASSUME Material!MaterialAssumption, MaterialInv, NEW a \in Actors, Material!Pin(a)
  PROVE  MaterialInv'
<1>1. actor \in [Actors -> Work] /\ actor[a] \in Work
  BY DEF MaterialInv, Material!TypeOK, Work
<1>2. Works(a)
  BY DEF MaterialInv, WorkInv
<1>3. /\ actor' \in [Actors -> Work]
      /\ actor'[a] = [actor[a] EXCEPT !.pc = "add"]
      /\ \A b \in Actors \ {a} : actor'[b] = actor[b]
  BY <1>1, GotoMoves DEF Material!Pin
<1>4. /\ actor'[a].pc = "add" /\ actor'[a].doc = actor[a].doc /\ actor'[a].gen = actor[a].gen
      /\ actor'[a].root = actor[a].root /\ actor'[a].k = actor[a].k
  BY <1>1, <1>3 DEF Work
<1>5. actor[a].doc = "genesis" => Backed(file, actor[a].root, actor[a].gen)
  BY DEF Material!Pin, Material!Pending, Material!Exact, Material!OnFile, Material!Content, Backed
<1>6. Works(a)'
  BY <1>2, <1>4, <1>5 DEF Works, Material!Pin, Backed
<1>7. pin' \in [Roots -> Actors \cup {"none"}]
  BY DEF Material!Pin, MaterialInv, Material!TypeOK
<1> QED
  BY <1>3, <1>4, <1>6, <1>7, MoveKeeps DEF Material!Pin

LEMMA CreateKeeps ==
  ASSUME Material!MaterialAssumption, MaterialInv, NEW a \in Actors, Material!Create(a)
  PROVE  MaterialInv'
<1> DEFINE r == actor[a].root
           d == actor[a].doc
<1>1. actor \in [Actors -> Work] /\ actor[a] \in Work /\ r \in Roots /\ d \in Material!Files
  BY DEF MaterialInv, Material!TypeOK, Work
<1>2. /\ actor' \in [Actors -> Work]
      /\ actor'[a] = [actor[a] EXCEPT !.pc = "fill"]
      /\ \A b \in Actors \ {a} : actor'[b] = actor[b]
  BY <1>1, GotoMoves DEF Material!Create
<1>3. /\ actor'[a].pc = "fill" /\ actor'[a].doc = d /\ actor'[a].gen = actor[a].gen
      /\ actor'[a].root = r /\ actor'[a].k = actor[a].k
  BY <1>1, <1>2 DEF Work
<1>4. /\ file[r][d] = "absent" /\ file'[r][d] = "torn"
      /\ \A s \in Roots, f \in Material!Files : s # r \/ f # d => file'[s][f] = file[s][f]
      /\ file' \in [Roots -> [Material!Files -> {"absent", "torn", "exact"} \cup Generations]]
      /\ keychain' = keychain /\ pin' = pin /\ drawn' = drawn
  BY <1>1 DEF Material!Create, Material!OnFile, MaterialInv, Material!TypeOK
<1>5. Material!TypeOK'
  BY <1>2, <1>4 DEF MaterialInv, Material!TypeOK, Work
<1>6. {"absent", "torn", "exact", "none"} \cap drawn = {}
  BY ConstantFacts DEF MaterialInv, Material!TypeOK
<1>7. ASSUME NEW s \in Roots, NEW g \in drawn, Backed(file, s, g)
      PROVE  Backed(file', s, g)
  BY <1>4, <1>6, <1>7 DEF Backed, Material!Files
<1>8. WorkInv'
  <2> SUFFICES ASSUME NEW b \in Actors PROVE Works(b)'
    BY DEF WorkInv
  <2>1. Works(b) /\ actor[b].root \in Roots /\ actor[b].doc \in Material!Files
    BY DEF MaterialInv, WorkInv, Material!TypeOK
  <2>2. CASE b = a
    <3>1. Works(a)
      BY <2>1, <2>2
    <3>2. actor[a].doc = "attestation" =>
            actor[a].gen \in drawn /\ Backed(file', r, actor[a].gen) /\ \A i \in Items : keychain[i] = actor[a].gen
      BY <1>1, <1>7, <3>1 DEF Works, Material!Create
    <3> QED
      BY <1>3, <1>4, <2>2, <3>1, <3>2 DEF Works, Material!Create
  <2>3. CASE b # a
    <3>1. actor'[b] = actor[b]
      BY <1>2, <2>3
    <3>2. actor[b].doc \in {"genesis", "attestation"} /\ actor[b].pc # "generate"
            => (Backed(file, actor[b].root, actor[b].gen) =>
              Backed(file', actor[b].root, actor[b].gen))
      BY <1>7, <2>1 DEF Works
    <3>3. actor[b].pc = "fill" => file'[actor[b].root][actor[b].doc] = "torn"
      BY <1>1, <1>4, <2>1 DEF Works
    <3>4. actor[b].doc = "attestation" => actor[b].pc # "generate"
      BY <2>1 DEF Works
    <3> QED
      BY <1>4, <2>1, <3>1, <3>2, <3>3, <3>4 DEF Works
  <2> QED
    BY <2>2, <2>3
<1>9. ApartInv'
  <2>1. \A b \in Actors : actor[b].pc = "fill" => actor[b].root # r \/ actor[b].doc # d
    BY <1>4 DEF MaterialInv, WorkInv, Works
  <2>2. \A b, c \in Actors : b # c => Apart(b, c)
    BY DEF MaterialInv, ApartInv
  <2> SUFFICES ASSUME NEW b \in Actors, NEW c \in Actors, b # c
               PROVE  Apart(b, c)'
    BY DEF ApartInv
  <2>3. actor'[b].gen = actor[b].gen /\ actor'[c].gen = actor[c].gen
    BY <1>2, <1>3
  <2>4. \A x \in Actors \ {a} : actor'[x] = actor[x]
    BY <1>2
  <2>5. ~ /\ actor'[b].pc = "fill" /\ actor'[c].pc = "fill"
          /\ actor'[b].root = actor'[c].root /\ actor'[b].doc = actor'[c].doc
    <3>1. CASE b = a
      BY <1>3, <2>1, <2>4, <3>1
    <3>2. CASE c = a
      BY <1>3, <2>1, <2>4, <3>2
    <3>3. CASE b # a /\ c # a
      BY <2>2, <2>4, <3>3 DEF Apart
    <3> QED
      BY <3>1, <3>2, <3>3
  <2> QED
    BY <2>2, <2>3, <2>5 DEF Apart
<1>10. FileInv'
  <2> SUFFICES ASSUME NEW s \in Roots PROVE Filing(s)'
    BY DEF FileInv
  <2>1. Filing(s) /\ \A t \in Roots : Filing(t)
    BY DEF MaterialInv, FileInv
  <2>2. \A f \in Material!Files : file'[s][f] \in {"torn", file[s][f]}
    BY <1>1, <1>4
  <2>3. \A t \in Roots : file'[t]["receipt"] \in {"torn", file[t]["receipt"]}
    BY <1>1, <1>4 DEF Material!Files
  <2>4. file'[s]["attestation"] \in drawn => Backed(file', s, file'[s]["attestation"])
    BY <1>6, <1>7, <2>1, <2>2 DEF Filing, Material!Files
  <2>5. \A b \in Actors : actor'[b].gen = actor[b].gen /\ actor'[b].root = actor[b].root
    BY <1>2, <1>3
  <2>6. "torn" \notin drawn
    BY <1>6
  <2> QED
    BY <1>4, <2>1, <2>2, <2>3, <2>4, <2>5, <2>6 DEF Filing, Material!Files
<1>11. KeyInv'
  <2> SUFFICES ASSUME NEW i \in Items, keychain[i] \in Generations
               PROVE  \E s \in Roots : Backed(file', s, keychain[i])
    BY <1>4 DEF KeyInv
  <2>1. PICK s \in Roots : Backed(file, s, keychain[i])
    BY DEF MaterialInv, KeyInv
  <2>2. keychain[i] \in drawn
    <3>1. Filing(s) /\ keychain[i] \notin {"absent", "torn"}
      BY ConstantFacts DEF MaterialInv, FileInv
    <3> QED
      BY <2>1, <3>1 DEF Filing, Backed
  <2> QED
    BY <1>7, <2>1, <2>2
<1> QED
  BY <1>5, <1>8, <1>9, <1>10, <1>11 DEF MaterialInv

LEMMA FillKeeps ==
  ASSUME Material!MaterialAssumption, MaterialInv, NEW a \in Actors, Material!Fill(a)
  PROVE  MaterialInv'
<1> DEFINE r == actor[a].root
           d == actor[a].doc
           g == actor[a].gen
<1>1. /\ actor \in [Actors -> Work] /\ actor[a] \in Work /\ r \in Roots /\ d \in Material!Files
      /\ g \in Generations \cup {"none"}
  BY DEF MaterialInv, Material!TypeOK, Work
<1>2. /\ actor' \in [Actors -> Work]
      /\ \A b \in Actors \ {a} : actor'[b] = actor[b]
      /\ d = "signer" => actor'[a] = [actor[a] EXCEPT !.pc = "pin", !.doc = "signer"]
      /\ d = "policy" => actor'[a] = [actor[a] EXCEPT !.pc = "generate", !.doc = "receipt"]
      /\ d = "receipt" => actor'[a] = [actor[a] EXCEPT !.pc = "look", !.doc = "genesis"]
      /\ d = "genesis" => actor'[a] = [actor[a] EXCEPT !.pc = "pin", !.doc = "genesis"]
      /\ d = "attestation" => actor'[a] = Material!Idle
  BY <1>1, FiledMoves DEF Material!Fill
<1>3. /\ d # "attestation" => actor'[a].gen = g /\ actor'[a].k = actor[a].k /\ actor'[a].root = r
      /\ d = "attestation" => actor'[a].gen = "none"
      /\ d = "signer" => actor'[a].pc = "pin" /\ actor'[a].doc = "signer"
      /\ d = "policy" => actor'[a].pc = "generate" /\ actor'[a].doc = "receipt"
      /\ d = "receipt" => actor'[a].pc = "look" /\ actor'[a].doc = "genesis"
      /\ d = "genesis" => actor'[a].pc = "pin" /\ actor'[a].doc = "genesis"
      /\ actor'[a].pc # "fill"
  <2>1. Material!Idle.gen = "none" /\ Material!Idle.pc = "idle"
    BY DEF Material!Idle
  <2>2. CASE d = "signer"
    BY <1>1, <1>2, <2>1, <2>2 DEF Work
  <2>3. CASE d = "policy"
    BY <1>1, <1>2, <2>1, <2>3 DEF Work
  <2>4. CASE d = "receipt"
    BY <1>1, <1>2, <2>1, <2>4 DEF Work
  <2>5. CASE d = "genesis"
    <3>1. actor'[a] = [actor[a] EXCEPT !.pc = "pin", !.doc = "genesis"]
      BY <1>2, <2>5
    <3> QED
      BY <1>1, <2>5, <3>1 DEF Work
  <2>6. CASE d = "attestation"
    <3>1. actor'[a] = Material!Idle
      BY <1>2, <2>6
    <3> QED
      BY <2>1, <2>6, <3>1
  <2>7. d \in {"signer", "policy", "receipt", "genesis", "attestation"}
    BY <1>1 DEF Material!Files
  <2> HIDE DEF d, g, r
  <2> QED
    BY <2>2, <2>3, <2>4, <2>5, <2>6, <2>7
<1>4. Works(a)
  BY DEF MaterialInv, WorkInv
<1>5. /\ file[r][d] = "torn" /\ file'[r][d] = Material!Content(a, d)
      /\ \A s \in Roots, f \in Material!Files : s # r \/ f # d => file'[s][f] = file[s][f]
      /\ keychain' = keychain /\ pin' = pin /\ drawn' = drawn
  BY <1>1, <1>4 DEF Material!Fill, Works, MaterialInv, Material!TypeOK
<1>6. Material!Content(a, d) = (IF d \in {"signer", "policy"} THEN "exact" ELSE g)
  BY DEF Material!Content
<1>7. d \in {"receipt", "genesis", "attestation"} => g \in drawn
  BY <1>4 DEF Works, Material!Fill
<1>8. {"absent", "torn", "exact", "none"} \cap drawn = {} /\ drawn \subseteq Generations
  BY ConstantFacts DEF MaterialInv, Material!TypeOK
<1>9. Material!TypeOK'
  <2>1. Material!Content(a, d) \in {"exact"} \cup Generations
    BY <1>1, <1>6, <1>7, <1>8 DEF Material!Files
  <2>2. file' \in [Roots -> [Material!Files -> {"absent", "torn", "exact"} \cup Generations]]
    BY <1>1, <2>1 DEF Material!Fill, MaterialInv, Material!TypeOK
  <2> QED
    BY <1>2, <1>5, <2>2 DEF MaterialInv, Material!TypeOK, Work
<1>10. ASSUME NEW s \in Roots, NEW h \in drawn, Backed(file, s, h)
       PROVE  Backed(file', s, h)
  BY <1>5, <1>8, <1>10 DEF Backed, Material!Files
<1>11. WorkInv'
  <2> SUFFICES ASSUME NEW b \in Actors PROVE Works(b)'
    BY DEF WorkInv
  <2>1. CASE b = a /\ d = "attestation"
    BY <1>2, <2>1, IdleWorks
  <2>2. CASE b = a /\ d # "attestation"
    BY <1>1, <1>3, <1>4, <1>5, <1>7, <2>2 DEF Works, Material!Fill, Material!Files
  <2>3. CASE b # a
    <3>1. /\ Works(b)
          /\ actor[b].root \in Roots
          /\ actor[b].doc \in Material!Files
          /\ actor'[b] = actor[b]
      BY <1>2, <2>3 DEF MaterialInv, WorkInv, Material!TypeOK
    <3>2. actor[b].pc = "fill" => actor[b].root # r \/ actor[b].doc # d
      BY <2>3 DEF MaterialInv, ApartInv, Apart, Material!Fill
    <3>3. actor[b].doc \in {"genesis", "attestation"} /\ actor[b].pc # "generate"
            => (Backed(file, actor[b].root, actor[b].gen) =>
              Backed(file', actor[b].root, actor[b].gen))
      BY <1>10, <3>1 DEF Works
    <3>4. actor[b].doc = "attestation" => actor[b].pc # "generate"
      BY <3>1 DEF Works
    <3> QED
      BY <1>5, <3>1, <3>2, <3>3, <3>4 DEF Works
  <2> QED
    BY <2>1, <2>2, <2>3
<1>12. ApartInv'
  BY <1>2, <1>3 DEF MaterialInv, ApartInv, Apart
<1>13. FileInv'
  <2> SUFFICES ASSUME NEW s \in Roots PROVE Filing(s)'
    BY DEF FileInv
  <2>1. \A t \in Roots : Filing(t)
    BY DEF MaterialInv, FileInv
  <2>2. \A b \in Actors :
          actor'[b].gen = "none" \/ (actor'[b].gen = actor[b].gen /\ actor'[b].root = actor[b].root)
    BY <1>2, <1>3
  <2>3. file'[s]["attestation"] \in drawn =>
          /\ Backed(file', s, file'[s]["attestation"])
          /\ \A i \in Items : keychain[i] = file'[s]["attestation"]
    <3>1. CASE s = r /\ d = "attestation"
      BY <1>4, <1>5, <1>6, <1>7, <1>10, <3>1 DEF Works
    <3>2. CASE s # r \/ d # "attestation"
      <4>1. file'[s]["attestation"] = file[s]["attestation"]
        BY <1>5, <3>2 DEF Material!Files
      <4> QED
        BY <1>10, <2>1, <4>1 DEF Filing
    <3> QED
      BY <3>1, <3>2
  <2>4. file'[s]["receipt"] \in drawn =>
          /\ \A t \in Roots : file'[t]["receipt"] = file'[s]["receipt"] => t = s
          /\ \A b \in Actors : actor'[b].gen = file'[s]["receipt"] => actor'[b].root = s
    <3>1. CASE d # "receipt"
      <4>1. \A t \in Roots : file'[t]["receipt"] = file[t]["receipt"]
        BY <1>5, <3>1 DEF Material!Files
      <4> QED
        BY <1>8, <2>1, <2>2, <4>1 DEF Filing
    <3>2. CASE d = "receipt"
      <4>1. \A t \in Roots : t # r => file'[t]["receipt"] = file[t]["receipt"]
        BY <1>5 DEF Material!Files
      <4>2. file'[r]["receipt"] = g /\ g \in drawn /\ file[r]["receipt"] = "torn"
        BY <1>5, <1>6, <1>7, <3>2
      <4>3. \A t \in Roots : t # r => file[t]["receipt"] # g
        BY <1>1, <2>1, <4>2 DEF Filing
      <4>4. \A b \in Actors : actor[b].gen = g => b = a
        BY <1>8, <4>2 DEF MaterialInv, ApartInv, Apart
      <4> QED
        BY <1>1, <1>8, <2>1, <2>2, <4>1, <4>2, <4>3, <4>4 DEF Filing
    <3> QED
      BY <3>1, <3>2
  <2>5. /\ file'[s]["signer"] \in {"absent", "torn", "exact"}
        /\ file'[s]["policy"] \in {"absent", "torn", "exact"}
        /\ \A f \in {"receipt", "genesis", "attestation"} :
             file'[s][f] \in {"absent", "torn"} \cup drawn
    BY <1>1, <1>5, <1>6, <1>7, <2>1 DEF Filing, Material!Files
  <2> QED
    BY <1>5, <2>3, <2>4, <2>5 DEF Filing
<1>14. KeyInv'
  <2> SUFFICES ASSUME NEW i \in Items, keychain[i] \in Generations
               PROVE  \E s \in Roots : Backed(file', s, keychain[i])
    BY <1>5 DEF KeyInv
  <2>1. PICK s \in Roots : Backed(file, s, keychain[i])
    BY DEF MaterialInv, KeyInv
  <2>2. keychain[i] \in drawn
    <3>1. Filing(s) /\ keychain[i] \notin {"absent", "torn"}
      BY ConstantFacts DEF MaterialInv, FileInv
    <3> QED
      BY <2>1, <3>1 DEF Filing, Backed
  <2> QED
    BY <1>10, <2>1, <2>2
<1> QED
  BY <1>9, <1>11, <1>12, <1>13, <1>14 DEF MaterialInv

LEMMA GenerateKeeps ==
  ASSUME Material!MaterialAssumption, MaterialInv, NEW a \in Actors, Material!Generate(a)
  PROVE  MaterialInv'
<1>1. PICK g \in Generations \ drawn :
        /\ drawn' = drawn \cup {g}
        /\ actor' = [actor EXCEPT ![a].pc = "look", ![a].gen = g]
  BY DEF Material!Generate
<1>2. actor \in [Actors -> Work] /\ actor[a] \in Work
  BY DEF MaterialInv, Material!TypeOK, Work
<1>3. /\ actor' \in [Actors -> Work]
      /\ actor'[a] = [actor[a] EXCEPT !.pc = "look", !.gen = g]
      /\ \A b \in Actors \ {a} : actor'[b] = actor[b]
  <2>1. [actor[a] EXCEPT !.pc = "look", !.gen = g] \in Work
    BY <1>2 DEF Work
  <2>2. actor' = [actor EXCEPT ![a] = [actor[a] EXCEPT !.pc = "look", !.gen = g]]
    BY <1>1, <1>2
  <2> QED
    BY <1>2, <2>1, <2>2, Moves
<1>4. /\ actor'[a].pc = "look" /\ actor'[a].gen = g /\ actor'[a].doc = actor[a].doc
      /\ actor'[a].root = actor[a].root /\ actor'[a].k = actor[a].k
  BY <1>2, <1>3 DEF Work
<1>5. file' = file /\ keychain' = keychain /\ pin' = pin
  BY DEF Material!Generate
<1>6. g \notin {"absent", "torn", "none"} /\ "none" \notin drawn
  BY ConstantFacts DEF MaterialInv, Material!TypeOK
<1>7. \A b \in Actors : Works(b)
  BY DEF MaterialInv, WorkInv
<1>8. Material!TypeOK'
  BY <1>1, <1>3, <1>5 DEF MaterialInv, Material!TypeOK, Work
<1>9. WorkInv'
  <2> SUFFICES ASSUME NEW b \in Actors PROVE Works(b)'
    BY DEF WorkInv
  <2>1. CASE b = a
    <3>1. actor[a].pc = "generate"
      BY DEF Material!Generate
    <3>2. actor[a].doc = "receipt" /\ actor[a].k = 1
      BY <1>7, <3>1 DEF Works
    <3> QED
      BY <1>1, <1>4, <2>1, <3>2 DEF Works
  <2>2. CASE b # a
    BY <1>1, <1>3, <1>5, <1>7, <2>2 DEF Works
  <2> QED
    BY <2>1, <2>2
<1>10. ApartInv'
  <2>1. \A b \in Actors : actor[b].gen # g
    BY <1>6, <1>7 DEF Works
  <2>2. \A b, c \in Actors : b # c => Apart(b, c)
    BY DEF MaterialInv, ApartInv
  <2> SUFFICES ASSUME NEW b \in Actors, NEW c \in Actors, b # c
               PROVE  Apart(b, c)'
    BY DEF ApartInv
  <2>3. CASE b = a
    BY <1>3, <1>4, <2>1, <2>3 DEF Apart
  <2>4. CASE c = a
    BY <1>3, <1>4, <2>1, <2>4 DEF Apart
  <2>5. CASE b # a /\ c # a
    BY <1>3, <2>2, <2>5 DEF Apart
  <2> QED
    BY <2>3, <2>4, <2>5
<1>11. FileInv'
  <2> SUFFICES ASSUME NEW r \in Roots PROVE Filing(r)'
    BY DEF FileInv
  <2>1. Filing(r)
    BY DEF MaterialInv, FileInv
  <2>2. \A f \in {"receipt", "genesis", "attestation"} : file[r][f] # g
    BY <1>6, <2>1 DEF Filing
  <2>3. \A b \in Actors : actor'[b].gen = g \/ actor'[b] = actor[b]
    BY <1>3, <1>4
  <2> QED
    BY <1>1, <1>5, <2>1, <2>2, <2>3 DEF Filing
<1>12. KeyInv'
  BY <1>5 DEF MaterialInv, KeyInv
<1> QED
  BY <1>8, <1>9, <1>10, <1>11, <1>12 DEF MaterialInv

\* What storing an item leaves of what the others rely on, whatever its
\* process does then.
LEMMA AddKeeps ==
  ASSUME Material!MaterialAssumption, MaterialInv, NEW a \in Actors, actor[a].pc = "add",
         Material!AddIfAbsent(a, Material!Item(a)),
         file' = file, drawn' = drawn,
         pin' \in [Roots -> Actors \cup {"none"}],
         actor' \in [Actors -> Work],
         \A b \in Actors \ {a} : actor'[b] = actor[b],
         actor'[a].gen \in {actor[a].gen, "none"},
         actor'[a].gen = "none" \/ actor'[a].root = actor[a].root,
         actor'[a].pc # "fill",
         Works(a)'
  PROVE  MaterialInv'
<1>1. actor \in [Actors -> Work] /\ actor[a] \in Work
  BY DEF MaterialInv, Material!TypeOK, Work
<1>2. \A b \in Actors : Works(b)
  BY DEF MaterialInv, WorkInv
<1>3. Material!Content(a, actor[a].doc) \in {"exact"} \cup Generations
      /\ (Material!Content(a, actor[a].doc) \in Generations =>
            Backed(file, actor[a].root, Material!Content(a, actor[a].doc)))
  BY <1>1, <1>2, ConstantFacts DEF Material!Content, Works, MaterialInv, Material!TypeOK
<1>4. /\ \A i \in Items : keychain[i] # "absent" => keychain'[i] = keychain[i]
      /\ \A i \in Items : keychain'[i] \in {keychain[i], Material!Content(a, actor[a].doc)}
      /\ keychain' \in [Items \cup {"seed"} -> {"absent", "foreign", "exact"} \cup Generations]
  BY <1>3 DEF Material!AddIfAbsent, MaterialInv, Material!TypeOK
<1>5. "absent" \notin drawn /\ "none" \notin drawn /\ drawn \subseteq Generations
  BY ConstantFacts DEF MaterialInv, Material!TypeOK
<1>6. Material!TypeOK'
  BY <1>4 DEF MaterialInv, Material!TypeOK, Work
<1>7. WorkInv'
  <2> SUFFICES ASSUME NEW b \in Actors \ {a} PROVE Works(b)'
    BY DEF WorkInv
  <2>1. actor'[b] = actor[b] /\ Works(b) /\ actor[b] \in Work
    BY <1>1, <1>2
  <2>2. actor[b].doc = "attestation" =>
          actor[b].gen \in drawn /\ \A i \in Items : keychain'[i] = actor[b].gen
    BY <1>4, <1>5, <2>1 DEF Works
  <2>3. ASSUME actor[b].doc = "genesis", actor[b].pc \in {"pin", "add"},
               NEW j \in 1..(actor[b].k - 1)
        PROVE  keychain'[OrderOf[actor[b].root][j]] = actor[b].gen
    <3>1. j \in 1..Material!Cardinality(Items)
      BY <2>1, <2>3, ConstantFacts DEF Work
    <3>2. OrderOf[actor[b].root][j] \in Items
      BY <2>1, <3>1, ConstantFacts DEF Work
    <3>3. keychain[OrderOf[actor[b].root][j]] = actor[b].gen /\ actor[b].gen \in drawn
      BY <2>1, <2>3 DEF Works
    <3> QED
      BY <1>4, <1>5, <3>2, <3>3
  <2> QED
    BY <2>1, <2>2, <2>3 DEF Works
<1>8. ApartInv'
  BY DEF MaterialInv, ApartInv, Apart
<1>9. FileInv'
  <2> SUFFICES ASSUME NEW r \in Roots PROVE Filing(r)'
    BY DEF FileInv
  <2>1. Filing(r)
    BY DEF MaterialInv, FileInv
  <2>2. \A b \in Actors : actor'[b].gen \in {actor[b].gen, "none"}
                            /\ (actor'[b].gen = "none" \/ actor'[b].root = actor[b].root)
    OBVIOUS
  <2>3. file[r]["attestation"] \in drawn => \A i \in Items : keychain'[i] = file[r]["attestation"]
    BY <1>4, <1>5, <2>1 DEF Filing
  <2> QED
    BY <1>5, <2>1, <2>2, <2>3 DEF Filing
<1>10. KeyInv'
  <2> SUFFICES ASSUME NEW i \in Items, keychain'[i] \in Generations
               PROVE  \E r \in Roots : Backed(file, r, keychain'[i])
    BY DEF KeyInv
  <2>1. CASE keychain'[i] = keychain[i]
    BY <2>1 DEF MaterialInv, KeyInv
  <2>2. CASE keychain'[i] = Material!Content(a, actor[a].doc)
    BY <1>1, <1>3, <2>2 DEF Work
  <2> QED
    BY <1>4, <2>1, <2>2
<1> QED
  BY <1>6, <1>7, <1>8, <1>9, <1>10 DEF MaterialInv

LEMMA AddSeedKeeps ==
  ASSUME Material!MaterialAssumption, MaterialInv, NEW a \in Actors, Material!AddSeed(a)
  PROVE  MaterialInv'
<1>1. actor \in [Actors -> Work] /\ Material!Idle \in Work
  BY ConstantFacts DEF MaterialInv, Material!TypeOK, Work
<1>2. /\ actor' \in [Actors -> Work] /\ actor'[a] = Material!Idle
      /\ \A b \in Actors \ {a} : actor'[b] = actor[b]
  BY <1>1, Moves DEF Material!AddSeed
<1>3. pin' \in [Roots -> Actors \cup {"none"}]
  BY UnpinType DEF Material!AddSeed, MaterialInv
<1> QED
  BY <1>2, <1>3, IdleWorks, AddKeeps DEF Material!AddSeed

LEMMA StopKeeps ==
  ASSUME Material!MaterialAssumption, MaterialInv, NEW a \in Actors, Material!Stop(a)
  PROVE  MaterialInv'
<1>1. actor \in [Actors -> Work] /\ Material!Idle \in Work
  BY ConstantFacts DEF MaterialInv, Material!TypeOK, Work
<1>2. /\ actor' \in [Actors -> Work] /\ actor'[a] = Material!Idle
      /\ \A b \in Actors \ {a} : actor'[b] = actor[b]
  BY <1>1, Moves DEF Material!Stop
<1>3. pin' \in [Roots -> Actors \cup {"none"}]
  BY UnpinType DEF Material!Stop, MaterialInv
<1>4. Works(a)' /\ actor'[a].gen = "none" /\ actor'[a].pc = "idle"
  BY <1>2, IdleWorks
<1>5. CASE UNCHANGED keychain
  BY <1>2, <1>3, <1>4, <1>5, MoveKeeps DEF Material!Stop
<1>6. CASE actor[a].pc = "add" /\ Material!AddIfAbsent(a, Material!Item(a))
  BY <1>2, <1>3, <1>4, <1>6, AddKeeps DEF Material!Stop
<1> QED
  BY <1>5, <1>6 DEF Material!Stop

LEMMA AddValueKeeps ==
  ASSUME Material!MaterialAssumption, MaterialInv, NEW a \in Actors, Material!AddValue(a)
  PROVE  MaterialInv'
<1> DEFINE me == actor[a]
           N == Material!Cardinality(Items)
<1>1. actor \in [Actors -> Work] /\ me \in Work /\ N \in Nat /\ me.k \in 1..(N + 1)
  BY ConstantFacts DEF MaterialInv, Material!TypeOK, Work
<1>2. me.pc = "add" /\ me.doc = "genesis" /\ Works(a)
  BY DEF Material!AddValue, MaterialInv, WorkInv
<1>3. me.gen \in drawn /\ Backed(file, me.root, me.gen) /\ me.root \in Roots
      /\ \A j \in 1..(me.k - 1) : keychain[OrderOf[me.root][j]] = me.gen
  BY <1>1, <1>2 DEF Works, Work
<1>4. /\ \A j \in 1..N : OrderOf[me.root][j] \in Items
      /\ \A i \in Items : \E j \in 1..N : OrderOf[me.root][j] = i
  BY <1>3, ConstantFacts
<1>5. "absent" \notin drawn
  BY ConstantFacts DEF MaterialInv, Material!TypeOK
<1>6. Material!Item(a) = OrderOf[me.root][me.k] /\ Material!Content(a, me.doc) = me.gen
  BY <1>2 DEF Material!Item, Material!Content
<1>7. \A j \in 1..N : j <= me.k => keychain'[OrderOf[me.root][j]] = me.gen
  <2> SUFFICES ASSUME NEW j \in 1..N, j <= me.k
               PROVE  keychain'[OrderOf[me.root][j]] = me.gen
    OBVIOUS
  <2>1. /\ OrderOf[me.root][j] \in Items
        /\ keychain' = [keychain EXCEPT ![Material!Item(a)] = me.gen]
        /\ keychain[Material!Item(a)] = "absent"
    BY <1>4, <1>6 DEF Material!AddValue, Material!AddIfAbsent
  <2>2. CASE j = me.k
    BY <1>6, <2>1, <2>2 DEF MaterialInv, Material!TypeOK
  <2>3. CASE j < me.k
    <3>1. j \in 1..(me.k - 1)
      BY <1>1, <2>3
    <3>2. keychain[OrderOf[me.root][j]] = me.gen
      BY <1>3, <3>1
    <3> QED
      BY <1>3, <1>5, <2>1, <3>2 DEF MaterialInv, Material!TypeOK
  <2> QED
    BY <1>1, <2>2, <2>3
<1>8. /\ pin' \in [Roots -> Actors \cup {"none"}]
      /\ file' = file /\ drawn' = drawn
  BY UnpinType DEF Material!AddValue, MaterialInv
<1>9. CASE me.k < N
  <2> DEFINE v == [me EXCEPT !.pc = "pin", !.k = me.k + 1]
  <2>1. v \in Work /\ actor' = [actor EXCEPT ![a] = v]
    <3>1. me.k + 1 \in 1..(N + 1)
      BY <1>1, <1>9
    <3>2. v \in Work
      BY <1>1, <3>1 DEF Work
    <3> QED
      BY <1>1, <1>9, <3>2 DEF Material!AddValue
  <2>2. /\ actor' \in [Actors -> Work] /\ actor'[a] = v
        /\ \A b \in Actors \ {a} : actor'[b] = actor[b]
    BY <1>1, <2>1, Moves
  <2>3. /\ actor'[a].pc = "pin" /\ actor'[a].k = me.k + 1 /\ actor'[a].doc = "genesis"
        /\ actor'[a].gen = me.gen /\ actor'[a].root = me.root
    BY <1>1, <1>2, <2>2 DEF Work
  <2>4. \A j \in 1..me.k : keychain'[OrderOf[me.root][j]] = me.gen
    <3>1. \A j \in 1..me.k : j \in 1..N /\ j <= me.k
      BY <1>1, <1>9
    <3> QED
      BY <1>7, <3>1
  <2>5. \A j \in 1..(actor'[a].k - 1) : keychain'[OrderOf[actor'[a].root][j]] = actor'[a].gen
    <3>1. me.k \in Nat
      BY <1>1
    <3>2. actor'[a].k = me.k + 1 /\ actor'[a].gen = me.gen /\ actor'[a].root = me.root
      BY <2>3
    <3>3. actor'[a].k - 1 = me.k
      BY <3>1, <3>2
    <3> QED
      BY <2>4, <3>2, <3>3
  <2>6. Works(a)'
    BY <1>3, <1>8, <2>3, <2>5 DEF Works
  <2> QED
    BY <1>2, <1>8, <2>2, <2>3, <2>6, AddKeeps DEF Material!AddValue
<1>10. CASE ~(me.k < N)
  <2> DEFINE v == [me EXCEPT !.pc = "look", !.doc = "attestation"]
  <2>1. v \in Work /\ actor' = [actor EXCEPT ![a] = v]
    <3>1. v \in Work
      BY <1>1 DEF Work, Material!Files
    <3> QED
      BY <1>1, <1>10, <3>1 DEF Material!AddValue
  <2>2. /\ actor' \in [Actors -> Work] /\ actor'[a] = v
        /\ \A b \in Actors \ {a} : actor'[b] = actor[b]
    BY <1>1, <2>1, Moves
  <2>3. /\ actor'[a].pc = "look" /\ actor'[a].doc = "attestation"
        /\ actor'[a].gen = me.gen /\ actor'[a].root = me.root
    BY <1>1, <2>2 DEF Work
  <2>4. \A j \in 1..N : j <= me.k
    BY <1>1, <1>10
  <2>5. \A i \in Items : keychain'[i] = me.gen
    BY <1>4, <1>7, <2>4
  <2>6. Works(a)'
    BY <1>3, <1>8, <2>3, <2>5 DEF Works
  <2> QED
    BY <1>2, <1>8, <2>2, <2>3, <2>6, AddKeeps DEF Material!AddValue
<1> QED
  BY <1>9, <1>10
------------------------------------------------------------------------------
(* Theorems                                                                 *)

LEMMA InvStep ==
  ASSUME Material!MaterialAssumption, MaterialInv, [Material!Next]_(Material!vars)
  PROVE  MaterialInv'
<1>1. CASE UNCHANGED Material!vars
  <2>1. Material!TypeOK'
    BY <1>1 DEF Material!vars, MaterialInv, Material!TypeOK
  <2>2. WorkInv' /\ ApartInv'
    BY <1>1 DEF Material!vars, MaterialInv, WorkInv, Works, ApartInv, Apart
  <2>3. FileInv' /\ KeyInv'
    BY <1>1 DEF Material!vars, MaterialInv, FileInv, Filing, KeyInv
  <2> QED
    BY <2>1, <2>2, <2>3 DEF MaterialInv
<1>2. ASSUME NEW a \in Actors, Material!Begin(a) \/ Material!Step(a) \/ Material!Stop(a)
      PROVE  MaterialInv'
  <2>1. CASE Material!PersistSigner(a) \/ Material!PersistPolicy(a) \/ Material!PersistReceipt(a) \/ Material!PersistGenesis(a)
    BY <2>1, WriteOnceKeeps
    DEF Material!PersistSigner, Material!PersistPolicy, Material!PersistReceipt,
        Material!PersistGenesis
  <2>2. CASE Material!WriteAttestation(a) \/ Material!Create(a) \/ Material!Fill(a) \/ Material!Generate(a)
    BY <2>2, WriteAttestationKeeps, CreateKeeps, FillKeeps, GenerateKeeps
  <2>3. CASE Material!Pin(a) \/ Material!AddSeed(a) \/ Material!AddValue(a)
    BY <2>3, PinKeeps, AddSeedKeeps, AddValueKeeps
  <2> QED
    BY <1>2, <2>1, <2>2, <2>3, BeginKeeps, StopKeeps DEF Material!Step
<1> QED
  BY <1>1, <1>2 DEF Material!Next

\* Whichever part is at work, the other does not move.
LEMMA MaterialIsMaterial == OneSpec => Material!Spec
<1>1. OneInit => Material!Init
  BY DEF OneInit
<1>2. ASSUME [OneNext]_<<at, vars, materialVars>>
      PROVE  [Material!Next]_(Material!vars)
  <2>1. CASE OneNext
    BY <2>1 DEF OneNext, materialVars, Material!vars
  <2>2. CASE UNCHANGED <<at, vars, materialVars>>
    BY <2>2 DEF materialVars, Material!vars
  <2> QED
    BY <1>2, <2>1, <2>2
<1> QED
  BY <1>1, <1>2, PTL DEF OneSpec, Material!Spec

\* The invariant of everything below: types, who works on what, what files
\* and values may be there together.
THEOREM MaterialCorrect == OneSpec => []MaterialInv
<1>1. Material!Init => MaterialInv
  <2> SUFFICES ASSUME Material!Init PROVE MaterialInv
    OBVIOUS
  <2>1. Material!TypeOK
    BY MaterialConstants, ConstantFacts DEF Material!Init, Material!TypeOK, Work, Material!Files
  <2>2. WorkInv /\ ApartInv
    BY DEF Material!Init, WorkInv, Works, ApartInv, Apart, Material!Idle
  <2>3. FileInv
    BY DEF Material!Init, FileInv, Filing, Material!Files
  <2>4. KeyInv
    BY MaterialConstants, ConstantFacts DEF Material!Init, KeyInv
  <2> QED
    BY <2>1, <2>2, <2>3, <2>4 DEF MaterialInv
<1>2. MaterialInv /\ [Material!Next]_(Material!vars) => MaterialInv'
  BY MaterialConstants, InvStep
<1> QED
  BY MaterialIsMaterial, <1>1, <1>2, PTL DEF Material!Spec

\* No value is in the keychain without its receipt and pending genesis whole
\* on file (StoredIsReceipted).
THEOREM StoredReceipted == OneSpec => []StoredIsReceipted
<1>1. MaterialInv => StoredIsReceipted
  BY DEF MaterialInv, KeyInv, StoredIsReceipted, Material!StoredIsReceipted, Backed
<1> QED
  BY <1>1, MaterialCorrect, PTL

\* Material that loads, or counts as complete, is the material in the
\* keychain (AttestedIsStored).
THEOREM AttestedStored == OneSpec => []AttestedIsStored
<1>1. ASSUME MaterialInv, NEW r \in Roots
      PROVE  /\ Material!Loadable(r) =>
                  \A i \in Items : Material!Inspected(i) = file[r].attestation
             /\ Material!Status(r) = "STRUCTURALLY_COMPLETE_UNVERIFIED" => Material!Loadable(r)
  <2>1. Filing(r) /\ drawn \subseteq Generations
        /\ {"absent", "torn", "exact"} \cap Generations = {}
    BY <1>1, MaterialConstants, ConstantFacts DEF MaterialInv, FileInv, Material!TypeOK
  <2>2. Material!Loadable(r) => \A i \in Items : Material!Inspected(i) = file[r].attestation
    BY <2>1 DEF Material!Loadable, Filing, Material!Inspected
  <2>3. Material!Status(r) = "STRUCTURALLY_COMPLETE_UNVERIFIED" =>
          file[r]["attestation"] \notin {"absent", "torn"}
    BY DEF Material!Status, Material!Files
  <2>4. file[r]["attestation"] \notin {"absent", "torn"} => Material!Loadable(r)
    BY <2>1 DEF Filing, Backed, Material!Loadable
  <2> QED
    BY <2>2, <2>3, <2>4
<1>2. MaterialInv => AttestedIsStored
  BY <1>1 DEF AttestedIsStored, Material!AttestedIsStored
<1> QED
  BY <1>2, MaterialCorrect, PTL

LEMMA FiledFields ==
  ASSUME Material!MaterialAssumption, actor \in [Actors -> Work], NEW a \in Actors,
         Material!Filed(a)
  PROVE  /\ \A b \in Actors \ {a} : actor'[b] = actor[b]
         /\ actor'[a].gen \in {actor[a].gen, "none"}
         /\ actor'[a].pc # "fill"
<1>1. actor[a] \in Work /\ actor[a].doc \in Material!Files /\ Material!Idle \in Work
  BY ConstantFacts DEF Work
<1>2. ASSUME NEW pc \in {"look", "generate", "pin"}, NEW d \in Material!Files,
             actor' = [actor EXCEPT ![a].pc = pc, ![a].doc = d]
      PROVE  actor'[a].gen = actor[a].gen /\ actor'[a].pc = pc
  <2>1. actor' = [actor EXCEPT ![a] = [actor[a] EXCEPT !.pc = pc, !.doc = d]]
    BY <1>1, <1>2
  <2> QED
    BY <1>1, <2>1 DEF Work
<1>3. CASE actor[a].doc = "attestation"
  <2>1. actor' = [actor EXCEPT ![a] = Material!Idle]
    BY <1>3 DEF Material!Filed
  <2> QED
    BY <1>1, <2>1, Moves DEF Material!Idle
<1>4. CASE actor[a].doc = "signer"
  BY <1>2, <1>4, FiledMoves DEF Material!Filed, Material!Files
<1>5. CASE actor[a].doc = "policy"
  BY <1>2, <1>5, FiledMoves DEF Material!Filed, Material!Files
<1>6. CASE actor[a].doc = "receipt"
  BY <1>2, <1>6, FiledMoves DEF Material!Filed, Material!Files
<1>7. CASE actor[a].doc = "genesis"
  BY <1>2, <1>7, FiledMoves DEF Material!Filed, Material!Files
<1> QED
  BY <1>1, <1>3, <1>4, <1>5, <1>6, <1>7 DEF Material!Files

\* What a step changes of a process.
LEMMA Movement ==
  ASSUME Material!MaterialAssumption, MaterialInv, NEW a \in Actors,
         Material!Begin(a) \/ Material!Step(a) \/ Material!Stop(a)
  PROVE  /\ \A b \in Actors \ {a} : actor'[b] = actor[b]
         /\ actor'[a].gen \in {actor[a].gen, "none"} \cup (Generations \ drawn)
         /\ actor'[a].pc = "fill" =>
              Material!Create(a) /\ actor'[a].doc = actor[a].doc /\ actor'[a].root = actor[a].root
<1>1. /\ actor \in [Actors -> Work]
      /\ actor[a] \in Work
      /\ actor[a].doc \in Material!Files
      /\ Material!Idle \in Work
  BY ConstantFacts DEF MaterialInv, Material!TypeOK, Work
<1>2. Material!Idle.gen = "none" /\ Material!Idle.pc = "idle"
  BY DEF Material!Idle
<1>3. CASE Material!Begin(a)
  <2>1. PICK r \in Roots, d \in {"signer", "policy"} :
          actor' = [actor EXCEPT ![a] = [Material!Idle EXCEPT !.pc = "look", !.doc = d, !.root = r]]
    BY <1>3 DEF Material!Begin
  <2>2. [Material!Idle EXCEPT !.pc = "look", !.doc = d, !.root = r] \in Work
    BY <1>1 DEF Work, Material!Files
  <2>3. /\ \A b \in Actors \ {a} : actor'[b] = actor[b]
        /\ actor'[a] = [Material!Idle EXCEPT !.pc = "look", !.doc = d, !.root = r]
    BY <1>1, <2>1, <2>2, Moves
  <2> QED
    BY <2>3 DEF Material!Idle
<1>4. CASE actor' = [actor EXCEPT ![a] = Material!Idle]
  BY <1>1, <1>2, <1>4, Moves
<1>5. CASE Material!Filed(a)
  BY <1>1, <1>5, FiledFields
<1>6. ASSUME NEW pc \in {"create", "add", "fill"}, Material!Goto(a, pc),
             pc = "fill" => Material!Create(a)
      PROVE  /\ \A b \in Actors \ {a} : actor'[b] = actor[b]
             /\ actor'[a].gen = actor[a].gen
             /\ actor'[a].pc = "fill" =>
                  /\ Material!Create(a)
                  /\ actor'[a].doc = actor[a].doc
                  /\ actor'[a].root = actor[a].root
  <2>1. /\ \A b \in Actors \ {a} : actor'[b] = actor[b]
        /\ actor'[a] = [actor[a] EXCEPT !.pc = pc]
    BY <1>1, <1>6, GotoMoves
  <2>2. actor'[a].gen = actor[a].gen /\ actor'[a].pc = pc
        /\ actor'[a].doc = actor[a].doc /\ actor'[a].root = actor[a].root
    BY <1>1, <2>1 DEF Work
  <2> QED
    BY <1>6, <2>1, <2>2
<1>7. CASE Material!Generate(a)
  <2>1. PICK g \in Generations \ drawn : actor' = [actor EXCEPT ![a].pc = "look", ![a].gen = g]
    BY <1>7 DEF Material!Generate
  <2>2. [actor[a] EXCEPT !.pc = "look", !.gen = g] \in Work
    BY <1>1 DEF Work
  <2>3. actor' = [actor EXCEPT ![a] = [actor[a] EXCEPT !.pc = "look", !.gen = g]]
    BY <1>1, <2>1
  <2>4. /\ \A b \in Actors \ {a} : actor'[b] = actor[b]
        /\ actor'[a] = [actor[a] EXCEPT !.pc = "look", !.gen = g]
    BY <1>1, <2>2, <2>3, Moves
  <2> QED
    BY <1>1, <2>4 DEF Work
<1>8. CASE Material!AddValue(a)
  <2>1. PICK v \in {[actor[a] EXCEPT !.pc = "pin", !.k = actor[a].k + 1],
                    [actor[a] EXCEPT !.pc = "look", !.doc = "attestation"]} :
          actor' = [actor EXCEPT ![a] = v]
    BY <1>1, <1>8 DEF Material!AddValue
  <2>2. v.gen = actor[a].gen /\ v.pc # "fill"
    BY <1>1, <2>1 DEF Work
  <2>3. actor'[a] = v /\ \A b \in Actors \ {a} : actor'[b] = actor[b]
    BY <1>1, <2>1
  <2> QED
    BY <2>2, <2>3
<1> QED
  BY <1>3, <1>4, <1>5, <1>6, <1>7, <1>8
  DEF Material!Step, Material!PersistSigner, Material!PersistPolicy, Material!PersistReceipt,
      Material!PersistGenesis, Material!WriteOnceOrRequireExact, Material!WriteAttestation,
      Material!Create, Material!Fill, Material!Pin, Material!AddSeed, Material!Stop

\* The processes that might still attest a generation hold it.
LEMMA BlockedStep ==
  ASSUME Material!MaterialAssumption, MaterialInv, MaterialInv', [Material!Next]_(Material!vars),
         NEW r \in Roots, Material!Blocked(r)
  PROVE  /\ Material!Blocked(r)'
         /\ \A i \in Items : keychain'[i] = file[r].receipt => keychain[i] = keychain'[i]
<1> DEFINE g == file[r]["receipt"]
<1>1. /\ {"absent", "torn", "exact", "foreign", "none"} \cap Generations = {}
      /\ drawn \subseteq Generations
      /\ g # "absent" /\ g \in {"torn"} \cup drawn /\ file[r]["attestation"] = "absent"
  BY ConstantFacts DEF Material!Blocked, MaterialInv, FileInv, Filing, Material!TypeOK
<1>2. \A a \in Actors : actor[a].root = r => actor[a].gen # g
  BY DEF Material!Blocked
<1>3. \A a \in Actors : actor[a].gen # g
  <2>1. ASSUME NEW a \in Actors, actor[a].gen = g PROVE FALSE
    <3>1. g \in drawn
      BY <1>1, <2>1 DEF MaterialInv, Material!TypeOK
    <3>2. actor[a].root = r
      BY <2>1, <3>1 DEF MaterialInv, FileInv, Filing
    <3> QED
      BY <1>2, <2>1, <3>2
  <2> QED
    BY <2>1
<1>4. CASE UNCHANGED Material!vars
  BY <1>4 DEF Material!vars, Material!Blocked
<1>5. ASSUME NEW a \in Actors, Material!Begin(a) \/ Material!Step(a) \/ Material!Stop(a)
      PROVE  /\ Material!Blocked(r)'
             /\ \A i \in Items : keychain'[i] = file[r].receipt => keychain[i] = keychain'[i]
  <2>1. /\ actor \in [Actors -> Work] /\ actor[a] \in Work /\ actor' \in [Actors -> Work]
        /\ Works(a)
    BY DEF MaterialInv, Material!TypeOK, Work, WorkInv
  <2>2. ASSUME NEW d \in {"receipt", "attestation"}
        PROVE  file'[r][d] = file[r][d]
    <3>1. CASE Material!Create(a)
      <4>1. actor[a].root # r \/ actor[a].doc # d
        BY <1>1, <1>3, <2>1, <2>2, <3>1 DEF Material!Create, Material!OnFile, Works, Backed
      <4> QED
        BY <2>1, <2>2, <3>1, <4>1
        DEF Material!Create, MaterialInv, Material!TypeOK, Material!Files, Work
    <3>2. CASE Material!Fill(a)
      <4>1. actor[a].root # r \/ actor[a].doc # d
        BY <1>1, <2>1, <2>2, <3>2 DEF Material!Fill, Works, Material!Blocked
      <4> QED
        BY <2>1, <2>2, <3>2, <4>1
        DEF Material!Fill, MaterialInv, Material!TypeOK, Material!Files, Work
    <3>3. CASE ~Material!Create(a) /\ ~Material!Fill(a)
      BY <1>5, <3>3
      DEF Material!Step, Material!Begin, Material!Stop, Material!PersistSigner,
          Material!PersistPolicy, Material!PersistReceipt, Material!PersistGenesis,
          Material!WriteOnceOrRequireExact, Material!WriteAttestation, Material!Generate,
          Material!Pin, Material!AddSeed, Material!AddValue
    <3> QED
      BY <3>1, <3>2, <3>3
  <2>4. \A b \in Actors : actor'[b].gen # g
    BY <1>1, <1>3, <1>5, Movement
  <2>5. \A b \in Actors : actor'[b].root = r /\ actor'[b].pc = "fill" => actor'[b].doc # "receipt"
    <3>1. Material!Create(a) => actor[a].root # r \/ actor[a].doc # "receipt"
      BY <1>1 DEF Material!Create, Material!OnFile
    <3> QED
      BY <1>5, <3>1, Movement DEF Material!Blocked
  <2>6. Material!Blocked(r)'
    BY <1>1, <2>2, <2>4, <2>5 DEF Material!Blocked
  <2>7. ASSUME NEW i \in Items, keychain'[i] = g PROVE keychain[i] = keychain'[i]
    <3>1. CASE keychain' = keychain
      BY <3>1
    <3>2. CASE actor[a].pc = "add" /\ Material!AddIfAbsent(a, Material!Item(a))
      <4>1. Material!Content(a, actor[a].doc) # g
        BY <1>1, <1>3 DEF Material!Content
      <4>2. keychain'[i] \in {keychain[i], Material!Content(a, actor[a].doc)}
        BY <2>7, <3>2 DEF Material!AddIfAbsent, MaterialInv, Material!TypeOK
      <4> QED
        BY <2>7, <4>1, <4>2
    <3> QED
      BY <1>5, <3>1, <3>2
      DEF Material!Step, Material!Begin, Material!Stop, Material!PersistSigner,
          Material!PersistPolicy, Material!PersistReceipt, Material!PersistGenesis,
          Material!WriteOnceOrRequireExact, Material!WriteAttestation, Material!Create,
          Material!Fill, Material!Generate, Material!Pin, Material!AddSeed, Material!AddValue
  <2> QED
    BY <2>6, <2>7
<1> QED
  BY <1>4, <1>5 DEF Material!Next

\* A generation that its process left after the receipt stays blocked
\* (BlockedStaysBlocked).
THEOREM BlockedForGood == OneSpec => BlockedStaysBlocked
<1>1. MaterialInv /\ MaterialInv' /\ [Material!Next]_(Material!vars) =>
        [\A r \in Roots : Material!Blocked(r) =>
           /\ Material!Blocked(r)'
           /\ \A i \in Items :
                keychain'[i] = file[r].receipt => keychain[i] = keychain'[i]]_(Material!vars)
  BY MaterialConstants, BlockedStep
<1> QED
  BY <1>1, MaterialIsMaterial, MaterialCorrect, PTL
  DEF Material!Spec, BlockedStaysBlocked, Material!BlockedStaysBlocked
=============================================================================
