------------------------------ MODULE Issuance ------------------------------
(***************************************************************************)
(* How the documents of one stage come to be accepted together.            *)
(*                                                                         *)
(* A document holds digests of others (canonical_sha256 over every field), *)
(* so it can be signed only after the documents it names, and re-issuing   *)
(* one of those leaves it holding the digest of a document that is no      *)
(* longer filed.  The operator files documents in any order the digests    *)
(* allow, may re-issue one already filed, and may file one that belongs to *)
(* another deployment.  The stage's verifiers read what is filed and       *)
(* accept it or raise.                                                     *)
(*                                                                         *)
(* A time a verifier compares is treated as a digest is: <<k, p>> is out   *)
(* of date when p was filed after k.                                       *)
(***************************************************************************)
EXTENDS Naturals, FiniteSets

CONSTANTS
  Stages,      \* the stages an operator may prepare
  Verifiers,   \* per stage, what its verifiers compare (see StageDocuments)
  Classes,     \* per document class, the classes whose digest a document holds
  Unsigned,    \* classes of documents that no key signs
  Inherited,   \* per stage, the documents it takes as an earlier stage verified them
  MaxSlips     \* how often a document is re-issued or mixed up

\* TLC evaluates a definition once, and the definition given to a constant at
\* every use.
Checks == Verifiers
Names == Classes

\* The documents a stage reads.
Reads(s) ==
  UNION {{q[1], q[2]} : q \in Checks[s].digests \cup Checks[s].dated \cup Checks[s].alike}

\* A verifier compares documents in pairs, and only digests that a document holds.
ASSUME IssuanceAssumption ==
  /\ MaxSlips \in Nat
  /\ \A s \in Stages :
       /\ Checks[s].digests \cup Checks[s].dated \cup Checks[s].alike
            \subseteq (DOMAIN Names) \X (DOMAIN Names)
       /\ \A q \in Checks[s].digests : q[2] \in Names[q[1]]

\* Every document is compared with another by digest or date, or shares an
\* identifier or a part with one that is.
Compared(s) == UNION {{q[1], q[2]} : q \in Checks[s].digests \cup Checks[s].dated}

ASSUME AnchoredAssumption ==
  \A s \in Stages : \A k \in Reads(s) \ Compared(s) :
    \E p \in Compared(s) : <<k, p>> \in Checks[s].alike \/ <<p, k>> \in Checks[s].alike

\* A digest that a signed document of the stage holds is compared, or each
\* step of a way from one document to the other is.
Chained(s) ==
  LET compared == Checks[s].digests \cup Checks[s].dated
  IN \A k \in Reads(s) \ (Unsigned \cup Inherited[s]) : \A p \in Reads(s) \cap Names[k] :
       \/ <<k, p>> \in compared
       \/ \E x \in Reads(s) : <<k, x>> \in compared /\ <<x, p>> \in compared

VARIABLES
  stage,       \* the stage being prepared
  filed,       \* per document: "missing", "own", or "foreign" (of another deployment)
  stale,       \* pairs <<k, p>>: what k holds of p is not p as filed
  accepted,    \* the stage's verifiers have accepted the documents
  slips

vars == <<stage, filed, stale, accepted, slips>>

Documents == DOMAIN filed

\* k is filed after p: it names p, compared or not, or states a time that may
\* not precede that of p.
Follows(k, p) == p \in Names[k] \/ <<k, p>> \in Checks[stage].dated

TypeOK ==
  /\ stage \in Stages
  /\ filed \in [Reads(stage) -> {"missing", "own", "foreign"}]
  /\ stale \subseteq {q \in Documents \X Documents : Follows(q[1], q[2])}
  /\ accepted \in BOOLEAN
  /\ slips \in 0..MaxSlips

Init ==
  /\ stage \in Stages
  /\ filed = [k \in Reads(stage) |-> "missing"]
  /\ stale = {}
  /\ accepted = FALSE
  /\ slips = 0

\* What is not filed, of another deployment, or holds what is no longer filed.
Wanted == {k \in Documents : filed[k] # "own"} \cup {q[1] : q \in stale}
Ready == {k \in Wanted : \A p \in Wanted : ~Follows(k, p)}

\* When every wanted document waits for another wanted one, one of them is
\* issued with a placeholder digest.
Due == IF Ready = {} THEN Wanted ELSE Ready

\* Whoever follows k now holds what k was.  A foreign document comes from a
\* deployment of its own.
File(k, as) ==
  /\ filed' = [filed EXCEPT ![k] = as]
  /\ stale' =
       {q \in stale : q[1] # k}
         \cup {<<j, k>> : j \in {j \in Documents : filed[j] # "missing" /\ Follows(j, k)}}
         \cup {<<k, p>> : p \in {p \in Documents :
                                   Follows(k, p) /\ (as = "foreign" \/ filed[p] # "own")}}

Sign(k) ==
  /\ ~accepted
  /\ File(k, "own")
  /\ UNCHANGED <<stage, accepted, slips>>

Slip ==
  /\ ~accepted
  /\ slips < MaxSlips
  /\ slips' = slips + 1
  /\ UNCHANGED <<stage, accepted>>

Amend(k) == Slip /\ filed[k] = "own" /\ File(k, "own")

Mixup(k) == Slip /\ filed[k] = "own" /\ File(k, "foreign")

\* Mutant of Verify: identifiers and parts two documents share are not compared.
VerifyDigests ==
  /\ ~accepted
  /\ \A k \in Documents : filed[k] # "missing"
  /\ (Checks[stage].digests \cup Checks[stage].dated) \cap stale = {}
  /\ accepted' = TRUE
  /\ UNCHANGED <<stage, filed, stale, slips>>

\* Mutant of Verify: a digest is taken from the document that declares it, not
\* from the one it is of.
VerifyDeclared ==
  /\ ~accepted
  /\ \A k \in Documents : filed[k] # "missing"
  /\ Checks[stage].dated \cap stale = {}
  /\ \A q \in Checks[stage].alike : filed[q[1]] = filed[q[2]]
  /\ accepted' = TRUE
  /\ UNCHANGED <<stage, filed, stale, slips>>

\* Every digest and time is compared with what is filed; documents that share
\* an identifier or a part belong to one deployment.
Verify ==
  /\ ~accepted
  /\ \A k \in Documents : filed[k] # "missing"
  /\ (Checks[stage].digests \cup Checks[stage].dated) \cap stale = {}
  /\ \A q \in Checks[stage].alike : filed[q[1]] = filed[q[2]]
  /\ accepted' = TRUE
  /\ UNCHANGED <<stage, filed, stale, slips>>

Issue == \E k \in Due : Sign(k)

Next ==
  \/ Verify
  \/ Issue
  \/ \E k \in Documents : Amend(k) \/ Mixup(k)

\* The operator goes on issuing what is wanted and has it verified.
Spec == Init /\ [][Next]_vars /\ WF_vars(Issue) /\ WF_vars(Verify)

-----------------------------------------------------------------------------
(* Properties                                                              *)

\* What a stage accepts belongs to one deployment: a document of another one
\* in the place of any single document is refused, whichever it is.
OneDeployment == accepted => \A k \in Documents : filed[k] = "own"

\* No signed document a stage verifies holds the digest of a document that was
\* re-issued after it, whether or not a verifier compares that digest.
AcceptedIsCurrent ==
  accepted => \A q \in stale : q[1] \in Unsigned \cup Inherited[stage]

\* The same of the documents nobody signs.
DeclaredIsCurrent ==
  accepted => \A q \in stale : q[1] \notin Unsigned

\* Genuine documents can be issued: an operator who files every document the
\* digests wait for, and files again what was re-issued or mixed up, has the
\* stage accepted.
EventuallyAccepted == <>accepted
=============================================================================
