------------------------- MODULE AllocationBackend -------------------------
(***************************************************************************)
(* The allocation backend of an executor host (executor_allocation.py):    *)
(* the fixed plan of engine calls by which one allocation makes two        *)
(* networks, two volumes and a database with its roles, schema and grants, *)
(* and the read-only reconciliation of an allocation that was interrupted. *)
(*                                                                         *)
(* Two signed allocations may plan the same names, one after the failure   *)
(* of the other: the session lease serves one at a time, each at most once *)
(* (ExecutorSession).  A session may fail at any moment (no answer within  *)
(* its deadline, a malformed answer, a crash), and the request it sent     *)
(* last may still reach the engine, even after the next session began.     *)
(* The operator may remove what was made at any time.                      *)
(*                                                                         *)
(* A network or volume is told apart by the allocation whose request made  *)
(* it.  A call that changes nothing is one step; one that does is sent and *)
(* performed.  The engine refuses a duplicate network (CheckDuplicate);    *)
(* for the volume of that name it answers with the one that exists.        *)
(***************************************************************************)
EXTENDS Naturals, Sequences

CONSTANTS
  Attempts,     \* signed allocations that plan the same names
  MaxRemovals   \* how often the operator removes something

None == "none"

Networks == {"primary_network", "restore_network"}
Volumes == {"primary_cache_volume", "restore_cache_volume"}
Databases == {"roles", "database", "schema", "grants"}
Named == Networks \cup Volumes
Parts == Named \cup Databases

BackendAssumption == None \notin Attempts /\ MaxRemovals \in Nat

-----------------------------------------------------------------------------
(* The plan                                                                *)

Step(kind, target) == [kind |-> kind, target |-> target]

\* Engine, control image, control container and psql binary are the signed
\* ones; whatever is not fails the session.
Preliminary ==
  << Step("engine_ping", "engine"), Step("engine_version", "engine"),
     Step("engine_info", "engine"), Step("image_inspect", "control_image"),
     Step("image_manifest_inspect", "control_image"),
     Step("container_inspect", "control_postgres"),
     Step("binary_exec_create", "control_postgres"),
     Step("binary_exec_inspect", "control_postgres"),
     Step("binary_exec_start", "control_postgres") >>

\* _allocate_network and _allocate_volume
Allocate(r) == << Step("absence_check", r), Step("create", r), Step("inspect", r) >>

\* _run_postgres_step
Execute(t) == << Step("exec_create", t), Step("exec_inspect", t), Step("exec_start", t) >>

\* _allocate_postgres: a database is made by its statements, then observed.
AllocatePostgres ==
  Execute("roles") \o Execute("database") \o Execute("schema_acl") \o Execute("observation")

\* _final_network and _final_volume
Finally ==
  << Step("final_inspect", "primary_network"), Step("final_inspect", "restore_network"),
     Step("final_inspect", "primary_cache_volume"),
     Step("final_inspect", "restore_cache_volume") >>

Plan ==
  Preliminary
    \o Allocate("primary_network") \o Allocate("restore_network")
    \o Allocate("primary_cache_volume") \o Allocate("restore_cache_volume")
    \o AllocatePostgres \o Finally

Making(s) == s.kind = "create" \/ (s.kind = "exec_start" /\ s.target # "observation")

-----------------------------------------------------------------------------
VARIABLES
  there,     \* per part, the allocation whose request made it, or None
  begun,     \* allocations that were begun
  session,   \* the allocation served, its next step, whether it waits for the engine
  pending,   \* per allocation, the making step on its way to the engine, or 0
  seen,      \* per part, what the session found at its inspection
  witness,   \* history: all that was there at the observation of the database
  receipts,  \* per allocation, the evidence it returned
  removed,   \* history: parts removed since the session began
  removals,
  review,    \* the reconciliation: next inspection, names found, verdict
  changed    \* history: something was made or removed since it began

engine == <<there, pending>>
work == <<session, seen, witness, removed>>
audit == <<review, changed>>
vars == <<there, begun, session, pending, seen, witness, receipts, removed, removals, review,
          changed>>

NoSession == [attempt |-> None, next |-> 0, waiting |-> FALSE]
Nothing == [p \in Parts |-> None]
NoReceipt == [parts |-> Nothing, witness |-> Nothing, removed |-> Parts, given |-> FALSE]
NoReview == [next |-> "none", names |-> {}, verdict |-> "none"]

Makers == Attempts \cup {None}

TypeOK ==
  /\ there \in [Parts -> Makers]
  /\ begun \subseteq Attempts
  /\ session \in [attempt : Makers, next : 0..Len(Plan) + 1, waiting : BOOLEAN]
  /\ pending \in [Attempts -> 0..Len(Plan)]
  /\ seen \in [Parts -> Makers]
  /\ witness \in [Parts -> Makers]
  /\ receipts \in [Attempts -> [parts : [Parts -> Makers], witness : [Parts -> Makers],
                                removed : SUBSET Parts, given : BOOLEAN]]
  /\ removed \subseteq Parts
  /\ removals \in 0..MaxRemovals
  /\ review \in [next : Named \cup {"none", "presence", "schema_presence", "observation"},
                 names : SUBSET Named,
                 verdict : {"none", "absent", "partial", "complete"}]
  /\ changed \in BOOLEAN

Init ==
  /\ there = Nothing
  /\ begun = {}
  /\ session = NoSession
  /\ pending = [a \in Attempts |-> 0]
  /\ seen = Nothing
  /\ witness = Nothing
  /\ receipts = [a \in Attempts |-> NoReceipt]
  /\ removed = {}
  /\ removals = 0
  /\ review = NoReview
  /\ changed = FALSE

\* The session lease: no session and no reconciliation is at work.
Free == session = NoSession /\ review.next = "none"

-----------------------------------------------------------------------------
(* A session                                                               *)

Begin(a) ==
  /\ Free
  /\ a \notin begun
  /\ begun' = begun \cup {a}
  /\ session' = [attempt |-> a, next |-> 1, waiting |-> FALSE]
  /\ seen' = Nothing /\ witness' = Nothing /\ removed' = {}
  /\ review' = NoReview
  /\ UNCHANGED <<engine, receipts, removals, changed>>

Current == Plan[session.next]

\* The step is next, and the session does not wait for the engine.
AtStep(kinds) ==
  /\ session # NoSession
  /\ ~session.waiting
  /\ session.next <= Len(Plan)
  /\ Current.kind \in kinds

Advance == session' = [session EXCEPT !.next = @ + 1, !.waiting = FALSE]

\* Calls that neither make nor find anything the receipt tells.
Check ==
  /\ AtStep({s.kind : s \in {Preliminary[i] : i \in 1..Len(Preliminary)}}
              \cup {"exec_create", "exec_inspect"})
  /\ Advance
  /\ UNCHANGED <<engine, begun, seen, witness, receipts, removed, removals, audit>>

\* assert_network_absent and assert_volume_absent: only the engine's canonical
\* answer that there is none passes.
CheckAbsence ==
  /\ AtStep({"absence_check"})
  /\ there[Current.target] = None
  /\ Advance
  /\ UNCHANGED <<engine, begun, seen, witness, receipts, removed, removals, audit>>

\* inspect_network and inspect_volume, as planned and with nothing attached.
Inspect ==
  /\ AtStep({"inspect"})
  /\ there[Current.target] # None
  /\ seen' = [seen EXCEPT ![Current.target] = there[Current.target]]
  /\ Advance
  /\ UNCHANGED <<engine, begun, witness, receipts, removed, removals, audit>>

\* One statement reads all of the database.
Observe ==
  /\ AtStep({"exec_start"})
  /\ Current.target = "observation"
  /\ \A p \in Databases : there[p] # None
  /\ seen' = [p \in Parts |-> IF p \in Databases THEN there[p] ELSE seen[p]]
  /\ witness' = there
  /\ Advance
  /\ UNCHANGED <<engine, begun, receipts, removed, removals, audit>>

\* Mutant of FinalInspect: what is found is not compared with the first inspection.
FinalInspectAnything ==
  /\ AtStep({"final_inspect"})
  /\ there[Current.target] # None
  /\ Advance
  /\ UNCHANGED <<engine, begun, seen, witness, receipts, removed, removals, audit>>

\* A network keeps its id.  Volumes are told by name and second of creation,
\* which two of them may share.
FinalInspect ==
  /\ AtStep({"final_inspect"})
  /\ there[Current.target] # None
  /\ Current.target \in Networks => there[Current.target] = seen[Current.target]
  /\ Advance
  /\ UNCHANGED <<engine, begun, seen, witness, receipts, removed, removals, audit>>

\* The request is written to the engine's socket.
Send ==
  /\ session # NoSession
  /\ ~session.waiting
  /\ session.next <= Len(Plan)
  /\ Making(Current)
  /\ pending' = [pending EXCEPT ![session.attempt] = session.next]
  /\ session' = [session EXCEPT !.waiting = TRUE]
  /\ UNCHANGED <<there, begun, seen, witness, receipts, removed, removals, audit>>

\* allocate_empty_resources returns its evidence.
Return ==
  /\ session # NoSession
  /\ session.next = Len(Plan) + 1
  /\ receipts' = [receipts EXCEPT ![session.attempt] =
       [parts |-> seen, witness |-> witness, removed |-> removed, given |-> TRUE]]
  /\ session' = NoSession
  /\ UNCHANGED <<engine, begun, seen, witness, removed, removals, audit>>

\* No answer in time, one that does not pass, or a crash: nothing is undone,
\* and the allocation is never resumed.
Fail ==
  /\ session # NoSession
  /\ session' = NoSession
  /\ UNCHANGED <<engine, begun, seen, witness, receipts, removed, removals, audit>>

-----------------------------------------------------------------------------
(* The engine                                                              *)

\* Mutant of Accepts: a network of that name is taken for the one requested.
AcceptsDuplicate(s) ==
  CASE s.target \in Named -> TRUE
    [] s.target = "roles" -> there["roles"] = None
    [] s.target = "database" -> there["roles"] # None /\ there["database"] = None
    [] OTHER -> there["database"] # None /\ there["schema"] = None

\* A statement fails when its roles, its database or its schema exist, or when
\* what it refers to does not.
Accepts(s) ==
  CASE s.target \in Networks -> there[s.target] = None
    [] s.target \in Volumes -> TRUE
    [] s.target = "roles" -> there["roles"] = None
    [] s.target = "database" -> there["roles"] # None /\ there["database"] = None
    [] OTHER -> there["database"] # None /\ there["schema"] = None

\* What a step makes, if it is not there.
Made(s) == IF s.target = "schema_acl" THEN {"schema", "grants"} ELSE {s.target}

Make(a, parts) ==
  LET new == {p \in parts : there[p] = None} IN
  /\ there' = [p \in Parts |-> IF p \in new THEN a ELSE there[p]]
  /\ changed' = (changed \/ new # {})

\* The engine performs a request.  Its session goes on, if it still waits.
Perform(a) ==
  /\ pending[a] # 0
  /\ Accepts(Plan[pending[a]])
  /\ Make(a, Made(Plan[pending[a]]))
  /\ pending' = [pending EXCEPT ![a] = 0]
  /\ IF session.attempt = a THEN Advance ELSE UNCHANGED session
  /\ UNCHANGED <<begun, seen, witness, receipts, removed, removals, review>>

\* psql stops between two statements of the script; its session has failed or
\* fails for the output it gets.
PerformPartly(a) ==
  /\ pending[a] # 0
  /\ Plan[pending[a]].target = "schema_acl"
  /\ Accepts(Plan[pending[a]])
  /\ Make(a, {"schema"})
  /\ pending' = [pending EXCEPT ![a] = 0]
  /\ session' = IF session.attempt = a THEN NoSession ELSE session
  /\ UNCHANGED <<begun, seen, witness, receipts, removed, removals, review>>

\* The engine refuses a request, or it never arrives.
Refuse(a) ==
  /\ pending[a] # 0
  /\ pending' = [pending EXCEPT ![a] = 0]
  /\ session' = IF session.attempt = a THEN NoSession ELSE session
  /\ UNCHANGED <<there, begun, seen, witness, receipts, removed, removals, audit>>

\* What goes with a part: a database takes its schema and grants along.
Along(p) ==
  CASE p = "database" -> {"database", "schema", "grants"}
    [] p = "schema" -> {"schema", "grants"}
    [] OTHER -> {p}

\* The operator removes one part, or prunes networks and volumes.  Roles that
\* own a database cannot be dropped.
Remove(parts) ==
  LET gone == UNION {Along(p) : p \in parts} IN
  /\ removals < MaxRemovals
  /\ \E p \in parts : there[p] # None
  /\ "roles" \in parts => there["database"] = None
  /\ there' = [p \in Parts |-> IF p \in gone THEN None ELSE there[p]]
  /\ removed' = removed \cup gone
  /\ removals' = removals + 1
  /\ changed' = TRUE
  /\ UNCHANGED <<begun, session, pending, seen, witness, receipts, review>>

-----------------------------------------------------------------------------
(* Read-only reconciliation                                                *)

Inspections ==
  <<"primary_network", "restore_network", "primary_cache_volume", "restore_cache_volume">>

Following(r) ==
  LET i == CHOOSE i \in 1..4 : Inspections[i] = r
  IN  IF i = 4 THEN "presence" ELSE Inspections[i + 1]

Review(next, names, verdict) ==
  /\ review' = [next |-> next, names |-> names, verdict |-> verdict]
  /\ UNCHANGED <<engine, begun, work, receipts, removals>>

Reconcile ==
  /\ Free
  /\ begun # {}
  /\ Review(Inspections[1], {}, "none")
  /\ changed' = FALSE

\* Only a canonical answer that there is none counts as absence.
ReviewNamed ==
  /\ review.next \in Named
  /\ Review(Following(review.next),
            IF there[review.next] = None THEN review.names ELSE review.names \cup {review.next},
            "none")
  /\ UNCHANGED changed

\* The verdict, from the names found and the state of the database.
Verdict(names, postgres) ==
  CASE names = {} /\ postgres = "absent" -> "absent"
    [] names = Named /\ postgres = "complete" -> "complete"
    [] OTHER -> "partial"

Conclude(postgres) ==
  /\ Review("none", review.names, Verdict(review.names, postgres))
  /\ UNCHANGED changed

\* Mutant of ReviewPresence: without a database the roles are not looked at.
ReviewPresenceOfDatabase ==
  /\ review.next = "presence"
  /\ IF there["database"] = None THEN Conclude("absent")
     ELSE Review("schema_presence", review.names, "none") /\ UNCHANGED changed

\* The first query, in the maintenance database.
ReviewPresence ==
  /\ review.next = "presence"
  /\ IF there["database"] = None
     THEN Conclude(IF there["roles"] = None THEN "absent" ELSE "partial")
     ELSE IF there["roles"] = None THEN Conclude("partial")
     ELSE Review("schema_presence", review.names, "none") /\ UNCHANGED changed

\* The second, in the database itself, which must be there to connect to.
ReviewSchema ==
  /\ review.next = "schema_presence"
  /\ there["database"] # None
  /\ IF there["schema"] = None THEN Conclude("partial")
     ELSE Review("observation", review.names, "none") /\ UNCHANGED changed

\* The observation fails unless the grants are those of the policy.
ReviewObservation ==
  /\ review.next = "observation"
  /\ \A p \in Databases : there[p] # None
  /\ Conclude("complete")

\* Whatever is neither as planned nor confirmed absent ends it without verdict.
ReviewFails ==
  /\ review.next # "none"
  /\ Review("none", {}, "none")
  /\ UNCHANGED changed

-----------------------------------------------------------------------------
Serve ==
  \/ Check \/ CheckAbsence \/ Inspect \/ Observe \/ FinalInspect \/ Send \/ Return \/ Fail

Reviewing ==
  Reconcile \/ ReviewNamed \/ ReviewPresence \/ ReviewSchema \/ ReviewObservation \/ ReviewFails

Next ==
  \/ \E a \in Attempts : Begin(a) \/ Perform(a) \/ PerformPartly(a) \/ Refuse(a)
  \/ Serve \/ Reviewing
  \/ \E parts \in {{p} : p \in Parts} \cup {Named} : Remove(parts)

Spec == Init /\ [][Next]_vars

-----------------------------------------------------------------------------
(* Properties                                                              *)

\* A receipt is a snapshot: at the observation of the database, between the
\* first and the final inspections, both networks it lists were there as it
\* lists them, and so was all of the database (allocate_empty_resources: "a
\* post-effect snapshot, never a record assembled from stale creation
\* responses").  Of a volume it says only that one was made in that second.
ReceiptIsASnapshot ==
  \A a \in Attempts : receipts[a].given =>
    \A p \in Networks \cup Databases :
      receipts[a].parts[p] = receipts[a].witness[p] /\ receipts[a].parts[p] # None

\* Nothing is adopted: a network, role, database or schema of a receipt was
\* made by its own allocation, although a request of another that failed
\* before may still be on its way; unless the operator removed the part while
\* the allocation ran, for then such a request can slip in its own.
NothingAdopted ==
  \A a \in Attempts : receipts[a].given =>
    \A p \in (Networks \cup Databases) \ receipts[a].removed : receipts[a].parts[p] = a

\* What is there, in the words of a reconciliation.
Classification ==
  CASE \A p \in Parts : there[p] = None -> "absent"
    [] \A p \in Parts : there[p] # None -> "complete"
    [] OTHER -> "partial"

\* If nothing changes meanwhile, a verdict is right, leftovers of the database
\* included, so that an operator who is told "absent" has nothing to clean up.
ClassificationIsRight ==
  review.verdict # "none" /\ ~changed => review.verdict = Classification
=============================================================================
