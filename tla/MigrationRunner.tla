--------------------------- MODULE MigrationRunner ---------------------------
(* PostgresLifecycleMigrationRunner.apply_pending (postgres/migrations/     *)
(* runner.py): processes with packages of different age apply what the      *)
(* ledger does not yet record, each call in one transaction under one       *)
(* advisory lock.  Any statement may fail, the commit may take effect and   *)
(* be reported as failed, the rollback may fail too, a process may die.     *)
(* However the body of the call ends, its with clause then exits the lease  *)
(* of the connection, and that exit may raise an error of its own.          *)
(*                                                                          *)
(* A migration stands for its version, name, SQL and checksum together.     *)
(* PostgreSQL is external: a transaction's work is seen by others when it   *)
(* commits, and what a migration creates can be created only once.          *)
EXTENDS Naturals, Sequences, SequencesExt

CONSTANTS
  Runners,   \* processes with one connection each
  Packages   \* the manifests of the installed packages, sequences of migrations

VARIABLES
  ledger,      \* rows of rsd_canary.schema_migrations, ordered by version
  schema,      \* migrations whose SQL is in effect, in the order it ran
  connection,  \* per runner: the transaction on its connection
  applying     \* per runner: its call of apply_pending

migrationVars == <<ledger, schema, connection, applying>>

Migrations == UNION {Range(p) : p \in Packages}

\* What the constants must satisfy; whoever instantiates the module assumes it.
PackagesAssumption == Packages # {} /\ \A p \in Packages : p \in Seq(Migrations)

Transaction ==
  [open : BOOLEAN, locked : BOOLEAN, ran : Seq(Migrations), rows : Seq(Migrations)]

Call ==
  [at : {"idle", "lock", "read", "apply", "undo", "exit"}, package : Packages \cup {<<>>},
   pending : Seq(Migrations), attempted : BOOLEAN,
   verdict : {"none", "returned", "failed", "ambiguous", "exit_raised"}, made : Seq(Migrations)]

\* A connection without a transaction and a process without a call.
NoTransaction == [open |-> FALSE, locked |-> FALSE, ran |-> <<>>, rows |-> <<>>]
NoCall == [at |-> "idle", package |-> <<>>, pending |-> <<>>, attempted |-> FALSE,
           verdict |-> "none", made |-> <<>>]

TypeOK ==
  /\ ledger \in Seq(Migrations)
  /\ schema \in Seq(Migrations)
  /\ connection \in [Runners -> Transaction]
  /\ applying \in [Runners -> Call]

Init ==
  /\ ledger = <<>>
  /\ schema = <<>>
  /\ connection = [r \in Runners |-> NoTransaction]
  /\ applying = [r \in Runners |-> NoCall]
------------------------------------------------------------------------------
\* There is no lease to be had, or (and then it is exited) the lease is not
\* idle or its BEGIN fails.
Refuse(r) ==
  /\ applying[r].at = "idle"
  /\ \E at \in {"idle", "exit"} :
       applying' = [applying EXCEPT ![r] = [NoCall EXCEPT !.at = at, !.verdict = "failed"]]
  /\ UNCHANGED <<ledger, schema, connection>>

Begin(r, p) ==
  /\ applying[r].at = "idle"
  /\ ~connection[r].open
  /\ connection' = [connection EXCEPT ![r].open = TRUE]
  /\ applying' = [applying EXCEPT ![r] = [NoCall EXCEPT !.at = "lock", !.package = p]]
  /\ UNCHANGED <<ledger, schema>>

Lock(r) ==
  /\ applying[r].at = "lock"
  /\ \A q \in Runners : ~connection[q].locked
  /\ connection' = [connection EXCEPT ![r].locked = TRUE]
  /\ applying' = [applying EXCEPT ![r].at = "read"]
  /\ UNCHANGED <<ledger, schema>>

\* Mutant of Verified: compares how many migrations are recorded, not which.
VerifiedByLength(applied, manifest) == Len(applied) <= Len(manifest)

\* pending_lifecycle_migrations: what is recorded is an exact prefix of the
\* packaged manifest.
Verified(applied, manifest) == IsPrefix(applied, manifest)

Read(r) ==
  LET package == applying[r].package
  IN  /\ applying[r].at = "read"
      /\ IF Verified(ledger, package)
         THEN applying' = [applying EXCEPT ![r].at = "apply",
                ![r].pending = SubSeq(package, Len(ledger) + 1, Len(package))]
         ELSE applying' = [applying EXCEPT ![r].at = "undo"]
      /\ UNCHANGED <<ledger, schema, connection>>

\* The SQL of the next migration; it waits for an open transaction that has
\* run it already, and fails if its objects exist.
Execute(r) ==
  LET pending == applying[r].pending
      ran == connection[r].ran
      next == pending[Len(ran) + 1]
  IN  /\ applying[r].at = "apply"
      /\ Len(ran) = Len(connection[r].rows)
      /\ Len(ran) < Len(pending)
      /\ next \notin Range(schema)
      /\ \A q \in Runners \ {r} : next \notin Range(connection[q].ran)
      /\ connection' = [connection EXCEPT ![r].ran = Append(ran, next)]
      /\ UNCHANGED <<ledger, schema, applying>>

Record(r) ==
  /\ applying[r].at = "apply"
  /\ Len(connection[r].rows) < Len(connection[r].ran)
  /\ connection' = [connection EXCEPT ![r].rows = Append(@, Last(connection[r].ran))]
  /\ UNCHANGED <<ledger, schema, applying>>

\* Mutant of CommitRaises: the flag is set when the commit has returned.
CommitRaisesUnnoted(c) == [c EXCEPT !.at = "undo", !.attempted = FALSE]

\* The call after commit() raised.
CommitRaises(c) == [c EXCEPT !.at = "undo", !.attempted = TRUE]

\* The call after commit() returned.
CommitReturns(c) == [c EXCEPT !.at = "exit", !.verdict = "returned"]

Ready(r) ==
  /\ applying[r].at = "apply"
  /\ Len(connection[r].rows) = Len(applying[r].pending)

\* The transaction takes effect; commit() returns, or raises all the same.
Commit(r) ==
  LET c == [applying[r] EXCEPT !.made = connection[r].ran]
  IN  /\ Ready(r)
      /\ ledger' = ledger \o connection[r].rows
      /\ schema' = schema \o connection[r].ran
      /\ connection' = [connection EXCEPT ![r] = NoTransaction]
      /\ \/ applying' = [applying EXCEPT ![r] = CommitReturns(c)]
         \/ applying' = [applying EXCEPT ![r] = CommitRaises(c)]

CommitFails(r) ==
  /\ Ready(r)
  /\ applying' = [applying EXCEPT ![r] = CommitRaises(@)]
  /\ UNCHANGED <<ledger, schema, connection>>

\* A statement raises, for whatever reason.
Fail(r) ==
  /\ applying[r].at \in {"lock", "read", "apply"}
  /\ applying' = [applying EXCEPT ![r].at = "undo"]
  /\ UNCHANGED <<ledger, schema, connection>>

\* The error that leaves the body, with or without the note.
RollBack(r) ==
  /\ applying[r].at = "undo"
  /\ connection' = [connection EXCEPT ![r] = NoTransaction]
  /\ applying' = [applying EXCEPT ![r].at = "exit",
       ![r].verdict = IF applying[r].attempted THEN "ambiguous" ELSE "failed"]
  /\ UNCHANGED <<ledger, schema>>

RollBackFails(r) ==
  /\ applying[r].at = "undo"
  /\ applying' = [applying EXCEPT ![r].at = "exit", ![r].verdict = "ambiguous"]
  /\ UNCHANGED <<ledger, schema, connection>>

\* The exit of the lease, behind the except clause that adds the note: what
\* it raises replaces the result of the body or its error, note included.
\* The verdict is what the caller has; what the call did is kept to compare.
Exit(r) ==
  /\ applying[r].at = "exit"
  /\ \E verdict \in {applying[r].verdict, "exit_raised"} :
       applying' = [applying EXCEPT ![r] = [applying[r] EXCEPT
         !.at = "idle", !.package = <<>>, !.attempted = FALSE, !.verdict = verdict]]
  /\ UNCHANGED <<ledger, schema, connection>>

\* The process dies, or an interrupt ends the call: its caller learns nothing.
Die(r) ==
  /\ applying[r].at # "idle"
  /\ applying' = [applying EXCEPT ![r] = NoCall]
  /\ UNCHANGED <<ledger, schema, connection>>

\* External: the server gives up a transaction whose client has left it.
ServerAborts(r) ==
  /\ applying[r].at \in {"exit", "idle"}
  /\ connection[r].open
  /\ connection' = [connection EXCEPT ![r] = NoTransaction]
  /\ UNCHANGED <<ledger, schema, applying>>

Next ==
  \E r \in Runners :
    \/ Refuse(r)
    \/ \E p \in Packages : Begin(r, p)
    \/ Lock(r)
    \/ Read(r)
    \/ Execute(r)
    \/ Record(r)
    \/ Commit(r)
    \/ CommitFails(r)
    \/ Fail(r)
    \/ RollBack(r)
    \/ RollBackFails(r)
    \/ Exit(r)
    \/ Die(r)
    \/ ServerAborts(r)

Spec == Init /\ [][Next]_migrationVars
------------------------------------------------------------------------------
\* The ledger records, in order, the migrations in effect, all of one
\* package, whatever packages compete and wherever a call stops.  A call made
\* all that was pending or nothing.  One that returns made it; one whose own
\* error (runner.py apply_pending) lacks the note "transaction outcome is
\* ambiguous" made nothing.  An error that the exit of the lease raises has
\* no note either and says nothing: the migrations may be in effect.
MigrationsAreExact ==
  /\ ledger = schema
  /\ \E p \in Packages : IsPrefix(ledger, p)
  /\ \A r \in Runners :
       /\ applying[r].made \in {<<>>, applying[r].pending}
       /\ applying[r].verdict = "returned" => applying[r].made = applying[r].pending
       /\ applying[r].verdict = "failed" => applying[r].made = <<>>
==============================================================================
