---------------------------- MODULE MCEventLogs ----------------------------
(* The two event logs and the migrations beneath one of them, one at work: *)
(* two sessions of PostgreSQL on one run with two event identifiers, or on *)
(* two runs that compete for one identifier; in memory, nested calls on    *)
(* two runs with three identifiers; two processes that migrate the schema. *)
EXTENDS PostgresEventLog

CONSTANTS OneRun, OneEventId, MemoryEventIds, MaxDepth

VARIABLES eventsByRun, eventIds, frames, ledger, schema, connection, applying, log

memory == <<eventsByRun, eventIds, frames>>
migrations == <<ledger, schema, connection, applying>>

\* A package, its next release, and one whose first file was changed.
MCPackages == {<<"store">>, <<"store", "claims">>,
               <<"store changed", "claims changed">>}

Memory == INSTANCE InMemoryEventLog WITH EventIds <- MemoryEventIds
Migration == INSTANCE MigrationRunner WITH Runners <- Sessions, Packages <- MCPackages

ASSUME MemoryConstants == Memory!DepthAssumption
ASSUME MigrationConstants == Migration!PackagesAssumption

EitherInit ==
  /\ Init
  /\ Memory!Init
  /\ Migration!Init
  /\ log \in {"one run", "one identifier", "memory", "migrations"}

\* The calls of the first two cases.
InScope ==
  /\ log = "one run" => \A s \in Sessions : session[s].call.run \in {OneRun, "none"}
  /\ log = "one identifier" => \A s \in Sessions : session[s].event.id \in {OneEventId, "none"}

EitherNext ==
  \/ /\ log \in {"one run", "one identifier"}
     /\ Next
     /\ UNCHANGED <<memory, migrations, log>>
     /\ InScope'
  \/ log = "memory" /\ Memory!Next /\ UNCHANGED <<vars, migrations, log>>
  \/ log = "migrations" /\ Migration!Next /\ UNCHANGED <<vars, memory, log>>

EitherSpec ==
  EitherInit /\ [][EitherNext]_<<vars, memory, migrations, log>> /\ Fairness

\* What the in-memory log admits is what the reducer reduces, and a replay is
\* verified exactly when it is the stream's own.
ReplayIsExact == Memory!AdmissionMatchesReducer /\ Memory!VerificationIsExact

\* The schema a migration leaves behind, and what its caller is told of it.
MigrationsAreExact == Migration!MigrationsAreExact

\* Both logs implement the abstract stream of Lifecycle events.
BothImplementStream == ImplementsStream /\ Memory!ImplementsStream
=============================================================================
