-------------------------- MODULE InMemoryEventLog --------------------------
(***************************************************************************)
(* InMemoryEventLog: an append-only log behind one reentrant lock.         *)
(*                                                                         *)
(* The lock admits one thread, so what other threads do while it is held   *)
(* is wait.  What is left of concurrency is reentrancy: ingest calls the   *)
(* builder's identifier and clock callbacks with the lock held, after it   *)
(* has read the run's authority (sequence and prior hash), and a callback  *)
(* may call the log again.  `frames' is the stack of ingest calls whose    *)
(* builder has not returned yet, each with the authority it read.          *)
(***************************************************************************)
EXTENDS Lifecycle

CONSTANTS Runs, EventIds,
          MaxDepth        \* bound on nested ingest calls

\* What the constants must satisfy; whoever instantiates the module assumes it.
DepthAssumption == MaxDepth \in Nat \ {0}

VARIABLES eventsByRun,    \* _events_by_run
          eventIds,       \* _event_ids, across runs
          frames          \* ingest calls waiting for their builder, innermost last

vars == <<eventsByRun, eventIds, frames>>

\* An empty or missing list: the dictionary's default.
Events(r) == eventsByRun[r]

CurrentState(r) == StateAfter(Events(r))

NextSequence(r) == Len(Events(r)) + 1

PriorHash(r) == IF Events(r) = <<>> THEN GenesisHash ELSE EventHash(Last(Events(r)))

\* Mutant of Admissible: the chain need not continue from the last event.
AdmissibleUnchained(e) ==
  /\ e.intact
  /\ e.id \notin eventIds
  /\ e.seq = NextSequence(e.run)
  /\ Allowed(CurrentState(e.run), e.type)

\* _append_validated raises unless every one of these holds.
Admissible(e) ==
  /\ e.intact
  /\ e.id \notin eventIds
  /\ e.seq = NextSequence(e.run)
  /\ e.prior = PriorHash(e.run)
  /\ Allowed(CurrentState(e.run), e.type)

Store(e) ==
  /\ eventsByRun' = [eventsByRun EXCEPT ![e.run] = Append(@, e)]
  /\ eventIds' = eventIds \cup {e.id}

\* The spent identifiers are those of the stored events.
TypeOK ==
  /\ \A r \in Runs : \A i \in DOMAIN Events(r) :
       Events(r)[i].run = r /\ Events(r)[i].type \in EventType
  /\ \A r \in Runs : Len(Events(r)) <= 3
  /\ eventIds \subseteq EventIds
  /\ eventIds = UNION { { Events(r)[i].id : i \in DOMAIN Events(r) } : r \in Runs }
  /\ Len(frames) <= MaxDepth

Init ==
  /\ eventsByRun = [r \in Runs |-> <<>>]
  /\ eventIds = {}
  /\ frames = <<>>

\* append(event) of an event some caller constructed; it raises before any
\* change when the event is not admissible.
AppendEvent(e) ==
  /\ Admissible(e)
  /\ Store(e)
  /\ UNCHANGED frames

\* ingest up to the builder call: the run's authority is read.
IngestBegin(r, type) ==
  /\ Len(frames) < MaxDepth
  /\ Allowed(CurrentState(r), type)
  /\ frames' = Append(frames, [run |-> r, type |-> type,
                               seq |-> NextSequence(r), prior |-> PriorHash(r)])
  /\ UNCHANGED <<eventsByRun, eventIds>>

\* The event the builder constructs for a frame, with the identifier the
\* factory returned.
BuildEvent(f, id) ==
  [id |-> id, run |-> f.run, seq |-> f.seq, type |-> f.type, prior |-> f.prior, intact |-> TRUE]

\* The builder returned: the event is re-validated against the log as it is
\* now, then stored, or the call raises and stores nothing.
StoreBuilt(e) == IF Admissible(e) THEN Store(e) ELSE UNCHANGED <<eventsByRun, eventIds>>

IngestEnd(id) ==
  /\ frames # <<>>
  /\ StoreBuilt(BuildEvent(Last(frames), id))
  /\ frames' = Front(frames)

\* A builder callback raised (or let a nested call's exception through).
BuilderRaises ==
  /\ frames # <<>>
  /\ frames' = Front(frames)
  /\ UNCHANGED <<eventsByRun, eventIds>>

Hashes == {GenesisHash} \cup UNION { { EventHash(Events(r)[i]) : i \in DOMAIN Events(r) } : r \in Runs }

\* What a caller may construct and hand to append.
CandidateEvents ==
  [ id : EventIds, run : Runs, seq : 1..4, type : EventType, prior : Hashes, intact : BOOLEAN ]

Next ==
  \/ \E e \in CandidateEvents : AppendEvent(e)
  \/ \E r \in Runs, type \in EventType : IngestBegin(r, type)
  \/ \E id \in EventIds : IngestEnd(id)
  \/ BuilderRaises

Spec == Init /\ [][Next]_vars

-----------------------------------------------------------------------------
\* The log's admission test and the reducer are two separately written
\* validators (event_log.py _append_validated, reducer.py
\* reduce_lifecycle_event).  They agree on every event: the log admits
\* exactly what the reducer would reduce after a replay of the run, given an
\* unspent identifier.
AdmissionMatchesReducer ==
  \A e \in CandidateEvents :
    Admissible(e) <=> /\ e.id \notin eventIds
                      /\ CanReduce(ProjectEvents(e.run, Events(e.run)), e)

\* verify_lifecycle_replay accepts a stored stream's own replay, whatever
\* order of nested and direct calls built the stream, and no artifact whose
\* projection or checksum was made before the last event.
VerificationIsExact ==
  \A r \in Runs :
    LET prefix(n) == SubSeq(Events(r), 1, n)
        len == Len(Events(r))
    IN  \A n, m \in 1..len :
          VerifyReplay(Events(r), ProjectEvents(r, prefix(n)), TransitionChecksum(prefix(m)))
            <=> n = len /\ m = len

\* The log implements the abstract stream: every call, however nested,
\* records one legal event with an unspent identifier or nothing at all.
Abstract == INSTANCE LifecycleStream
              WITH streams <- [r \in Runs |->
                                [i \in DOMAIN Events(r) |->
                                  [id |-> Events(r)[i].id, type |-> Events(r)[i].type]]]

ImplementsStream == Abstract!Spec
=============================================================================
