------------------------------ MODULE Lifecycle ------------------------------
(***************************************************************************)
(* The pure part of the lifecycle package: the transition table, the       *)
(* reducer, the projection of an event stream and its verification.        *)
(*                                                                         *)
(* A hash is an injective function of what it covers, so it is modelled by *)
(* what it covers: the hash of an event is the chain of event contents     *)
(* that ends with it, and GENESIS_HASH is the empty chain.  `intact' says   *)
(* that the stored digest field agrees with the contents beside it.        *)
(***************************************************************************)
EXTENDS Naturals, Sequences, SequencesExt

LifecycleState == {"INITIAL", "CREATED", "ACTIVE", "COMPLETED", "FAILED"}
EventType == {"RUN_CREATED", "WORK_STARTED", "WORK_COMPLETED", "WORK_FAILED"}

\* ALLOWED_LIFECYCLE_TRANSITIONS: <<source, event, target>>.
Transitions ==
  { <<"INITIAL", "RUN_CREATED", "CREATED">>,
    <<"CREATED", "WORK_STARTED", "ACTIVE">>,
    <<"ACTIVE", "WORK_COMPLETED", "COMPLETED">>,
    <<"ACTIVE", "WORK_FAILED", "FAILED">> }

Allowed(state, type) == \E target \in LifecycleState : <<state, type, target>> \in Transitions

Target(state, type) == CHOOSE target \in LifecycleState : <<state, type, target>> \in Transitions

\* The state a stream of events leaves its run in.
StateAfter(events) ==
  LET after[n \in 0..Len(events)] ==
        IF n = 0 THEN "INITIAL" ELSE Target(after[n - 1], events[n].type)
  IN  after[Len(events)]

GenesisHash == <<>>

EventHash(e) == Append(e.prior, <<e.id, e.run, e.seq, e.type>>)

\* advance_event_stream_hash: one more link, over the whole persisted event.
AdvanceHash(hash, e) == Append(hash, e)

\* advance_transition_checksum: the replay chain, whose links leave out the
\* clock reading and the event hash and replace the stored prior hash.
AdvanceChecksum(checksum, e) == Append(checksum, <<e.id, e.run, e.seq, e.type>>)

\* transition_checksum
TransitionChecksum(events) ==
  LET after[n \in 0..Len(events)] ==
        IF n = 0 THEN GenesisHash ELSE AdvanceChecksum(after[n - 1], events[n])
  IN  after[Len(events)]

\* A LifecycleRunProjection whose checksum is that of its contents.
Projection(run, state, seq, last, stream) ==
  [ run |-> run, state |-> state, seq |-> seq, last |-> last, stream |-> stream,
    intact |-> TRUE ]

\* empty_projection(run): the canonical projection of no event at all.
EmptyProjection(run) == Projection(run, "INITIAL", 0, GenesisHash, GenesisHash)

\* The sequence number validate_lifecycle_projection expects in each state.
ExpectedSequence ==
  [ INITIAL |-> 0, CREATED |-> 1, ACTIVE |-> 2, COMPLETED |-> 3, FAILED |-> 3 ]

ValidProjection(p) ==
  /\ p.intact
  /\ p.seq = ExpectedSequence[p.state]
  /\ p.state = "INITIAL" => p.last = GenesisHash /\ p.stream = GenesisHash
  /\ p.state # "INITIAL" => p.last # GenesisHash /\ p.stream # GenesisHash

\* Everything reduce_lifecycle_event demands before it computes a projection.
CanReduce(p, e) ==
  /\ ValidProjection(p)
  /\ p.run = e.run
  /\ e.intact
  /\ e.seq = p.seq + 1
  /\ e.prior = (IF p.seq # 0 THEN p.last ELSE GenesisHash)
  /\ Allowed(p.state, e.type)

\* The projection reduce_lifecycle_event returns, with a fresh checksum.
Reduce(p, e) ==
  Projection(p.run, Target(p.state, e.type), e.seq, EventHash(e), AdvanceHash(p.stream, e))

\* The exception a fold over a malformed stream ends with.
Rejected == [ run |-> "none", state |-> "rejected" ]

ReduceOrReject(p, e) == IF p # Rejected /\ CanReduce(p, e) THEN Reduce(p, e) ELSE Rejected

\* project_events / replay_lifecycle over the stream of one run.
ProjectEvents(run, events) ==
  LET after[n \in 0..Len(events)] ==
        IF n = 0 THEN EmptyProjection(run) ELSE ReduceOrReject(after[n - 1], events[n])
  IN  after[Len(events)]

NoDuplicateIds(events) ==
  \A i, j \in DOMAIN events : events[i].id = events[j].id => i = j

\* Mutant of VerifyReplay: the projection is validated but not compared.
VerifyReplayShallow(events, projection, checksum) ==
  /\ events # <<>>
  /\ NoDuplicateIds(events)
  /\ ProjectEvents(events[1].run, events) # Rejected
  /\ ValidProjection(projection)
  /\ checksum = TransitionChecksum(events)

\* verify_lifecycle_replay: the artifact is accepted for this event snapshot.
VerifyReplay(events, projection, checksum) ==
  /\ events # <<>>
  /\ NoDuplicateIds(events)
  /\ ProjectEvents(events[1].run, events) # Rejected
  /\ ValidProjection(projection)
  /\ projection = ProjectEvents(events[1].run, events)
  /\ checksum = TransitionChecksum(events)
=============================================================================
