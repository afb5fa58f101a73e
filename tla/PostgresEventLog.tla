-------------------------- MODULE PostgresEventLog --------------------------
(***************************************************************************)
(* PostgresLifecycleEventLog: each call is one READ COMMITTED transaction  *)
(* that takes the run's advisory lock, reads the head row, reads the event *)
(* rows, verifies the one against a replay of the other, and then (append, *)
(* ingest) inserts one event row and writes the head row.                  *)
(*                                                                         *)
(* A statement sees what is committed when it runs, so the two reads of a  *)
(* call are two steps.  Uncommitted writes live in the session until its   *)
(* commit.  Any statement may fail (connection, timeout, serialisation,    *)
(* client crash): the transaction rolls back.  The commit itself may take  *)
(* effect and still be reported as a failure.                              *)
(***************************************************************************)
EXTENDS Lifecycle, FiniteSets

CONSTANTS Runs, EventIds, Sessions

VARIABLES rows,           \* lifecycle_events: committed event rows
          heads,          \* lifecycle_run_heads: committed head row, NoHead if none
          lockedBy,       \* per run, the session holding its advisory lock, or NoSession
          session         \* per session: the call in progress

vars == <<rows, heads, lockedBy, session>>

NoHead == [run |-> "none", state |-> "absent"]
NoEvent == [id |-> "none"]
NoSession == "none"
ASSUME SessionsAssumption == NoSession \notin Sessions

\* Calls: ingest(intent) builds its event under the lock, append(event)
\* brings one, the reads bring none.
IngestCall(r, type) == [kind |-> "ingest", run |-> r, type |-> type]
AppendCall(e) == [kind |-> "append", run |-> e.run, type |-> e.type]
ReadCall(r) == [kind |-> "read", run |-> r, type |-> "none"]

\* Steps of a call in order, then its possible results.
Waiting == {"begun", "locked", "headRead", "verified", "built", "inserted", "written"}
Results == {"ok", "conflict", "corruption", "unavailable"}

\* A session: the step its call is at, the head row it read, the event it
\* brings or built, the head row it will write.
At(pc, call, head, event, new) ==
  [pc |-> pc, call |-> call, head |-> head, event |-> event, new |-> new]

\* No call in progress; `pc' tells how the last one ended.
Done(pc) == At(pc, ReadCall("none"), NoHead, NoEvent, NoHead)

\* The rows of one run in sequence order.
RowsOf(r) == { e \in rows : e.run = r }
EventsOf(r) ==
  [ i \in 1..Cardinality(RowsOf(r)) |->
      CHOOSE e \in RowsOf(r) : Cardinality({ o \in RowsOf(r) : o.seq <= e.seq }) = i ]

\* The projection a call goes on with when a run has no head.
HeadOrEmpty(r, head) == IF head = NoHead THEN EmptyProjection(r) ELSE head

\* _load_verified_run accepts the head it read with the rows it reads now.
Verified(r, head) ==
  IF head = NoHead THEN EventsOf(r) = <<>>
  ELSE EventsOf(r) # <<>> /\ ProjectEvents(r, EventsOf(r)) = head

\* Rows inserted by transactions that have not ended.
InFlight(s) == { session[t].event : t \in { t \in Sessions \ {s} : session[t].pc \in {"inserted", "written"} } }

\* Mutant of Collides: the event identity is a key within its run only.
CollidesInRun(e, others) == \E o \in others : o.run = e.run /\ (o.id = e.id \/ o.seq = e.seq)

\* The primary key and UNIQUE (run_id, sequence) of lifecycle_events.
Collides(e, others) == \E o \in others : o.id = e.id \/ (o.run = e.run /\ o.seq = e.seq)

\* Locks are held only by calls that are running on that run.
TypeOK ==
  /\ \A e \in rows : e.run \in Runs /\ e.id \in EventIds /\ e.seq \in 1..3
  /\ \A r \in Runs : heads[r] # NoHead => heads[r].run = r
  /\ lockedBy \in [Runs -> Sessions \cup {NoSession}]
  /\ \A r \in Runs, s \in Sessions :
       lockedBy[r] = s => session[s].pc \in Waiting \ {"begun"} /\ session[s].call.run = r
  /\ \A s \in Sessions : session[s].pc \in {"idle"} \cup Waiting \cup Results

Init ==
  /\ rows = {}
  /\ heads = [r \in Runs |-> NoHead]
  /\ lockedBy = [r \in Runs |-> NoSession]
  /\ session = [s \in Sessions |-> Done("idle")]

Step(s, pc, head, event, new) ==
  session' = [session EXCEPT ![s] = At(pc, @.call, head, event, new)]

Goto(s, pc) == Step(s, pc, session[s].head, session[s].event, session[s].new)

\* The call is over with a result; the session keeps nothing else of it.
Return(s, result) == session' = [session EXCEPT ![s] = Done(result)]

\* Mutant of Unlock: the lock belongs to the database session, not to the
\* transaction.
UnlockNever(s) == lockedBy' = lockedBy

\* What transaction end releases: locks are transaction-scoped.
Unlock(s) == lockedBy' = [r \in Runs |-> IF lockedBy[r] = s THEN NoSession ELSE lockedBy[r]]

\* A caller's event for append: built on the stream as the caller last saw
\* it, hence possibly stale by the time the lock is granted.
CallerEvent(r, type, id) ==
  [ id |-> id, run |-> r, seq |-> Len(EventsOf(r)) + 1, type |-> type,
    prior |-> HeadOrEmpty(r, heads[r]).last, intact |-> TRUE ]

Begin(s, call, e) ==
  /\ session[s].pc \in {"idle"} \cup Results
  /\ session' = [session EXCEPT ![s] = At("begun", call, NoHead, e, NoHead)]
  /\ UNCHANGED <<rows, heads, lockedBy>>

BeginIngest(s) == \E r \in Runs, type \in EventType : Begin(s, IngestCall(r, type), NoEvent)

BeginAppend(s) ==
  \E r \in Runs, type \in EventType, id \in EventIds :
    /\ Allowed(HeadOrEmpty(r, heads[r]).state, type)
    /\ Begin(s, AppendCall(CallerEvent(r, type, id)), CallerEvent(r, type, id))

BeginRead(s) == \E r \in Runs : Begin(s, ReadCall(r), NoEvent)

\* Mutant of Lock: the advisory lock is not waited for.
LockNot(s) ==
  /\ session[s].pc = "begun"
  /\ lockedBy' = [lockedBy EXCEPT ![session[s].call.run] = s]
  /\ Goto(s, "locked")
  /\ UNCHANGED <<rows, heads>>

\* pg_advisory_xact_lock(hash(run_id)).
Lock(s) ==
  /\ session[s].pc = "begun"
  /\ lockedBy[session[s].call.run] = NoSession
  /\ lockedBy' = [lockedBy EXCEPT ![session[s].call.run] = s]
  /\ Goto(s, "locked")
  /\ UNCHANGED <<rows, heads>>

\* SELECT ... FROM lifecycle_run_heads ... FOR UPDATE.
ReadHead(s) ==
  /\ session[s].pc = "locked"
  /\ Step(s, "headRead", heads[session[s].call.run], session[s].event, session[s].new)
  /\ UNCHANGED <<rows, heads, lockedBy>>

\* SELECT ... FROM lifecycle_events, then the comparison with the head.
ReadEvents(s) ==
  LET run == session[s].call.run
  IN  /\ session[s].pc = "headRead"
      /\ IF Verified(run, session[s].head)
         THEN Goto(s, "verified") /\ UNCHANGED lockedBy
         ELSE Return(s, "corruption") /\ Unlock(s)
      /\ UNCHANGED <<rows, heads>>

\* ingest: the builder's callbacks run inside the transaction.
Build(s) ==
  LET c == session[s].call
      p == HeadOrEmpty(c.run, session[s].head)
  IN  /\ session[s].pc = "verified"
      /\ c.kind = "ingest"
      /\ \E id \in EventIds :
           Step(s, "built", session[s].head,
                [ id |-> id, run |-> c.run, seq |-> p.seq + 1,
                  type |-> c.type, prior |-> p.last, intact |-> TRUE ], session[s].new)
      /\ UNCHANGED <<rows, heads, lockedBy>>

ReadyToInsert(s) ==
  \/ session[s].pc = "built"
  \/ session[s].pc = "verified" /\ session[s].call.kind = "append"

\* reduce_lifecycle_event refuses, or the INSERT meets a committed row with
\* the same key: the caller gets a conflict.
Conflict(s) ==
  LET e == session[s].event
      p == HeadOrEmpty(e.run, session[s].head)
  IN  /\ ReadyToInsert(s)
      /\ ~ CanReduce(p, e) \/ Collides(e, rows)
      /\ Return(s, "conflict")
      /\ Unlock(s)
      /\ UNCHANGED <<rows, heads>>

\* INSERT INTO lifecycle_events; it waits while another open transaction has
\* inserted the same key.
InsertEvent(s) ==
  LET e == session[s].event
      p == HeadOrEmpty(e.run, session[s].head)
  IN  /\ ReadyToInsert(s)
      /\ CanReduce(p, e)
      /\ ~ Collides(e, rows \cup InFlight(s))
      /\ Step(s, "inserted", session[s].head, e, Reduce(p, e))
      /\ UNCHANGED <<rows, heads, lockedBy>>

\* INSERT or UPDATE of lifecycle_run_heads.
WriteHead(s) ==
  /\ session[s].pc = "inserted"
  /\ Goto(s, "written")
  /\ UNCHANGED <<rows, heads, lockedBy>>

\* The transaction's writes become visible together.
Publish(s) ==
  /\ rows' = rows \cup {session[s].event}
  /\ heads' = [heads EXCEPT ![session[s].call.run] = session[s].new]

Commit(s) ==
  /\ session[s].pc = "written"
  /\ Publish(s)
  /\ Return(s, "ok")
  /\ Unlock(s)

\* The commit took effect, the caller is told the store is unavailable.
CommitUnreported(s) ==
  /\ session[s].pc = "written"
  /\ Publish(s)
  /\ Return(s, "unavailable")
  /\ Unlock(s)

\* events_for, projection_for and replay_for end after the verification.
ReturnRead(s) ==
  /\ session[s].pc = "verified"
  /\ session[s].call.kind = "read"
  /\ Return(s, "ok")
  /\ Unlock(s)
  /\ UNCHANGED <<rows, heads>>

\* A statement or a builder callback failed, or the client died: rollback.
Fail(s) ==
  /\ session[s].pc \in Waiting
  /\ Return(s, "unavailable")
  /\ Unlock(s)
  /\ UNCHANGED <<rows, heads>>

Begins(s) == BeginIngest(s) \/ BeginAppend(s) \/ BeginRead(s)

Advance(s) ==
  \/ ReadHead(s) \/ ReadEvents(s) \/ Build(s) \/ Conflict(s) \/ InsertEvent(s)
  \/ WriteHead(s) \/ Commit(s) \/ CommitUnreported(s) \/ ReturnRead(s)

Next == \E s \in Sessions : Begins(s) \/ Lock(s) \/ Advance(s) \/ Fail(s)

Spec == Init /\ [][Next]_vars

\* A started transaction runs its statements, and PostgreSQL grants an
\* advisory lock to its waiters in turn.  Callers and failures are not fair.
Fairness == \A s \in Sessions : WF_vars(Advance(s)) /\ SF_vars(Lock(s)) /\ SF_vars(InsertEvent(s))

-----------------------------------------------------------------------------
\* As long as only this adapter writes, no call ever sees a head and rows
\* that do not belong together, although it reads them by two statements:
\* LifecycleStoreCorruptionError means somebody else wrote.
NoCorruptionVerdict == \A s \in Sessions : session[s].pc # "corruption"

\* Committed rows are what the abstract lifecycle stream records: one legal
\* event at a time, an event identity spent once across all runs.
Recorded(r) ==
  LET events == EventsOf(r)
  IN  [i \in DOMAIN events |-> [id |-> events[i].id, type |-> events[i].type]]

Abstract == INSTANCE LifecycleStream WITH streams <- [r \in Runs |-> Recorded(r)]

ImplementsStream == Abstract!Spec

\* A started call returns: the advisory lock of one run and the key locks of
\* another never wait for each other.
EveryCallReturns ==
  \A s \in Sessions : session[s].pc \in Waiting ~> session[s].pc \in Results
=============================================================================
