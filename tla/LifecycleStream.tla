--------------------------- MODULE LifecycleStream ---------------------------
(***************************************************************************)
(* What a lifecycle event log promises, whichever store is behind it: each *)
(* run owns a sequence of event types that only grows, by one event at a   *)
(* time, along the lifecycle transitions, and event identities are spent   *)
(* once and for all across runs.  InMemoryEventLog and PostgresEventLog    *)
(* implement it.                                                           *)
(***************************************************************************)
EXTENDS Lifecycle

CONSTANTS Runs, EventIds

VARIABLE streams        \* per run, the sequence of [id, type] recorded

SpentIds == UNION { { streams[r][i].id : i \in DOMAIN streams[r] } : r \in Runs }

Init == streams = [r \in Runs |-> <<>>]

Record(r, id, type) ==
  /\ id \notin SpentIds
  /\ Allowed(StateAfter(streams[r]), type)
  /\ streams' = [streams EXCEPT ![r] = Append(@, [id |-> id, type |-> type])]

Next == \E r \in Runs, id \in EventIds, type \in EventType : Record(r, id, type)

Spec == Init /\ [][Next]_streams
=============================================================================
