---------------------------- MODULE MCDialogues ----------------------------
(* The two dialogues that carry secret chunks, one of them held: a call    *)
(* through client, relay and daemon (an allocation without chunks, or a    *)
(* delivery of three) over pipes of one frame, or two attach sessions with *)
(* a ticket each for one container.                                        *)
EXTENDS ExecutorDialogue, TLC

CONSTANTS n1, n2, Sessions, TicketOf, ContainerOf, ChunkCount

MCNonces == {n1, n2}
MCChunkCounts == {0, 3}
\* A fresh ticket for every attempt, all for one container.
MCTicketOf == [s \in Sessions |-> s]
MCContainerOf == [s \in Sessions |-> "container"]

VARIABLES
  held, aDaemon, wrapper, down, up, answer, rows, next, accepted, expired

attachVars == <<aDaemon, wrapper, down, up, answer, rows, next, accepted, expired>>

\* The component.
Attach == INSTANCE AttachSession WITH daemon <- aDaemon

ASSUME AttachConstants == Attach!SessionsAssumption

EitherInit ==
  /\ Init /\ Attach!Init /\ held \in {"call", "attach"}
  /\ held = "attach" => claim = "no" /\ count = 0 /\ requestNonce = n1

EitherNext ==
  \/ held = "call" /\ Next /\ UNCHANGED <<held, attachVars>>
  \/ held = "attach" /\ Attach!Next /\ UNCHANGED <<held, vars>>

EitherSpec == EitherInit /\ [][EitherNext]_<<held, vars, attachVars>> /\ Fairness

\* The properties of the instance, by a name of this module.
OneDelivery == Attach!OneDelivery
ReceiptIsEarned == Attach!ReceiptIsEarned
CheckpointIsHonest == Attach!CheckpointIsHonest
=============================================================================
