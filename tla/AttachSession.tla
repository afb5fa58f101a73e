---------------------------- MODULE AttachSession ----------------------------
(***************************************************************************)
(* The delivery of a container's secrets over one Docker attach: the       *)
(* daemon session and the wrapper session of container_attach_v2.py, the   *)
(* byte stream between them and the durable authority that lets a ticket   *)
(* and a container be used once.                                           *)
(*                                                                         *)
(* A method that is called in the wrong state, or whose authorization has  *)
(* expired, raises and changes nothing; a method that fails later leaves   *)
(* the session "ambiguous".  A write may fail after part of the frame, or  *)
(* the whole of it, has left.  A process may stop at any point, and an     *)
(* interrupt (a BaseException) passes the handlers of the code.            *)
(*                                                                         *)
(* Abstracted: the bytes of a frame (a whole frame is its kind, a part of  *)
(* one is "torn"), the contents the two ends compare (both ends hold the   *)
(* same verified documents), the clocks behind the deadlines (a call with  *)
(* a deadline may fail whenever it is made).                               *)
(***************************************************************************)
EXTENDS Naturals, Sequences, SequencesExt

CONSTANTS
  Sessions,      \* attach attempts, each a daemon session and its connection
  TicketOf,      \* the ticket an attempt was authorized with
  ContainerOf,   \* the container that ticket names
  ChunkCount     \* secret fields the request describes

\* What the constants must satisfy; whoever instantiates the module assumes it.
SessionsAssumption ==
  /\ ChunkCount \in Nat \ {0}
  /\ \A s, t \in Sessions :
       TicketOf[s] = TicketOf[t] => ContainerOf[s] = ContainerOf[t]

VARIABLES
  daemon,     \* state of the daemon's session object
  wrapper,    \* state of the wrapper's session object
  down,       \* frames on the way to the wrapper, and whether the end follows
  up,         \* frames on the way to the daemon, and whether the end follows
  answer,     \* what the ticket authority returned to the attempt
  rows,       \* attempts whose claims the authority has recorded
  next,       \* the chunk write_secret_chunks is about to write, 0 outside it
  accepted,   \* ordinals the container's sink has accepted
  expired     \* tickets past a validity window

vars == <<daemon, wrapper, down, up, answer, rows, next, accepted, expired>>

DaemonStates ==
  {"none", "new", "ticket_sent", "ready_received", "claim_attempted",
   "claim_sent", "chunks_sent", "write_closed", "terminal_ack_received",
   "closed", "rejected", "ambiguous", "lost"}

WrapperStates ==
  {"none", "new", "ready_received", "claim_sent", "consuming", "chunks_sent",
   "write_closed", "closed", "ambiguous", "lost"}

Chunks == 1 .. ChunkCount

\* A frame is its type and, for a secret chunk, the ordinal it carries.
Frame(type) == <<type, 0>>
Chunk(ordinal) == <<"chunk", ordinal>>
Frames == {Frame(type) : type \in {"ticket", "ready", "claim", "ack", "torn"}}
            \cup {Chunk(i) : i \in Chunks}
Stream == [frames : Seq(Frames), end : BOOLEAN]

Init ==
  /\ daemon = [s \in Sessions |-> "none"]
  /\ wrapper = [s \in Sessions |-> "none"]
  /\ down = [s \in Sessions |-> [frames |-> <<>>, end |-> FALSE]]
  /\ up = [s \in Sessions |-> [frames |-> <<>>, end |-> FALSE]]
  /\ answer = [s \in Sessions |-> "none"]
  /\ rows = {}
  /\ next = [s \in Sessions |-> 0]
  /\ accepted = [s \in Sessions |-> <<>>]
  /\ expired = {}

-----------------------------------------------------------------------------
(* Streams                                                                 *)

Fresh(s) == TicketOf[s] \notin expired

Written(stream, s, frame) == [stream EXCEPT ![s].frames = Append(@, frame)]

\* A write that fails has sent nothing, a part of the frame, or all of it
\* (the deadline is also checked after the last byte).
WriteFails(stream, s, frame) ==
  {stream, Written(stream, s, Frame("torn")), Written(stream, s, frame)}

Arrives(stream, s, frame) ==
  /\ stream[s].frames # <<>>
  /\ Head(stream[s].frames) = frame

Read(stream, s) == [stream EXCEPT ![s].frames = Tail(@)]

EndReached(stream, s) == stream[s].frames = <<>> /\ stream[s].end

Ended(stream, s) == [stream EXCEPT ![s].end = TRUE]

Becomes(machine, s, state) == [machine EXCEPT ![s] = state]

-----------------------------------------------------------------------------
(* Daemon session                                                          *)

\* ContainerAttachV2DaemonSession(...): refused for an expired authorization.
Attach(s) ==
  /\ daemon[s] = "none"
  /\ Fresh(s)
  /\ daemon' = Becomes(daemon, s, "new")
  /\ UNCHANGED <<wrapper, down, up, answer, rows, next, accepted, expired>>

\* write_ticket_envelope
WriteTicket(s) ==
  /\ daemon[s] = "new"
  /\ Fresh(s)
  /\ \/ /\ down' = Written(down, s, Frame("ticket"))
        /\ daemon' = Becomes(daemon, s, "ticket_sent")
     \/ /\ down' \in WriteFails(down, s, Frame("ticket"))
        /\ daemon' = Becomes(daemon, s, "ambiguous")
  /\ UNCHANGED <<wrapper, up, answer, rows, next, accepted, expired>>

\* read_ready
ReadReady(s) ==
  /\ daemon[s] = "ticket_sent"
  /\ Fresh(s)
  /\ \/ /\ Arrives(up, s, Frame("ready"))
        /\ up' = Read(up, s)
        /\ daemon' = Becomes(daemon, s, "ready_received")
     \/ /\ daemon' = Becomes(daemon, s, "ambiguous")
        /\ UNCHANGED up
  /\ UNCHANGED <<wrapper, down, answer, rows, next, accepted, expired>>

\* Mutant of AttemptClaim: the session state is only set when the authority
\* has answered.
AttemptClaimUnrecorded(s) ==
  /\ daemon[s] = "ready_received"
  /\ Fresh(s)
  /\ rows' = rows \cup {s}
  /\ \/ daemon' = Becomes(daemon, s, "claim_attempted")
     \/ UNCHANGED daemon
  /\ UNCHANGED <<wrapper, down, up, answer, next, accepted, expired>>

\* write_claim, up to the call of the authority: the attempt is on record in
\* the session before the authority can have claimed anything.
AttemptClaim(s) ==
  /\ daemon[s] = "ready_received"
  /\ Fresh(s)
  /\ daemon' \in {Becomes(daemon, s, "claim_attempted"),
                  Becomes(daemon, s, "ambiguous")}
  /\ UNCHANGED <<wrapper, down, up, answer, rows, next, accepted, expired>>

\* Mutant of Claimed: a fresh ticket is a fresh entitlement.
ClaimedTicketOnly(s) == \E r \in rows : TicketOf[r] = TicketOf[s]

\* A ticket and a container are each claimed once, whoever asks.
Claimed(s) ==
  \E r \in rows : TicketOf[r] = TicketOf[s] \/ ContainerOf[r] = ContainerOf[s]

\* claim_ticket_and_container_once: the answer may be lost, or be
\* "unavailable", whether or not the claim was recorded.
AuthorityAnswers(s) ==
  /\ daemon[s] = "claim_attempted"
  /\ answer[s] = "none"
  /\ \/ /\ ~Claimed(s)
        /\ rows' = rows \cup {s}
        /\ answer' \in {Becomes(answer, s, "claimed"),
                        Becomes(answer, s, "unavailable")}
     \/ /\ Claimed(s)
        /\ answer' = Becomes(answer, s, "replayed")
        /\ UNCHANGED rows
     \/ /\ answer' = Becomes(answer, s, "unavailable")
        /\ UNCHANGED rows
  /\ UNCHANGED <<daemon, wrapper, down, up, next, accepted, expired>>

\* write_claim, once the authority has answered: only a claim is followed by
\* the claim frame.
WriteClaim(s) ==
  /\ daemon[s] = "claim_attempted"
  /\ \/ /\ answer[s] = "replayed"
        /\ daemon' = Becomes(daemon, s, "rejected")
        /\ UNCHANGED down
     \/ /\ answer[s] = "unavailable"
        /\ daemon' = Becomes(daemon, s, "ambiguous")
        /\ UNCHANGED down
     \/ /\ answer[s] = "claimed"
        /\ \/ /\ down' = Written(down, s, Frame("claim"))
              /\ daemon' = Becomes(daemon, s, "claim_sent")
           \/ /\ down' \in WriteFails(down, s, Frame("claim"))
              /\ daemon' = Becomes(daemon, s, "ambiguous")
  /\ UNCHANGED <<wrapper, up, answer, rows, next, accepted, expired>>

\* write_secret_chunks, its checks: chunks of the wrong number, size or
\* grammar end the session; else it counts as having sent them from here on.
StartChunks(s) ==
  /\ daemon[s] = "claim_sent"
  /\ Fresh(s)
  /\ \/ /\ daemon' = Becomes(daemon, s, "chunks_sent")
        /\ next' = [next EXCEPT ![s] = 1]
     \/ /\ daemon' = Becomes(daemon, s, "ambiguous")
        /\ UNCHANGED next
  /\ UNCHANGED <<wrapper, down, up, answer, rows, accepted, expired>>

\* write_secret_chunks, one frame: a failure ends the session, an interrupt
\* leaves it with part of the chunks written.
WriteChunk(s) ==
  /\ next[s] > 0
  /\ \/ /\ down' = Written(down, s, Chunk(next[s]))
        /\ next' = [next EXCEPT ![s] = IF @ = ChunkCount THEN 0 ELSE @ + 1]
        /\ UNCHANGED daemon
     \/ /\ down' \in WriteFails(down, s, Chunk(next[s]))
        /\ next' = [next EXCEPT ![s] = 0]
        /\ daemon' \in {Becomes(daemon, s, "ambiguous"), daemon}
  /\ UNCHANGED <<wrapper, up, answer, rows, accepted, expired>>

\* close_write: only a half-close of the socket counts.
CloseWrite(s) ==
  /\ daemon[s] = "chunks_sent"
  /\ next[s] = 0
  /\ Fresh(s)
  /\ \/ /\ down' = Ended(down, s)
        /\ daemon' = Becomes(daemon, s, "write_closed")
     \/ /\ down' \in {down, Ended(down, s)}
        /\ daemon' = Becomes(daemon, s, "ambiguous")
  /\ UNCHANGED <<wrapper, up, answer, rows, next, accepted, expired>>

\* read_terminal_ack
ReadTerminalAck(s) ==
  /\ daemon[s] = "write_closed"
  /\ Fresh(s)
  /\ \/ /\ Arrives(up, s, Frame("ack"))
        /\ up' = Read(up, s)
        /\ daemon' = Becomes(daemon, s, "terminal_ack_received")
     \/ /\ daemon' = Becomes(daemon, s, "ambiguous")
        /\ UNCHANGED up
  /\ UNCHANGED <<wrapper, down, answer, rows, next, accepted, expired>>

\* require_protocol_output_eof
RequireOutputEof(s) ==
  /\ daemon[s] = "terminal_ack_received"
  /\ Fresh(s)
  /\ \/ /\ EndReached(up, s)
        /\ daemon' = Becomes(daemon, s, "closed")
     \/ daemon' = Becomes(daemon, s, "ambiguous")
  /\ UNCHANGED <<wrapper, down, up, answer, rows, next, accepted, expired>>

\* checkpoint: the state a session object reports for a durable journal.
\* It raises for an expired authorization, whatever the state.
Checkpoint(s) ==
  CASE daemon[s] \in {"new", "ticket_sent"} -> "ticket_verified_v2"
    [] daemon[s] = "ready_received" -> "ready_v2"
    [] daemon[s] \in {"claim_sent", "chunks_sent"} -> "claimed_v2"
    [] daemon[s] = "write_closed" -> "write_closed_v2"
    [] daemon[s] \in {"terminal_ack_received", "closed"} -> "terminal_ack_v2"
    [] daemon[s] = "rejected" -> "attach_rejected_v2"
    [] daemon[s] \in {"claim_attempted", "ambiguous"} -> "attach_ambiguous_v2"
    [] OTHER -> "none"

-----------------------------------------------------------------------------
(* Wrapper session                                                         *)

\* read_container_attach_v2_ticket_envelope and the session it allows: no
\* session exists before the ticket has been verified.
ReadEnvelope(s) ==
  /\ wrapper[s] = "none"
  /\ \/ /\ Arrives(down, s, Frame("ticket"))
        /\ Fresh(s)
        /\ down' = Read(down, s)
        /\ wrapper' = Becomes(wrapper, s, "new")
     \/ /\ wrapper' = Becomes(wrapper, s, "lost")
        /\ UNCHANGED down
  /\ UNCHANGED <<daemon, up, answer, rows, next, accepted, expired>>

\* write_ready
WriteReady(s) ==
  /\ wrapper[s] = "new"
  /\ Fresh(s)
  /\ \/ /\ up' = Written(up, s, Frame("ready"))
        /\ wrapper' = Becomes(wrapper, s, "ready_received")
     \/ /\ up' \in WriteFails(up, s, Frame("ready"))
        /\ wrapper' = Becomes(wrapper, s, "ambiguous")
  /\ UNCHANGED <<daemon, down, answer, rows, next, accepted, expired>>

\* read_claim
ReadClaim(s) ==
  /\ wrapper[s] = "ready_received"
  /\ Fresh(s)
  /\ \/ /\ Arrives(down, s, Frame("claim"))
        /\ down' = Read(down, s)
        /\ wrapper' = Becomes(wrapper, s, "claim_sent")
     \/ /\ wrapper' = Becomes(wrapper, s, "ambiguous")
        /\ UNCHANGED down
  /\ UNCHANGED <<daemon, up, answer, rows, next, accepted, expired>>

\* consume_secret_chunks, its checks
StartConsuming(s) ==
  /\ wrapper[s] = "claim_sent"
  /\ Fresh(s)
  /\ wrapper' = Becomes(wrapper, s, "consuming")
  /\ UNCHANGED <<daemon, down, up, answer, rows, next, accepted, expired>>

\* Mutant of Consume: the end of the input ends the list of chunks.
ConsumeUntilEnd(s) ==
  /\ wrapper[s] = "consuming"
  /\ LET ordinal == Len(accepted[s]) + 1
     IN \/ /\ Arrives(down, s, Chunk(ordinal))
           /\ down' = Read(down, s)
           /\ accepted' = [accepted EXCEPT ![s] = Append(@, ordinal)]
           /\ UNCHANGED wrapper
        \/ /\ EndReached(down, s)
           /\ wrapper' = Becomes(wrapper, s, "chunks_sent")
           /\ UNCHANGED <<down, accepted>>
  /\ UNCHANGED <<daemon, up, answer, rows, next, expired>>

\* consume_secret_chunks, one descriptor: the frame must carry the ordinal
\* expected next; the sink may have taken a chunk that it then refuses.
Consume(s) ==
  /\ wrapper[s] = "consuming"
  /\ LET ordinal == Len(accepted[s]) + 1
     IN \/ /\ Arrives(down, s, Chunk(ordinal))
           /\ down' = Read(down, s)
           /\ accepted' = [accepted EXCEPT ![s] = Append(@, ordinal)]
           /\ wrapper' \in {Becomes(wrapper, s,
                              IF ordinal = ChunkCount THEN "chunks_sent"
                                                      ELSE "consuming"),
                            Becomes(wrapper, s, "ambiguous")}
        \/ /\ wrapper' = Becomes(wrapper, s, "ambiguous")
           /\ UNCHANGED <<down, accepted>>
  /\ UNCHANGED <<daemon, up, answer, rows, next, expired>>

\* require_input_eof
RequireInputEof(s) ==
  /\ wrapper[s] = "chunks_sent"
  /\ Fresh(s)
  /\ \/ /\ EndReached(down, s)
        /\ wrapper' = Becomes(wrapper, s, "write_closed")
     \/ wrapper' = Becomes(wrapper, s, "ambiguous")
  /\ UNCHANGED <<daemon, down, up, answer, rows, next, accepted, expired>>

\* write_terminal_ack_and_close_output
WriteAckAndClose(s) ==
  /\ wrapper[s] = "write_closed"
  /\ Fresh(s)
  /\ \/ /\ up' = Ended(Written(up, s, Frame("ack")), s)
        /\ wrapper' \in {Becomes(wrapper, s, "closed"),
                         Becomes(wrapper, s, "ambiguous")}
     \/ /\ up' \in WriteFails(up, s, Frame("ack"))
        /\ wrapper' = Becomes(wrapper, s, "ambiguous")
  /\ UNCHANGED <<daemon, down, answer, rows, next, accepted, expired>>

-----------------------------------------------------------------------------
(* What neither session decides                                            *)

Expires(s) ==
  /\ Fresh(s)
  /\ expired' = expired \cup {TicketOf[s]}
  /\ UNCHANGED <<daemon, wrapper, down, up, answer, rows, next, accepted>>

\* The daemon stops: its session object is gone and its socket closes.
DaemonStops(s) ==
  /\ daemon[s] \notin {"none", "lost"}
  /\ daemon' = Becomes(daemon, s, "lost")
  /\ next' = [next EXCEPT ![s] = 0]
  /\ down' = Ended(down, s)
  /\ UNCHANGED <<wrapper, up, answer, rows, accepted, expired>>

\* The wrapper exits, whether or not it was done.
WrapperStops(s) ==
  /\ wrapper[s] \notin {"none", "lost"}
  /\ wrapper' = Becomes(wrapper, s, "lost")
  /\ up' = Ended(up, s)
  /\ UNCHANGED <<daemon, down, answer, rows, next, accepted, expired>>

DaemonCall(s) ==
  \/ Attach(s) \/ WriteTicket(s) \/ ReadReady(s)
  \/ AttemptClaim(s) \/ AuthorityAnswers(s) \/ WriteClaim(s)
  \/ StartChunks(s) \/ WriteChunk(s)
  \/ CloseWrite(s) \/ ReadTerminalAck(s) \/ RequireOutputEof(s)

WrapperCall(s) ==
  \/ ReadEnvelope(s) \/ WriteReady(s) \/ ReadClaim(s)
  \/ StartConsuming(s) \/ Consume(s)
  \/ RequireInputEof(s) \/ WriteAckAndClose(s)

Next ==
  \E s \in Sessions :
    \/ DaemonCall(s) \/ WrapperCall(s)
    \/ Expires(s) \/ DaemonStops(s) \/ WrapperStops(s)

Spec == Init /\ [][Next]_vars

-----------------------------------------------------------------------------
(* Properties                                                              *)

TypeOK ==
  /\ daemon \in [Sessions -> DaemonStates]
  /\ wrapper \in [Sessions -> WrapperStates]
  /\ down \in [Sessions -> Stream]
  /\ up \in [Sessions -> Stream]
  /\ answer \in [Sessions -> {"none", "claimed", "replayed", "unavailable"}]
  /\ rows \subseteq Sessions
  /\ next \in [Sessions -> 0 .. ChunkCount]
  /\ accepted \in [Sessions -> Seq(Chunks)]
  /\ expired \subseteq {TicketOf[s] : s \in Sessions}

\* A chunk has left the daemon for this attempt, or its claim frame has.
Delivering(s) ==
  \/ Range(down[s].frames) \cap ({Frame("claim")} \cup {Chunk(i) : i \in Chunks}) # {}
  \/ wrapper[s] \in {"claim_sent", "consuming", "chunks_sent",
                     "write_closed", "closed"}
  \/ accepted[s] # <<>>

\* However many tickets are issued for a container, over however many
\* attaches, daemon restarts and lost answers of the authority, secrets are
\* delivered to it by one attempt, and that attempt's claim is on record
\* ("a fresh ticket, nonce, channel, or session does not create another
\* attach entitlement for the same container").
OneDelivery ==
  \A s \in Sessions :
    Delivering(s) =>
      /\ s \in rows
      /\ \A t \in Sessions \ {s} :
           ContainerOf[t] = ContainerOf[s] => ~Delivering(t)

\* The receipt of a closed session says what happened: the sink took every
\* chunk, in order and once, and the input ended before the acknowledgement,
\* even if a write was interrupted half way and the caller went on.
ReceiptIsEarned ==
  \A s \in Sessions :
    daemon[s] = "closed" =>
      /\ accepted[s] = [i \in Chunks |-> i]
      /\ EndReached(down, s)
      /\ wrapper[s] \in {"closed", "ambiguous", "lost"}

\* What a session reports for the journal never understates what it did: a
\* report from before the claim means that nothing is claimed for it, a
\* rejection that nothing was delivered by it, a claim that it holds one.
CheckpointIsHonest ==
  \A s \in Sessions :
    /\ Checkpoint(s) \in {"ticket_verified_v2", "ready_v2"} => s \notin rows
    /\ Checkpoint(s) = "attach_rejected_v2" => ~Delivering(s)
    /\ Checkpoint(s) \in {"claimed_v2", "write_closed_v2", "terminal_ack_v2"} =>
         s \in rows
=============================================================================
