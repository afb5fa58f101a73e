-------------------------- MODULE ExecutorDialogue --------------------------
(***************************************************************************)
(* One call of the remote executor: the client (executor_transport.py),    *)
(* the forced command that relays its ssh session, and the daemon behind   *)
(* the Unix socket (executor_daemon.py).  Client hello, executor hello,    *)
(* request with its secret chunks, end of input, receipt: each goes one    *)
(* way, over a bounded pipe, and the relay passes it on frame by frame.    *)
(*                                                                         *)
(* The request is signed before the call and carries the server nonce of   *)
(* the hello it answers.  An allocation has no chunks and is claimed after *)
(* the end of input; a delivery is claimed before its first chunk.         *)
(*                                                                         *)
(* A party that fails, by an error, its deadline or a crash, closes its    *)
(* ends of the pipes: who reads them meets the end of the data, who writes *)
(* to them an error.  The connection may be lost with what is in flight;   *)
(* to the relay that looks like the end of the client's input.             *)
(***************************************************************************)
EXTENDS Naturals, Sequences

CONSTANTS
  Nonces,       \* server nonces of hellos and requests
  ChunkCounts,  \* numbers of secret chunks a request may have
  Capacity      \* frames a pipe holds

NoNonce == "none"

ASSUME DialogueAssumption ==
  /\ NoNonce \notin Nonces
  /\ ChunkCounts \subseteq Nat
  /\ Capacity \in Nat \ {0}

VARIABLES
  client, relay, daemon,  \* the step each party is at
  pipe,          \* per channel, the frames in flight
  ended,         \* channels whose writing end is closed
  broken,        \* channels whose reading end is closed
  requestNonce,  \* server nonce in the signed request
  count,         \* chunks of the request
  helloNonce,    \* server nonce the daemon has drawn
  sent,          \* chunks written by the client
  forwarded,     \* chunks passed on by the relay
  endSeen,       \* history: the relay has seen the client's input end
  received,      \* chunks read by the daemon
  claim,         \* the operation's row in the session journal
  effects,       \* history: calls of the backend
  recorded,      \* the outcome is in the session journal
  faults         \* history: who failed without a reason in the dialogue

parties == <<client, relay, daemon>>
call == <<requestNonce, count>>
progress == <<sent, forwarded, endSeen, received>>
journal == <<claim, effects, recorded>>
channels == <<pipe, ended, broken>>
vars == <<parties, channels, call, helloNonce, progress, journal, faults>>

Channels == {"stdin", "stdout", "udsIn", "udsOut"}
Frames == {"clientHello", "hello", "request", "chunk", "relayEof", "receipt"}

ClientUnsent == {"start", "greeted"}
ClientSent == {"writing", "streaming", "waiting", "checking"}
ClientEnds == {"succeeded", "failed", "ambiguous"}
RelaySteps == {"hello", "reply", "request", "chunks", "eof", "mark", "closeInput", "receipt"}
DaemonSteps == {"hello", "greet", "request", "claim", "chunks", "marker", "eof",
                "effect", "record", "answer"}
Ends == {"done", "broken"}

TypeOK ==
  /\ client \in ClientUnsent \cup ClientSent \cup ClientEnds
  /\ relay \in RelaySteps \cup Ends
  /\ daemon \in DaemonSteps \cup Ends
  /\ pipe \in [Channels -> Seq(Frames)]
  /\ \A c \in Channels : Len(pipe[c]) <= Capacity
  /\ ended \subseteq Channels /\ broken \subseteq Channels
  /\ requestNonce \in Nonces /\ count \in ChunkCounts
  /\ helloNonce \in Nonces \cup {NoNonce}
  /\ received <= forwarded /\ forwarded <= sent /\ sent <= count
  /\ endSeen \in BOOLEAN
  /\ claim \in {"no", "earlier", "here"}
  /\ effects \in 0..1 /\ recorded \in BOOLEAN
  /\ faults \subseteq {"client", "relay", "daemon", "network"}

Init ==
  /\ client = "start" /\ relay = "hello" /\ daemon = "hello"
  /\ pipe = [c \in Channels |-> <<>>]
  /\ ended = {} /\ broken = {}
  /\ requestNonce \in Nonces /\ count \in ChunkCounts
  /\ helloNonce = NoNonce
  /\ sent = 0 /\ forwarded = 0 /\ received = 0 /\ endSeen = FALSE
  /\ claim \in {"no", "earlier"} /\ effects = 0 /\ recorded = FALSE
  /\ faults = {}

-----------------------------------------------------------------------------
(* The pipes.                                                              *)

HasRoom(c) == c \notin broken /\ Len(pipe[c]) < Capacity
Offers(c, frame) == pipe[c] # <<>> /\ Head(pipe[c]) = frame
AtEnd(c) == pipe[c] = <<>> /\ c \in ended

Write(c, frame) ==
  /\ HasRoom(c)
  /\ pipe' = [pipe EXCEPT ![c] = Append(@, frame)]
  /\ UNCHANGED <<ended, broken>>

Read(c, frame) ==
  /\ Offers(c, frame)
  /\ pipe' = [pipe EXCEPT ![c] = Tail(@)]
  /\ UNCHANGED <<ended, broken>>

\* The relay passes a frame on as it is.
Forward(from, to, frame) ==
  /\ Offers(from, frame)
  /\ HasRoom(to)
  /\ pipe' = [pipe EXCEPT ![from] = Tail(@), ![to] = Append(@, frame)]
  /\ UNCHANGED <<ended, broken>>

Close(writing, reading) ==
  /\ ended' = ended \cup writing
  /\ broken' = broken \cup reading
  /\ UNCHANGED pipe

-----------------------------------------------------------------------------
(* The client.                                                             *)

ClientGoto(step) ==
  /\ client' = step
  /\ UNCHANGED <<relay, daemon, call, helloNonce, forwarded, endSeen, received, journal, faults>>

SendClientHello ==
  /\ client = "start"
  /\ Write("stdin", "clientHello")
  /\ ClientGoto("greeted")
  /\ UNCHANGED sent

\* The hello must carry the nonce that was signed into the request.
AcceptHello ==
  /\ client = "greeted"
  /\ requestNonce = helloNonce
  /\ Read("stdout", "hello")
  /\ ClientGoto("writing")
  /\ UNCHANGED sent

SendRequest ==
  /\ client = "writing"
  /\ Write("stdin", "request")
  /\ ClientGoto("streaming")
  /\ UNCHANGED sent

SendChunk ==
  /\ client = "streaming"
  /\ sent < count
  /\ Write("stdin", "chunk")
  /\ sent' = sent + 1
  /\ ClientGoto("streaming")

CloseInput ==
  /\ client = "streaming"
  /\ sent = count
  /\ Close({"stdin"}, {})
  /\ ClientGoto("waiting")
  /\ UNCHANGED sent

ReceiveReceipt ==
  /\ client = "waiting"
  /\ Read("stdout", "receipt")
  /\ ClientGoto("checking")
  /\ UNCHANGED sent

\* The ssh process ends with status 0.
ExitIsClean == relay = "done" /\ "network" \notin faults

Succeed ==
  /\ client = "checking"
  /\ AtEnd("stdout")
  /\ ExitIsClean
  /\ Close({}, {"stdout"})
  /\ ClientGoto("succeeded")
  /\ UNCHANGED sent

\* What the client cannot go on from.
ClientStuck ==
  \/ client \in {"start", "writing"} /\ "stdin" \in broken
  \/ client = "streaming" /\ sent < count /\ "stdin" \in broken
  \/ client = "greeted" /\ Offers("stdout", "hello") /\ requestNonce # helloNonce
  \/ client \in {"greeted", "waiting"} /\ AtEnd("stdout")
  \/ client = "checking" /\ AtEnd("stdout") /\ relay \in Ends /\ ~ ExitIsClean

\* Mutant of Verdict: the call counts as begun with its first chunk.
VerdictByChunks == IF sent = 0 THEN "failed" ELSE "ambiguous"

\* Once the request may have been written, a failure is ambiguous.
Verdict == IF client \in ClientUnsent THEN "failed" ELSE "ambiguous"

ClientFails ==
  /\ client \notin ClientEnds
  /\ client' = Verdict
  /\ Close({"stdin"}, {})
  /\ UNCHANGED <<relay, daemon, call, helloNonce, progress, journal>>

\* The session is closed when ssh has ended or the deadline has passed.
HangUp ==
  /\ client \in {"failed", "ambiguous"}
  /\ "stdout" \notin broken
  /\ Close({}, {"stdout"})
  /\ UNCHANGED <<parties, call, helloNonce, progress, journal, faults>>

-----------------------------------------------------------------------------
(* The relay.                                                              *)

RelayGoto(step) ==
  /\ relay' = step
  /\ UNCHANGED <<client, daemon, call, helloNonce, sent, received, journal, faults>>

ForwardClientHello ==
  /\ relay = "hello"
  /\ Forward("stdin", "udsIn", "clientHello")
  /\ RelayGoto("reply")
  /\ UNCHANGED <<forwarded, endSeen>>

ForwardHello ==
  /\ relay = "reply"
  /\ Forward("udsOut", "stdout", "hello")
  /\ RelayGoto("request")
  /\ UNCHANGED <<forwarded, endSeen>>

ForwardRequest ==
  /\ relay = "request"
  /\ Forward("stdin", "udsIn", "request")
  /\ RelayGoto(IF count = 0 THEN "eof" ELSE "chunks")
  /\ UNCHANGED <<forwarded, endSeen>>

ForwardChunk ==
  /\ relay = "chunks"
  /\ Forward("stdin", "udsIn", "chunk")
  /\ forwarded' = forwarded + 1
  /\ RelayGoto(IF forwarded' = count THEN "eof" ELSE "chunks")
  /\ UNCHANGED endSeen

SeeEnd ==
  /\ relay = "eof"
  /\ AtEnd("stdin")
  /\ endSeen' = TRUE
  /\ RelayGoto("mark")
  /\ UNCHANGED <<channels, forwarded>>

MarkEnd ==
  /\ relay = "mark"
  /\ Write("udsIn", "relayEof")
  /\ RelayGoto("closeInput")
  /\ UNCHANGED <<forwarded, endSeen>>

\* Mutant of HalfClose: the socket stays open.
HalfCloseNot == UNCHANGED channels

HalfClose == Close({"udsIn"}, {})

CloseDaemonInput ==
  /\ relay = "closeInput"
  /\ HalfClose
  /\ RelayGoto("receipt")
  /\ UNCHANGED <<forwarded, endSeen>>

ForwardReceipt ==
  /\ relay = "receipt"
  /\ Offers("udsOut", "receipt")
  /\ HasRoom("stdout")
  /\ pipe' = [pipe EXCEPT !["udsOut"] = Tail(@), !["stdout"] = Append(@, "receipt")]
  /\ ended' = ended \cup {"udsIn", "stdout"}
  /\ broken' = broken \cup {"stdin", "udsOut"}
  /\ RelayGoto("done")
  /\ UNCHANGED <<forwarded, endSeen>>

\* A broken pipe is met by the write of a frame that has been read.
CannotForward(from, to) == AtEnd(from) \/ (pipe[from] # <<>> /\ to \in broken)

RelayStuck ==
  \/ relay \in {"hello", "request", "chunks"} /\ CannotForward("stdin", "udsIn")
  \/ relay \in {"reply", "receipt"} /\ CannotForward("udsOut", "stdout")
  \/ relay = "eof" /\ pipe["stdin"] # <<>>
  \/ relay = "mark" /\ "udsIn" \in broken

RelayFails ==
  /\ relay \notin Ends
  /\ relay' = "broken"
  /\ Close({"udsIn", "stdout"}, {"stdin", "udsOut"})
  /\ UNCHANGED <<client, daemon, call, helloNonce, progress, journal>>

-----------------------------------------------------------------------------
(* The daemon.                                                             *)

DaemonGoto(step) ==
  /\ daemon' = step
  /\ UNCHANGED <<client, relay, call, sent, forwarded, endSeen, faults>>

\* The server nonce is drawn for this hello.
ReceiveClientHello ==
  /\ daemon = "hello"
  /\ Read("udsIn", "clientHello")
  /\ \E n \in Nonces : helloNonce' = n
  /\ DaemonGoto("greet")
  /\ UNCHANGED <<received, journal>>

Greet ==
  /\ daemon = "greet"
  /\ Write("udsOut", "hello")
  /\ DaemonGoto("request")
  /\ UNCHANGED <<helloNonce, received, journal>>

ReceiveRequest ==
  /\ daemon = "request"
  /\ requestNonce = helloNonce
  /\ Read("udsIn", "request")
  /\ DaemonGoto(IF count = 0 THEN "marker" ELSE "claim")
  /\ UNCHANGED <<helloNonce, received, journal>>

Claim ==
  /\ daemon = "claim"
  /\ claim = "no"
  /\ claim' = "here"
  /\ DaemonGoto(IF count = 0 THEN "effect" ELSE "chunks")
  /\ UNCHANGED <<channels, helloNonce, received, effects, recorded>>

ReceiveChunk ==
  /\ daemon = "chunks"
  /\ Read("udsIn", "chunk")
  /\ received' = received + 1
  /\ DaemonGoto(IF received' = count THEN "marker" ELSE "chunks")
  /\ UNCHANGED <<helloNonce, journal>>

\* Mutant of Marked: the end of the data is enough.
MarkedByEnd ==
  \/ Read("udsIn", "relayEof")
  \/ AtEnd("udsIn") /\ UNCHANGED channels

\* The relay's marker: a bare close is never an effect permit.
Marked == Read("udsIn", "relayEof")

ReceiveMarker ==
  /\ daemon = "marker"
  /\ Marked
  /\ DaemonGoto("eof")
  /\ UNCHANGED <<helloNonce, received, journal>>

ReceiveEnd ==
  /\ daemon = "eof"
  /\ AtEnd("udsIn")
  /\ DaemonGoto(IF count = 0 THEN "claim" ELSE "effect")
  /\ UNCHANGED <<channels, helloNonce, received, journal>>

AfterEffect == {"record"}

Effect ==
  /\ daemon = "effect"
  /\ effects' = effects + 1
  /\ \E step \in AfterEffect : DaemonGoto(step)
  /\ UNCHANGED <<channels, helloNonce, received, claim, recorded>>

Record ==
  /\ daemon = "record"
  /\ recorded' = TRUE
  /\ DaemonGoto("answer")
  /\ UNCHANGED <<channels, helloNonce, received, claim, effects>>

Answer ==
  /\ daemon = "answer"
  /\ HasRoom("udsOut")
  /\ pipe' = [pipe EXCEPT !["udsOut"] = Append(@, "receipt")]
  /\ ended' = ended \cup {"udsOut"}
  /\ broken' = broken \cup {"udsIn"}
  /\ DaemonGoto("done")
  /\ UNCHANGED <<helloNonce, received, journal>>

DaemonStuck ==
  \/ daemon \in {"hello", "request", "chunks", "marker"} /\ AtEnd("udsIn")
  \/ daemon = "eof" /\ pipe["udsIn"] # <<>>
  \/ daemon = "request" /\ Offers("udsIn", "request") /\ requestNonce # helloNonce
  \/ daemon = "claim" /\ claim # "no"
  \/ daemon \in {"greet", "answer"} /\ "udsOut" \in broken

DaemonFails ==
  /\ daemon \notin Ends
  /\ daemon' = "broken"
  /\ Close({"udsOut"}, {"udsIn"})
  /\ UNCHANGED <<client, relay, call, helloNonce, progress, journal>>

-----------------------------------------------------------------------------
\* The ssh connection breaks; of what is in flight a prefix still arrives.
LoseConnection ==
  /\ "network" \notin faults
  /\ client \notin ClientEnds \/ relay \notin Ends
  /\ faults' = faults \cup {"network"}
  /\ \E i \in 0..Len(pipe["stdin"]), o \in 0..Len(pipe["stdout"]) :
       pipe' = [pipe EXCEPT !["stdin"] = SubSeq(@, 1, i), !["stdout"] = SubSeq(@, 1, o)]
  /\ ended' = ended \cup {"stdin", "stdout"}
  /\ broken' = broken \cup {"stdin", "stdout"}
  /\ UNCHANGED <<parties, call, helloNonce, progress, journal>>

ClientStep ==
  \/ SendClientHello \/ AcceptHello \/ SendRequest \/ SendChunk \/ CloseInput
  \/ ReceiveReceipt \/ Succeed \/ HangUp
  \/ ClientStuck /\ ClientFails /\ UNCHANGED faults

RelayStep ==
  \/ ForwardClientHello \/ ForwardHello \/ ForwardRequest \/ ForwardChunk
  \/ SeeEnd \/ MarkEnd \/ CloseDaemonInput \/ ForwardReceipt
  \/ RelayStuck /\ RelayFails /\ UNCHANGED faults

DaemonStep ==
  \/ ReceiveClientHello \/ Greet \/ ReceiveRequest \/ Claim \/ ReceiveChunk
  \/ ReceiveMarker \/ ReceiveEnd \/ Effect \/ Record \/ Answer
  \/ DaemonStuck /\ DaemonFails /\ UNCHANGED faults

\* A deadline passes, a process dies, the backend raises.
Fault ==
  \/ ClientFails /\ faults' = faults \cup {"client"}
  \/ RelayFails /\ faults' = faults \cup {"relay"}
  \/ DaemonFails /\ faults' = faults \cup {"daemon"}
  \/ LoseConnection

Next == ClientStep \/ RelayStep \/ DaemonStep \/ Fault

\* Each party goes on while it can; nothing that fails by itself has to.
Fairness == WF_vars(ClientStep) /\ WF_vars(RelayStep) /\ WF_vars(DaemonStep)

Spec == Init /\ [][Next]_vars /\ Fairness

-----------------------------------------------------------------------------
(* Properties.                                                             *)

\* What the client reports is true, whoever failed and when: after a definite
\* failure the daemon has not claimed and will not claim the operation for
\* this call, and a success means one effect, on record, and a relay that
\* ended well (deliver, allocate: "any post-write failure is ambiguous").
VerdictIsHonest ==
  /\ client = "failed" => claim # "here" /\ effects = 0
  /\ client = "succeeded" => claim = "here" /\ effects = 1 /\ recorded /\ relay = "done"

\* The backend is called only for a request that answers this hello, with all
\* its chunks, claimed by this session, after the relay saw the client's input
\* end and said so; the client then writes no more (_require_relay_eof_frame:
\* "a bare close is never an effect permit").
EffectIsPermitted ==
  effects > 0 =>
    /\ requestNonce = helloNonce /\ claim = "here"
    /\ sent = count /\ received = count
    /\ "stdin" \in ended /\ endSeen

\* Without any deadline everyone ends, whatever fails: nobody waits for a
\* party that waits for it, with pipes of one frame too; and a fresh call
\* whose nonce matches is served when nothing fails.
EveryDialogueEnds ==
  /\ <>(client \in ClientEnds /\ relay \in Ends /\ daemon \in Ends)
  /\ /\ claim = "no"
     /\ [](faults = {} /\ helloNonce \in {NoNonce, requestNonce})
     => <>(client = "succeeded")

\* A call that meets no fault submits its request (allocate: "Submit exactly
\* one zero-secret allocation request.").
RequestIsSubmitted ==
  [](faults = {}) => <>(client \in (ClientSent \ {"writing"}) \cup {"succeeded"})
=============================================================================
