---------------------- MODULE ExecutorDialogue_proofs ----------------------
(***************************************************************************)
(* Proofs about ExecutorDialogue, for pipes of any capacity, requests with *)
(* any number of chunks and any nonces: the client's verdict is true, and  *)
(* an effect has the whole request; and about the attach sessions, for any *)
(* number of attempts, tickets, containers and secret fields: one delivery *)
(* per container, earned receipts and honest checkpoints.                  *)
(***************************************************************************)
EXTENDS MCDialogues, TLAPS

HasFrame(c, f) == \E i \in 1..Len(pipe[c]) : pipe[c][i] = f

\* TypeOK without the chunk counters, which need the rest of the invariant.
Types ==
  /\ client \in ClientUnsent \cup ClientSent \cup ClientEnds
  /\ relay \in RelaySteps \cup Ends
  /\ daemon \in DaemonSteps \cup Ends
  /\ pipe \in [Channels -> Seq(Frames)]
  /\ \A c \in Channels : Len(pipe[c]) <= Capacity
  /\ ended \subseteq Channels /\ broken \subseteq Channels
  /\ requestNonce \in Nonces /\ count \in Nat /\ count \in ChunkCounts
  /\ helloNonce \in Nonces \cup {NoNonce}
  /\ sent \in Nat /\ forwarded \in Nat /\ received \in Nat
  /\ endSeen \in BOOLEAN
  /\ claim \in {"no", "earlier", "here"}
  /\ effects \in 0..1 /\ recorded \in BOOLEAN
  /\ faults \subseteq {"client", "relay", "daemon", "network"}

\* The steps of relay and daemon after the request, and later ones.
Relaying == {"chunks", "eof", "mark", "closeInput", "receipt", "done"}
RelayedAll == Relaying \ {"chunks"}
RelaySawEnd == RelayedAll \ {"eof"}
Acting == {"effect", "record", "answer", "done"}
Serving == {"claim", "chunks", "marker", "eof"} \cup Acting

Submitted == client \in {"streaming", "waiting", "checking", "succeeded", "ambiguous"}

ClientInv ==
  /\ client \in {"start", "greeted", "writing"} => sent = 0
  /\ sent <= count
  /\ client = "succeeded" => relay = "done"

RelayInv ==
  /\ relay \in {"hello", "reply", "request"} => forwarded = 0
  /\ relay = "chunks" => forwarded < count
  /\ relay \in RelayedAll => forwarded = count
  /\ relay \in RelaySawEnd => endSeen
  /\ endSeen => "stdin" \in ended /\ forwarded = count
  /\ forwarded <= sent

DaemonInv ==
  /\ daemon \in {"hello", "greet", "request", "claim"} => received = 0 /\ claim # "here"
  /\ daemon = "chunks" => received < count
  /\ daemon \in {"marker", "eof"} \cup Acting => received = count
  /\ daemon \in {"chunks"} \cup Acting => claim = "here"
  /\ daemon \in {"marker", "eof"} => (claim = "here" <=> count > 0)
  /\ daemon \in Serving => requestNonce = helloNonce
  /\ daemon \in {"record", "answer", "done"} => effects = 1
  /\ daemon \in (DaemonSteps \ {"record", "answer"}) => effects = 0
  /\ daemon \in {"answer", "done"} => recorded
  /\ effects > 0 => claim = "here" /\ received = count /\ requestNonce = helloNonce
  /\ received <= forwarded

\* The request, the relay's marker and the receipt are where they are only
\* if the party before has sent them.
FrameInv ==
  /\ \/ HasFrame("stdin", "request") \/ HasFrame("udsIn", "request")
     \/ relay \in Relaying \/ daemon \in Serving \/ claim = "here"
     => Submitted
  /\ \/ HasFrame("udsIn", "relayEof")
     \/ daemon \in {"eof"} \cup Acting \/ (daemon = "claim" /\ count = 0) \/ effects > 0
     => endSeen
  /\ \/ HasFrame("udsOut", "receipt") \/ HasFrame("stdout", "receipt")
     \/ client \in {"checking", "succeeded"}
     => daemon = "done"

\* Frames written to a pipe and frames read from it.
ClientWrote == IF client = "start" THEN 0 ELSE IF client \in {"greeted", "writing"} THEN 1 ELSE 2 + sent
RelayRead ==
  IF relay \in {"hello", "broken"} THEN 0
  ELSE IF relay \in {"reply", "request"} THEN 1 ELSE 2 + forwarded
RelayWrote ==
  IF relay = "hello" THEN 0 ELSE IF relay \in {"reply", "request"} THEN 1
  ELSE IF relay \in {"closeInput", "receipt", "done"} \/ (relay = "broken" /\ endSeen)
       THEN 3 + forwarded ELSE 2 + forwarded
DaemonRead ==
  IF daemon \in {"hello", "broken"} THEN 0 ELSE IF daemon \in {"greet", "request"} THEN 1
  ELSE 2 + received

CountInv ==
  /\ RelayRead + Len(pipe["stdin"]) <= ClientWrote
  /\ DaemonRead + Len(pipe["udsIn"]) <= RelayWrote

DialogueInv == Types /\ ClientInv /\ RelayInv /\ DaemonInv /\ FrameInv /\ CountInv

-----------------------------------------------------------------------------
(* The pipes                                                               *)

LEMMA TakeFrame ==
  ASSUME NEW s \in Seq(Frames), s # <<>>
  PROVE  /\ Tail(s) \in Seq(Frames) /\ Len(Tail(s)) = Len(s) - 1 /\ Len(s) \in Nat \ {0}
         /\ \E i \in 1..Len(s) : s[i] = Head(s)
         /\ \A f : (\E i \in 1..Len(Tail(s)) : Tail(s)[i] = f) => \E i \in 1..Len(s) : s[i] = f
<1>1. Len(s) \in Nat \ {0} /\ Len(Tail(s)) = Len(s) - 1 /\ Tail(s) \in Seq(Frames)
  OBVIOUS
<1>2. \A i \in 1..Len(Tail(s)) : i + 1 \in 1..Len(s) /\ Tail(s)[i] = s[i + 1]
  BY <1>1
<1>3. 1 \in 1..Len(s) /\ Head(s) = s[1]
  BY <1>1
<1> QED
  BY <1>1, <1>2, <1>3

LEMMA PutFrame ==
  ASSUME NEW s \in Seq(Frames), NEW g \in Frames
  PROVE  /\ Append(s, g) \in Seq(Frames) /\ Len(Append(s, g)) = Len(s) + 1 /\ Len(s) \in Nat
         /\ \A f : (\E i \in 1..Len(Append(s, g)) : Append(s, g)[i] = f) =>
                   f = g \/ \E i \in 1..Len(s) : s[i] = f
<1>1. Append(s, g) \in Seq(Frames) /\ Len(Append(s, g)) = Len(s) + 1 /\ Len(s) \in Nat
  OBVIOUS
<1>2. \A i \in 1..Len(Append(s, g)) :
         Append(s, g)[i] = g \/ (i \in 1..Len(s) /\ Append(s, g)[i] = s[i])
  BY <1>1
<1> QED
  BY <1>1, <1>2

LEMMA CutFrames ==
  ASSUME NEW s \in Seq(Frames), NEW n \in 0..Len(s)
  PROVE  /\ SubSeq(s, 1, n) \in Seq(Frames) /\ Len(SubSeq(s, 1, n)) = n /\ n <= Len(s)
         /\ \A f : (\E i \in 1..n : SubSeq(s, 1, n)[i] = f) => \E i \in 1..Len(s) : s[i] = f
<1>1. Len(s) \in Nat /\ n \in Nat /\ n <= Len(s)
  OBVIOUS
<1>2. Len(SubSeq(s, 1, n)) = n /\ \A i \in 1..n : i \in 1..Len(s) /\ SubSeq(s, 1, n)[i] = s[i]
  BY <1>1
<1>3. SubSeq(s, 1, n) \in Seq(Frames)
  BY <1>1, <1>2
<1> QED
  BY <1>1, <1>2, <1>3

\* What a step may do to a channel: nothing new in it, or one frame more.
Shrinks(c) ==
  /\ pipe'[c] \in Seq(Frames) /\ Len(pipe'[c]) <= Len(pipe[c])
  /\ \A f : HasFrame(c, f)' => HasFrame(c, f)
Loses(c) == Shrinks(c) /\ Len(pipe'[c]) = Len(pipe[c]) - 1
Gains(c, g) ==
  /\ pipe'[c] \in Seq(Frames) /\ Len(pipe'[c]) = Len(pipe[c]) + 1 /\ Len(pipe'[c]) <= Capacity
  /\ \A f : HasFrame(c, f)' => f = g \/ HasFrame(c, f)

LEMMA Lengths ==
  ASSUME Types
  PROVE  /\ \A c \in Channels : pipe[c] \in Seq(Frames) /\ Len(pipe[c]) \in Nat
         /\ pipe' = pipe => \A c \in Channels : Shrinks(c)
<1>1. \A c \in Channels : pipe[c] \in Seq(Frames)
  BY DEF Types
<1> QED
  BY <1>1 DEF Shrinks, HasFrame

LEMMA TakenFrom ==
  ASSUME NEW c \in Channels, pipe[c] \in Seq(Frames), pipe[c] # <<>>, pipe'[c] = Tail(pipe[c])
  PROVE  Loses(c) /\ HasFrame(c, Head(pipe[c])) /\ Len(pipe[c]) \in Nat \ {0}
BY TakeFrame DEF Loses, Shrinks, HasFrame

LEMMA PutInto ==
  ASSUME NEW c \in Channels, NEW g \in Frames, pipe[c] \in Seq(Frames), Len(pipe[c]) < Capacity,
         pipe'[c] = Append(pipe[c], g)
  PROVE  Gains(c, g)
BY PutFrame, DialogueAssumption DEF Gains, HasFrame

LEMMA LeftAlone ==
  ASSUME NEW c \in Channels, pipe[c] \in Seq(Frames), pipe'[c] = pipe[c]
  PROVE  Shrinks(c)
BY DEF Shrinks, HasFrame

LEMMA WriteGains ==
  ASSUME Types, NEW c \in Channels, NEW g \in Frames, Write(c, g)
  PROVE  /\ Gains(c, g) /\ \A b \in Channels \ {c} : pipe'[b] = pipe[b] /\ Shrinks(b)
         /\ pipe' \in [Channels -> Seq(Frames)]
<1>1. pipe \in [Channels -> Seq(Frames)] /\ pipe' = [pipe EXCEPT ![c] = Append(pipe[c], g)]
      /\ pipe[c] \in Seq(Frames) /\ Len(pipe[c]) < Capacity
  BY DEF Types, Write, HasRoom
<1>2. pipe'[c] = Append(pipe[c], g) /\ \A b \in Channels \ {c} : pipe'[b] = pipe[b]
  BY <1>1
<1>3. Append(pipe[c], g) \in Seq(Frames) /\ pipe' \in [Channels -> Seq(Frames)]
  BY <1>1, PutFrame
<1>4. Gains(c, g)
  BY <1>1, <1>2, PutInto
<1>5. \A b \in Channels \ {c} : pipe'[b] = pipe[b] /\ Shrinks(b)
  BY <1>1, <1>2, LeftAlone
<1> QED
  BY <1>3, <1>4, <1>5

LEMMA ReadLoses ==
  ASSUME Types, NEW c \in Channels, NEW g \in Frames, Read(c, g)
  PROVE  /\ Loses(c) /\ HasFrame(c, g) /\ Len(pipe[c]) \in Nat \ {0}
         /\ \A b \in Channels \ {c} : pipe'[b] = pipe[b] /\ Shrinks(b)
         /\ pipe' \in [Channels -> Seq(Frames)]
<1>1. pipe \in [Channels -> Seq(Frames)] /\ pipe' = [pipe EXCEPT ![c] = Tail(pipe[c])]
      /\ pipe[c] \in Seq(Frames) /\ pipe[c] # <<>> /\ Head(pipe[c]) = g
  BY DEF Types, Read, Offers
<1>2. pipe'[c] = Tail(pipe[c]) /\ \A b \in Channels \ {c} : pipe'[b] = pipe[b]
  BY <1>1
<1>3. pipe' \in [Channels -> Seq(Frames)]
  BY <1>1, TakeFrame
<1>4. Loses(c) /\ HasFrame(c, g) /\ Len(pipe[c]) \in Nat \ {0}
  BY <1>1, <1>2, TakenFrom
<1>5. \A b \in Channels \ {c} : pipe'[b] = pipe[b] /\ Shrinks(b)
  BY <1>1, <1>2, LeftAlone
<1> QED
  BY <1>3, <1>4, <1>5

\* A frame goes from one channel to another.
LEMMA ForwardMoves ==
  ASSUME Types, NEW a \in Channels, NEW c \in Channels, a # c, NEW g \in Frames,
         Offers(a, g), HasRoom(c),
         pipe' = [pipe EXCEPT ![a] = Tail(@), ![c] = Append(@, g)]
  PROVE  /\ Loses(a) /\ HasFrame(a, g) /\ Len(pipe[a]) \in Nat \ {0} /\ Gains(c, g)
         /\ \A b \in Channels \ {a, c} : pipe'[b] = pipe[b] /\ Shrinks(b)
         /\ pipe' \in [Channels -> Seq(Frames)]
<1>1. pipe \in [Channels -> Seq(Frames)] /\ pipe[a] \in Seq(Frames) /\ pipe[c] \in Seq(Frames)
      /\ pipe[a] # <<>> /\ Head(pipe[a]) = g /\ Len(pipe[c]) < Capacity
  BY DEF Types, Offers, HasRoom
<1>2. /\ pipe'[a] = Tail(pipe[a]) /\ pipe'[c] = Append(pipe[c], g)
      /\ \A b \in Channels \ {a, c} : pipe'[b] = pipe[b]
  BY <1>1
<1>3. pipe' \in [Channels -> Seq(Frames)]
  BY <1>1, TakeFrame, PutFrame
<1>4. Loses(a) /\ HasFrame(a, g) /\ Len(pipe[a]) \in Nat \ {0}
  BY <1>1, <1>2, TakenFrom
<1>5. Gains(c, g)
  BY <1>1, <1>2, PutInto
<1>6. \A b \in Channels \ {a, c} : pipe'[b] = pipe[b] /\ Shrinks(b)
  BY <1>1, <1>2, LeftAlone
<1> QED
  BY <1>3, <1>4, <1>5, <1>6

\* The channels, one by one.
LEMMA FourChannels ==
  /\ "stdin" \in Channels
  /\ "stdout" \in Channels
  /\ "udsIn" \in Channels
  /\ "udsOut" \in Channels
  /\ \A c \in Channels : c = "stdin" \/ c = "stdout" \/ c = "udsIn" \/ c = "udsOut"
  /\ \A f \in {"clientHello", "hello", "request", "chunk", "relayEof", "receipt"} : f \in Frames
BY DEF Channels, Frames

\* What every step does to the pipes, whoever takes it.
PipesKeep ==
  /\ pipe' \in [Channels -> Seq(Frames)]
  /\ \A c \in Channels :
       Len(pipe'[c]) \in Nat /\ Len(pipe[c]) \in Nat /\ Len(pipe'[c]) <= Capacity

LEMMA Passed ==
  \A r, n, m, w \in Nat : r + n <= w /\ n = m + 1 => (r + 1) + m <= w
OBVIOUS

LEMMA Fewer ==
  ASSUME NEW read \in Nat, NEW inPipe \in Nat, NEW written \in Nat, NEW left \in Nat,
         read + inPipe <= written, left <= inPipe
  PROVE  read + left <= written
  OBVIOUS

LEMMA AllKeep ==
  ASSUME Types, pipe' \in [Channels -> Seq(Frames)],
         \A c \in Channels : Shrinks(c) \/ \E g : Gains(c, g)
  PROVE  PipesKeep
<1>1. \A c \in Channels :
        pipe[c] \in Seq(Frames) /\ pipe'[c] \in Seq(Frames) /\ Len(pipe[c]) <= Capacity
  BY DEF Types
<1>2. \A c \in Channels : Len(pipe[c]) \in Nat /\ Len(pipe'[c]) \in Nat
  BY <1>1
<1> QED
  BY <1>1, <1>2, DialogueAssumption DEF PipesKeep, Shrinks, Gains

-----------------------------------------------------------------------------
(* The client                                                              *)

LEMMA SendClientHelloKeeps ==
  ASSUME DialogueInv, SendClientHello
  PROVE  DialogueInv'
<1>1. /\ Gains("stdin", "clientHello")
      /\ Shrinks("stdout") /\ Shrinks("udsIn") /\ Shrinks("udsOut") /\ PipesKeep
  BY WriteGains, FourChannels, AllKeep DEF SendClientHello, DialogueInv
<1>2. Types' /\ ClientInv' /\ RelayInv' /\ DaemonInv'
  BY <1>1 DEF Write, PipesKeep, DialogueInv, Types, ClientInv, RelayInv, DaemonInv, ClientUnsent,
     ClientSent, ClientEnds, journal, call, SendClientHello, ClientGoto
<1>3. FrameInv'
  BY <1>1 DEF ClientGoto, PipesKeep, Gains, Shrinks, DialogueInv, FrameInv, Submitted, journal,
     call, SendClientHello
<1>4. CountInv'
  <2>1. /\ ClientWrote \in Nat /\ DaemonRead \in Nat /\ RelayRead \in Nat /\ RelayWrote \in Nat
    BY DEF DialogueInv, Types, ClientWrote, DaemonRead, RelayRead, RelayWrote
  <2>2. /\ ClientWrote' = ClientWrote + 1 /\ DaemonRead' = DaemonRead
        /\ RelayRead' = RelayRead /\ RelayWrote' = RelayWrote
    BY DEF SendClientHello, ClientGoto, journal, progress, parties, channels, call,
       ClientWrote, DaemonRead, RelayRead, RelayWrote
  <2>3. /\ Len(pipe["stdin"]) \in Nat /\ Len(pipe'["stdin"]) \in Nat
        /\ Len(pipe["udsIn"]) \in Nat /\ Len(pipe'["udsIn"]) \in Nat
        /\ Len(pipe'["stdin"]) = Len(pipe["stdin"]) + 1
        /\ Len(pipe'["udsIn"]) <= Len(pipe["udsIn"])
    BY <1>1, FourChannels DEF PipesKeep, Gains, Shrinks
  <2>4. /\ RelayRead + Len(pipe["stdin"]) <= ClientWrote
        /\ DaemonRead + Len(pipe["udsIn"]) <= RelayWrote
    BY DEF DialogueInv, CountInv
  <2>5. RelayRead' + Len(pipe'["stdin"]) <= ClientWrote'
    BY <2>1, <2>2, <2>3, <2>4
  <2>6. DaemonRead' + Len(pipe'["udsIn"]) <= RelayWrote'
    BY <2>1, <2>2, <2>3, <2>4, Fewer
  <2> QED
    BY <2>5, <2>6 DEF CountInv
<1> QED
  BY <1>2, <1>3, <1>4 DEF DialogueInv

LEMMA AcceptHelloKeeps ==
  ASSUME DialogueInv, AcceptHello
  PROVE  DialogueInv'
<1>1. /\ Loses("stdout")
      /\ Shrinks("stdin")
      /\ Shrinks("stdout")
      /\ Shrinks("udsIn")
      /\ Shrinks("udsOut")
      /\ PipesKeep
  BY ReadLoses, FourChannels, AllKeep DEF AcceptHello, DialogueInv, Loses
<1>2. Types' /\ ClientInv' /\ RelayInv' /\ DaemonInv'
  BY <1>1 DEF Read, PipesKeep, DialogueInv, Types, ClientInv, RelayInv, DaemonInv, ClientUnsent,
     ClientSent, ClientEnds, journal, call, AcceptHello, ClientGoto
<1>3. FrameInv'
  BY <1>1 DEF Shrinks, DialogueInv, FrameInv, Submitted, journal, call, AcceptHello, ClientGoto
<1>4. CountInv'
  <2>1. /\ ClientWrote \in Nat /\ DaemonRead \in Nat /\ RelayRead \in Nat /\ RelayWrote \in Nat
    BY DEF DialogueInv, Types, ClientWrote, DaemonRead, RelayRead, RelayWrote
  <2>2. /\ ClientWrote' = ClientWrote /\ DaemonRead' = DaemonRead
        /\ RelayRead' = RelayRead /\ RelayWrote' = RelayWrote
    BY DEF AcceptHello, ClientGoto, journal, progress, parties, channels, call, ClientWrote,
           DaemonRead, RelayRead, RelayWrote
  <2>3. /\ Len(pipe["stdin"]) \in Nat /\ Len(pipe'["stdin"]) \in Nat
        /\ Len(pipe["udsIn"]) \in Nat /\ Len(pipe'["udsIn"]) \in Nat
        /\ Len(pipe'["stdin"]) <= Len(pipe["stdin"]) /\ Len(pipe'["udsIn"]) <= Len(pipe["udsIn"])
    BY <1>1, FourChannels DEF PipesKeep, Shrinks
  <2>4. /\ RelayRead + Len(pipe["stdin"]) <= ClientWrote
        /\ DaemonRead + Len(pipe["udsIn"]) <= RelayWrote
    BY DEF DialogueInv, CountInv
  <2>5. RelayRead' + Len(pipe'["stdin"]) <= ClientWrote'
    BY <2>1, <2>2, <2>3, <2>4, Fewer
  <2>6. DaemonRead' + Len(pipe'["udsIn"]) <= RelayWrote'
    BY <2>1, <2>2, <2>3, <2>4, Fewer
  <2> QED
    BY <2>5, <2>6 DEF CountInv
<1> QED
  BY <1>2, <1>3, <1>4 DEF DialogueInv

LEMMA SendRequestKeeps ==
  ASSUME DialogueInv, SendRequest
  PROVE  DialogueInv'
<1>1. /\ Gains("stdin", "request")
      /\ Shrinks("stdout") /\ Shrinks("udsIn") /\ Shrinks("udsOut") /\ PipesKeep
  BY WriteGains, FourChannels, AllKeep DEF SendRequest, DialogueInv
<1>2. Types' /\ ClientInv' /\ RelayInv' /\ DaemonInv'
  BY <1>1 DEF Write, PipesKeep, DialogueInv, Types, ClientInv, RelayInv, DaemonInv, ClientUnsent,
     ClientSent, ClientEnds, RelaySteps, DaemonSteps, Ends, Channels, Relaying, RelayedAll,
     RelaySawEnd, Acting, Serving, journal, call, SendRequest, ClientGoto
<1>3. FrameInv'
  BY <1>1, <1>2 DEF SendRequest, ClientGoto, Write, Gains, Shrinks, DialogueInv, Types, FrameInv,
     RelayInv, DaemonInv, Submitted, Relaying, RelayedAll, RelaySawEnd, Acting, Serving, Ends,
     DaemonSteps, ClientEnds, ClientUnsent, ClientSent, RelaySteps, journal, call
<1>4. CountInv'
  BY <1>1, <1>2, FourChannels DEF DialogueInv, Types, CountInv, ClientInv, RelayInv, DaemonInv,
     ClientWrote, RelayRead, RelayWrote, DaemonRead, ClientUnsent, ClientSent, SendRequest,
     ClientGoto, Write, PipesKeep, Gains, Shrinks
<1> QED
  BY <1>1, <1>2, <1>3, <1>4 DEF DialogueInv

LEMMA SendChunkKeeps ==
  ASSUME DialogueInv, SendChunk
  PROVE  DialogueInv'
<1>1. /\ Gains("stdin", "chunk")
      /\ Shrinks("stdout") /\ Shrinks("udsIn") /\ Shrinks("udsOut") /\ PipesKeep
  BY WriteGains, FourChannels, AllKeep DEF SendChunk, DialogueInv
<1>2. Types' /\ ClientInv' /\ RelayInv' /\ DaemonInv'
  BY <1>1 DEF DialogueInv, Types, ClientInv, RelayInv, DaemonInv, Relaying, RelayedAll,
     RelaySawEnd, Acting, Serving, journal, call, SendChunk, ClientGoto, Write, PipesKeep
<1>3. FrameInv'
  BY <1>1, <1>2 DEF SendChunk, ClientGoto, Write, Gains, Shrinks, DialogueInv, Types, FrameInv,
     RelayInv, DaemonInv, Submitted, Relaying, RelayedAll, RelaySawEnd, Acting, Serving, Ends,
     DaemonSteps, ClientEnds, ClientUnsent, ClientSent, RelaySteps, journal, call
<1>4. CountInv'
  BY <1>1, <1>2, FourChannels DEF DialogueInv, Types, CountInv, ClientInv, RelayInv, DaemonInv,
     ClientWrote, RelayRead, RelayWrote, DaemonRead, ClientUnsent, ClientSent, SendChunk,
     ClientGoto, Write, PipesKeep, Gains, Shrinks
<1> QED
  BY <1>1, <1>2, <1>3, <1>4 DEF DialogueInv

LEMMA CloseInputKeeps ==
  ASSUME DialogueInv, CloseInput
  PROVE  DialogueInv'
<1>1. /\ Shrinks("stdin") /\ Shrinks("stdout") /\ Shrinks("udsIn") /\ Shrinks("udsOut")
      /\ PipesKeep
  BY Lengths, FourChannels, AllKeep DEF CloseInput, Close, Types, DialogueInv
<1>2. Types' /\ ClientInv' /\ RelayInv' /\ DaemonInv'
  BY <1>1 DEF Close, PipesKeep, DialogueInv, Types, ClientInv, RelayInv, DaemonInv, ClientUnsent,
     ClientSent, ClientEnds, RelaySteps, DaemonSteps, Ends, Channels, Relaying, RelayedAll,
     RelaySawEnd, Acting, Serving, journal, call, CloseInput, ClientGoto
<1>3. FrameInv'
  BY <1>1, <1>2 DEF Close, Shrinks, DialogueInv, Types, FrameInv, RelayInv, DaemonInv, Submitted,
     Relaying, RelayedAll, RelaySawEnd, Acting, Serving, Ends, DaemonSteps, ClientEnds,
     ClientUnsent, ClientSent, RelaySteps, journal, call, CloseInput, ClientGoto
<1>4. CountInv'
  BY <1>1, <1>2, FourChannels DEF Types, CountInv, ClientInv, RelayInv, DaemonInv, ClientWrote,
     RelayRead, RelayWrote, DaemonRead, ClientUnsent, ClientSent, ClientEnds, CloseInput,
     ClientGoto, Close, PipesKeep, Shrinks, DialogueInv
<1> QED
  BY <1>1, <1>2, <1>3, <1>4 DEF DialogueInv

LEMMA ReceiveReceiptKeeps ==
  ASSUME DialogueInv, ReceiveReceipt
  PROVE  DialogueInv'
<1>1. /\ Loses("stdout")
      /\ Shrinks("stdout")
      /\ HasFrame("stdout", "receipt")
      /\ Len(pipe["stdout"]) \in Nat \ {0}
      /\ Shrinks("stdin") /\ Shrinks("udsIn") /\ Shrinks("udsOut") /\ PipesKeep
  BY ReadLoses, FourChannels, AllKeep DEF ReceiveReceipt, Loses, DialogueInv
<1>2. Types' /\ ClientInv' /\ RelayInv' /\ DaemonInv'
  BY <1>1 DEF Read, PipesKeep, DialogueInv, Types, ClientInv, RelayInv, DaemonInv, ClientUnsent,
     ClientSent, ClientEnds, RelaySteps, DaemonSteps, Ends, Channels, Relaying, RelayedAll,
     RelaySawEnd, Acting, Serving, journal, call, ReceiveReceipt, ClientGoto
<1>3. FrameInv'
  BY <1>1, <1>2 DEF RelayInv, DaemonInv, Submitted, ReceiveReceipt, ClientGoto, Read, Shrinks,
     Loses, DialogueInv, Types, FrameInv
<1>4. CountInv'
  BY <1>1, <1>2, FourChannels DEF DialogueInv, Types, CountInv, ClientInv, RelayInv, DaemonInv,
     ClientWrote, RelayRead, RelayWrote, DaemonRead, ClientUnsent, ClientSent, ReceiveReceipt,
     ClientGoto, Read, PipesKeep, Shrinks, Loses
<1> QED
  BY <1>1, <1>2, <1>3, <1>4 DEF DialogueInv

LEMMA SucceedKeeps ==
  ASSUME DialogueInv, Succeed
  PROVE  DialogueInv'
<1>1. /\ Shrinks("stdin") /\ Shrinks("stdout") /\ Shrinks("udsIn") /\ Shrinks("udsOut")
      /\ PipesKeep
  BY Lengths, FourChannels, AllKeep DEF Succeed, Close, Types, DialogueInv
<1>2. Types' /\ ClientInv' /\ RelayInv' /\ DaemonInv'
  BY <1>1 DEF Succeed, ClientGoto, Close, ExitIsClean, PipesKeep, DialogueInv, Types, ClientInv,
     RelayInv, DaemonInv, ClientUnsent, ClientSent, ClientEnds, RelaySteps, DaemonSteps, Ends,
     Channels, Relaying, RelayedAll, RelaySawEnd, Acting, Serving, journal, call
<1>3. FrameInv'
  BY <1>1, <1>2 DEF RelayInv, DaemonInv, Submitted, Succeed, ClientGoto, Close, ExitIsClean,
     Shrinks, DialogueInv, Types, FrameInv
<1>4. CountInv'
  BY <1>1, <1>2, FourChannels DEF DialogueInv, Types, CountInv, ClientInv, RelayInv, DaemonInv,
     ClientWrote, RelayRead, RelayWrote, DaemonRead, ClientUnsent, ClientSent, Succeed,
     ClientGoto, Close, ExitIsClean, PipesKeep, Shrinks
<1> QED
  BY <1>1, <1>2, <1>3, <1>4 DEF DialogueInv

LEMMA ClientFailsKeeps ==
  ASSUME DialogueInv, ClientFails, faults' \subseteq {"client", "relay", "daemon", "network"}
  PROVE  DialogueInv'
<1>1. /\ Shrinks("stdin") /\ Shrinks("stdout") /\ Shrinks("udsIn") /\ Shrinks("udsOut")
      /\ PipesKeep
  BY Lengths, FourChannels, AllKeep DEF ClientFails, Close, Types, DialogueInv
<1>2. Types' /\ ClientInv' /\ RelayInv' /\ DaemonInv'
  BY <1>1 DEF ClientFails, Close, Verdict, PipesKeep, DialogueInv, Types, ClientInv, RelayInv,
     DaemonInv, ClientUnsent, ClientSent, ClientEnds, RelaySteps, DaemonSteps, Ends, Channels,
     Relaying, RelayedAll, RelaySawEnd, Acting, Serving, journal, call, progress
<1>3. FrameInv'
  BY <1>1, <1>2 DEF ClientFails, Close, Verdict, Shrinks, DialogueInv, Types, FrameInv, RelayInv,
     DaemonInv, Submitted, Relaying, RelayedAll, RelaySawEnd, Acting, Serving, Ends, DaemonSteps,
     ClientEnds, ClientUnsent, ClientSent, RelaySteps, journal, call, progress
<1>4. CountInv'
  BY <1>1, <1>2, FourChannels DEF ClientFails, Close, Verdict, PipesKeep, Shrinks, DialogueInv,
     Types, CountInv, ClientInv, RelayInv, DaemonInv, ClientWrote, RelayRead, RelayWrote,
     DaemonRead, ClientUnsent, ClientSent, ClientEnds, RelaySteps, DaemonSteps, Ends, Acting,
     RelayedAll, RelaySawEnd, journal, call, progress
<1> QED
  BY <1>1, <1>2, <1>3, <1>4 DEF DialogueInv

LEMMA HangUpKeeps ==
  ASSUME DialogueInv, HangUp
  PROVE  DialogueInv'
<1>1. /\ Shrinks("stdin") /\ Shrinks("stdout") /\ Shrinks("udsIn") /\ Shrinks("udsOut")
      /\ PipesKeep
  BY Lengths, FourChannels, AllKeep DEF HangUp, Close, Types, DialogueInv
<1>2. Types' /\ ClientInv' /\ RelayInv' /\ DaemonInv'
  BY <1>1 DEF HangUp, Close, PipesKeep, DialogueInv, Types, ClientInv, RelayInv, DaemonInv,
     ClientUnsent, ClientSent, ClientEnds, RelaySteps, DaemonSteps, Ends, Channels, Relaying,
     RelayedAll, RelaySawEnd, Acting, Serving, journal, call, progress, parties
<1>3. FrameInv'
  BY <1>1, <1>2 DEF HangUp, Close, Shrinks, DialogueInv, Types, FrameInv, RelayInv, DaemonInv,
     Submitted, Relaying, RelayedAll, RelaySawEnd, Acting, Serving, Ends, DaemonSteps, ClientEnds,
     ClientUnsent, ClientSent, RelaySteps, journal, call, progress, parties
<1>4. CountInv'
  BY <1>1, <1>2, FourChannels DEF HangUp, Close, PipesKeep, Shrinks, DialogueInv, Types, CountInv,
     ClientInv, RelayInv, DaemonInv, ClientWrote, RelayRead, RelayWrote, DaemonRead, ClientUnsent,
     ClientSent, ClientEnds, RelaySteps, DaemonSteps, Ends, Acting, RelayedAll, RelaySawEnd,
     journal, call, progress, parties
<1> QED
  BY <1>1, <1>2, <1>3, <1>4 DEF DialogueInv

-----------------------------------------------------------------------------
(* The relay                                                               *)

LEMMA ForwardClientHelloKeeps ==
  ASSUME DialogueInv, ForwardClientHello
  PROVE  DialogueInv'
<1>0. /\ relay = "hello" /\ relay' = "reply"
      /\ UNCHANGED <<client, daemon, requestNonce, count, helloNonce, sent, received>>
      /\ UNCHANGED <<claim, effects, recorded, faults, endSeen, forwarded, ended, broken>>
  BY DEF ForwardClientHello, RelayGoto, Forward, journal, call, progress, parties, channels
<1>1. /\ Loses("stdin") /\ Shrinks("stdin") /\ HasFrame("stdin", "clientHello")
      /\ Len(pipe["stdin"]) \in Nat \ {0} /\ Gains("udsIn", "clientHello")
      /\ Shrinks("stdout") /\ Shrinks("udsOut") /\ PipesKeep
  <2>1. /\ Offers("stdin", "clientHello") /\ HasRoom("udsIn") /\ Types
        /\ pipe' = [pipe EXCEPT !["stdin"] = Tail(@), !["udsIn"] = Append(@, "clientHello")]
    BY DEF ForwardClientHello, Forward, DialogueInv
  <2>2. /\ Loses("stdin") /\ HasFrame("stdin", "clientHello") /\ Len(pipe["stdin"]) \in Nat \ {0}
        /\ Gains("udsIn", "clientHello") /\ Shrinks("stdout") /\ Shrinks("udsOut")
        /\ pipe' \in [Channels -> Seq(Frames)]
    BY <2>1, ForwardMoves, FourChannels
  <2>3. Shrinks("stdin")
    BY <2>2 DEF Loses
  <2> QED
    BY <2>1, <2>2, <2>3, AllKeep, FourChannels
<1>2. Types' /\ ClientInv' /\ RelayInv' /\ DaemonInv'
  BY <1>0, <1>1, FourChannels DEF PipesKeep, DialogueInv, Types, ClientInv, RelayInv, DaemonInv,
     CountInv, ClientWrote, RelayRead, RelayWrote, DaemonRead, FrameInv, ClientUnsent, ClientSent,
     ClientEnds, RelaySteps, DaemonSteps, Ends, Channels, Relaying, RelayedAll, RelaySawEnd,
     Acting, Serving
<1>3. FrameInv'
  BY <1>0, <1>1, <1>2 DEF DaemonInv, Submitted, Relaying, Gains, Shrinks, Loses, DialogueInv,
     Types, FrameInv, RelayInv
<1>4. CountInv'
  <2>1. /\ ClientWrote \in Nat /\ DaemonRead \in Nat /\ RelayRead \in Nat /\ RelayWrote \in Nat
    BY DEF DialogueInv, Types, ClientWrote, DaemonRead, RelayRead, RelayWrote
  <2>2. /\ ClientWrote' = ClientWrote /\ DaemonRead' = DaemonRead
        /\ RelayRead' = RelayRead + 1 /\ RelayWrote' = RelayWrote + 1
    BY <1>0 DEF RelayedAll, RelaySawEnd, ClientWrote, DaemonRead, RelayRead, RelayWrote,
       RelaySteps, Ends, DialogueInv, Types
  <2>3. /\ Len(pipe["stdin"]) \in Nat /\ Len(pipe'["stdin"]) \in Nat
        /\ Len(pipe["udsIn"]) \in Nat /\ Len(pipe'["udsIn"]) \in Nat
        /\ Len(pipe["stdin"]) = Len(pipe'["stdin"]) + 1
        /\ Len(pipe'["udsIn"]) = Len(pipe["udsIn"]) + 1
    BY <1>1, FourChannels DEF PipesKeep, Gains, Shrinks, Loses
  <2>4. /\ RelayRead + Len(pipe["stdin"]) <= ClientWrote
        /\ DaemonRead + Len(pipe["udsIn"]) <= RelayWrote
    BY DEF DialogueInv, CountInv
  <2>5. RelayRead' + Len(pipe'["stdin"]) <= ClientWrote'
    BY <2>1, <2>2, <2>3, <2>4, Passed
  <2>6. DaemonRead' + Len(pipe'["udsIn"]) <= RelayWrote'
    BY <2>1, <2>2, <2>3, <2>4
  <2> QED
    BY <2>5, <2>6 DEF CountInv
<1> QED
  BY <1>1, <1>2, <1>3, <1>4 DEF DialogueInv

LEMMA ForwardHelloKeeps ==
  ASSUME DialogueInv, ForwardHello
  PROVE  DialogueInv'
<1>0. /\ relay = "reply" /\ relay' = "request"
      /\ UNCHANGED <<client, daemon, requestNonce, count, helloNonce, sent, received>>
      /\ UNCHANGED <<claim, effects, recorded, faults, endSeen, forwarded, ended, broken>>
  BY DEF ForwardHello, RelayGoto, Forward, journal, call, progress, parties, channels
<1>1. /\ Loses("udsOut") /\ Shrinks("udsOut") /\ HasFrame("udsOut", "hello")
      /\ Len(pipe["udsOut"]) \in Nat \ {0} /\ Gains("stdout", "hello")
      /\ Shrinks("stdin") /\ Shrinks("udsIn") /\ PipesKeep
  <2>1. /\ Offers("udsOut", "hello") /\ HasRoom("stdout") /\ Types
        /\ pipe' = [pipe EXCEPT !["udsOut"] = Tail(@), !["stdout"] = Append(@, "hello")]
    BY DEF ForwardHello, Forward, DialogueInv
  <2>2. /\ Loses("udsOut") /\ HasFrame("udsOut", "hello") /\ Len(pipe["udsOut"]) \in Nat \ {0}
        /\ Gains("stdout", "hello") /\ Shrinks("stdin") /\ Shrinks("udsIn")
        /\ pipe' \in [Channels -> Seq(Frames)]
    BY <2>1, ForwardMoves, FourChannels
  <2>3. Shrinks("udsOut")
    BY <2>2 DEF Loses
  <2> QED
    BY <2>1, <2>2, <2>3, AllKeep, FourChannels
<1>2. Types' /\ ClientInv' /\ RelayInv' /\ DaemonInv'
  BY <1>0, <1>1 DEF PipesKeep, DialogueInv, Types, ClientInv, RelayInv, DaemonInv, ClientUnsent,
     ClientSent, ClientEnds, RelaySteps, DaemonSteps, Ends, Channels, Relaying, RelayedAll,
     RelaySawEnd, Acting, Serving
<1>3. FrameInv'
  BY <1>0, <1>1, <1>2 DEF DaemonInv, Submitted, Relaying, Gains, Shrinks, Loses, DialogueInv,
     Types, FrameInv, RelayInv
<1>4. CountInv'
  <2>1. /\ ClientWrote \in Nat /\ DaemonRead \in Nat /\ RelayRead \in Nat /\ RelayWrote \in Nat
    BY DEF DialogueInv, Types, ClientWrote, DaemonRead, RelayRead, RelayWrote
  <2>2. /\ ClientWrote' = ClientWrote /\ DaemonRead' = DaemonRead
        /\ RelayRead' = RelayRead /\ RelayWrote' = RelayWrote
    BY <1>0 DEF ClientWrote, DaemonRead, RelayRead, RelayWrote, RelayedAll, RelaySawEnd
  <2>3. /\ Len(pipe["stdin"]) \in Nat /\ Len(pipe'["stdin"]) \in Nat
        /\ Len(pipe["udsIn"]) \in Nat /\ Len(pipe'["udsIn"]) \in Nat
        /\ Len(pipe'["stdin"]) <= Len(pipe["stdin"]) /\ Len(pipe'["udsIn"]) <= Len(pipe["udsIn"])
    BY <1>1, FourChannels DEF PipesKeep, Shrinks
  <2>4. /\ RelayRead + Len(pipe["stdin"]) <= ClientWrote
        /\ DaemonRead + Len(pipe["udsIn"]) <= RelayWrote
    BY DEF DialogueInv, CountInv
  <2>5. RelayRead' + Len(pipe'["stdin"]) <= ClientWrote'
    BY <2>1, <2>2, <2>3, <2>4, Fewer
  <2>6. DaemonRead' + Len(pipe'["udsIn"]) <= RelayWrote'
    BY <2>1, <2>2, <2>3, <2>4, Fewer
  <2> QED
    BY <2>5, <2>6 DEF CountInv
<1> QED
  BY <1>1, <1>2, <1>3, <1>4 DEF DialogueInv

LEMMA ForwardRequestKeeps ==
  ASSUME DialogueInv, ForwardRequest
  PROVE  DialogueInv'
<1>0. /\ relay = "request" /\ relay' = (IF count = 0 THEN "eof" ELSE "chunks")
      /\ UNCHANGED <<client, daemon, requestNonce, count, helloNonce, sent, received>>
      /\ UNCHANGED <<claim, effects, recorded, faults, endSeen, forwarded, ended, broken>>
  BY DEF ForwardRequest, RelayGoto, Forward, journal, call, progress, parties, channels
<1>1. /\ Loses("stdin") /\ Shrinks("stdin") /\ HasFrame("stdin", "request")
      /\ Len(pipe["stdin"]) \in Nat \ {0} /\ Gains("udsIn", "request")
      /\ Shrinks("stdout") /\ Shrinks("udsOut") /\ PipesKeep
  <2>1. /\ Offers("stdin", "request") /\ HasRoom("udsIn") /\ Types
        /\ pipe' = [pipe EXCEPT !["stdin"] = Tail(@), !["udsIn"] = Append(@, "request")]
    BY DEF ForwardRequest, Forward, DialogueInv
  <2>2. /\ Loses("stdin") /\ HasFrame("stdin", "request") /\ Len(pipe["stdin"]) \in Nat \ {0}
        /\ Gains("udsIn", "request") /\ Shrinks("stdout") /\ Shrinks("udsOut")
        /\ pipe' \in [Channels -> Seq(Frames)]
    BY <2>1, ForwardMoves, FourChannels
  <2>3. Shrinks("stdin")
    BY <2>2 DEF Loses
  <2> QED
    BY <2>1, <2>2, <2>3, AllKeep, FourChannels
<1>2. Types' /\ ClientInv' /\ RelayInv' /\ DaemonInv'
  BY <1>0, <1>1 DEF PipesKeep, DialogueInv, Types, ClientInv, RelayInv, DaemonInv, ClientUnsent,
     ClientSent, ClientEnds, RelaySteps, DaemonSteps, Ends, Channels, Relaying, RelayedAll,
     RelaySawEnd, Acting, Serving
<1>3. FrameInv'
  BY <1>0, <1>1, <1>2 DEF DaemonInv, Submitted, Relaying, Gains, Shrinks, Loses, DialogueInv,
     Types, FrameInv, RelayInv
<1>4. CountInv'
  <2>1. /\ ClientWrote \in Nat /\ DaemonRead \in Nat /\ RelayRead \in Nat /\ RelayWrote \in Nat
    BY DEF DialogueInv, Types, ClientWrote, DaemonRead, RelayRead, RelayWrote
  <2>2. /\ ClientWrote' = ClientWrote /\ DaemonRead' = DaemonRead
        /\ RelayRead' = RelayRead + 1 /\ RelayWrote' = RelayWrote + 1
    <3>1. forwarded = 0
      BY <1>0 DEF DialogueInv, RelayInv
    <3> QED
      BY <1>0, <3>1 DEF ClientWrote, DaemonRead, RelayRead, RelayWrote
  <2>3. /\ Len(pipe["stdin"]) \in Nat /\ Len(pipe'["stdin"]) \in Nat
        /\ Len(pipe["udsIn"]) \in Nat /\ Len(pipe'["udsIn"]) \in Nat
        /\ Len(pipe'["stdin"]) + 1 = Len(pipe["stdin"])
        /\ Len(pipe'["udsIn"]) = Len(pipe["udsIn"]) + 1
    BY <1>1, FourChannels DEF PipesKeep, Gains, Loses
  <2>4. /\ RelayRead + Len(pipe["stdin"]) <= ClientWrote
        /\ DaemonRead + Len(pipe["udsIn"]) <= RelayWrote
    BY DEF DialogueInv, CountInv
  <2>5. RelayRead' + Len(pipe'["stdin"]) <= ClientWrote'
    BY <2>1, <2>2, <2>3, <2>4, Passed
  <2>6. DaemonRead' + Len(pipe'["udsIn"]) <= RelayWrote'
    BY <2>1, <2>2, <2>3, <2>4
  <2> QED
    BY <2>5, <2>6 DEF CountInv
<1> QED
  BY <1>1, <1>2, <1>3, <1>4 DEF DialogueInv

LEMMA ForwardChunkKeeps ==
  ASSUME DialogueInv, ForwardChunk
  PROVE  DialogueInv'
<1>0. /\ relay = "chunks" /\ relay' = (IF forwarded' = count THEN "eof" ELSE "chunks") /\ forwarded' = forwarded + 1
      /\ UNCHANGED <<client, daemon, requestNonce, count, helloNonce, sent, received>>
      /\ UNCHANGED <<claim, effects, recorded, faults, endSeen, ended, broken>>
  BY DEF ForwardChunk, RelayGoto, Forward, journal, call, progress, parties, channels
<1>1. /\ Loses("stdin") /\ Shrinks("stdin") /\ HasFrame("stdin", "chunk")
      /\ Len(pipe["stdin"]) \in Nat \ {0} /\ Gains("udsIn", "chunk")
      /\ Shrinks("stdout") /\ Shrinks("udsOut") /\ PipesKeep
  <2>1. /\ Offers("stdin", "chunk") /\ HasRoom("udsIn") /\ Types
        /\ pipe' = [pipe EXCEPT !["stdin"] = Tail(@), !["udsIn"] = Append(@, "chunk")]
    BY DEF ForwardChunk, Forward, DialogueInv
  <2>2. /\ Loses("stdin") /\ HasFrame("stdin", "chunk") /\ Len(pipe["stdin"]) \in Nat \ {0}
        /\ Gains("udsIn", "chunk") /\ Shrinks("stdout") /\ Shrinks("udsOut")
        /\ pipe' \in [Channels -> Seq(Frames)]
    BY <2>1, ForwardMoves, FourChannels
  <2>3. Shrinks("stdin")
    BY <2>2 DEF Loses
  <2> QED
    BY <2>1, <2>2, <2>3, AllKeep, FourChannels
<1>2. Types' /\ ClientInv' /\ RelayInv' /\ DaemonInv'
  BY <1>0, <1>1, FourChannels DEF PipesKeep, DialogueInv, Types, ClientInv, RelayInv, DaemonInv,
     CountInv, ClientWrote, RelayRead, RelayWrote, DaemonRead, FrameInv, ClientUnsent, ClientSent,
     ClientEnds, RelaySteps, DaemonSteps, Ends, Channels, Relaying, RelayedAll, RelaySawEnd,
     Acting, Serving
<1>3. FrameInv'
  BY <1>0, <1>1, <1>2 DEF DaemonInv, Submitted, Relaying, Gains, Shrinks, Loses, DialogueInv,
     Types, FrameInv, RelayInv
<1>4. CountInv'
  <2>1. /\ ClientWrote \in Nat /\ DaemonRead \in Nat /\ RelayRead \in Nat /\ RelayWrote \in Nat
    BY DEF DialogueInv, Types, ClientWrote, DaemonRead, RelayRead, RelayWrote
  <2>2. /\ ClientWrote' = ClientWrote /\ DaemonRead' = DaemonRead
        /\ RelayRead' = RelayRead + 1 /\ RelayWrote' = RelayWrote + 1
    BY <1>0 DEF RelayedAll, RelaySawEnd, ClientWrote, DaemonRead, RelayRead, RelayWrote,
       RelaySteps, Ends, DialogueInv, Types
  <2>3. /\ Len(pipe["stdin"]) \in Nat /\ Len(pipe'["stdin"]) \in Nat
        /\ Len(pipe["udsIn"]) \in Nat /\ Len(pipe'["udsIn"]) \in Nat
        /\ Len(pipe["stdin"]) = Len(pipe'["stdin"]) + 1
        /\ Len(pipe'["udsIn"]) = Len(pipe["udsIn"]) + 1
    BY <1>1, FourChannels DEF PipesKeep, Gains, Shrinks, Loses
  <2>4. /\ RelayRead + Len(pipe["stdin"]) <= ClientWrote
        /\ DaemonRead + Len(pipe["udsIn"]) <= RelayWrote
    BY DEF DialogueInv, CountInv
  <2>5. RelayRead' + Len(pipe'["stdin"]) <= ClientWrote'
    BY <2>1, <2>2, <2>3, <2>4, Passed
  <2>6. DaemonRead' + Len(pipe'["udsIn"]) <= RelayWrote'
    BY <2>1, <2>2, <2>3, <2>4
  <2> QED
    BY <2>5, <2>6 DEF CountInv
<1> QED
  BY <1>1, <1>2, <1>3, <1>4 DEF DialogueInv

LEMMA SeeEndKeeps ==
  ASSUME DialogueInv, SeeEnd
  PROVE  DialogueInv'
<1>1. /\ Shrinks("stdin") /\ Shrinks("stdout") /\ Shrinks("udsIn") /\ Shrinks("udsOut")
      /\ PipesKeep
  BY Lengths, FourChannels, AllKeep DEF SeeEnd, channels, Types, DialogueInv
<1>2. Types' /\ ClientInv' /\ RelayInv' /\ DaemonInv'
  BY <1>1 DEF SeeEnd, RelayGoto, channels, AtEnd, PipesKeep, DialogueInv, Types, ClientInv,
     RelayInv, DaemonInv, ClientUnsent, ClientSent, ClientEnds, RelaySteps, DaemonSteps, Ends,
     Channels, Relaying, RelayedAll, RelaySawEnd, Acting, Serving, journal, call
<1>3. FrameInv'
  BY <1>1, <1>2 DEF Types, FrameInv, RelayInv, DaemonInv, Submitted, Relaying, RelayedAll,
     RelaySawEnd, Acting, Serving, SeeEnd, RelayGoto, channels, AtEnd, Shrinks, DialogueInv
<1>4. CountInv'
  BY <1>1, <1>2, FourChannels DEF DialogueInv, Types, CountInv, ClientInv, RelayInv, DaemonInv,
     ClientWrote, RelayRead, RelayWrote, DaemonRead, ClientUnsent, ClientSent, SeeEnd, RelayGoto,
     channels, AtEnd, PipesKeep, Shrinks
<1> QED
  BY <1>1, <1>2, <1>3, <1>4 DEF DialogueInv

LEMMA MarkEndKeeps ==
  ASSUME DialogueInv, MarkEnd
  PROVE  DialogueInv'
<1>0. /\ relay = "mark" /\ relay' = "closeInput"
      /\ UNCHANGED <<client, daemon, requestNonce, count, helloNonce, sent, received>>
      /\ UNCHANGED <<claim, effects, recorded, faults, endSeen, forwarded, ended, broken>>
  BY DEF MarkEnd, RelayGoto, Write, journal, call, progress, parties, channels
<1>1. /\ Gains("udsIn", "relayEof")
      /\ Shrinks("stdin") /\ Shrinks("stdout") /\ Shrinks("udsOut") /\ PipesKeep
  BY WriteGains, FourChannels, AllKeep DEF MarkEnd, DialogueInv
<1>2. Types' /\ ClientInv' /\ RelayInv' /\ DaemonInv'
  BY <1>0, <1>1 DEF PipesKeep, DialogueInv, Types, ClientInv, RelayInv, DaemonInv, ClientUnsent,
     ClientSent, ClientEnds, RelaySteps, DaemonSteps, Ends, Channels, Relaying, RelayedAll,
     RelaySawEnd, Acting, Serving
<1>3. FrameInv'
  BY <1>0, <1>1, <1>2 DEF RelayInv, DaemonInv, Submitted, Relaying, RelayedAll, RelaySawEnd,
     Acting, Serving, Gains, Shrinks, DialogueInv, Types, FrameInv
<1>4. CountInv'
  <2>1. /\ ClientWrote \in Nat /\ DaemonRead \in Nat /\ RelayRead \in Nat /\ RelayWrote \in Nat
    BY DEF DialogueInv, Types, ClientWrote, DaemonRead, RelayRead, RelayWrote
  <2>2. /\ ClientWrote' = ClientWrote /\ DaemonRead' = DaemonRead
        /\ RelayRead' = RelayRead /\ RelayWrote' = RelayWrote + 1
    BY <1>0 DEF RelayedAll, RelaySawEnd, ClientWrote, DaemonRead, RelayRead, RelayWrote,
       RelaySteps, Ends, DialogueInv, Types
  <2>3. /\ Len(pipe["stdin"]) \in Nat /\ Len(pipe'["stdin"]) \in Nat
        /\ Len(pipe["udsIn"]) \in Nat /\ Len(pipe'["udsIn"]) \in Nat
        /\ Len(pipe'["stdin"]) <= Len(pipe["stdin"])
        /\ Len(pipe'["udsIn"]) = Len(pipe["udsIn"]) + 1
    BY <1>1, FourChannels DEF PipesKeep, Gains, Shrinks
  <2>4. /\ RelayRead + Len(pipe["stdin"]) <= ClientWrote
        /\ DaemonRead + Len(pipe["udsIn"]) <= RelayWrote
    BY DEF DialogueInv, CountInv
  <2>5. RelayRead' + Len(pipe'["stdin"]) <= ClientWrote'
    BY <2>1, <2>2, <2>3, <2>4, Fewer
  <2>6. DaemonRead' + Len(pipe'["udsIn"]) <= RelayWrote'
    BY <2>1, <2>2, <2>3, <2>4
  <2> QED
    BY <2>5, <2>6 DEF CountInv
<1> QED
  BY <1>1, <1>2, <1>3, <1>4 DEF DialogueInv

LEMMA CloseDaemonInputKeeps ==
  ASSUME DialogueInv, CloseDaemonInput
  PROVE  DialogueInv'
<1>1. /\ Shrinks("stdin") /\ Shrinks("stdout") /\ Shrinks("udsIn") /\ Shrinks("udsOut")
      /\ PipesKeep
  BY Lengths, FourChannels, AllKeep DEF CloseDaemonInput, HalfClose, Close, Types, DialogueInv
<1>2. Types' /\ ClientInv' /\ RelayInv' /\ DaemonInv'
  BY <1>1 DEF CloseDaemonInput, RelayGoto, HalfClose, Close, PipesKeep, DialogueInv, Types,
     ClientInv, RelayInv, DaemonInv, ClientUnsent, ClientSent, ClientEnds, RelaySteps,
     DaemonSteps, Ends, Channels, Relaying, RelayedAll, RelaySawEnd, Acting, Serving, journal,
     call
<1>3. FrameInv'
  BY <1>1, <1>2 DEF Types, FrameInv, RelayInv, DaemonInv, Submitted, Relaying, RelayedAll,
     RelaySawEnd, Acting, Serving, CloseDaemonInput, RelayGoto, HalfClose, Close, Shrinks,
     DialogueInv
<1>4. CountInv'
  BY <1>1, <1>2, FourChannels DEF DialogueInv, Types, CountInv, ClientInv, RelayInv, DaemonInv,
     ClientWrote, RelayRead, RelayWrote, DaemonRead, ClientUnsent, ClientSent, CloseDaemonInput,
     RelayGoto, HalfClose, Close, PipesKeep, Shrinks
<1> QED
  BY <1>1, <1>2, <1>3, <1>4 DEF DialogueInv

LEMMA ForwardReceiptKeeps ==
  ASSUME DialogueInv, ForwardReceipt
  PROVE  DialogueInv'
<1>0. /\ relay = "receipt"
      /\ relay' = "done"
      /\ ended' = ended \cup {"udsIn", "stdout"}
      /\ broken' = broken \cup {"stdin", "udsOut"}
      /\ UNCHANGED <<client, daemon, requestNonce, count, helloNonce, sent, received>>
      /\ UNCHANGED <<claim, effects, recorded, faults, endSeen, forwarded>>
  BY DEF ForwardReceipt, RelayGoto, journal, call, progress, parties, channels
<1>1. /\ Loses("udsOut") /\ Shrinks("udsOut") /\ HasFrame("udsOut", "receipt")
      /\ Len(pipe["udsOut"]) \in Nat \ {0} /\ Gains("stdout", "receipt")
      /\ Shrinks("stdin") /\ Shrinks("udsIn") /\ PipesKeep
  <2>1. /\ Offers("udsOut", "receipt") /\ HasRoom("stdout") /\ Types
        /\ pipe' = [pipe EXCEPT !["udsOut"] = Tail(@), !["stdout"] = Append(@, "receipt")]
    BY DEF ForwardReceipt, DialogueInv
  <2>2. /\ Loses("udsOut") /\ HasFrame("udsOut", "receipt") /\ Len(pipe["udsOut"]) \in Nat \ {0}
        /\ Gains("stdout", "receipt") /\ Shrinks("stdin") /\ Shrinks("udsIn")
        /\ pipe' \in [Channels -> Seq(Frames)]
    BY <2>1, ForwardMoves, FourChannels
  <2>3. Shrinks("udsOut")
    BY <2>2 DEF Loses
  <2> QED
    BY <2>1, <2>2, <2>3, AllKeep, FourChannels
<1>2. Types' /\ ClientInv' /\ RelayInv' /\ DaemonInv'
  BY <1>0, <1>1 DEF PipesKeep, DialogueInv, Types, ClientInv, RelayInv, DaemonInv, ClientUnsent,
     ClientSent, ClientEnds, RelaySteps, DaemonSteps, Ends, Channels, Relaying, RelayedAll,
     RelaySawEnd, Acting, Serving
<1>3. FrameInv'
  BY <1>0, <1>1, <1>2 DEF DaemonInv, Submitted, Relaying, Gains, Shrinks, Loses, DialogueInv,
     Types, FrameInv, RelayInv
<1>4. CountInv'
  <2>1. /\ ClientWrote \in Nat /\ DaemonRead \in Nat /\ RelayRead \in Nat /\ RelayWrote \in Nat
    BY DEF DialogueInv, Types, ClientWrote, DaemonRead, RelayRead, RelayWrote
  <2>2. /\ ClientWrote' = ClientWrote /\ DaemonRead' = DaemonRead
        /\ RelayRead' = RelayRead /\ RelayWrote' = RelayWrote
    BY <1>0 DEF RelayedAll, RelaySawEnd, ClientWrote, DaemonRead, RelayRead, RelayWrote,
       RelaySteps, Ends, DialogueInv, Types
  <2>3. /\ Len(pipe["stdin"]) \in Nat /\ Len(pipe'["stdin"]) \in Nat
        /\ Len(pipe["udsIn"]) \in Nat /\ Len(pipe'["udsIn"]) \in Nat
        /\ Len(pipe'["stdin"]) <= Len(pipe["stdin"]) /\ Len(pipe'["udsIn"]) <= Len(pipe["udsIn"])
    BY <1>1, FourChannels DEF PipesKeep, Gains, Shrinks, Loses
  <2>4. /\ RelayRead + Len(pipe["stdin"]) <= ClientWrote
        /\ DaemonRead + Len(pipe["udsIn"]) <= RelayWrote
    BY DEF DialogueInv, CountInv
  <2>5. RelayRead' + Len(pipe'["stdin"]) <= ClientWrote'
    BY <2>1, <2>2, <2>3, <2>4, Fewer
  <2>6. DaemonRead' + Len(pipe'["udsIn"]) <= RelayWrote'
    BY <2>1, <2>2, <2>3, <2>4, Fewer
  <2> QED
    BY <2>5, <2>6 DEF CountInv
<1> QED
  BY <1>1, <1>2, <1>3, <1>4 DEF DialogueInv

LEMMA RelayFailsKeeps ==
  ASSUME DialogueInv, RelayFails, faults' \subseteq {"client", "relay", "daemon", "network"}
  PROVE  DialogueInv'
<1>0. /\ relay \notin Ends
      /\ relay' = "broken"
      /\ faults' \subseteq {"client", "relay", "daemon", "network"}
      /\ ended' = ended \cup {"udsIn", "stdout"} /\ broken' = broken \cup {"stdin", "udsOut"}
      /\ UNCHANGED <<client, daemon, requestNonce, count, helloNonce, sent, forwarded>>
      /\ UNCHANGED <<endSeen, received, claim, effects, recorded>>
  BY DEF RelayFails, Close, journal, call, progress, parties, channels
<1>1. /\ Shrinks("stdin") /\ Shrinks("stdout") /\ Shrinks("udsIn") /\ Shrinks("udsOut")
      /\ PipesKeep
  BY Lengths, FourChannels, AllKeep DEF RelayFails, Close, Types, DialogueInv
<1>2. Types' /\ ClientInv' /\ RelayInv' /\ DaemonInv'
  BY <1>0, <1>1 DEF PipesKeep, DialogueInv, Types, ClientInv, RelayInv, DaemonInv, ClientUnsent,
     ClientSent, ClientEnds, RelaySteps, DaemonSteps, Ends, Channels, Relaying, RelayedAll,
     RelaySawEnd, Acting, Serving
<1>3. FrameInv'
  BY <1>0, <1>1, <1>2 DEF Submitted, Relaying, Shrinks, DialogueInv, Types, FrameInv, RelayInv,
     DaemonInv
<1>4. CountInv'
  <2>1. /\ ClientWrote \in Nat /\ DaemonRead \in Nat /\ RelayRead \in Nat /\ RelayWrote \in Nat
    BY DEF DialogueInv, Types, ClientWrote, DaemonRead, RelayRead, RelayWrote
  <2>2. /\ ClientWrote' = ClientWrote /\ DaemonRead' = DaemonRead
        /\ RelayRead' = 0 /\ RelayWrote' \in Nat /\ RelayWrote <= RelayWrote'
    BY <1>0 DEF Types, RelayInv, DaemonInv, Acting, Relaying, RelayedAll, RelaySawEnd,
       ClientWrote, DaemonRead, RelayRead, RelayWrote, RelaySteps, Ends, progress, call,
       RelayFails, DialogueInv
  <2>3. /\ Len(pipe["stdin"]) \in Nat /\ Len(pipe'["stdin"]) \in Nat
        /\ Len(pipe["udsIn"]) \in Nat /\ Len(pipe'["udsIn"]) \in Nat
        /\ Len(pipe'["stdin"]) <= Len(pipe["stdin"]) /\ Len(pipe'["udsIn"]) <= Len(pipe["udsIn"])
    BY <1>1, FourChannels DEF PipesKeep, Shrinks
  <2>4. /\ RelayRead + Len(pipe["stdin"]) <= ClientWrote
        /\ DaemonRead + Len(pipe["udsIn"]) <= RelayWrote
    BY DEF DialogueInv, CountInv
  <2>5. RelayRead' + Len(pipe'["stdin"]) <= ClientWrote'
    BY <2>1, <2>2, <2>3, <2>4, Fewer
  <2>6. DaemonRead' + Len(pipe'["udsIn"]) <= RelayWrote'
    BY <2>1, <2>2, <2>3, <2>4, Fewer
  <2> QED
    BY <2>5, <2>6 DEF CountInv
<1> QED
  BY <1>1, <1>2, <1>3, <1>4 DEF DialogueInv

-----------------------------------------------------------------------------
(* The daemon                                                              *)

LEMMA ReceiveClientHelloKeeps ==
  ASSUME DialogueInv, ReceiveClientHello
  PROVE  DialogueInv'
<1>1. /\ Loses("udsIn")
      /\ Shrinks("udsIn")
      /\ HasFrame("udsIn", "clientHello")
      /\ Len(pipe["udsIn"]) \in Nat \ {0}
      /\ Shrinks("stdin") /\ Shrinks("stdout") /\ Shrinks("udsOut") /\ PipesKeep
  BY ReadLoses, FourChannels, AllKeep DEF ReceiveClientHello, Loses, DialogueInv
<1>2. Types' /\ ClientInv' /\ RelayInv' /\ DaemonInv'
  BY <1>1 DEF Read, PipesKeep, DialogueInv, Types, ClientInv, RelayInv, DaemonInv, ClientUnsent,
     ClientSent, ClientEnds, RelaySteps, DaemonSteps, Ends, Channels, Relaying, RelayedAll,
     RelaySawEnd, Acting, Serving, journal, call, ReceiveClientHello, DaemonGoto
<1>3. FrameInv'
  BY <1>1, <1>2 DEF Types, FrameInv, RelayInv, DaemonInv, Submitted, Relaying, RelayedAll,
     RelaySawEnd, Acting, Serving, ReceiveClientHello, DaemonGoto, Read, Shrinks, Loses,
     DialogueInv
<1>4. CountInv'
  BY <1>1, <1>2, FourChannels DEF DialogueInv, Types, CountInv, ClientInv, RelayInv, DaemonInv,
     ClientWrote, RelayRead, RelayWrote, DaemonRead, ClientUnsent, ClientSent, ReceiveClientHello,
     DaemonGoto, Read, PipesKeep, Shrinks, Loses
<1> QED
  BY <1>1, <1>2, <1>3, <1>4 DEF DialogueInv

LEMMA GreetKeeps ==
  ASSUME DialogueInv, Greet
  PROVE  DialogueInv'
<1>1. /\ Gains("udsOut", "hello")
      /\ Shrinks("stdin") /\ Shrinks("stdout") /\ Shrinks("udsIn") /\ PipesKeep
  BY WriteGains, FourChannels, AllKeep DEF Greet, DialogueInv
<1>2. Types' /\ ClientInv' /\ RelayInv' /\ DaemonInv'
  BY <1>1 DEF Write, PipesKeep, DialogueInv, Types, ClientInv, RelayInv, DaemonInv, ClientUnsent,
     ClientSent, ClientEnds, RelaySteps, DaemonSteps, Ends, Channels, Relaying, RelayedAll,
     RelaySawEnd, Acting, Serving, journal, call, Greet, DaemonGoto
<1>3. FrameInv'
  BY <1>1, <1>2 DEF Types, FrameInv, RelayInv, DaemonInv, Submitted, Relaying, RelayedAll,
     RelaySawEnd, Acting, Serving, Greet, DaemonGoto, Write, Gains, Shrinks, DialogueInv
<1>4. CountInv'
  BY <1>1, <1>2, FourChannels DEF DialogueInv, Types, CountInv, ClientInv, RelayInv, DaemonInv,
     ClientWrote, RelayRead, RelayWrote, DaemonRead, ClientUnsent, ClientSent, Greet, DaemonGoto,
     Write, PipesKeep, Gains, Shrinks
<1> QED
  BY <1>1, <1>2, <1>3, <1>4 DEF DialogueInv

LEMMA ReceiveRequestKeeps ==
  ASSUME DialogueInv, ReceiveRequest
  PROVE  DialogueInv'
<1>1. /\ Loses("udsIn")
      /\ Shrinks("udsIn")
      /\ HasFrame("udsIn", "request")
      /\ Len(pipe["udsIn"]) \in Nat \ {0}
      /\ Shrinks("stdin") /\ Shrinks("stdout") /\ Shrinks("udsOut") /\ PipesKeep
  BY ReadLoses, FourChannels, AllKeep DEF ReceiveRequest, Loses, DialogueInv
<1>2. Types' /\ ClientInv' /\ RelayInv' /\ DaemonInv'
  BY <1>1 DEF Read, PipesKeep, DialogueInv, Types, ClientInv, RelayInv, DaemonInv, ClientUnsent,
     ClientSent, ClientEnds, RelaySteps, DaemonSteps, Ends, Channels, Relaying, RelayedAll,
     RelaySawEnd, Acting, Serving, journal, call, ReceiveRequest, DaemonGoto
<1>3. FrameInv'
  BY <1>1, <1>2 DEF ReceiveRequest, DaemonGoto, Read, Shrinks, Loses, DialogueInv, Types,
     FrameInv, RelayInv, DaemonInv, Submitted, Relaying, RelayedAll, RelaySawEnd, Acting, Serving,
     Ends, DaemonSteps, ClientEnds, ClientUnsent, ClientSent, RelaySteps, journal, call
<1>4. CountInv'
  BY <1>1, <1>2, FourChannels DEF DialogueInv, Types, CountInv, ClientInv, RelayInv, DaemonInv,
     ClientWrote, RelayRead, RelayWrote, DaemonRead, ClientUnsent, ClientSent, ReceiveRequest,
     DaemonGoto, Read, PipesKeep, Shrinks, Loses
<1> QED
  BY <1>1, <1>2, <1>3, <1>4 DEF DialogueInv

LEMMA ClaimKeeps ==
  ASSUME DialogueInv, Claim
  PROVE  DialogueInv'
<1>1. /\ Shrinks("stdin") /\ Shrinks("stdout") /\ Shrinks("udsIn") /\ Shrinks("udsOut")
      /\ PipesKeep
  BY Lengths, FourChannels, AllKeep DEF Claim, channels, Types, DialogueInv
<1>2. Types' /\ ClientInv' /\ RelayInv' /\ DaemonInv'
  BY <1>1 DEF DaemonGoto, channels, PipesKeep, DialogueInv, Types, ClientInv, RelayInv, DaemonInv,
     ClientUnsent, ClientSent, ClientEnds, RelaySteps, DaemonSteps, Ends, Channels, Relaying,
     RelayedAll, RelaySawEnd, Acting, Serving, call, Claim
<1>3. FrameInv'
  BY <1>1, <1>2 DEF Types, FrameInv, RelayInv, DaemonInv, Submitted, Relaying, RelayedAll,
     RelaySawEnd, Acting, Serving, Claim, DaemonGoto, channels, Shrinks, DialogueInv
<1>4. CountInv'
  BY <1>1, <1>2, FourChannels DEF CountInv, ClientInv, RelayInv, DaemonInv, ClientWrote,
     RelayRead, RelayWrote, DaemonRead, ClientUnsent, ClientSent, Claim, DaemonGoto, channels,
     PipesKeep, Shrinks, DialogueInv, Types
<1> QED
  BY <1>1, <1>2, <1>3, <1>4 DEF DialogueInv

LEMMA ReceiveChunkKeeps ==
  ASSUME DialogueInv, ReceiveChunk
  PROVE  DialogueInv'
<1>1. /\ Loses("udsIn")
      /\ Shrinks("udsIn")
      /\ HasFrame("udsIn", "chunk")
      /\ Len(pipe["udsIn"]) \in Nat \ {0}
      /\ Shrinks("stdin") /\ Shrinks("stdout") /\ Shrinks("udsOut") /\ PipesKeep
  BY ReadLoses, FourChannels, AllKeep DEF ReceiveChunk, Loses, DialogueInv
<1>2. Types' /\ ClientInv' /\ RelayInv' /\ DaemonInv'
  BY <1>1, FourChannels DEF Read, PipesKeep, DialogueInv, Types, ClientInv, RelayInv, DaemonInv,
     CountInv, ClientWrote, RelayRead, RelayWrote, DaemonRead, FrameInv, ClientUnsent, ClientSent,
     ClientEnds, RelaySteps, DaemonSteps, Ends, Channels, Relaying, RelayedAll, RelaySawEnd,
     Acting, Serving, journal, call, ReceiveChunk, DaemonGoto
<1>3. FrameInv'
  BY <1>1, <1>2 DEF ReceiveChunk, DaemonGoto, Read, Shrinks, Loses, DialogueInv, Types, FrameInv,
     RelayInv, DaemonInv, Submitted, Relaying, RelayedAll, RelaySawEnd, Acting, Serving, Ends,
     DaemonSteps, ClientEnds, ClientUnsent, ClientSent, RelaySteps, journal, call
<1>4. CountInv'
  <2>1. /\ ClientWrote \in Nat /\ DaemonRead \in Nat /\ RelayRead \in Nat /\ RelayWrote \in Nat
    BY DEF DialogueInv, Types, ClientWrote, DaemonRead, RelayRead, RelayWrote
  <2>2. /\ ClientWrote' = ClientWrote /\ DaemonRead' = DaemonRead + 1
        /\ RelayRead' = RelayRead /\ RelayWrote' = RelayWrote
    BY DEF ReceiveChunk, DaemonGoto, journal, progress, parties, channels, call, DialogueInv,
           Types,
       ClientWrote, DaemonRead, RelayRead, RelayWrote
  <2>3. /\ Len(pipe["stdin"]) \in Nat /\ Len(pipe'["stdin"]) \in Nat
        /\ Len(pipe["udsIn"]) \in Nat /\ Len(pipe'["udsIn"]) \in Nat
        /\ Len(pipe'["stdin"]) <= Len(pipe["stdin"])
        /\ Len(pipe'["udsIn"]) + 1 = Len(pipe["udsIn"])
    BY <1>1, FourChannels DEF PipesKeep, Shrinks, Loses
  <2>4. /\ RelayRead + Len(pipe["stdin"]) <= ClientWrote
        /\ DaemonRead + Len(pipe["udsIn"]) <= RelayWrote
    BY DEF DialogueInv, CountInv
  <2>5. RelayRead' + Len(pipe'["stdin"]) <= ClientWrote'
    BY <2>1, <2>2, <2>3, <2>4, Fewer
  <2>6. DaemonRead' + Len(pipe'["udsIn"]) <= RelayWrote'
    BY <2>1, <2>2, <2>3, <2>4, Passed
  <2> QED
    BY <2>5, <2>6 DEF CountInv
<1> QED
  BY <1>1, <1>2, <1>3, <1>4 DEF DialogueInv

LEMMA ReceiveMarkerKeeps ==
  ASSUME DialogueInv, ReceiveMarker
  PROVE  DialogueInv'
<1>1. /\ Loses("udsIn")
      /\ Shrinks("udsIn")
      /\ HasFrame("udsIn", "relayEof")
      /\ Len(pipe["udsIn"]) \in Nat \ {0}
      /\ Shrinks("stdin") /\ Shrinks("stdout") /\ Shrinks("udsOut") /\ PipesKeep
  BY ReadLoses, FourChannels, AllKeep DEF ReceiveMarker, Marked, Loses, DialogueInv
<1>2. Types' /\ ClientInv' /\ RelayInv' /\ DaemonInv'
  BY <1>1 DEF ReceiveMarker, DaemonGoto, Marked, Read, PipesKeep, DialogueInv, Types, ClientInv,
     RelayInv, DaemonInv, ClientUnsent, ClientSent, ClientEnds, RelaySteps, DaemonSteps, Ends,
     Channels, Relaying, RelayedAll, RelaySawEnd, Acting, Serving, journal, call
<1>3. FrameInv'
  BY <1>1, <1>2 DEF Types, FrameInv, RelayInv, DaemonInv, Submitted, Relaying, RelayedAll,
     RelaySawEnd, Acting, Serving, ReceiveMarker, DaemonGoto, Marked, Read, Shrinks, Loses,
     DialogueInv
<1>4. CountInv'
  <2>1. /\ ClientWrote \in Nat /\ DaemonRead \in Nat /\ RelayRead \in Nat /\ RelayWrote \in Nat
    BY DEF DialogueInv, Types, ClientWrote, DaemonRead, RelayRead, RelayWrote
  <2>2. /\ ClientWrote' = ClientWrote /\ DaemonRead' = DaemonRead
        /\ RelayRead' = RelayRead /\ RelayWrote' = RelayWrote
    BY DEF ReceiveMarker, DaemonGoto, Marked, journal, progress, parties, channels, call,
           ClientWrote, DaemonRead, RelayRead, RelayWrote
  <2>3. /\ Len(pipe["stdin"]) \in Nat /\ Len(pipe'["stdin"]) \in Nat
        /\ Len(pipe["udsIn"]) \in Nat /\ Len(pipe'["udsIn"]) \in Nat
        /\ Len(pipe'["stdin"]) <= Len(pipe["stdin"]) /\ Len(pipe'["udsIn"]) <= Len(pipe["udsIn"])
    BY <1>1, FourChannels DEF PipesKeep, Shrinks
  <2>4. /\ RelayRead + Len(pipe["stdin"]) <= ClientWrote
        /\ DaemonRead + Len(pipe["udsIn"]) <= RelayWrote
    BY DEF DialogueInv, CountInv
  <2>5. RelayRead' + Len(pipe'["stdin"]) <= ClientWrote'
    BY <2>1, <2>2, <2>3, <2>4, Fewer
  <2>6. DaemonRead' + Len(pipe'["udsIn"]) <= RelayWrote'
    BY <2>1, <2>2, <2>3, <2>4, Fewer
  <2> QED
    BY <2>5, <2>6 DEF CountInv
<1> QED
  BY <1>1, <1>2, <1>3, <1>4 DEF DialogueInv

LEMMA ReceiveEndKeeps ==
  ASSUME DialogueInv, ReceiveEnd
  PROVE  DialogueInv'
<1>0. /\ daemon = "eof" /\ daemon' = IF count = 0 THEN "claim" ELSE "effect"
      /\ UNCHANGED <<client, relay, requestNonce, count, helloNonce, sent, forwarded, received>>
      /\ UNCHANGED <<endSeen, faults, ended, broken, claim, effects, recorded>>
  BY DEF ReceiveEnd, DaemonGoto, channels, journal, call, progress, parties, channels
<1>1. /\ Shrinks("stdin") /\ Shrinks("stdout") /\ Shrinks("udsIn") /\ Shrinks("udsOut")
      /\ PipesKeep
  BY Lengths, FourChannels, AllKeep DEF ReceiveEnd, channels, Types, DialogueInv
<1>2. Types' /\ ClientInv' /\ RelayInv' /\ DaemonInv'
  BY <1>0, <1>1 DEF PipesKeep, DialogueInv, Types, ClientInv, RelayInv, DaemonInv, ClientUnsent,
     ClientSent, ClientEnds, RelaySteps, DaemonSteps, Ends, Channels, Relaying, RelayedAll,
     RelaySawEnd, Acting, Serving
<1>3. FrameInv'
  BY <1>0, <1>1, <1>2 DEF RelayInv, DaemonInv, Submitted, Relaying, RelayedAll, RelaySawEnd,
     Acting, Serving, Shrinks, DialogueInv, Types, FrameInv
<1>4. CountInv'
  <2>1. /\ ClientWrote \in Nat /\ DaemonRead \in Nat /\ RelayRead \in Nat /\ RelayWrote \in Nat
    BY DEF DialogueInv, Types, ClientWrote, DaemonRead, RelayRead, RelayWrote
  <2>2. /\ ClientWrote' = ClientWrote /\ DaemonRead' = DaemonRead
        /\ RelayRead' = RelayRead /\ RelayWrote' = RelayWrote
    BY <1>0 DEF RelayedAll, RelaySawEnd, ClientWrote, DaemonRead, RelayRead, RelayWrote,
       RelaySteps, Ends, DialogueInv, Types
  <2>3. /\ Len(pipe["stdin"]) \in Nat /\ Len(pipe'["stdin"]) \in Nat
        /\ Len(pipe["udsIn"]) \in Nat /\ Len(pipe'["udsIn"]) \in Nat
        /\ Len(pipe'["stdin"]) <= Len(pipe["stdin"]) /\ Len(pipe'["udsIn"]) <= Len(pipe["udsIn"])
    BY <1>1, FourChannels DEF PipesKeep, Shrinks
  <2>4. /\ RelayRead + Len(pipe["stdin"]) <= ClientWrote
        /\ DaemonRead + Len(pipe["udsIn"]) <= RelayWrote
    BY DEF DialogueInv, CountInv
  <2>5. RelayRead' + Len(pipe'["stdin"]) <= ClientWrote'
    BY <2>1, <2>2, <2>3, <2>4, Fewer
  <2>6. DaemonRead' + Len(pipe'["udsIn"]) <= RelayWrote'
    BY <2>1, <2>2, <2>3, <2>4, Fewer
  <2> QED
    BY <2>5, <2>6 DEF CountInv
<1> QED
  BY <1>1, <1>2, <1>3, <1>4 DEF DialogueInv

LEMMA EffectKeeps ==
  ASSUME DialogueInv, Effect
  PROVE  DialogueInv'
<1>0. /\ daemon = "effect" /\ daemon' = "record" /\ effects' = effects + 1
      /\ UNCHANGED <<client, relay, requestNonce, count, helloNonce, sent, forwarded, received>>
      /\ UNCHANGED <<endSeen, faults, ended, broken, claim, recorded>>
  BY DEF Effect, DaemonGoto, channels, AfterEffect, journal, call, progress, parties, channels
<1>1. /\ Shrinks("stdin") /\ Shrinks("stdout") /\ Shrinks("udsIn") /\ Shrinks("udsOut")
      /\ PipesKeep
  BY Lengths, FourChannels, AllKeep DEF Effect, channels, Types, DialogueInv
<1>2. Types' /\ ClientInv' /\ RelayInv' /\ DaemonInv'
  BY <1>0, <1>1 DEF PipesKeep, DialogueInv, Types, ClientInv, RelayInv, DaemonInv, ClientUnsent,
     ClientSent, ClientEnds, RelaySteps, DaemonSteps, Ends, Channels, Relaying, RelayedAll,
     RelaySawEnd, Acting, Serving
<1>3. FrameInv'
  <2>1. endSeen /\ Submitted /\ claim = "here" /\ client \notin {"checking", "succeeded"}
        /\ ~ HasFrame("udsOut", "receipt") /\ ~ HasFrame("stdout", "receipt")
    BY <1>0 DEF DialogueInv, FrameInv, DaemonInv, Acting, Serving
  <2>2. endSeen' /\ Submitted' /\ client' \notin {"checking", "succeeded"}
        /\ ~ HasFrame("udsOut", "receipt")' /\ ~ HasFrame("stdout", "receipt")'
    BY <1>0, <1>1, <2>1 DEF Submitted, Shrinks
  <2> QED
    BY <2>2 DEF FrameInv
<1>4. CountInv'
  <2>1. /\ ClientWrote \in Nat /\ DaemonRead \in Nat /\ RelayRead \in Nat /\ RelayWrote \in Nat
    BY DEF DialogueInv, Types, ClientWrote, DaemonRead, RelayRead, RelayWrote
  <2>2. /\ ClientWrote' = ClientWrote /\ DaemonRead' = DaemonRead
        /\ RelayRead' = RelayRead /\ RelayWrote' = RelayWrote
    BY <1>0 DEF ClientWrote, DaemonRead, RelayRead, RelayWrote
  <2>3. /\ Len(pipe["stdin"]) \in Nat /\ Len(pipe'["stdin"]) \in Nat
        /\ Len(pipe["udsIn"]) \in Nat /\ Len(pipe'["udsIn"]) \in Nat
        /\ Len(pipe'["stdin"]) <= Len(pipe["stdin"]) /\ Len(pipe'["udsIn"]) <= Len(pipe["udsIn"])
    BY <1>1, FourChannels DEF PipesKeep, Shrinks
  <2>4. /\ RelayRead + Len(pipe["stdin"]) <= ClientWrote
        /\ DaemonRead + Len(pipe["udsIn"]) <= RelayWrote
    BY DEF DialogueInv, CountInv
  <2>5. RelayRead' + Len(pipe'["stdin"]) <= ClientWrote'
    BY <2>1, <2>2, <2>3, <2>4, Fewer
  <2>6. DaemonRead' + Len(pipe'["udsIn"]) <= RelayWrote'
    BY <2>1, <2>2, <2>3, <2>4, Fewer
  <2> QED
    BY <2>5, <2>6 DEF CountInv
<1> QED
  BY <1>1, <1>2, <1>3, <1>4 DEF DialogueInv

LEMMA RecordKeeps ==
  ASSUME DialogueInv, Record
  PROVE  DialogueInv'
<1>1. /\ Shrinks("stdin") /\ Shrinks("stdout") /\ Shrinks("udsIn") /\ Shrinks("udsOut")
      /\ PipesKeep
  BY Lengths, FourChannels, AllKeep DEF Record, channels, Types, DialogueInv
<1>2. Types' /\ ClientInv' /\ RelayInv' /\ DaemonInv'
  BY <1>1 DEF DaemonGoto, channels, PipesKeep, DialogueInv, Types, ClientInv, RelayInv, DaemonInv,
     ClientUnsent, ClientSent, ClientEnds, RelaySteps, DaemonSteps, Ends, Channels, Relaying,
     RelayedAll, RelaySawEnd, Acting, Serving, call, Record
<1>3. FrameInv'
  BY <1>1, <1>2 DEF RelayInv, DaemonInv, Submitted, Record, DaemonGoto, channels, Shrinks,
     DialogueInv, Types, FrameInv
<1>4. CountInv'
  BY <1>1, <1>2, FourChannels DEF CountInv, ClientInv, RelayInv, DaemonInv, ClientWrote,
     RelayRead, RelayWrote, DaemonRead, ClientUnsent, ClientSent, Record, DaemonGoto, channels,
     PipesKeep, Shrinks, DialogueInv, Types
<1> QED
  BY <1>1, <1>2, <1>3, <1>4 DEF DialogueInv

LEMMA AnswerKeeps ==
  ASSUME DialogueInv, Answer
  PROVE  DialogueInv'
<1>1. /\ Gains("udsOut", "receipt")
      /\ Shrinks("stdin") /\ Shrinks("stdout") /\ Shrinks("udsIn") /\ PipesKeep
  <2>1. /\ Types /\ pipe \in [Channels -> Seq(Frames)] /\ Len(pipe["udsOut"]) < Capacity
        /\ pipe' = [pipe EXCEPT !["udsOut"] = Append(@, "receipt")]
    BY DEF Answer, HasRoom, DialogueInv, Types
  <2>2. /\ pipe'["udsOut"] = Append(pipe["udsOut"], "receipt")
        /\ pipe' \in [Channels -> Seq(Frames)]
        /\ \A c \in Channels \ {"udsOut"} : pipe'[c] = pipe[c]
    BY <2>1, FourChannels, PutFrame
  <2>3. Gains("udsOut", "receipt")
    BY <2>1, <2>2, FourChannels, PutInto
  <2>4. Shrinks("stdin") /\ Shrinks("stdout") /\ Shrinks("udsIn")
    BY <2>1, <2>2, FourChannels, LeftAlone
  <2> QED
    BY <2>1, <2>2, <2>3, <2>4, FourChannels, AllKeep
<1>2. Types' /\ ClientInv' /\ RelayInv' /\ DaemonInv'
  BY <1>1 DEF DaemonGoto, PipesKeep, DialogueInv, Types, ClientInv, RelayInv, DaemonInv,
     ClientUnsent, ClientSent, ClientEnds, RelaySteps, DaemonSteps, Ends, Channels, Relaying,
     RelayedAll, RelaySawEnd, Acting, Serving, journal, call, Answer
<1>3. FrameInv'
  BY <1>1, <1>2 DEF DaemonInv, Submitted, Relaying, Answer, DaemonGoto, Gains, Shrinks,
     DialogueInv, Types, FrameInv, RelayInv
<1>4. CountInv'
  BY <1>1, <1>2, FourChannels DEF Types, CountInv, ClientInv, RelayInv, DaemonInv, ClientWrote,
     RelayRead, RelayWrote, DaemonRead, ClientUnsent, ClientSent, ClientEnds, Answer, DaemonGoto,
     PipesKeep, Gains, Shrinks, DialogueInv
<1> QED
  BY <1>1, <1>2, <1>3, <1>4 DEF DialogueInv

LEMMA DaemonFailsKeeps ==
  ASSUME DialogueInv, DaemonFails, faults' \subseteq {"client", "relay", "daemon", "network"}
  PROVE  DialogueInv'
<1>1. /\ Shrinks("stdin") /\ Shrinks("stdout") /\ Shrinks("udsIn") /\ Shrinks("udsOut")
      /\ PipesKeep
  BY Lengths, FourChannels, AllKeep DEF DaemonFails, Close, Types, DialogueInv
<1>2. Types' /\ ClientInv' /\ RelayInv' /\ DaemonInv'
  BY <1>1 DEF PipesKeep, DialogueInv, Types, ClientInv, RelayInv, DaemonInv, ClientUnsent,
     ClientSent, ClientEnds, RelaySteps, DaemonSteps, Ends, Channels, Relaying, RelayedAll,
     RelaySawEnd, Acting, Serving, journal, call, progress, DaemonFails, Close
<1>3. FrameInv'
  BY <1>1, <1>2 DEF Shrinks, DialogueInv, Types, FrameInv, RelayInv, DaemonInv, Submitted,
     Relaying, RelayedAll, RelaySawEnd, Acting, Serving, Ends, DaemonSteps, ClientEnds,
     ClientUnsent, ClientSent, RelaySteps, journal, call, progress, DaemonFails, Close
<1>4. CountInv'
  BY <1>1, <1>2, FourChannels DEF PipesKeep, Shrinks, DialogueInv, Types, CountInv, ClientInv,
     RelayInv, DaemonInv, ClientWrote, RelayRead, RelayWrote, DaemonRead, ClientUnsent,
     ClientSent, ClientEnds, RelaySteps, DaemonSteps, Ends, Acting, RelayedAll, RelaySawEnd,
     journal, call, progress, DaemonFails, Close
<1> QED
  BY <1>1, <1>2, <1>3, <1>4 DEF DialogueInv

-----------------------------------------------------------------------------
(* The connection                                                          *)

LEMMA CutShrinks ==
  ASSUME Types, NEW c \in Channels, NEW n \in 0..Len(pipe[c]), pipe'[c] = SubSeq(pipe[c], 1, n)
  PROVE  Shrinks(c)
<1>1. pipe[c] \in Seq(Frames)
  BY DEF Types
<1> QED
  BY <1>1, CutFrames DEF Shrinks, HasFrame

LEMMA LoseConnectionKeeps ==
  ASSUME DialogueInv, LoseConnection
  PROVE  DialogueInv'
<1>1. PICK i \in 0..Len(pipe["stdin"]), o \in 0..Len(pipe["stdout"]) :
        pipe' = [pipe EXCEPT !["stdin"] = SubSeq(@, 1, i), !["stdout"] = SubSeq(@, 1, o)]
  BY DEF LoseConnection
<1>2. /\ pipe \in [Channels -> Seq(Frames)]
      /\ \A c \in Channels : pipe[c] \in Seq(Frames) /\ Len(pipe[c]) \in Nat
  BY DEF DialogueInv, Types
<1>3. /\ pipe'["stdin"] = SubSeq(pipe["stdin"], 1, i)
      /\ pipe'["stdout"] = SubSeq(pipe["stdout"], 1, o)
      /\ pipe'["udsIn"] = pipe["udsIn"] /\ pipe'["udsOut"] = pipe["udsOut"]
  BY <1>1, <1>2, FourChannels
<1>4. Shrinks("stdin") /\ Shrinks("stdout") /\ Shrinks("udsIn") /\ Shrinks("udsOut")
  BY <1>2, <1>3, FourChannels, CutShrinks, LeftAlone DEF DialogueInv
<1>5. pipe' \in [Channels -> Seq(Frames)]
  <2>1. \A c \in Channels : pipe'[c] \in Seq(Frames)
    BY <1>4, FourChannels DEF Shrinks
  <2>2. pipe' = [c \in Channels |-> pipe'[c]]
    BY <1>1, <1>2
  <2> QED
    BY <2>1, <2>2
<1>6. PipesKeep
  BY <1>4, <1>5, FourChannels, AllKeep DEF DialogueInv
<1>7. /\ ended' = ended \cup {"stdin", "stdout"} /\ broken' = broken \cup {"stdin", "stdout"}
      /\ faults' = faults \cup {"network"}
      /\ UNCHANGED <<client, relay, daemon, requestNonce, count, helloNonce, sent, forwarded>>
      /\ UNCHANGED <<endSeen, received, claim, effects, recorded>>
  BY DEF LoseConnection, parties, call, progress, journal
<1>8. Types' /\ ClientInv' /\ RelayInv' /\ DaemonInv'
  BY <1>6, <1>7, FourChannels DEF PipesKeep, DialogueInv, Types, ClientInv, RelayInv, DaemonInv
<1>9. FrameInv'
  BY <1>4, <1>7 DEF Shrinks, DialogueInv, FrameInv, Submitted
<1>10. CountInv'
  <2>1. /\ ClientWrote \in Nat /\ DaemonRead \in Nat /\ RelayRead \in Nat /\ RelayWrote \in Nat
    BY DEF DialogueInv, Types, ClientWrote, DaemonRead, RelayRead, RelayWrote
  <2>2. /\ ClientWrote' = ClientWrote /\ DaemonRead' = DaemonRead
        /\ RelayRead' = RelayRead /\ RelayWrote' = RelayWrote
    BY <1>7 DEF ClientWrote, DaemonRead, RelayRead, RelayWrote
  <2>3. /\ Len(pipe'["stdin"]) \in Nat /\ Len(pipe'["udsIn"]) \in Nat
        /\ Len(pipe["stdin"]) \in Nat /\ Len(pipe["udsIn"]) \in Nat
        /\ Len(pipe'["stdin"]) <= Len(pipe["stdin"]) /\ Len(pipe'["udsIn"]) <= Len(pipe["udsIn"])
    BY <1>4, <1>6, FourChannels DEF PipesKeep, Shrinks
  <2>4. /\ RelayRead + Len(pipe["stdin"]) <= ClientWrote
        /\ DaemonRead + Len(pipe["udsIn"]) <= RelayWrote
    BY DEF DialogueInv, CountInv
  <2>5. /\ RelayRead + Len(pipe'["stdin"]) <= ClientWrote
        /\ DaemonRead + Len(pipe'["udsIn"]) <= RelayWrote
    BY <2>1, <2>3, <2>4, Fewer
  <2> QED
    BY <2>2, <2>5 DEF CountInv
<1> QED
  BY <1>8, <1>9, <1>10 DEF DialogueInv

-----------------------------------------------------------------------------
(* The theorems                                                            *)

LEMMA InitDialogue == Init => DialogueInv
<1> SUFFICES ASSUME Init PROVE DialogueInv
  OBVIOUS
<1>1. \A c \in Channels : pipe[c] = <<>>
  BY DEF Init
<1>2. Types
  <2>1. \A c \in Channels : Len(pipe[c]) <= Capacity
    BY <1>1, DialogueAssumption
  <2>2. pipe \in [Channels -> Seq(Frames)] /\ count \in Nat
    BY DialogueAssumption DEF Init
  <2>3. endSeen \in BOOLEAN /\ recorded \in BOOLEAN
    BY Zenon DEF Init
  <2> QED
    BY <2>1, <2>2, <2>3 DEF Init, Types, ClientUnsent, RelaySteps, DaemonSteps
<1>3. ClientInv /\ RelayInv /\ DaemonInv
  BY <1>2 DEF Types, ClientInv, RelayInv, DaemonInv, RelayedAll, RelaySawEnd, Relaying, Acting,
     Serving, Init
<1>4. FrameInv
  BY <1>1, FourChannels DEF Init, FrameInv, HasFrame, Relaying, Acting, Serving
<1>5. CountInv
  BY <1>1, FourChannels DEF Init, CountInv, ClientWrote, RelayRead, RelayWrote, DaemonRead
<1> QED
  BY <1>2, <1>3, <1>4, <1>5 DEF DialogueInv

LEMMA DialogueStep == DialogueInv /\ [Next]_vars => DialogueInv'
<1> SUFFICES ASSUME DialogueInv, [Next]_vars PROVE DialogueInv'
  OBVIOUS
<1>1. faults \subseteq {"client", "relay", "daemon", "network"}
  BY DEF DialogueInv, Types
<1>2. CASE ClientStep
  BY <1>1, <1>2, SendClientHelloKeeps, AcceptHelloKeeps, SendRequestKeeps, SendChunkKeeps,
     CloseInputKeeps, ReceiveReceiptKeeps, SucceedKeeps, HangUpKeeps, ClientFailsKeeps DEF
     ClientStep
<1>3. CASE RelayStep
  BY <1>1, <1>3, ForwardClientHelloKeeps, ForwardHelloKeeps, ForwardRequestKeeps,
     ForwardChunkKeeps,
     SeeEndKeeps, MarkEndKeeps, CloseDaemonInputKeeps, ForwardReceiptKeeps, RelayFailsKeeps DEF
     RelayStep
<1>4. CASE DaemonStep
  BY <1>1, <1>4, ReceiveClientHelloKeeps, GreetKeeps, ReceiveRequestKeeps, ClaimKeeps,
     ReceiveChunkKeeps, ReceiveMarkerKeeps, ReceiveEndKeeps, EffectKeeps, RecordKeeps,
     AnswerKeeps,
     DaemonFailsKeeps DEF DaemonStep
<1>5. CASE Fault
  BY <1>1, <1>5, ClientFailsKeeps, RelayFailsKeeps, DaemonFailsKeeps, LoseConnectionKeeps DEF
     Fault
<1>6. CASE UNCHANGED vars
  <2>1. /\ UNCHANGED <<client, relay, daemon, pipe, ended, broken, requestNonce, count, helloNonce>>
        /\ UNCHANGED <<sent, forwarded, endSeen, received, claim, effects, recorded, faults>>
    BY <1>6 DEF vars, parties, channels, call, progress, journal
  <2>2. Types' /\ ClientInv' /\ RelayInv' /\ DaemonInv'
    BY <2>1 DEF DialogueInv, Types, ClientInv, RelayInv, DaemonInv
  <2>3. FrameInv' /\ CountInv'
    BY <2>1 DEF DialogueInv, FrameInv, CountInv, HasFrame, Submitted, ClientWrote, RelayRead,
       RelayWrote, DaemonRead
  <2> QED
    BY <2>2, <2>3 DEF DialogueInv
<1> QED
  BY <1>2, <1>3, <1>4, <1>5, <1>6 DEF Next

\* Parties, pipes and journal agree at every moment of a call, for pipes of
\* any capacity and requests of any length, whoever fails and when.
THEOREM DialogueCorrect == Spec => []DialogueInv
<1> QED
  BY InitDialogue, DialogueStep, PTL DEF Spec

\* Parties, pipes and journal stay in their types, no pipe holds more than
\* its capacity and no party has passed on what it did not have.
THEOREM TypeCorrect == Spec => []TypeOK
<1>1. DialogueInv => TypeOK
  BY DEF DialogueInv, Types, TypeOK, ClientInv, RelayInv, DaemonInv
<1> QED
  BY <1>1, DialogueCorrect, PTL

\* A definite failure is one: the daemon has not claimed the operation and
\* called no backend; a success is one effect, on record, cleanly relayed.
THEOREM VerdictHonest == Spec => []VerdictIsHonest
<1>1. ASSUME DialogueInv, client = "failed"
      PROVE  claim # "here" /\ effects = 0
  BY <1>1 DEF DialogueInv, Types, FrameInv, DaemonInv, Submitted
<1>2. ASSUME DialogueInv, client = "succeeded"
      PROVE  claim = "here" /\ effects = 1 /\ recorded /\ relay = "done"
  BY <1>2 DEF DialogueInv, FrameInv, DaemonInv, ClientInv, Acting
<1>3. DialogueInv => VerdictIsHonest
  BY <1>1, <1>2 DEF VerdictIsHonest
<1> QED
  BY <1>3, DialogueCorrect, PTL

\* No effect without the whole request, claimed here, and the relay's word
\* that the client's input has ended.
THEOREM EffectPermitted == Spec => []EffectIsPermitted
<1>1. ASSUME DialogueInv, effects > 0
      PROVE  /\ requestNonce = helloNonce /\ claim = "here"
             /\ sent = count /\ received = count /\ "stdin" \in ended /\ endSeen
  <2>1. endSeen /\ forwarded = count /\ sent \in Nat /\ count \in Nat
    BY <1>1 DEF DialogueInv, FrameInv, RelayInv, Types
  <2>2. sent = count
    BY <1>1, <2>1 DEF DialogueInv, RelayInv, ClientInv
  <2> QED
    BY <1>1, <2>1, <2>2 DEF DialogueInv, DaemonInv, RelayInv
<1>2. DialogueInv => EffectIsPermitted
  BY <1>1 DEF EffectIsPermitted
<1> QED
  BY <1>2, DialogueCorrect, PTL

-----------------------------------------------------------------------------
(* AttachSession: the claim, the delivery and its acknowledgement          *)

\* The daemon's claim: one attempt per container is on record, an answer is
\* true, and nothing that needs the claim is done without the answer.
RowsApart ==
  \A s, t \in rows : s # t => ContainerOf[s] # ContainerOf[t]

BeforeClaim == {"none", "new", "ticket_sent", "ready_received"}
AfterClaim ==
  {"claim_sent", "chunks_sent", "write_closed", "terminal_ack_received", "closed"}

Claiming(s) ==
  /\ answer[s] = "claimed" => s \in rows
  /\ answer[s] \in {"none", "replayed"} => s \notin rows
  /\ aDaemon[s] \in BeforeClaim => answer[s] = "none"
  /\ aDaemon[s] = "rejected" => answer[s] = "replayed"
  /\ aDaemon[s] \in AfterClaim \/ next[s] > 0 \/ Attach!Delivering(s) => answer[s] = "claimed"

\* Nothing is written to the wrapper after the end of its input.
Closing(s) ==
  down[s].end =>
    next[s] = 0 /\ aDaemon[s] \in {"write_closed", "terminal_ack_received", "closed",
                                   "ambiguous", "lost"}

\* The sink has taken every chunk and the wrapper's input has ended.
Delivered(s) == Len(accepted[s]) = ChunkCount /\ Attach!EndReached(down, s)

Acknowledged(s) ==
  \/ Attach!Frame("ack") \in Attach!Range(up[s].frames)
  \/ aDaemon[s] \in {"terminal_ack_received", "closed"}

\* The wrapper's progress, and what an acknowledgement says about it.
Consuming(s) ==
  /\ \A i \in 1 .. Len(accepted[s]) : accepted[s][i] = i
  /\ wrapper[s] \in {"none", "new", "ready_received", "claim_sent"} => Len(accepted[s]) = 0
  /\ wrapper[s] = "consuming" => Len(accepted[s]) < ChunkCount
  /\ wrapper[s] \in {"chunks_sent", "write_closed", "closed"} => Len(accepted[s]) = ChunkCount
  /\ wrapper[s] \in {"write_closed", "closed"} \/ Acknowledged(s) => Delivered(s)
  /\ Acknowledged(s) => wrapper[s] \in {"closed", "ambiguous", "lost"}

SessionInv(s) == Claiming(s) /\ Closing(s) /\ Consuming(s)

AttachInv == Attach!TypeOK /\ RowsApart /\ \A s \in Sessions : SessionInv(s)


-----------------------------------------------------------------------------
(* Streams                                                                 *)

SecretFrames == {Attach!Frame("claim")} \cup {Attach!Chunk(i) : i \in Attach!Chunks}

\* A stream of session s that has lost frames or got some of the given ones.
Changed(stream, new, s, frames) ==
  /\ new \in [Sessions -> Attach!Stream]
  /\ new[s].end = stream[s].end
  /\ Attach!Range(new[s].frames) \subseteq Attach!Range(stream[s].frames) \cup frames
  /\ \A t \in Sessions \ {s} : new[t] = stream[t]

LEMMA FrameFacts ==
  /\ {Attach!Frame("ticket"), Attach!Frame("ready"), Attach!Frame("claim"), Attach!Frame("ack"),
      Attach!Frame("torn")}
       \subseteq Attach!Frames
  /\ \A i \in Attach!Chunks :
       Attach!Chunk(i) \in Attach!Frames /\ Attach!Chunk(i) \in SecretFrames
  /\ Attach!Frame("claim") \in SecretFrames /\ Attach!Frame("ack") \notin SecretFrames
  /\ Attach!Frame("ticket") \notin SecretFrames /\ Attach!Frame("torn") \notin SecretFrames
  /\ Attach!Frame("ready") # Attach!Frame("ack") /\ Attach!Frame("torn") # Attach!Frame("ack")
  BY DEF Attach!Frames, Attach!Frame, Attach!Chunk, Attach!Chunks, SecretFrames

LEMMA SetsFrames ==
  ASSUME NEW stream \in [Sessions -> Attach!Stream], NEW s \in Sessions,
         NEW q \in Seq(Attach!Frames)
  PROVE  LET new == [stream EXCEPT ![s].frames = q]
         IN  /\ new \in [Sessions -> Attach!Stream] /\ new[s].frames = q
             /\ new[s].end = stream[s].end
             /\ \A t \in Sessions \ {s} : new[t] = stream[t]
  BY DEF Attach!Stream

\* A frame written whole.
LEMMA WrittenChanges ==
  ASSUME NEW stream \in [Sessions -> Attach!Stream], NEW s \in Sessions,
         NEW frame \in Attach!Frames
  PROVE  Changed(stream, Attach!Written(stream, s, frame), s, {frame})
<1> DEFINE q == Append(stream[s].frames, frame)
<1>1. stream[s].frames \in Seq(Attach!Frames)
  BY DEF Attach!Stream
<1>2. /\ q \in Seq(Attach!Frames)
      /\ Attach!Range(q) \subseteq Attach!Range(stream[s].frames) \cup {frame}
  BY <1>1 DEF Attach!Range
<1>3. Attach!Written(stream, s, frame) = [stream EXCEPT ![s].frames = q]
  BY DEF Attach!Written
<1> HIDE DEF q
<1> QED
  BY <1>2, <1>3, SetsFrames DEF Changed

\* A write that fails.
LEMMA FailedWriteChanges ==
  ASSUME NEW stream \in [Sessions -> Attach!Stream], NEW s \in Sessions,
         NEW frame \in Attach!Frames,
         NEW new \in Attach!WriteFails(stream, s, frame)
  PROVE  Changed(stream, new, s, {frame, Attach!Frame("torn")})
<1>1. CASE new = stream
  BY <1>1 DEF Changed
<1>4. ASSUME NEW f \in {frame, Attach!Frame("torn")}, Changed(stream, new, s, {f})
      PROVE  Changed(stream, new, s, {frame, Attach!Frame("torn")})
  BY <1>4 DEF Changed
<1>5. Attach!Frame("torn") \in Attach!Frames
  BY FrameFacts
<1>2. CASE new = Attach!Written(stream, s, Attach!Frame("torn"))
  BY <1>2, <1>4, <1>5, WrittenChanges
<1>3. CASE new = Attach!Written(stream, s, frame)
  BY <1>3, <1>4, WrittenChanges
<1> QED
  BY <1>1, <1>2, <1>3 DEF Attach!WriteFails

\* Any write.
LEMMA WriteChanges ==
  ASSUME NEW stream \in [Sessions -> Attach!Stream], NEW s \in Sessions,
         NEW frame \in Attach!Frames
  PROVE  \A new \in Attach!WriteFails(stream, s, frame) \cup {Attach!Written(stream, s, frame)} :
           Changed(stream, new, s, {frame, Attach!Frame("torn")})
<1>1. Attach!Written(stream, s, frame) \in Attach!WriteFails(stream, s, frame)
  BY DEF Attach!WriteFails
<1> QED
  BY <1>1, FailedWriteChanges

LEMMA UnchangedStream ==
  ASSUME NEW stream \in [Sessions -> Attach!Stream], NEW s \in Sessions, NEW frames
  PROVE  Changed(stream, stream, s, frames)
  BY DEF Changed

\* A frame that is read was on the stream.
LEMMA ReadChanges ==
  ASSUME NEW stream \in [Sessions -> Attach!Stream], NEW s \in Sessions, NEW frame,
         Attach!Arrives(stream, s, frame)
  PROVE  /\ Changed(stream, Attach!Read(stream, s), s, {})
         /\ frame \in Attach!Range(stream[s].frames)
         /\ ~Attach!EndReached(stream, s)
<1> DEFINE p == stream[s].frames
<1> DEFINE q == Tail(p)
<1>1. p \in Seq(Attach!Frames) /\ p # <<>> /\ Head(p) = frame
  BY DEF Attach!Stream, Attach!Arrives
<1>2. Len(p) \in Nat \ {0} /\ Len(q) = Len(p) - 1 /\ q \in Seq(Attach!Frames)
  BY <1>1
<1>3. \A i \in 1 .. Len(q) : i + 1 \in 1 .. Len(p) /\ q[i] = p[i + 1]
  BY <1>1, <1>2
<1>4. 1 \in 1 .. Len(p) /\ p[1] = frame
  BY <1>1, <1>2
<1>5. DOMAIN p = 1 .. Len(p) /\ DOMAIN q = 1 .. Len(q)
  BY <1>1, <1>2
<1>6. frame \in Attach!Range(p) /\ Attach!Range(q) \subseteq Attach!Range(p)
  BY <1>3, <1>4, <1>5 DEF Attach!Range
<1>7. Attach!Read(stream, s) = [stream EXCEPT ![s].frames = q]
  BY DEF Attach!Read
<1>8. ~Attach!EndReached(stream, s)
  BY <1>1 DEF Attach!EndReached
<1> HIDE DEF q
<1>9. Changed(stream, Attach!Read(stream, s), s, {})
  BY <1>2, <1>6, <1>7, SetsFrames DEF Changed
<1> QED
  BY <1>6, <1>8, <1>9

\* The end of a stream leaves what is on it.
LEMMA EndedStream ==
  ASSUME NEW stream \in [Sessions -> Attach!Stream], NEW s \in Sessions
  PROVE  /\ Attach!Ended(stream, s) \in [Sessions -> Attach!Stream]
         /\ Attach!Ended(stream, s)[s].end
         /\ Attach!Ended(stream, s)[s].frames = stream[s].frames
         /\ \A t \in Sessions \ {s} : Attach!Ended(stream, s)[t] = stream[t]
  BY DEF Attach!Ended, Attach!Stream

LEMMA BecomesFacts ==
  ASSUME NEW D, NEW machine \in [Sessions -> D], NEW s \in Sessions, NEW state \in D
  PROVE  /\ Attach!Becomes(machine, s, state) \in [Sessions -> D]
         /\ Attach!Becomes(machine, s, state)[s] = state
         /\ \A t \in Sessions \ {s} : Attach!Becomes(machine, s, state)[t] = machine[t]
  BY DEF Attach!Becomes

-----------------------------------------------------------------------------
(* The steps                                                               *)

\* A session that a step leaves alone keeps its part of the invariant.
LEMMA OthersKeep ==
  ASSUME AttachInv, NEW t \in Sessions,
         aDaemon'[t] = aDaemon[t], wrapper'[t] = wrapper[t], down'[t] = down[t],
         up'[t] = up[t], answer'[t] = answer[t], t \in rows' <=> t \in rows,
         next'[t] = next[t], accepted'[t] = accepted[t]
  PROVE  SessionInv(t)'
<1>1. SessionInv(t)
  BY DEF AttachInv
<1>2. /\ Attach!Delivering(t)' = Attach!Delivering(t)
     /\ Attach!EndReached(down, t)' = Attach!EndReached(down, t)
  BY DEF Attach!Delivering, Attach!EndReached
<1>3. Claiming(t)' /\ Closing(t)'
  BY <1>1, <1>2 DEF SessionInv, Claiming, Closing
<1>4. Consuming(t)'
  BY <1>1, <1>2 DEF SessionInv, Consuming, Delivered, Acknowledged
<1> QED
  BY <1>3, <1>4 DEF SessionInv

LEMMA AttachKeeps ==
  ASSUME Attach!SessionsAssumption, AttachInv, NEW s \in Sessions, Attach!Attach(s)
  PROVE  AttachInv'
<1>1. /\ aDaemon[s] = "none"
      /\ aDaemon'[s] = "new"
      /\ aDaemon' \in [Sessions -> Attach!DaemonStates]
      /\ \A t \in Sessions \ {s} : aDaemon'[t] = aDaemon[t]
      /\ UNCHANGED <<wrapper, down, up, answer, rows, next, accepted, expired>>
  <2>1. /\ aDaemon \in [Sessions -> Attach!DaemonStates]
        /\ wrapper \in [Sessions -> Attach!WrapperStates]
        /\ down \in [Sessions -> Attach!Stream] /\ up \in [Sessions -> Attach!Stream]
    BY DEF AttachInv, Attach!TypeOK
  <2> QED
    BY <2>1 DEF Attach!Attach, Attach!Becomes, Attach!DaemonStates
<1>2. Attach!TypeOK'
  BY <1>1 DEF AttachInv, Attach!TypeOK, Changed
<1>3. RowsApart'
  BY <1>1 DEF AttachInv, RowsApart
<1>4. \A t \in Sessions \ {s} : SessionInv(t)'
  BY <1>1, OthersKeep DEF Changed
<1>5. SessionInv(s)'
  <2>1. /\ SessionInv(s) /\ ChunkCount \in Nat \ {0}
        /\ next[s] \in Nat /\ Len(accepted[s]) \in Nat
    BY DEF AttachInv, Attach!TypeOK, Attach!SessionsAssumption
  <2>2. Attach!Delivering(s)' => Attach!Delivering(s)
    BY <1>1 DEF Attach!Delivering
  <2>3. Claiming(s)'
    BY <1>1, <2>1, <2>2 DEF SessionInv, Claiming, BeforeClaim, AfterClaim
  <2>4. Closing(s)'
    BY <1>1, <2>1 DEF SessionInv, Closing, Changed
  <2>5. Consuming(s)'
    BY <1>1, <2>1 DEF SessionInv, Consuming, Acknowledged, Delivered, Attach!EndReached
  <2> QED
    BY <2>3, <2>4, <2>5 DEF SessionInv
<1> QED
  BY <1>2, <1>3, <1>4, <1>5 DEF AttachInv

LEMMA WriteTicketKeeps ==
  ASSUME Attach!SessionsAssumption, AttachInv, NEW s \in Sessions, Attach!WriteTicket(s)
  PROVE  AttachInv'
<1>1. /\ aDaemon[s] = "new"
      /\ aDaemon'[s] \in {"ticket_sent", "ambiguous"}
      /\ Changed(down, down', s, {Attach!Frame("ticket"), Attach!Frame("torn")})
      /\ aDaemon' \in [Sessions -> Attach!DaemonStates]
      /\ \A t \in Sessions \ {s} : aDaemon'[t] = aDaemon[t]
      /\ UNCHANGED <<wrapper, up, answer, rows, next, accepted, expired>>
  <2>1. /\ aDaemon \in [Sessions -> Attach!DaemonStates]
        /\ wrapper \in [Sessions -> Attach!WrapperStates]
        /\ down \in [Sessions -> Attach!Stream] /\ up \in [Sessions -> Attach!Stream]
    BY DEF AttachInv, Attach!TypeOK
  <2>2. Changed(down, down', s, {Attach!Frame("ticket"), Attach!Frame("torn")})
    BY <2>1, WriteChanges, FrameFacts DEF Attach!WriteTicket
  <2> QED
    BY <2>1, <2>2 DEF Attach!WriteTicket, Attach!Becomes, Attach!DaemonStates
<1>2. Attach!TypeOK'
  BY <1>1 DEF AttachInv, Attach!TypeOK, Changed
<1>3. RowsApart'
  BY <1>1 DEF AttachInv, RowsApart
<1>4. \A t \in Sessions \ {s} : SessionInv(t)'
  BY <1>1, OthersKeep DEF Changed
<1>5. SessionInv(s)'
  <2>1. /\ SessionInv(s) /\ ChunkCount \in Nat \ {0}
        /\ next[s] \in Nat /\ Len(accepted[s]) \in Nat
    BY DEF AttachInv, Attach!TypeOK, Attach!SessionsAssumption
  <2>2. Attach!Delivering(s)' => Attach!Delivering(s)
    BY <1>1, FrameFacts DEF Changed, Attach!Delivering, SecretFrames
  <2>3. Claiming(s)'
    BY <1>1, <2>1, <2>2 DEF SessionInv, Claiming, BeforeClaim, AfterClaim
  <2>4. Closing(s)'
    BY <1>1, <2>1 DEF SessionInv, Closing, Changed
  <2>5. Consuming(s)'
    BY <1>1, <2>1
    DEF SessionInv, Consuming, Acknowledged, Delivered, Attach!EndReached, Changed, Closing
  <2> QED
    BY <2>3, <2>4, <2>5 DEF SessionInv
<1> QED
  BY <1>2, <1>3, <1>4, <1>5 DEF AttachInv

LEMMA ReadReadyKeeps ==
  ASSUME Attach!SessionsAssumption, AttachInv, NEW s \in Sessions, Attach!ReadReady(s)
  PROVE  AttachInv'
<1>1. /\ aDaemon[s] = "ticket_sent"
      /\ aDaemon'[s] \in {"ready_received", "ambiguous"}
      /\ Changed(up, up', s, {})
      /\ aDaemon' \in [Sessions -> Attach!DaemonStates]
      /\ \A t \in Sessions \ {s} : aDaemon'[t] = aDaemon[t]
      /\ UNCHANGED <<wrapper, down, answer, rows, next, accepted, expired>>
  <2>1. /\ aDaemon \in [Sessions -> Attach!DaemonStates]
        /\ wrapper \in [Sessions -> Attach!WrapperStates]
        /\ down \in [Sessions -> Attach!Stream] /\ up \in [Sessions -> Attach!Stream]
    BY DEF AttachInv, Attach!TypeOK
  <2>2. Changed(up, up', s, {})
    BY <2>1, ReadChanges, UnchangedStream DEF Attach!ReadReady
  <2> QED
    BY <2>1, <2>2 DEF Attach!ReadReady, Attach!Becomes, Attach!DaemonStates
<1>2. Attach!TypeOK'
  BY <1>1 DEF AttachInv, Attach!TypeOK, Changed
<1>3. RowsApart'
  BY <1>1 DEF AttachInv, RowsApart
<1>4. \A t \in Sessions \ {s} : SessionInv(t)'
  BY <1>1, OthersKeep DEF Changed
<1>5. SessionInv(s)'
  <2>1. /\ SessionInv(s) /\ ChunkCount \in Nat \ {0}
        /\ next[s] \in Nat /\ Len(accepted[s]) \in Nat
    BY DEF AttachInv, Attach!TypeOK, Attach!SessionsAssumption
  <2>2. Attach!Delivering(s)' => Attach!Delivering(s)
    BY <1>1 DEF Attach!Delivering
  <2>3. Claiming(s)'
    BY <1>1, <2>1, <2>2 DEF SessionInv, Claiming, BeforeClaim, AfterClaim
  <2>4. Closing(s)'
    BY <1>1, <2>1 DEF SessionInv, Closing, Changed
  <2>5. Consuming(s)'
    BY <1>1, <2>1 DEF SessionInv, Consuming, Acknowledged, Delivered, Attach!EndReached, Changed
  <2> QED
    BY <2>3, <2>4, <2>5 DEF SessionInv
<1> QED
  BY <1>2, <1>3, <1>4, <1>5 DEF AttachInv

LEMMA AttemptClaimKeeps ==
  ASSUME Attach!SessionsAssumption, AttachInv, NEW s \in Sessions, Attach!AttemptClaim(s)
  PROVE  AttachInv'
<1>1. /\ aDaemon[s] = "ready_received"
      /\ aDaemon'[s] \in {"claim_attempted", "ambiguous"}
      /\ aDaemon' \in [Sessions -> Attach!DaemonStates]
      /\ \A t \in Sessions \ {s} : aDaemon'[t] = aDaemon[t]
      /\ UNCHANGED <<wrapper, down, up, answer, rows, next, accepted, expired>>
  <2>1. /\ aDaemon \in [Sessions -> Attach!DaemonStates]
        /\ wrapper \in [Sessions -> Attach!WrapperStates]
        /\ down \in [Sessions -> Attach!Stream] /\ up \in [Sessions -> Attach!Stream]
    BY DEF AttachInv, Attach!TypeOK
  <2> QED
    BY <2>1 DEF Attach!AttemptClaim, Attach!Becomes, Attach!DaemonStates
<1>2. Attach!TypeOK'
  BY <1>1 DEF AttachInv, Attach!TypeOK, Changed
<1>3. RowsApart'
  BY <1>1 DEF AttachInv, RowsApart
<1>4. \A t \in Sessions \ {s} : SessionInv(t)'
  BY <1>1, OthersKeep DEF Changed
<1>5. SessionInv(s)'
  <2>1. /\ SessionInv(s) /\ ChunkCount \in Nat \ {0}
        /\ next[s] \in Nat /\ Len(accepted[s]) \in Nat
    BY DEF AttachInv, Attach!TypeOK, Attach!SessionsAssumption
  <2>2. Attach!Delivering(s)' => Attach!Delivering(s)
    BY <1>1 DEF Attach!Delivering
  <2>3. Claiming(s)'
    BY <1>1, <2>1, <2>2 DEF SessionInv, Claiming, BeforeClaim, AfterClaim
  <2>4. Closing(s)'
    BY <1>1, <2>1 DEF SessionInv, Closing, Changed
  <2>5. Consuming(s)'
    BY <1>1, <2>1 DEF SessionInv, Consuming, Acknowledged, Delivered, Attach!EndReached
  <2> QED
    BY <2>3, <2>4, <2>5 DEF SessionInv
<1> QED
  BY <1>2, <1>3, <1>4, <1>5 DEF AttachInv

LEMMA AuthorityAnswersKeeps ==
  ASSUME Attach!SessionsAssumption, AttachInv, NEW s \in Sessions, Attach!AuthorityAnswers(s)
  PROVE  AttachInv'
<1>1. /\ aDaemon[s] = "claim_attempted" /\ answer[s] = "none"
      /\ \/ ~Attach!Claimed(s) /\ rows' = rows \cup {s}
            /\ answer'[s] \in {"claimed", "unavailable"}
         \/ rows' = rows /\ answer'[s] \in {"replayed", "unavailable"}
      /\ answer' \in [Sessions -> {"none", "claimed", "replayed", "unavailable"}]
      /\ \A t \in Sessions \ {s} : answer'[t] = answer[t]
      /\ UNCHANGED <<aDaemon, wrapper, down, up, next, accepted, expired>>
  <2>1. /\ aDaemon \in [Sessions -> Attach!DaemonStates]
        /\ wrapper \in [Sessions -> Attach!WrapperStates]
        /\ down \in [Sessions -> Attach!Stream] /\ up \in [Sessions -> Attach!Stream]
    BY DEF AttachInv, Attach!TypeOK
  <2> QED
    BY <2>1 DEF Attach!AuthorityAnswers, Attach!Becomes, AttachInv, Attach!TypeOK
<1>2. Attach!TypeOK'
  BY <1>1 DEF AttachInv, Attach!TypeOK, Changed
<1>3. RowsApart'
  BY <1>1 DEF AttachInv, RowsApart, Attach!Claimed, Attach!TypeOK
<1>4. \A t \in Sessions \ {s} : SessionInv(t)'
  BY <1>1, OthersKeep DEF Changed
<1>5. SessionInv(s)'
  <2>1. /\ SessionInv(s) /\ ChunkCount \in Nat \ {0}
        /\ next[s] \in Nat /\ Len(accepted[s]) \in Nat
    BY DEF AttachInv, Attach!TypeOK, Attach!SessionsAssumption
  <2>2. Attach!Delivering(s)' => Attach!Delivering(s)
    BY <1>1 DEF Attach!Delivering
  <2>3. Claiming(s)'
    BY <1>1, <2>1, <2>2 DEF SessionInv, Claiming, BeforeClaim, AfterClaim
  <2>4. Closing(s)'
    BY <1>1, <2>1 DEF SessionInv, Closing, Changed
  <2>5. Consuming(s)'
    BY <1>1, <2>1 DEF SessionInv, Consuming, Acknowledged, Delivered, Attach!EndReached
  <2> QED
    BY <2>3, <2>4, <2>5 DEF SessionInv
<1> QED
  BY <1>2, <1>3, <1>4, <1>5 DEF AttachInv

LEMMA WriteClaimKeeps ==
  ASSUME Attach!SessionsAssumption, AttachInv, NEW s \in Sessions, Attach!WriteClaim(s)
  PROVE  AttachInv'
<1>1. /\ aDaemon[s] = "claim_attempted"
      /\ Changed(down, down', s, {Attach!Frame("claim"), Attach!Frame("torn")})
      /\ \/ answer[s] = "replayed" /\ aDaemon'[s] = "rejected" /\ down' = down
         \/ answer[s] = "unavailable" /\ aDaemon'[s] = "ambiguous" /\ down' = down
         \/ answer[s] = "claimed" /\ aDaemon'[s] \in {"claim_sent", "ambiguous"}
      /\ aDaemon' \in [Sessions -> Attach!DaemonStates]
      /\ \A t \in Sessions \ {s} : aDaemon'[t] = aDaemon[t]
      /\ UNCHANGED <<wrapper, up, answer, rows, next, accepted, expired>>
  <2>1. /\ aDaemon \in [Sessions -> Attach!DaemonStates]
        /\ wrapper \in [Sessions -> Attach!WrapperStates]
        /\ down \in [Sessions -> Attach!Stream] /\ up \in [Sessions -> Attach!Stream]
    BY DEF AttachInv, Attach!TypeOK
  <2>2. Changed(down, down', s, {Attach!Frame("claim"), Attach!Frame("torn")})
    BY <2>1, WriteChanges, FrameFacts, UnchangedStream DEF Attach!WriteClaim
  <2> QED
    BY <2>1, <2>2 DEF Attach!WriteClaim, Attach!Becomes, Attach!DaemonStates
<1>2. Attach!TypeOK'
  BY <1>1 DEF AttachInv, Attach!TypeOK, Changed
<1>3. RowsApart'
  BY <1>1 DEF AttachInv, RowsApart
<1>4. \A t \in Sessions \ {s} : SessionInv(t)'
  BY <1>1, OthersKeep DEF Changed
<1>5. SessionInv(s)'
  <2>1. /\ SessionInv(s) /\ ChunkCount \in Nat \ {0}
        /\ next[s] \in Nat /\ Len(accepted[s]) \in Nat
    BY DEF AttachInv, Attach!TypeOK, Attach!SessionsAssumption
  <2>2. Attach!Delivering(s)' => Attach!Delivering(s) \/ answer[s] = "claimed"
    BY <1>1, FrameFacts DEF Changed, Attach!Delivering, SecretFrames
  <2>3. Claiming(s)'
    BY <1>1, <2>1, <2>2 DEF SessionInv, Claiming, BeforeClaim, AfterClaim
  <2>4. Closing(s)'
    BY <1>1, <2>1 DEF SessionInv, Closing, Changed
  <2>5. Consuming(s)'
    BY <1>1, <2>1
    DEF SessionInv, Consuming, Acknowledged, Delivered, Attach!EndReached, Changed, Closing
  <2> QED
    BY <2>3, <2>4, <2>5 DEF SessionInv
<1> QED
  BY <1>2, <1>3, <1>4, <1>5 DEF AttachInv

LEMMA StartChunksKeeps ==
  ASSUME Attach!SessionsAssumption, AttachInv, NEW s \in Sessions, Attach!StartChunks(s)
  PROVE  AttachInv'
<1>1. /\ aDaemon[s] = "claim_sent"
      /\ aDaemon'[s] \in {"chunks_sent", "ambiguous"}
      /\ aDaemon' \in [Sessions -> Attach!DaemonStates]
      /\ \A t \in Sessions \ {s} : aDaemon'[t] = aDaemon[t]
      /\ next' \in [Sessions -> 0 .. ChunkCount]
      /\ \A t \in Sessions \ {s} : next'[t] = next[t]
      /\ UNCHANGED <<wrapper, down, up, answer, rows, accepted, expired>>
  <2>1. /\ aDaemon \in [Sessions -> Attach!DaemonStates]
        /\ wrapper \in [Sessions -> Attach!WrapperStates]
        /\ down \in [Sessions -> Attach!Stream] /\ up \in [Sessions -> Attach!Stream]
    BY DEF AttachInv, Attach!TypeOK
  <2>2. next \in [Sessions -> 0 .. ChunkCount] /\ 1 \in 0 .. ChunkCount
    BY DEF AttachInv, Attach!TypeOK, Attach!SessionsAssumption
  <2> QED
    BY <2>1, <2>2 DEF Attach!StartChunks, Attach!Becomes, Attach!DaemonStates
<1>2. Attach!TypeOK'
  BY <1>1 DEF AttachInv, Attach!TypeOK, Changed
<1>3. RowsApart'
  BY <1>1 DEF AttachInv, RowsApart
<1>4. \A t \in Sessions \ {s} : SessionInv(t)'
  BY <1>1, OthersKeep DEF Changed
<1>5. SessionInv(s)'
  <2>1. /\ SessionInv(s) /\ ChunkCount \in Nat \ {0}
        /\ next[s] \in Nat /\ Len(accepted[s]) \in Nat
    BY DEF AttachInv, Attach!TypeOK, Attach!SessionsAssumption
  <2>2. Attach!Delivering(s)' => Attach!Delivering(s)
    BY <1>1 DEF Attach!Delivering
  <2>3. Claiming(s)'
    BY <1>1, <2>1, <2>2 DEF SessionInv, Claiming, BeforeClaim, AfterClaim
  <2>4. Closing(s)'
    BY <1>1, <2>1 DEF SessionInv, Closing, Changed
  <2>5. Consuming(s)'
    BY <1>1, <2>1 DEF SessionInv, Consuming, Acknowledged, Delivered, Attach!EndReached
  <2> QED
    BY <2>3, <2>4, <2>5 DEF SessionInv
<1> QED
  BY <1>2, <1>3, <1>4, <1>5 DEF AttachInv

LEMMA WriteChunkKeeps ==
  ASSUME Attach!SessionsAssumption, AttachInv, NEW s \in Sessions, Attach!WriteChunk(s)
  PROVE  AttachInv'
<1>1. /\ next[s] > 0 /\ aDaemon'[s] \in {aDaemon[s], "ambiguous"}
      /\ Changed(down, down', s, {Attach!Chunk(next[s]), Attach!Frame("torn")})
      /\ aDaemon' \in [Sessions -> Attach!DaemonStates]
      /\ \A t \in Sessions \ {s} : aDaemon'[t] = aDaemon[t]
      /\ next' \in [Sessions -> 0 .. ChunkCount]
      /\ \A t \in Sessions \ {s} : next'[t] = next[t]
      /\ UNCHANGED <<wrapper, up, answer, rows, accepted, expired>>
  <2>1. /\ aDaemon \in [Sessions -> Attach!DaemonStates]
        /\ wrapper \in [Sessions -> Attach!WrapperStates]
        /\ down \in [Sessions -> Attach!Stream] /\ up \in [Sessions -> Attach!Stream]
    BY DEF AttachInv, Attach!TypeOK
  <2>4. ChunkCount \in Nat /\ next \in [Sessions -> 0 .. ChunkCount] /\ next[s] \in Attach!Chunks
    BY DEF Attach!WriteChunk, AttachInv, Attach!TypeOK, Attach!SessionsAssumption, Attach!Chunks
  <2>5. Attach!Chunk(next[s]) \in Attach!Frames
    BY <2>4, FrameFacts
  <2>2. Changed(down, down', s, {Attach!Chunk(next[s]), Attach!Frame("torn")})
    BY <2>1, <2>5, WriteChanges DEF Attach!WriteChunk
  <2>3. /\ next' \in [Sessions -> 0 .. ChunkCount]
        /\ \A t \in Sessions \ {s} : next'[t] = next[t]
    <3>1. \A m \in 0 .. ChunkCount :
            /\ [next EXCEPT ![s] = m] \in [Sessions -> 0 .. ChunkCount]
            /\ \A t \in Sessions \ {s} : [next EXCEPT ![s] = m][t] = next[t]
      BY <2>4
    <3>2. PICK m \in 0 .. ChunkCount : next' = [next EXCEPT ![s] = m]
      BY <2>4 DEF Attach!WriteChunk, Attach!Chunks
    <3> QED
      BY <3>1, <3>2
  <2> QED
    BY <2>1, <2>2, <2>3 DEF Attach!WriteChunk, Attach!Becomes, Attach!DaemonStates
<1>2. Attach!TypeOK'
  BY <1>1 DEF AttachInv, Attach!TypeOK, Changed
<1>3. RowsApart'
  BY <1>1 DEF AttachInv, RowsApart
<1>4. \A t \in Sessions \ {s} : SessionInv(t)'
  BY <1>1, OthersKeep DEF Changed
<1>5. SessionInv(s)'
  <2>1. /\ SessionInv(s) /\ ChunkCount \in Nat \ {0}
        /\ next[s] \in Nat /\ Len(accepted[s]) \in Nat
    BY DEF AttachInv, Attach!TypeOK, Attach!SessionsAssumption
  <2>2. Attach!Delivering(s)' => answer[s] = "claimed"
    BY <1>1, <2>1 DEF SessionInv, Claiming
  <2>3. Claiming(s)'
    BY <1>1, <2>1, <2>2 DEF SessionInv, Claiming, BeforeClaim, AfterClaim
  <2>4. Closing(s)'
    BY <1>1, <2>1 DEF SessionInv, Closing, Changed
  <2>5. Consuming(s)'
    BY <1>1, <2>1
    DEF SessionInv, Consuming, Acknowledged, Delivered, Attach!EndReached, Changed, Closing
  <2> QED
    BY <2>3, <2>4, <2>5 DEF SessionInv
<1> QED
  BY <1>2, <1>3, <1>4, <1>5 DEF AttachInv

LEMMA CloseWriteKeeps ==
  ASSUME Attach!SessionsAssumption, AttachInv, NEW s \in Sessions, Attach!CloseWrite(s)
  PROVE  AttachInv'
<1>1. /\ aDaemon[s] = "chunks_sent"
      /\ aDaemon'[s] \in {"write_closed", "ambiguous"}
      /\ next[s] = 0
      /\ down'[s].frames = down[s].frames /\ (down[s].end => down'[s].end)
      /\ aDaemon' \in [Sessions -> Attach!DaemonStates]
      /\ \A t \in Sessions \ {s} : aDaemon'[t] = aDaemon[t]
      /\ down' \in [Sessions -> Attach!Stream] /\ \A t \in Sessions \ {s} : down'[t] = down[t]
      /\ UNCHANGED <<wrapper, up, answer, rows, next, accepted, expired>>
  <2>1. /\ aDaemon \in [Sessions -> Attach!DaemonStates]
        /\ wrapper \in [Sessions -> Attach!WrapperStates]
        /\ down \in [Sessions -> Attach!Stream] /\ up \in [Sessions -> Attach!Stream]
    BY DEF AttachInv, Attach!TypeOK
  <2>2. down'[s].frames = down[s].frames /\ (down[s].end => down'[s].end)
        /\ down' \in [Sessions -> Attach!Stream] /\ \A t \in Sessions \ {s} : down'[t] = down[t]
    BY <2>1, EndedStream DEF Attach!CloseWrite
  <2> QED
    BY <2>1, <2>2 DEF Attach!CloseWrite, Attach!Becomes, Attach!DaemonStates
<1>2. Attach!TypeOK'
  BY <1>1 DEF AttachInv, Attach!TypeOK, Changed
<1>3. RowsApart'
  BY <1>1 DEF AttachInv, RowsApart
<1>4. \A t \in Sessions \ {s} : SessionInv(t)'
  BY <1>1, OthersKeep DEF Changed
<1>5. SessionInv(s)'
  <2>1. /\ SessionInv(s) /\ ChunkCount \in Nat \ {0}
        /\ next[s] \in Nat /\ Len(accepted[s]) \in Nat
    BY DEF AttachInv, Attach!TypeOK, Attach!SessionsAssumption
  <2>2. Attach!Delivering(s)' => Attach!Delivering(s)
    BY <1>1 DEF Attach!Delivering
  <2>3. Claiming(s)'
    BY <1>1, <2>1, <2>2 DEF SessionInv, Claiming, BeforeClaim, AfterClaim
  <2>4. Closing(s)'
    BY <1>1, <2>1 DEF SessionInv, Closing, Changed
  <2>5. Consuming(s)'
    BY <1>1, <2>1 DEF SessionInv, Consuming, Acknowledged, Delivered, Attach!EndReached, Closing
  <2> QED
    BY <2>3, <2>4, <2>5 DEF SessionInv
<1> QED
  BY <1>2, <1>3, <1>4, <1>5 DEF AttachInv

LEMMA ReadTerminalAckKeeps ==
  ASSUME Attach!SessionsAssumption, AttachInv, NEW s \in Sessions, Attach!ReadTerminalAck(s)
  PROVE  AttachInv'
<1>1. /\ aDaemon[s] = "write_closed"
      /\ aDaemon'[s] \in {"terminal_ack_received", "ambiguous"}
      /\ Changed(up, up', s, {})
      /\ aDaemon'[s] = "terminal_ack_received" =>
           Attach!Frame("ack") \in Attach!Range(up[s].frames)
      /\ aDaemon' \in [Sessions -> Attach!DaemonStates]
      /\ \A t \in Sessions \ {s} : aDaemon'[t] = aDaemon[t]
      /\ UNCHANGED <<wrapper, down, answer, rows, next, accepted, expired>>
  <2>1. /\ aDaemon \in [Sessions -> Attach!DaemonStates]
        /\ wrapper \in [Sessions -> Attach!WrapperStates]
        /\ down \in [Sessions -> Attach!Stream] /\ up \in [Sessions -> Attach!Stream]
    BY DEF AttachInv, Attach!TypeOK
  <2>2. Changed(up, up', s, {})
    BY <2>1, ReadChanges, UnchangedStream DEF Attach!ReadTerminalAck
  <2> QED
    BY <2>1, <2>2, ReadChanges DEF Attach!ReadTerminalAck, Attach!Becomes, Attach!DaemonStates
<1>2. Attach!TypeOK'
  BY <1>1 DEF AttachInv, Attach!TypeOK, Changed
<1>3. RowsApart'
  BY <1>1 DEF AttachInv, RowsApart
<1>4. \A t \in Sessions \ {s} : SessionInv(t)'
  BY <1>1, OthersKeep DEF Changed
<1>5. SessionInv(s)'
  <2>1. /\ SessionInv(s) /\ ChunkCount \in Nat \ {0}
        /\ next[s] \in Nat /\ Len(accepted[s]) \in Nat
    BY DEF AttachInv, Attach!TypeOK, Attach!SessionsAssumption
  <2>2. Attach!Delivering(s)' => Attach!Delivering(s)
    BY <1>1 DEF Attach!Delivering
  <2>3. Claiming(s)'
    BY <1>1, <2>1, <2>2 DEF SessionInv, Claiming, BeforeClaim, AfterClaim
  <2>4. Closing(s)'
    BY <1>1, <2>1 DEF SessionInv, Closing, Changed
  <2>5. Consuming(s)'
    BY <1>1, <2>1 DEF SessionInv, Consuming, Acknowledged, Delivered, Attach!EndReached, Changed
  <2> QED
    BY <2>3, <2>4, <2>5 DEF SessionInv
<1> QED
  BY <1>2, <1>3, <1>4, <1>5 DEF AttachInv

LEMMA RequireOutputEofKeeps ==
  ASSUME Attach!SessionsAssumption, AttachInv, NEW s \in Sessions, Attach!RequireOutputEof(s)
  PROVE  AttachInv'
<1>1. /\ aDaemon[s] = "terminal_ack_received"
      /\ aDaemon'[s] \in {"closed", "ambiguous"}
      /\ aDaemon' \in [Sessions -> Attach!DaemonStates]
      /\ \A t \in Sessions \ {s} : aDaemon'[t] = aDaemon[t]
      /\ UNCHANGED <<wrapper, down, up, answer, rows, next, accepted, expired>>
  <2>1. /\ aDaemon \in [Sessions -> Attach!DaemonStates]
        /\ wrapper \in [Sessions -> Attach!WrapperStates]
        /\ down \in [Sessions -> Attach!Stream] /\ up \in [Sessions -> Attach!Stream]
    BY DEF AttachInv, Attach!TypeOK
  <2> QED
    BY <2>1 DEF Attach!RequireOutputEof, Attach!Becomes, Attach!DaemonStates
<1>2. Attach!TypeOK'
  BY <1>1 DEF AttachInv, Attach!TypeOK, Changed
<1>3. RowsApart'
  BY <1>1 DEF AttachInv, RowsApart
<1>4. \A t \in Sessions \ {s} : SessionInv(t)'
  BY <1>1, OthersKeep DEF Changed
<1>5. SessionInv(s)'
  <2>1. /\ SessionInv(s) /\ ChunkCount \in Nat \ {0}
        /\ next[s] \in Nat /\ Len(accepted[s]) \in Nat
    BY DEF AttachInv, Attach!TypeOK, Attach!SessionsAssumption
  <2>2. Attach!Delivering(s)' => Attach!Delivering(s)
    BY <1>1 DEF Attach!Delivering
  <2>3. Claiming(s)'
    BY <1>1, <2>1, <2>2 DEF SessionInv, Claiming, BeforeClaim, AfterClaim
  <2>4. Closing(s)'
    BY <1>1, <2>1 DEF SessionInv, Closing, Changed
  <2>5. Consuming(s)'
    BY <1>1, <2>1 DEF SessionInv, Consuming, Acknowledged, Delivered, Attach!EndReached
  <2> QED
    BY <2>3, <2>4, <2>5 DEF SessionInv
<1> QED
  BY <1>2, <1>3, <1>4, <1>5 DEF AttachInv

LEMMA ReadEnvelopeKeeps ==
  ASSUME Attach!SessionsAssumption, AttachInv, NEW s \in Sessions, Attach!ReadEnvelope(s)
  PROVE  AttachInv'
<1>1. /\ wrapper[s] = "none"
      /\ wrapper'[s] \in {"new", "lost"}
      /\ Changed(down, down', s, {})
      /\ wrapper' \in [Sessions -> Attach!WrapperStates]
      /\ \A t \in Sessions \ {s} : wrapper'[t] = wrapper[t]
      /\ UNCHANGED <<aDaemon, up, answer, rows, next, accepted, expired>>
  <2>1. /\ aDaemon \in [Sessions -> Attach!DaemonStates]
        /\ wrapper \in [Sessions -> Attach!WrapperStates]
        /\ down \in [Sessions -> Attach!Stream] /\ up \in [Sessions -> Attach!Stream]
    BY DEF AttachInv, Attach!TypeOK
  <2>2. Changed(down, down', s, {})
    BY <2>1, ReadChanges, UnchangedStream DEF Attach!ReadEnvelope
  <2> QED
    BY <2>1, <2>2 DEF Attach!ReadEnvelope, Attach!Becomes, Attach!WrapperStates
<1>2. Attach!TypeOK'
  BY <1>1 DEF AttachInv, Attach!TypeOK, Changed
<1>3. RowsApart'
  BY <1>1 DEF AttachInv, RowsApart
<1>4. \A t \in Sessions \ {s} : SessionInv(t)'
  BY <1>1, OthersKeep DEF Changed
<1>5. SessionInv(s)'
  <2>1. /\ SessionInv(s) /\ ChunkCount \in Nat \ {0}
        /\ next[s] \in Nat /\ Len(accepted[s]) \in Nat
    BY DEF AttachInv, Attach!TypeOK, Attach!SessionsAssumption
  <2>2. Attach!Delivering(s)' => Attach!Delivering(s)
    BY <1>1 DEF Changed, Attach!Delivering
  <2>3. Claiming(s)'
    BY <1>1, <2>1, <2>2 DEF SessionInv, Claiming, BeforeClaim, AfterClaim
  <2>4. Closing(s)'
    BY <1>1, <2>1 DEF SessionInv, Closing, Changed
  <2>5. Consuming(s)'
    BY <1>1, <2>1 DEF SessionInv, Consuming, Acknowledged, Delivered, Attach!EndReached, Changed
  <2> QED
    BY <2>3, <2>4, <2>5 DEF SessionInv
<1> QED
  BY <1>2, <1>3, <1>4, <1>5 DEF AttachInv

LEMMA WriteReadyKeeps ==
  ASSUME Attach!SessionsAssumption, AttachInv, NEW s \in Sessions, Attach!WriteReady(s)
  PROVE  AttachInv'
<1>1. /\ wrapper[s] = "new"
      /\ wrapper'[s] \in {"ready_received", "ambiguous"}
      /\ Changed(up, up', s, {Attach!Frame("ready"), Attach!Frame("torn")})
      /\ wrapper' \in [Sessions -> Attach!WrapperStates]
      /\ \A t \in Sessions \ {s} : wrapper'[t] = wrapper[t]
      /\ UNCHANGED <<aDaemon, down, answer, rows, next, accepted, expired>>
  <2>1. /\ aDaemon \in [Sessions -> Attach!DaemonStates]
        /\ wrapper \in [Sessions -> Attach!WrapperStates]
        /\ down \in [Sessions -> Attach!Stream] /\ up \in [Sessions -> Attach!Stream]
    BY DEF AttachInv, Attach!TypeOK
  <2>2. Changed(up, up', s, {Attach!Frame("ready"), Attach!Frame("torn")})
    BY <2>1, WriteChanges, FrameFacts DEF Attach!WriteReady
  <2> QED
    BY <2>1, <2>2 DEF Attach!WriteReady, Attach!Becomes, Attach!WrapperStates
<1>2. Attach!TypeOK'
  BY <1>1 DEF AttachInv, Attach!TypeOK, Changed
<1>3. RowsApart'
  BY <1>1 DEF AttachInv, RowsApart
<1>4. \A t \in Sessions \ {s} : SessionInv(t)'
  BY <1>1, OthersKeep DEF Changed
<1>5. SessionInv(s)'
  <2>1. /\ SessionInv(s) /\ ChunkCount \in Nat \ {0}
        /\ next[s] \in Nat /\ Len(accepted[s]) \in Nat
    BY DEF AttachInv, Attach!TypeOK, Attach!SessionsAssumption
  <2>2. Attach!Delivering(s)' => Attach!Delivering(s)
    BY <1>1 DEF Attach!Delivering
  <2>3. Claiming(s)'
    BY <1>1, <2>1, <2>2 DEF SessionInv, Claiming, BeforeClaim, AfterClaim
  <2>4. Closing(s)'
    BY <1>1, <2>1 DEF SessionInv, Closing, Changed
  <2>5. Consuming(s)'
    BY <1>1, <2>1, FrameFacts
    DEF SessionInv, Consuming, Acknowledged, Delivered, Attach!EndReached, Changed
  <2> QED
    BY <2>3, <2>4, <2>5 DEF SessionInv
<1> QED
  BY <1>2, <1>3, <1>4, <1>5 DEF AttachInv

LEMMA ReadClaimKeeps ==
  ASSUME Attach!SessionsAssumption, AttachInv, NEW s \in Sessions, Attach!ReadClaim(s)
  PROVE  AttachInv'
<1>1. /\ wrapper[s] = "ready_received"
      /\ wrapper'[s] \in {"claim_sent", "ambiguous"}
      /\ Changed(down, down', s, {})
      /\ wrapper'[s] = "claim_sent" => Attach!Frame("claim") \in Attach!Range(down[s].frames)
      /\ wrapper' \in [Sessions -> Attach!WrapperStates]
      /\ \A t \in Sessions \ {s} : wrapper'[t] = wrapper[t]
      /\ UNCHANGED <<aDaemon, up, answer, rows, next, accepted, expired>>
  <2>1. /\ aDaemon \in [Sessions -> Attach!DaemonStates]
        /\ wrapper \in [Sessions -> Attach!WrapperStates]
        /\ down \in [Sessions -> Attach!Stream] /\ up \in [Sessions -> Attach!Stream]
    BY DEF AttachInv, Attach!TypeOK
  <2>2. Changed(down, down', s, {})
    BY <2>1, ReadChanges, UnchangedStream DEF Attach!ReadClaim
  <2> QED
    BY <2>1, <2>2, ReadChanges DEF Attach!ReadClaim, Attach!Becomes, Attach!WrapperStates
<1>2. Attach!TypeOK'
  BY <1>1 DEF AttachInv, Attach!TypeOK, Changed
<1>3. RowsApart'
  BY <1>1 DEF AttachInv, RowsApart
<1>4. \A t \in Sessions \ {s} : SessionInv(t)'
  BY <1>1, OthersKeep DEF Changed
<1>5. SessionInv(s)'
  <2>1. /\ SessionInv(s) /\ ChunkCount \in Nat \ {0}
        /\ next[s] \in Nat /\ Len(accepted[s]) \in Nat
    BY DEF AttachInv, Attach!TypeOK, Attach!SessionsAssumption
  <2>2. Attach!Delivering(s)' => Attach!Delivering(s)
    BY <1>1 DEF Changed, Attach!Delivering
  <2>3. Claiming(s)'
    BY <1>1, <2>1, <2>2 DEF SessionInv, Claiming, BeforeClaim, AfterClaim
  <2>4. Closing(s)'
    BY <1>1, <2>1 DEF SessionInv, Closing, Changed
  <2>5. Consuming(s)'
    BY <1>1, <2>1 DEF SessionInv, Consuming, Acknowledged, Delivered, Attach!EndReached, Changed
  <2> QED
    BY <2>3, <2>4, <2>5 DEF SessionInv
<1> QED
  BY <1>2, <1>3, <1>4, <1>5 DEF AttachInv

LEMMA StartConsumingKeeps ==
  ASSUME Attach!SessionsAssumption, AttachInv, NEW s \in Sessions, Attach!StartConsuming(s)
  PROVE  AttachInv'
<1>1. /\ wrapper[s] = "claim_sent"
      /\ wrapper'[s] = "consuming"
      /\ wrapper' \in [Sessions -> Attach!WrapperStates]
      /\ \A t \in Sessions \ {s} : wrapper'[t] = wrapper[t]
      /\ UNCHANGED <<aDaemon, down, up, answer, rows, next, accepted, expired>>
  <2>1. /\ aDaemon \in [Sessions -> Attach!DaemonStates]
        /\ wrapper \in [Sessions -> Attach!WrapperStates]
        /\ down \in [Sessions -> Attach!Stream] /\ up \in [Sessions -> Attach!Stream]
    BY DEF AttachInv, Attach!TypeOK
  <2> QED
    BY <2>1 DEF Attach!StartConsuming, Attach!Becomes, Attach!WrapperStates
<1>2. Attach!TypeOK'
  BY <1>1 DEF AttachInv, Attach!TypeOK, Changed
<1>3. RowsApart'
  BY <1>1 DEF AttachInv, RowsApart
<1>4. \A t \in Sessions \ {s} : SessionInv(t)'
  BY <1>1, OthersKeep DEF Changed
<1>5. SessionInv(s)'
  <2>1. /\ SessionInv(s) /\ ChunkCount \in Nat \ {0}
        /\ next[s] \in Nat /\ Len(accepted[s]) \in Nat
    BY DEF AttachInv, Attach!TypeOK, Attach!SessionsAssumption
  <2>2. Attach!Delivering(s)' => Attach!Delivering(s)
    BY <1>1 DEF Attach!Delivering
  <2>3. Claiming(s)'
    BY <1>1, <2>1, <2>2 DEF SessionInv, Claiming, BeforeClaim, AfterClaim
  <2>4. Closing(s)'
    BY <1>1, <2>1 DEF SessionInv, Closing, Changed
  <2>5. Consuming(s)'
    BY <1>1, <2>1 DEF SessionInv, Consuming, Acknowledged, Delivered, Attach!EndReached
  <2> QED
    BY <2>3, <2>4, <2>5 DEF SessionInv
<1> QED
  BY <1>2, <1>3, <1>4, <1>5 DEF AttachInv

LEMMA ConsumeKeeps ==
  ASSUME Attach!SessionsAssumption, AttachInv, NEW s \in Sessions, Attach!Consume(s)
  PROVE  AttachInv'
<1>1. /\ wrapper[s] = "consuming"
      /\ Changed(down, down', s, {})
      /\ \/ /\ accepted'[s] = Append(accepted[s], Len(accepted[s]) + 1)
            /\ \/ wrapper'[s] = "ambiguous"
               \/ wrapper'[s] = "consuming" /\ Len(accepted[s]) + 1 # ChunkCount
               \/ wrapper'[s] = "chunks_sent" /\ Len(accepted[s]) + 1 = ChunkCount
         \/ accepted' = accepted /\ wrapper'[s] = "ambiguous"
      /\ wrapper' \in [Sessions -> Attach!WrapperStates]
      /\ \A t \in Sessions \ {s} : wrapper'[t] = wrapper[t]
      /\ accepted' \in [Sessions -> Seq(Attach!Chunks)]
      /\ \A t \in Sessions \ {s} : accepted'[t] = accepted[t]
      /\ UNCHANGED <<aDaemon, up, answer, rows, next, expired>>
  <2>1. /\ aDaemon \in [Sessions -> Attach!DaemonStates]
        /\ wrapper \in [Sessions -> Attach!WrapperStates]
        /\ down \in [Sessions -> Attach!Stream] /\ up \in [Sessions -> Attach!Stream]
    BY DEF AttachInv, Attach!TypeOK
  <2>2. Changed(down, down', s, {})
    BY <2>1, ReadChanges, UnchangedStream DEF Attach!Consume
  <2>3. /\ accepted' \in [Sessions -> Seq(Attach!Chunks)]
        /\ \A t \in Sessions \ {s} : accepted'[t] = accepted[t]
    <3>1. /\ accepted \in [Sessions -> Seq(Attach!Chunks)]
          /\ Len(accepted[s]) \in Nat /\ Len(accepted[s]) + 1 \in Attach!Chunks
      BY DEF AttachInv, Attach!TypeOK, SessionInv, Consuming, Attach!Consume, Attach!Chunks,
             Attach!SessionsAssumption
    <3>2. \/ accepted' = [accepted EXCEPT ![s] = Append(@, Len(accepted[s]) + 1)]
          \/ accepted' = accepted
      BY DEF Attach!Consume
    <3>3. Append(accepted[s], Len(accepted[s]) + 1) \in Seq(Attach!Chunks)
      BY <3>1
    <3>4. \A q \in Seq(Attach!Chunks) :
            /\ [accepted EXCEPT ![s] = q] \in [Sessions -> Seq(Attach!Chunks)]
            /\ \A t \in Sessions \ {s} : [accepted EXCEPT ![s] = q][t] = accepted[t]
      BY <3>1
    <3> QED
      BY <3>1, <3>2, <3>3, <3>4
  <2> QED
    BY <2>1, <2>2, <2>3
    DEF Attach!Consume, Attach!Becomes, Attach!WrapperStates, Attach!TypeOK, AttachInv
<1>2. Attach!TypeOK'
  BY <1>1 DEF AttachInv, Attach!TypeOK, Changed
<1>3. RowsApart'
  BY <1>1 DEF AttachInv, RowsApart
<1>4. \A t \in Sessions \ {s} : SessionInv(t)'
  BY <1>1, OthersKeep DEF Changed
<1>5. SessionInv(s)'
  <2>1. /\ SessionInv(s) /\ ChunkCount \in Nat \ {0}
        /\ next[s] \in Nat /\ Len(accepted[s]) \in Nat
    BY DEF AttachInv, Attach!TypeOK, Attach!SessionsAssumption
  <2>2. Attach!Delivering(s)' => Attach!Delivering(s)
    BY <1>1 DEF Attach!Delivering
  <2>3. Claiming(s)'
    BY <1>1, <2>1, <2>2 DEF SessionInv, Claiming, BeforeClaim, AfterClaim
  <2>4. Closing(s)'
    BY <1>1, <2>1 DEF SessionInv, Closing, Changed
  <2>5. Consuming(s)'
    <3>1. CASE accepted'[s] = Append(accepted[s], Len(accepted[s]) + 1)
      <4>1. /\ Len(accepted'[s]) = Len(accepted[s]) + 1
            /\ \A i \in 1 .. Len(accepted'[s]) : accepted'[s][i] = i
        BY <2>1, <3>1 DEF SessionInv, Consuming, AttachInv, Attach!TypeOK
      <4>2. Len(accepted[s]) < ChunkCount /\ ~Acknowledged(s)
        BY <1>1, <2>1 DEF SessionInv, Consuming
      <4>3. ~Acknowledged(s)'
        BY <1>1, <4>2 DEF Acknowledged
      <4> QED
        BY <1>1, <2>1, <4>1, <4>2, <4>3 DEF Consuming
    <3>2. CASE accepted' = accepted /\ wrapper'[s] = "ambiguous"
      <4>1. ~Acknowledged(s)'
        BY <1>1, <2>1 DEF SessionInv, Consuming, Acknowledged
      <4> QED
        BY <1>1, <2>1, <3>2, <4>1 DEF SessionInv, Consuming
    <3> QED
      BY <1>1, <3>1, <3>2
  <2> QED
    BY <2>3, <2>4, <2>5 DEF SessionInv
<1> QED
  BY <1>2, <1>3, <1>4, <1>5 DEF AttachInv

LEMMA RequireInputEofKeeps ==
  ASSUME Attach!SessionsAssumption, AttachInv, NEW s \in Sessions, Attach!RequireInputEof(s)
  PROVE  AttachInv'
<1>1. /\ wrapper[s] = "chunks_sent"
      /\ wrapper'[s] \in {"write_closed", "ambiguous"}
      /\ wrapper'[s] = "write_closed" => Attach!EndReached(down, s)
      /\ wrapper' \in [Sessions -> Attach!WrapperStates]
      /\ \A t \in Sessions \ {s} : wrapper'[t] = wrapper[t]
      /\ UNCHANGED <<aDaemon, down, up, answer, rows, next, accepted, expired>>
  <2>1. /\ aDaemon \in [Sessions -> Attach!DaemonStates]
        /\ wrapper \in [Sessions -> Attach!WrapperStates]
        /\ down \in [Sessions -> Attach!Stream] /\ up \in [Sessions -> Attach!Stream]
    BY DEF AttachInv, Attach!TypeOK
  <2> QED
    BY <2>1 DEF Attach!RequireInputEof, Attach!Becomes, Attach!WrapperStates
<1>2. Attach!TypeOK'
  BY <1>1 DEF AttachInv, Attach!TypeOK, Changed
<1>3. RowsApart'
  BY <1>1 DEF AttachInv, RowsApart
<1>4. \A t \in Sessions \ {s} : SessionInv(t)'
  BY <1>1, OthersKeep DEF Changed
<1>5. SessionInv(s)'
  <2>1. /\ SessionInv(s) /\ ChunkCount \in Nat \ {0}
        /\ next[s] \in Nat /\ Len(accepted[s]) \in Nat
    BY DEF AttachInv, Attach!TypeOK, Attach!SessionsAssumption
  <2>2. Attach!Delivering(s)' => Attach!Delivering(s)
    BY <1>1 DEF Attach!Delivering
  <2>3. Claiming(s)'
    BY <1>1, <2>1, <2>2 DEF SessionInv, Claiming, BeforeClaim, AfterClaim
  <2>4. Closing(s)'
    BY <1>1, <2>1 DEF SessionInv, Closing, Changed
  <2>5. Consuming(s)'
    BY <1>1, <2>1 DEF SessionInv, Consuming, Acknowledged, Delivered, Attach!EndReached
  <2> QED
    BY <2>3, <2>4, <2>5 DEF SessionInv
<1> QED
  BY <1>2, <1>3, <1>4, <1>5 DEF AttachInv

LEMMA WriteAckAndCloseKeeps ==
  ASSUME Attach!SessionsAssumption, AttachInv, NEW s \in Sessions, Attach!WriteAckAndClose(s)
  PROVE  AttachInv'
<1>1. /\ wrapper[s] = "write_closed"
      /\ wrapper'[s] \in {"closed", "ambiguous"}
      /\ wrapper' \in [Sessions -> Attach!WrapperStates]
      /\ \A t \in Sessions \ {s} : wrapper'[t] = wrapper[t]
      /\ up' \in [Sessions -> Attach!Stream] /\ \A t \in Sessions \ {s} : up'[t] = up[t]
      /\ UNCHANGED <<aDaemon, down, answer, rows, next, accepted, expired>>
  <2>1. /\ aDaemon \in [Sessions -> Attach!DaemonStates]
        /\ wrapper \in [Sessions -> Attach!WrapperStates]
        /\ down \in [Sessions -> Attach!Stream] /\ up \in [Sessions -> Attach!Stream]
    BY DEF AttachInv, Attach!TypeOK
  <2>2. up' \in [Sessions -> Attach!Stream] /\ \A t \in Sessions \ {s} : up'[t] = up[t]
    <3>1. \A new \in Attach!WriteFails(up, s, Attach!Frame("ack"))
                     \cup {Attach!Written(up, s, Attach!Frame("ack"))} :
             new \in [Sessions -> Attach!Stream] /\ \A t \in Sessions \ {s} : new[t] = up[t]
      BY <2>1, WriteChanges, FrameFacts DEF Changed
    <3> DEFINE new == Attach!Written(up, s, Attach!Frame("ack"))
    <3>3. new \in [Sessions -> Attach!Stream] /\ \A t \in Sessions \ {s} : new[t] = up[t]
      BY <3>1
    <3> HIDE DEF new
    <3>4. /\ Attach!Ended(new, s) \in [Sessions -> Attach!Stream]
          /\ \A t \in Sessions \ {s} : Attach!Ended(new, s)[t] = new[t]
      BY <3>3, EndedStream
    <3>2. /\ Attach!Ended(new, s) \in [Sessions -> Attach!Stream]
          /\ \A t \in Sessions \ {s} : Attach!Ended(new, s)[t] = up[t]
      BY <3>3, <3>4
    <3> QED
      BY <3>1, <3>2 DEF Attach!WriteAckAndClose, new
  <2> QED
    BY <2>1, <2>2 DEF Attach!WriteAckAndClose, Attach!Becomes, Attach!WrapperStates
<1>2. Attach!TypeOK'
  BY <1>1 DEF AttachInv, Attach!TypeOK, Changed
<1>3. RowsApart'
  BY <1>1 DEF AttachInv, RowsApart
<1>4. \A t \in Sessions \ {s} : SessionInv(t)'
  BY <1>1, OthersKeep DEF Changed
<1>5. SessionInv(s)'
  <2>1. /\ SessionInv(s) /\ ChunkCount \in Nat \ {0}
        /\ next[s] \in Nat /\ Len(accepted[s]) \in Nat
    BY DEF AttachInv, Attach!TypeOK, Attach!SessionsAssumption
  <2>2. Attach!Delivering(s)' => Attach!Delivering(s)
    BY <1>1 DEF Attach!Delivering
  <2>3. Claiming(s)'
    BY <1>1, <2>1, <2>2 DEF SessionInv, Claiming, BeforeClaim, AfterClaim
  <2>4. Closing(s)'
    BY <1>1, <2>1 DEF SessionInv, Closing, Changed
  <2>5. Consuming(s)'
    BY <1>1, <2>1 DEF SessionInv, Consuming, Acknowledged, Delivered, Attach!EndReached
  <2> QED
    BY <2>3, <2>4, <2>5 DEF SessionInv
<1> QED
  BY <1>2, <1>3, <1>4, <1>5 DEF AttachInv

LEMMA ExpiresKeeps ==
  ASSUME Attach!SessionsAssumption, AttachInv, NEW s \in Sessions, Attach!Expires(s)
  PROVE  AttachInv'
<1>1. /\ expired' \subseteq {TicketOf[t] : t \in Sessions}
      /\ UNCHANGED <<aDaemon, wrapper, down, up, answer, rows, next, accepted>>
  <2>1. /\ aDaemon \in [Sessions -> Attach!DaemonStates]
        /\ wrapper \in [Sessions -> Attach!WrapperStates]
        /\ down \in [Sessions -> Attach!Stream] /\ up \in [Sessions -> Attach!Stream]
    BY DEF AttachInv, Attach!TypeOK
  <2> QED
    BY <2>1 DEF Attach!Expires, Attach!Becomes, AttachInv, Attach!TypeOK
<1>2. Attach!TypeOK'
  BY <1>1 DEF AttachInv, Attach!TypeOK, Changed
<1>3. RowsApart'
  BY <1>1 DEF AttachInv, RowsApart
<1>4. \A t \in Sessions \ {s} : SessionInv(t)'
  BY <1>1, OthersKeep DEF Changed
<1>5. SessionInv(s)'
  BY <1>1, OthersKeep
<1> QED
  BY <1>2, <1>3, <1>4, <1>5 DEF AttachInv

LEMMA DaemonStopsKeeps ==
  ASSUME Attach!SessionsAssumption, AttachInv, NEW s \in Sessions, Attach!DaemonStops(s)
  PROVE  AttachInv'
<1>1. /\ aDaemon'[s] = "lost" /\ next'[s] = 0
      /\ down'[s].frames = down[s].frames /\ (down[s].end => down'[s].end)
      /\ aDaemon' \in [Sessions -> Attach!DaemonStates]
      /\ \A t \in Sessions \ {s} : aDaemon'[t] = aDaemon[t]
      /\ next' \in [Sessions -> 0 .. ChunkCount]
      /\ \A t \in Sessions \ {s} : next'[t] = next[t]
      /\ down' \in [Sessions -> Attach!Stream] /\ \A t \in Sessions \ {s} : down'[t] = down[t]
      /\ UNCHANGED <<wrapper, up, answer, rows, accepted, expired>>
  <2>1. /\ aDaemon \in [Sessions -> Attach!DaemonStates]
        /\ wrapper \in [Sessions -> Attach!WrapperStates]
        /\ down \in [Sessions -> Attach!Stream] /\ up \in [Sessions -> Attach!Stream]
    BY DEF AttachInv, Attach!TypeOK
  <2>2. down'[s].frames = down[s].frames /\ (down[s].end => down'[s].end)
        /\ down' \in [Sessions -> Attach!Stream] /\ \A t \in Sessions \ {s} : down'[t] = down[t]
    BY <2>1, EndedStream DEF Attach!DaemonStops
  <2>3. /\ next' \in [Sessions -> 0 .. ChunkCount] /\ next'[s] = 0
        /\ \A t \in Sessions \ {s} : next'[t] = next[t]
    BY DEF Attach!DaemonStops, AttachInv, Attach!TypeOK, Attach!SessionsAssumption
  <2> QED
    BY <2>1, <2>2, <2>3 DEF Attach!DaemonStops, Attach!Becomes, Attach!DaemonStates
<1>2. Attach!TypeOK'
  BY <1>1 DEF AttachInv, Attach!TypeOK, Changed
<1>3. RowsApart'
  BY <1>1 DEF AttachInv, RowsApart
<1>4. \A t \in Sessions \ {s} : SessionInv(t)'
  BY <1>1, OthersKeep DEF Changed
<1>5. SessionInv(s)'
  <2>1. /\ SessionInv(s) /\ ChunkCount \in Nat \ {0}
        /\ next[s] \in Nat /\ Len(accepted[s]) \in Nat
    BY DEF AttachInv, Attach!TypeOK, Attach!SessionsAssumption
  <2>2. Attach!Delivering(s)' => Attach!Delivering(s)
    BY <1>1 DEF Attach!Delivering
  <2>3. Claiming(s)'
    BY <1>1, <2>1, <2>2 DEF SessionInv, Claiming, BeforeClaim, AfterClaim
  <2>4. Closing(s)'
    BY <1>1, <2>1 DEF SessionInv, Closing, Changed
  <2>5. Consuming(s)'
    BY <1>1, <2>1 DEF SessionInv, Consuming, Acknowledged, Delivered, Attach!EndReached
  <2> QED
    BY <2>3, <2>4, <2>5 DEF SessionInv
<1> QED
  BY <1>2, <1>3, <1>4, <1>5 DEF AttachInv

LEMMA WrapperStopsKeeps ==
  ASSUME Attach!SessionsAssumption, AttachInv, NEW s \in Sessions, Attach!WrapperStops(s)
  PROVE  AttachInv'
<1>1. /\ wrapper'[s] = "lost"
      /\ up'[s].frames = up[s].frames /\ (up[s].end => up'[s].end)
      /\ wrapper' \in [Sessions -> Attach!WrapperStates]
      /\ \A t \in Sessions \ {s} : wrapper'[t] = wrapper[t]
      /\ up' \in [Sessions -> Attach!Stream] /\ \A t \in Sessions \ {s} : up'[t] = up[t]
      /\ UNCHANGED <<aDaemon, down, answer, rows, next, accepted, expired>>
  <2>1. /\ aDaemon \in [Sessions -> Attach!DaemonStates]
        /\ wrapper \in [Sessions -> Attach!WrapperStates]
        /\ down \in [Sessions -> Attach!Stream] /\ up \in [Sessions -> Attach!Stream]
    BY DEF AttachInv, Attach!TypeOK
  <2>2. up'[s].frames = up[s].frames /\ (up[s].end => up'[s].end)
        /\ up' \in [Sessions -> Attach!Stream] /\ \A t \in Sessions \ {s} : up'[t] = up[t]
    BY <2>1, EndedStream DEF Attach!WrapperStops
  <2> QED
    BY <2>1, <2>2 DEF Attach!WrapperStops, Attach!Becomes, Attach!WrapperStates
<1>2. Attach!TypeOK'
  BY <1>1 DEF AttachInv, Attach!TypeOK, Changed
<1>3. RowsApart'
  BY <1>1 DEF AttachInv, RowsApart
<1>4. \A t \in Sessions \ {s} : SessionInv(t)'
  BY <1>1, OthersKeep DEF Changed
<1>5. SessionInv(s)'
  <2>1. /\ SessionInv(s) /\ ChunkCount \in Nat \ {0}
        /\ next[s] \in Nat /\ Len(accepted[s]) \in Nat
    BY DEF AttachInv, Attach!TypeOK, Attach!SessionsAssumption
  <2>2. Attach!Delivering(s)' => Attach!Delivering(s)
    BY <1>1 DEF Attach!Delivering
  <2>3. Claiming(s)'
    BY <1>1, <2>1, <2>2 DEF SessionInv, Claiming, BeforeClaim, AfterClaim
  <2>4. Closing(s)'
    BY <1>1, <2>1 DEF SessionInv, Closing, Changed
  <2>5. Consuming(s)'
    BY <1>1, <2>1 DEF SessionInv, Consuming, Acknowledged, Delivered, Attach!EndReached
  <2> QED
    BY <2>3, <2>4, <2>5 DEF SessionInv
<1> QED
  BY <1>2, <1>3, <1>4, <1>5 DEF AttachInv
-----------------------------------------------------------------------------
(* Theorems                                                                *)

LEMMA AttachInitHolds ==
  ASSUME Attach!SessionsAssumption, Attach!Init
  PROVE  AttachInv
<1>1. ChunkCount \in Nat \ {0}
  BY DEF Attach!SessionsAssumption
<1>2. Attach!TypeOK
  BY <1>1 DEF Attach!Init, Attach!TypeOK, Attach!DaemonStates, Attach!WrapperStates, Attach!Stream
<1>3. \A s \in Sessions :
        Attach!Range(down[s].frames) = {} /\ Attach!Range(up[s].frames) = {} /\ ~down[s].end
  BY DEF Attach!Init, Attach!Range
<1>4. \A s \in Sessions : ~Attach!Delivering(s) /\ ~Acknowledged(s)
  BY <1>3 DEF Attach!Init, Attach!Delivering, Acknowledged
<1>5. \A s \in Sessions : Claiming(s) /\ Closing(s)
  BY <1>3, <1>4 DEF Attach!Init, Claiming, Closing, AfterClaim
<1>6. \A s \in Sessions : Consuming(s)
  BY <1>1, <1>4 DEF Attach!Init, Consuming
<1> QED
  BY <1>2, <1>5, <1>6 DEF Attach!Init, AttachInv, RowsApart, SessionInv

LEMMA AttachStepKeeps ==
  ASSUME Attach!SessionsAssumption, AttachInv, [Attach!Next]_(Attach!vars)
  PROVE  AttachInv'
<1>1. CASE UNCHANGED Attach!vars
  <2>1. Attach!TypeOK' /\ RowsApart'
    BY <1>1 DEF AttachInv, Attach!TypeOK, RowsApart, Attach!vars
  <2>2. \A s \in Sessions : SessionInv(s)'
    BY <1>1, OthersKeep DEF Attach!vars
  <2> QED
    BY <2>1, <2>2 DEF AttachInv
<1>2. ASSUME NEW s \in Sessions, Attach!DaemonCall(s)
      PROVE  AttachInv'
  BY <1>2, AttachKeeps, WriteTicketKeeps, ReadReadyKeeps, AttemptClaimKeeps,
     AuthorityAnswersKeeps, WriteClaimKeeps, StartChunksKeeps, WriteChunkKeeps, CloseWriteKeeps,
     ReadTerminalAckKeeps, RequireOutputEofKeeps
  DEF Attach!DaemonCall
<1>3. ASSUME NEW s \in Sessions, Attach!WrapperCall(s)
      PROVE  AttachInv'
  BY <1>3, ReadEnvelopeKeeps, WriteReadyKeeps, ReadClaimKeeps, StartConsumingKeeps, ConsumeKeeps,
     RequireInputEofKeeps, WriteAckAndCloseKeeps
  DEF Attach!WrapperCall
<1> QED
  BY <1>1, <1>2, <1>3, ExpiresKeeps, DaemonStopsKeeps, WrapperStopsKeeps DEF Attach!Next

LEMMA AttachIsAttach == EitherSpec => Attach!Spec
<1>1. EitherInit => Attach!Init
  BY DEF EitherInit
<1>2. ASSUME [EitherNext]_<<held, vars, attachVars>>
      PROVE  [Attach!Next]_(Attach!vars)
  <2>1. CASE EitherNext
    BY <2>1 DEF EitherNext, attachVars, Attach!vars
  <2>2. CASE UNCHANGED <<held, vars, attachVars>>
    BY <2>2 DEF attachVars, Attach!vars
  <2> QED
    BY <1>2, <2>1, <2>2
<1> QED
  BY <1>1, <1>2, PTL DEF EitherSpec, Attach!Spec

\* Whatever the two sessions, the authority, the socket and the clocks do,
\* the invariant of the delivery holds.
THEOREM AttachCorrect == EitherSpec => []AttachInv
<1>1. Attach!Init => AttachInv
  BY AttachConstants, AttachInitHolds
<1>2. AttachInv /\ [Attach!Next]_(Attach!vars) => AttachInv'
  BY AttachConstants, AttachStepKeeps
<1> QED
  BY AttachIsAttach, <1>1, <1>2, PTL DEF Attach!Spec

\* One container gets its secrets through one attempt, whose claim is on
\* record, for any number of tickets, attempts and restarts (attempt_claim).
THEOREM DeliveredOnce == EitherSpec => []OneDelivery
<1>1. AttachInv => OneDelivery
  <2> SUFFICES ASSUME AttachInv, NEW s \in Sessions, Attach!Delivering(s)
               PROVE  s \in rows /\ \A t \in Sessions \ {s} :
                        ContainerOf[t] = ContainerOf[s] => ~Attach!Delivering(t)
    BY DEF OneDelivery, Attach!OneDelivery
  <2>1. \A t \in Sessions : Attach!Delivering(t) => t \in rows
    BY DEF AttachInv, SessionInv, Claiming
  <2> QED
    BY <2>1 DEF AttachInv, RowsApart
<1> QED
  BY <1>1, AttachCorrect, PTL

\* A session that has closed tells of a complete delivery, for a request of
\* any number of secret fields (read_terminal_ack, require_output_eof).
THEOREM ReceiptEarned == EitherSpec => []ReceiptIsEarned
<1>1. AttachInv => ReceiptIsEarned
  <2> SUFFICES ASSUME AttachInv, NEW s \in Sessions, aDaemon[s] = "closed"
               PROVE  /\ accepted[s] = [i \in Attach!Chunks |-> i]
                      /\ Attach!EndReached(down, s)
                      /\ wrapper[s] \in {"closed", "ambiguous", "lost"}
    BY DEF ReceiptIsEarned, Attach!ReceiptIsEarned
  <2>1. Consuming(s) /\ Acknowledged(s)
    BY DEF AttachInv, SessionInv, Acknowledged
  <2>2. Delivered(s) /\ wrapper[s] \in {"closed", "ambiguous", "lost"}
    BY <2>1 DEF Consuming
  <2>3. accepted[s] \in Seq(Attach!Chunks) /\ Len(accepted[s]) = ChunkCount
    BY <2>2 DEF AttachInv, Attach!TypeOK, Delivered
  <2>4. accepted[s] = [i \in 1 .. Len(accepted[s]) |-> accepted[s][i]]
    BY <2>3
  <2>5. \A i \in 1 .. Len(accepted[s]) : accepted[s][i] = i
    BY <2>1 DEF Consuming
  <2>6. accepted[s] = [i \in Attach!Chunks |-> i]
    BY <2>3, <2>4, <2>5 DEF Attach!Chunks
  <2> QED
    BY <2>2, <2>6 DEF Delivered
<1> QED
  BY <1>1, AttachCorrect, PTL

\* The state a session reports for the journal never understates its claim
\* and never claims a delivery that it did not hold (checkpoint).
THEOREM CheckpointHonest == EitherSpec => []CheckpointIsHonest
<1>1. AttachInv => CheckpointIsHonest
  <2> SUFFICES ASSUME AttachInv, NEW s \in Sessions
               PROVE  /\ Attach!Checkpoint(s) \in {"ticket_verified_v2", "ready_v2"} =>
                           s \notin rows
                      /\ Attach!Checkpoint(s) = "attach_rejected_v2" => ~Attach!Delivering(s)
                      /\ Attach!Checkpoint(s) \in
                           {"claimed_v2", "write_closed_v2", "terminal_ack_v2"} => s \in rows
    BY DEF CheckpointIsHonest, Attach!CheckpointIsHonest
  <2>1. Claiming(s) /\ aDaemon[s] \in Attach!DaemonStates
    BY DEF AttachInv, SessionInv, Attach!TypeOK
  <2>2. CASE aDaemon[s] \in {"new", "ticket_sent", "ready_received"}
    BY <2>1, <2>2 DEF Attach!Checkpoint, Claiming, BeforeClaim
  <2>3. CASE aDaemon[s] \in AfterClaim
    BY <2>1, <2>3 DEF Attach!Checkpoint, Claiming, AfterClaim
  <2>4. CASE aDaemon[s] = "rejected"
    BY <2>1, <2>4 DEF Attach!Checkpoint, Claiming
  <2>5. CASE aDaemon[s] \in {"none", "claim_attempted", "ambiguous", "lost"}
    BY <2>5 DEF Attach!Checkpoint
  <2> QED
    BY <2>1, <2>2, <2>3, <2>4, <2>5 DEF Attach!DaemonStates, AfterClaim
<1> QED
  BY <1>1, AttachCorrect, PTL
=============================================================================
