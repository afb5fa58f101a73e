--------------------------- MODULE EventLogs_proofs ---------------------------
(***************************************************************************)
(* Proofs about the lifecycle reducer and the three parts that keep its    *)
(* events, for any runs, event ids and sessions: the PostgreSQL log and    *)
(* the in-memory log each implement the stream, the first never finds      *)
(* itself corrupt and the second's replays are exact, and the migrations   *)
(* in effect are those of one package (of which the proof uses only that   *)
(* it is a sequence).  A lifecycle ends with its third transition at the   *)
(* latest, so the folds over a stream are written out, and reasoned about  *)
(* without induction.                                                      *)
(***************************************************************************)
EXTENDS MCEventLogs, FiniteSetTheorems, SequenceTheorems, TLAPS

-----------------------------------------------------------------------------
(* The reducer *)

\* A lifecycle has at most three events, so what a fold over it computes can
\* be written out.
StateAt(s, n) ==
  IF n = 0 THEN "INITIAL"
  ELSE IF n = 1 THEN Target("INITIAL", s[1].type)
  ELSE IF n = 2 THEN Target(Target("INITIAL", s[1].type), s[2].type)
  ELSE Target(Target(Target("INITIAL", s[1].type), s[2].type), s[3].type)

StreamAt(s, n) ==
  IF n = 0 THEN GenesisHash
  ELSE IF n = 1 THEN AdvanceHash(GenesisHash, s[1])
  ELSE IF n = 2 THEN AdvanceHash(AdvanceHash(GenesisHash, s[1]), s[2])
  ELSE AdvanceHash(AdvanceHash(AdvanceHash(GenesisHash, s[1]), s[2]), s[3])

ChecksumAt(s, n) ==
  IF n = 0 THEN GenesisHash
  ELSE IF n = 1 THEN AdvanceChecksum(GenesisHash, s[1])
  ELSE IF n = 2 THEN AdvanceChecksum(AdvanceChecksum(GenesisHash, s[1]), s[2])
  ELSE AdvanceChecksum(AdvanceChecksum(AdvanceChecksum(GenesisHash, s[1]), s[2]), s[3])

\* The projection of the first n events of s.
After(run, s, n) ==
  Projection(run, StateAt(s, n), IF n = 0 THEN 0 ELSE s[n].seq,
             IF n = 0 THEN GenesisHash ELSE EventHash(s[n]), StreamAt(s, n))

\* Each event can be reduced after the ones before it.
Legal(run, s) ==
  /\ Len(s) \in 0..3
  /\ \A n \in 0..2 : n < Len(s) => CanReduce(After(run, s, n), s[n + 1])

LEMMA ProjectionFields ==
  ASSUME NEW run, NEW state, NEW seq, NEW last, NEW stream
  PROVE  /\ Projection(run, state, seq, last, stream).run = run
         /\ Projection(run, state, seq, last, stream).state = state
         /\ Projection(run, state, seq, last, stream).seq = seq
         /\ Projection(run, state, seq, last, stream).last = last
         /\ Projection(run, state, seq, last, stream).stream = stream
         /\ Projection(run, state, seq, last, stream).intact = TRUE
BY DEF Projection

LEMMA ReduceProjection ==
  ASSUME NEW run, NEW state, NEW seq, NEW last, NEW stream, NEW e
  PROVE  Reduce(Projection(run, state, seq, last, stream), e)
           = Projection(run, Target(state, e.type), e.seq, EventHash(e), AdvanceHash(stream, e))
<1> DEFINE p == Projection(run, state, seq, last, stream)
<1>1. p.run = run
  BY DEF Projection
<1>2. p.state = state
  BY DEF Projection
<1>3. p.stream = stream
  BY DEF Projection
<1> HIDE DEF p
<1>4. Reduce(p, e) = Projection(run, Target(state, e.type), e.seq, EventHash(e), AdvanceHash(stream, e))
  BY <1>1, <1>2, <1>3 DEF Reduce
<1> QED
  BY <1>4 DEF p

LEMMA AfterNext ==
  ASSUME NEW run, NEW s, NEW n \in 0..2
  PROVE  Reduce(After(run, s, n), s[n + 1]) = After(run, s, n + 1)
<1>1. /\ StateAt(s, n + 1) = Target(StateAt(s, n), s[n + 1].type)
      /\ StreamAt(s, n + 1) = AdvanceHash(StreamAt(s, n), s[n + 1])
  <2>1. CASE n = 0
    BY <2>1 DEF StateAt, StreamAt
  <2>2. CASE n = 1
    BY <2>2 DEF StateAt, StreamAt
  <2>3. CASE n = 2
    BY <2>3 DEF StateAt, StreamAt
  <2> QED
    BY <2>1, <2>2, <2>3
<1> QED
  BY <1>1, ReduceProjection DEF After

LEMMA AfterEmpty == \A run, s : After(run, s, 0) = EmptyProjection(run)
BY DEF After, StateAt, StreamAt, EmptyProjection

\* The transitions.
LEMMA TransitionTable ==
  /\ \A state, type : Allowed(state, type) <=>
       <<state, type>> \in { <<"INITIAL", "RUN_CREATED">>, <<"CREATED", "WORK_STARTED">>,
                             <<"ACTIVE", "WORK_COMPLETED">>, <<"ACTIVE", "WORK_FAILED">> }
  /\ Target("INITIAL", "RUN_CREATED") = "CREATED"
  /\ Target("CREATED", "WORK_STARTED") = "ACTIVE"
  /\ Target("ACTIVE", "WORK_COMPLETED") = "COMPLETED"
  /\ Target("ACTIVE", "WORK_FAILED") = "FAILED"
BY DEF Allowed, Target, Transitions, LifecycleState

LEMMA AfterFields ==
  ASSUME NEW run, NEW s, NEW n
  PROVE  /\ After(run, s, n).run = run
         /\ After(run, s, n).state = StateAt(s, n)
         /\ After(run, s, n).seq = (IF n = 0 THEN 0 ELSE s[n].seq)
         /\ After(run, s, n).last = (IF n = 0 THEN GenesisHash ELSE EventHash(s[n]))
         /\ After(run, s, n).stream = StreamAt(s, n)
<1>1. /\ After(run, s, n).run = run
      /\ After(run, s, n).state = StateAt(s, n)
  BY DEF After, Projection
<1>2. After(run, s, n).seq = (IF n = 0 THEN 0 ELSE s[n].seq)
  BY DEF After, Projection
<1>3. After(run, s, n).last = (IF n = 0 THEN GenesisHash ELSE EventHash(s[n]))
  BY DEF After, Projection
<1>4. After(run, s, n).stream = StreamAt(s, n)
  BY DEF After, Projection
<1> QED
  BY <1>1, <1>2, <1>3, <1>4

\* What is demanded of the event that follows.
LEMMA NextEvent ==
  ASSUME NEW run, NEW s, NEW n \in 0..2, n < Len(s), Legal(run, s)
  PROVE  /\ s[n + 1].run = run /\ s[n + 1].intact
         /\ s[n + 1].seq = After(run, s, n).seq + 1
         /\ s[n + 1].prior = (IF After(run, s, n).seq # 0 THEN After(run, s, n).last ELSE GenesisHash)
         /\ Allowed(StateAt(s, n), s[n + 1].type)
         /\ ValidProjection(After(run, s, n))
<1>1. CanReduce(After(run, s, n), s[n + 1])
  BY DEF Legal
<1>2. /\ ValidProjection(After(run, s, n)) /\ After(run, s, n).run = s[n + 1].run
      /\ s[n + 1].intact
  BY <1>1 DEF CanReduce
<1>3. s[n + 1].seq = After(run, s, n).seq + 1
  BY <1>1 DEF CanReduce
<1>4. s[n + 1].prior = (IF After(run, s, n).seq # 0 THEN After(run, s, n).last ELSE GenesisHash)
  BY <1>1 DEF CanReduce
<1>5. Allowed(After(run, s, n).state, s[n + 1].type)
  BY <1>1 DEF CanReduce
<1>6. After(run, s, n).run = run /\ After(run, s, n).state = StateAt(s, n)
  BY AfterFields
<1> QED
  BY <1>2, <1>3, <1>4, <1>5, <1>6

\* Where a legal sequence of events is after n of them.
LEMMA LegalStates ==
  ASSUME NEW run, NEW s, Legal(run, s)
  PROVE  /\ StateAt(s, 0) = "INITIAL"
         /\ 1 <= Len(s) => StateAt(s, 1) = "CREATED" /\ s[1].seq = 1 /\ s[1].type = "RUN_CREATED"
         /\ 2 <= Len(s) => StateAt(s, 2) = "ACTIVE" /\ s[2].seq = 2 /\ s[2].type = "WORK_STARTED"
         /\ 3 <= Len(s) => /\ StateAt(s, 3) \in {"COMPLETED", "FAILED"} /\ s[3].seq = 3
                           /\ s[3].type \in {"WORK_COMPLETED", "WORK_FAILED"}
<1>0. StateAt(s, 0) = "INITIAL" /\ Len(s) \in 0..3
  BY DEF StateAt, Legal
<1>1. ASSUME 1 <= Len(s)
      PROVE  s[1].type = "RUN_CREATED" /\ s[1].seq = 1 /\ StateAt(s, 1) = "CREATED"
  <2>1. /\ s[0 + 1].seq = After(run, s, 0).seq + 1
        /\ Allowed(StateAt(s, 0), s[0 + 1].type)
    BY <1>0, <1>1, NextEvent
  <2>2. s[1].type = "RUN_CREATED"
    BY <1>0, <2>1, TransitionTable
  <2>3. s[1].seq = 1
    <3>1. After(run, s, 0).seq = 0
      BY AfterFields
    <3> QED
      BY <2>1, <3>1
  <2> QED
    BY <2>2, <2>3, TransitionTable DEF StateAt
<1>2. ASSUME 2 <= Len(s)
      PROVE  s[2].type = "WORK_STARTED" /\ s[2].seq = 2 /\ StateAt(s, 2) = "ACTIVE"
  <2>1. /\ s[1 + 1].seq = After(run, s, 1).seq + 1
        /\ Allowed(StateAt(s, 1), s[1 + 1].type)
    BY <1>0, <1>2, NextEvent
  <2>2. s[2].type = "WORK_STARTED"
    BY <1>0, <1>1, <1>2, <2>1, TransitionTable
  <2>3. s[2].seq = 2
    <3>1. After(run, s, 1).seq = s[1].seq
      BY AfterFields
    <3> QED
      BY <1>0, <1>1, <1>2, <2>1, <3>1
  <2> QED
    BY <1>0, <1>1, <1>2, <2>2, <2>3, TransitionTable DEF StateAt
<1>3. ASSUME 3 <= Len(s)
      PROVE  /\ s[3].type \in {"WORK_COMPLETED", "WORK_FAILED"} /\ s[3].seq = 3
             /\ StateAt(s, 3) \in {"COMPLETED", "FAILED"}
  <2>1. /\ s[2 + 1].seq = After(run, s, 2).seq + 1
        /\ Allowed(StateAt(s, 2), s[2 + 1].type)
    BY <1>0, <1>3, NextEvent
  <2>2. s[3].type \in {"WORK_COMPLETED", "WORK_FAILED"}
    BY <1>0, <1>2, <1>3, <2>1, TransitionTable
  <2>3. s[3].seq = 3
    <3>1. After(run, s, 2).seq = s[2].seq
      BY AfterFields
    <3> QED
      BY <1>0, <1>2, <1>3, <2>1, <3>1
  <2>4. StateAt(s, 3) = Target(StateAt(s, 2), s[3].type)
    BY DEF StateAt
  <2> QED
    BY <1>0, <1>2, <1>3, <2>2, <2>3, <2>4, TransitionTable
<1> QED
  BY <1>0, <1>1, <1>2, <1>3

LEMMA NotRejected ==
  ASSUME NEW run, NEW s, Legal(run, s), NEW n \in 0..Len(s)
  PROVE  After(run, s, n) # Rejected
<1> DEFINE len == Len(s)
<1>0. len \in 0..3
  BY DEF Legal
<1>1. n \in 0..len
  OBVIOUS
<1> HIDE DEF len
<1>a. n = 0 \/ n = 1 \/ n = 2 \/ n = 3
  BY <1>0, <1>1
<1>2. StateAt(s, n) \in {"INITIAL", "CREATED", "ACTIVE", "COMPLETED", "FAILED"}
  BY <1>0, <1>1, <1>a, LegalStates DEF len
<1>3. Rejected.state = "rejected"
  BY DEF Rejected
<1>4. After(run, s, n).state = StateAt(s, n)
  BY AfterFields
<1> QED
  BY <1>2, <1>3, <1>4

LEMMA Projected ==
  ASSUME NEW run, NEW s, Legal(run, s)
  PROVE  ProjectEvents(run, s) = After(run, s, Len(s))
<1> DEFINE len == Len(s)
           F(f) == f = [n \in 0..len |-> IF n = 0 THEN EmptyProjection(run)
                                         ELSE ReduceOrReject(f[n - 1], s[n])]
           g == [n \in 0..len |-> After(run, s, n)]
<1>0. len \in 0..3
  BY DEF Legal
<1> HIDE DEF len
<1>1. ASSUME NEW n \in 1..len
      PROVE  After(run, s, n) = ReduceOrReject(After(run, s, n - 1), s[n])
  <2>1. n - 1 \in 0..2 /\ n - 1 < len /\ (n - 1) + 1 = n /\ n - 1 \in 0..len
    BY <1>0
  <2>2. CanReduce(After(run, s, n - 1), s[n])
    BY <2>1 DEF Legal, len
  <2>3. Reduce(After(run, s, n - 1), s[n]) = After(run, s, n)
    BY <2>1, AfterNext
  <2>4. After(run, s, n - 1) # Rejected
    BY <2>1, NotRejected DEF len
  <2> QED
    BY <2>2, <2>3, <2>4 DEF ReduceOrReject
<1>2. F(g)
  <2>1. ASSUME NEW n \in 0..len
        PROVE  g[n] = IF n = 0 THEN EmptyProjection(run) ELSE ReduceOrReject(g[n - 1], s[n])
    <3>1. CASE n = 0
      BY <3>1, AfterEmpty
    <3>2. CASE n # 0
      <4>1. n \in 1..len /\ n - 1 \in 0..len
        BY <1>0, <3>2
      <4>2. g[n] = After(run, s, n) /\ g[n - 1] = After(run, s, n - 1)
        BY <4>1
      <4> HIDE DEF g
      <4> QED
        BY <1>1, <3>2, <4>1, <4>2
    <3> QED
      BY <3>1, <3>2
  <2>2. g = [n \in 0..len |-> g[n]]
    OBVIOUS
  <2> HIDE DEF g
  <2> QED
    BY <2>1, <2>2
<1>3. F(CHOOSE f : F(f))
  <2> HIDE DEF F
  <2> QED
    BY <1>2
<1> DEFINE h == CHOOSE f : F(f)
<1>4. ProjectEvents(run, s) = h[len]
  BY DEF ProjectEvents, len
<1>5. h = [n \in 0..len |-> IF n = 0 THEN EmptyProjection(run) ELSE ReduceOrReject(h[n - 1], s[n])]
  BY <1>3
<1> HIDE DEF h
<1>6. h[0] = After(run, s, 0)
  BY <1>0, <1>5, AfterEmpty
<1>7. 1 <= len => h[1] = After(run, s, 1)
  BY <1>0, <1>1, <1>5, <1>6
<1>8. 2 <= len => h[2] = After(run, s, 2)
  BY <1>0, <1>1, <1>5, <1>7
<1>9. 3 <= len => h[3] = After(run, s, 3)
  BY <1>0, <1>1, <1>5, <1>8
<1>10. h[len] = After(run, s, len)
  BY <1>0, <1>6, <1>7, <1>8, <1>9
<1> QED
  BY <1>4, <1>10 DEF len

\* The same of the other folds, legal or not.
LEMMA StateIsAt ==
  ASSUME NEW s, Len(s) \in 0..3
  PROVE  StateAfter(s) = StateAt(s, Len(s))
<1> DEFINE len == Len(s)
           F(f) == f = [n \in 0..len |-> IF n = 0 THEN "INITIAL" ELSE Target(f[n - 1], s[n].type)]
           g == [n \in 0..len |-> StateAt(s, n)]
<1>0. len \in 0..3
  OBVIOUS
<1> HIDE DEF len
<1>1. ASSUME NEW n \in 1..len
      PROVE  StateAt(s, n) = Target(StateAt(s, n - 1), s[n].type)
  <2>1. n = 1 \/ n = 2 \/ n = 3
    BY <1>0
  <2> QED
    BY <2>1 DEF StateAt
<1>2. F(g)
  <2>1. ASSUME NEW n \in 0..len
        PROVE  g[n] = IF n = 0 THEN "INITIAL" ELSE Target(g[n - 1], s[n].type)
    <3>1. CASE n = 0
      BY <3>1 DEF StateAt
    <3>2. CASE n # 0
      <4>1. n \in 1..len /\ n - 1 \in 0..len
        BY <1>0, <3>2
      <4>2. g[n] = StateAt(s, n) /\ g[n - 1] = StateAt(s, n - 1)
        BY <4>1
      <4> HIDE DEF g
      <4> QED
        BY <1>1, <3>2, <4>1, <4>2
    <3> QED
      BY <3>1, <3>2
  <2>2. g = [n \in 0..len |-> g[n]]
    OBVIOUS
  <2> HIDE DEF g
  <2> QED
    BY <2>1, <2>2
<1>3. F(CHOOSE f : F(f))
  <2> HIDE DEF F
  <2> QED
    BY <1>2
<1> DEFINE h == CHOOSE f : F(f)
<1>4. StateAfter(s) = h[len]
  BY DEF StateAfter, len
<1>5. h = [n \in 0..len |-> IF n = 0 THEN "INITIAL" ELSE Target(h[n - 1], s[n].type)]
  BY <1>3
<1> HIDE DEF h
<1>6. h[0] = StateAt(s, 0)
  BY <1>0, <1>5 DEF StateAt
<1>7. 1 <= len => h[1] = StateAt(s, 1)
  BY <1>0, <1>1, <1>5, <1>6
<1>8. 2 <= len => h[2] = StateAt(s, 2)
  BY <1>0, <1>1, <1>5, <1>7
<1>9. 3 <= len => h[3] = StateAt(s, 3)
  BY <1>0, <1>1, <1>5, <1>8
<1>10. h[len] = StateAt(s, len)
  BY <1>0, <1>6, <1>7, <1>8, <1>9
<1> QED
  BY <1>4, <1>10 DEF len

-----------------------------------------------------------------------------
(* Sequences of events *)

EventsIn(s) == {s[i] : i \in 1..Len(s)}

LEMMA Appended ==
  ASSUME NEW s, NEW A, s \in Seq(A), NEW e
  PROVE  /\ Append(s, e) \in Seq(A \cup {e})
         /\ Len(s) \in Nat
         /\ Len(Append(s, e)) = Len(s) + 1
         /\ Append(s, e)[Len(s) + 1] = e
         /\ \A i \in 1..Len(s) : Append(s, e)[i] = s[i]
         /\ Append(s, e) # <<>>
<1>1. s \in Seq(A \cup {e}) /\ Len(s) \in Nat
  OBVIOUS
<1> QED
  BY <1>1, AppendProperties

\* The rows of a run in sequence order.
InSequence(R) ==
  [ i \in 1..Cardinality(R) |->
      CHOOSE e \in R : Cardinality({ o \in R : o.seq <= e.seq }) = i ]

\* q lists the rows R by their sequence numbers, which are 1, 2, 3 and so on.
Filed(R, q) ==
  /\ q \in Seq(R) /\ Len(q) \in 0..3
  /\ \A e \in R : \E i \in 1..Len(q) : q[i] = e
  /\ \A i \in 1..Len(q) : q[i].seq = i

LEMMA Counted ==
  ASSUME NEW R, NEW q, Filed(R, q), NEW n \in 0..Len(q)
  PROVE  Cardinality({q[i] : i \in 1..n}) = n
<1> DEFINE len == Len(q)
           P(m) == {q[i] : i \in 1..m}
<1>0. len \in 0..3 /\ n \in 0..len
  BY DEF Filed
<1>s. \A i \in 1..len : q[i].seq = i
  BY DEF Filed
<1> HIDE DEF len
<1>1. IsFiniteSet(P(0)) /\ Cardinality(P(0)) = 0
  <2>1. P(0) = {}
    OBVIOUS
  <2> HIDE DEF P
  <2> QED
    BY <2>1, FS_EmptySet
<1>2. ASSUME NEW m \in 0..2, m < len, IsFiniteSet(P(m)), Cardinality(P(m)) = m
      PROVE  IsFiniteSet(P(m + 1)) /\ Cardinality(P(m + 1)) = m + 1
  <2>1. P(m + 1) = P(m) \cup {q[m + 1]}
    <3>1. 1..(m + 1) = 1..m \cup {m + 1}
      OBVIOUS
    <3> QED
      BY <3>1
  <2>2. q[m + 1] \notin P(m)
    BY <1>0, <1>2, <1>s
  <2> DEFINE S == P(m)
             x == q[m + 1]
  <2>3. IsFiniteSet(S) /\ Cardinality(S) = m /\ x \notin S
    BY <1>2, <2>2
  <2>4. IsFiniteSet(S \cup {x}) /\ Cardinality(S \cup {x}) = m + 1
    <3> HIDE DEF S, x
    <3> QED
      BY <2>3, FS_AddElement
  <2> HIDE DEF P
  <2> QED
    BY <2>1, <2>4
<1>3. 1 <= len => IsFiniteSet(P(1)) /\ Cardinality(P(1)) = 1
  BY <1>0, <1>1, <1>2
<1>4. 2 <= len => IsFiniteSet(P(2)) /\ Cardinality(P(2)) = 2
  <2> HIDE DEF P
  <2> QED
    BY <1>0, <1>3, <1>2
<1>5. 3 <= len => IsFiniteSet(P(3)) /\ Cardinality(P(3)) = 3
  <2> HIDE DEF P
  <2> QED
    BY <1>0, <1>4, <1>2
<1>6. Cardinality(P(n)) = n
  <2> HIDE DEF P
  <2> QED
    BY <1>0, <1>1, <1>3, <1>4, <1>5
<1> QED
  BY <1>6

LEMMA FiledInSequence ==
  ASSUME NEW R, NEW q, Filed(R, q)
  PROVE  InSequence(R) = q
<1> DEFINE len == Len(q)
           Upto(e) == {o \in R : o.seq <= e.seq}
<1>0. /\ len \in 0..3 /\ q \in Seq(R)
      /\ \A e \in R : \E i \in 1..len : q[i] = e
      /\ \A i \in 1..len : q[i].seq = i /\ q[i] \in R
  BY DEF Filed
<1>1. Cardinality(R) = len
  <2>1. R = {q[i] : i \in 1..len}
    <3> HIDE DEF len
    <3> QED
      BY <1>0
  <2>2. Cardinality({q[i] : i \in 1..len}) = len
    <3>1. Filed(R, q) /\ len \in 0..Len(q)
      BY <1>0
    <3> HIDE DEF len
    <3> QED
      BY <3>1, Counted
  <2> QED
    BY <2>1, <2>2
<1>2. \A j \in 1..len : Cardinality(Upto(q[j])) = j
  <2> TAKE j \in 1..len
  <2>1. Upto(q[j]) = {q[i] : i \in 1..j}
    <3> HIDE DEF len
    <3> QED
      BY <1>0
  <2>2. j \in 0..len
    BY <1>0
  <2>3. Cardinality({q[i] : i \in 1..j}) = j
    BY <2>2, Counted
  <2> QED
    BY <2>1, <2>3
<1> DEFINE first(j) == CHOOSE e \in R : Cardinality(Upto(e)) = j
<1>3. \A j \in 1..len : first(j) = q[j]
  <2> TAKE j \in 1..len
  <2> HIDE DEF Upto, len
  <2>1. \A e \in R : Cardinality(Upto(e)) = j <=> e = q[j]
    BY <1>0, <1>2
  <2>2. q[j] \in R
    BY <1>0
  <2>3. first(j) \in R /\ Cardinality(Upto(first(j))) = j
    BY <2>1, <2>2
  <2> HIDE DEF first
  <2> QED
    BY <2>1, <2>3
<1>4. InSequence(R) = [j \in 1..len |-> first(j)]
  BY <1>1 DEF InSequence
<1>5. q = [j \in 1..len |-> q[j]]
  BY <1>0
<1> HIDE DEF len, first
<1> QED
  BY <1>3, <1>4, <1>5

-----------------------------------------------------------------------------
(* The stream of a run grows *)

\* What is known of a sequence only depends on its first events.
LEMMA SamePrefix ==
  ASSUME NEW run, NEW s, NEW t, NEW n \in 0..3, \A i \in 1..n : t[i] = s[i]
  PROVE  /\ StateAt(t, n) = StateAt(s, n) /\ StreamAt(t, n) = StreamAt(s, n)
         /\ ChecksumAt(t, n) = ChecksumAt(s, n)
         /\ After(run, t, n) = After(run, s, n)
<1>1. CASE n = 0
  BY <1>1 DEF StateAt, StreamAt, ChecksumAt, After
<1>2. CASE n = 1
  <2>1. t[1] = s[1]
    BY <1>2
  <2> QED
    BY <1>2, <2>1 DEF StateAt, StreamAt, ChecksumAt, After
<1>3. CASE n = 2
  <2>1. t[1] = s[1] /\ t[2] = s[2]
    BY <1>3
  <2> QED
    BY <1>3, <2>1 DEF StateAt, StreamAt, ChecksumAt, After
<1>4. CASE n = 3
  <2>1. t[1] = s[1] /\ t[2] = s[2] /\ t[3] = s[3]
    BY <1>4
  <2> QED
    BY <1>4, <2>1 DEF StateAt, StreamAt, ChecksumAt, After
<1> QED
  BY <1>1, <1>2, <1>3, <1>4

\* After n events the next sequence number is n + 1.
LEMMA SequenceIsLength ==
  ASSUME NEW run, NEW s, Legal(run, s), NEW n \in 0..Len(s)
  PROVE  /\ After(run, s, n).seq = n
         /\ n # 0 => s[n].seq = n
<1> DEFINE len == Len(s)
<1>0. len \in 0..3 /\ n \in 0..len
  BY DEF Legal
<1>1. /\ 1 <= len => s[1].seq = 1
      /\ 2 <= len => s[2].seq = 2
      /\ 3 <= len => s[3].seq = 3
  BY LegalStates
<1>2. After(run, s, n).seq = (IF n = 0 THEN 0 ELSE s[n].seq)
  BY AfterFields
<1> HIDE DEF len
<1> QED
  BY <1>0, <1>1, <1>2

\* Only an event that can be reduced may follow, and no event the third one.
LEMMA LegalAppend ==
  ASSUME NEW run, NEW s, NEW A, s \in Seq(A), Legal(run, s),
         NEW e, CanReduce(After(run, s, Len(s)), e)
  PROVE  /\ Legal(run, Append(s, e))
         /\ e.run = run /\ e.seq = Len(s) + 1 /\ Len(s) \in 0..2
         /\ After(run, Append(s, e), Len(s) + 1) = Reduce(After(run, s, Len(s)), e)
<1> DEFINE len == Len(s)
           t == Append(s, e)
<1>0. len \in 0..3
  BY DEF Legal
<1>1. Len(t) = len + 1 /\ t[len + 1] = e /\ \A i \in 1..len : t[i] = s[i]
  BY Appended
<1>2. After(run, s, len).seq = len
  BY <1>0, SequenceIsLength
<1>3. /\ After(run, s, len).run = run /\ After(run, s, len).state = StateAt(s, len)
  BY AfterFields
<1>4. /\ e.run = run /\ Allowed(StateAt(s, len), e.type)
  BY <1>3 DEF CanReduce
<1>5. e.seq = len + 1
  <2>1. e.seq = After(run, s, len).seq + 1
    BY DEF CanReduce
  <2> QED
    BY <1>2, <2>1
<1>6. len # 3
  <2>1. 3 <= len => StateAt(s, 3) \in {"COMPLETED", "FAILED"}
    BY LegalStates
  <2> HIDE DEF len
  <2>2. len = 3 => StateAt(s, len) \in {"COMPLETED", "FAILED"}
    BY <2>1
  <2> QED
    BY <1>4, <2>2, TransitionTable
<1>7. ASSUME NEW n \in 0..len
      PROVE  After(run, t, n) = After(run, s, n)
  <2>1. n \in 0..3 /\ \A i \in 1..n : t[i] = s[i]
    <3> HIDE DEF len, t
    <3> QED
      BY <1>0, <1>1, <1>7
  <2> HIDE DEF t
  <2> QED
    BY <2>1, SamePrefix
<1>8. ASSUME NEW n \in 0..2, n < len + 1
      PROVE  CanReduce(After(run, t, n), t[n + 1])
  <2>1. n \in 0..len /\ (n = len \/ n < len)
    <3> HIDE DEF len
    <3> QED
      BY <1>0, <1>8
  <2>2. CASE n = len
    BY <1>1, <1>7, <2>1, <2>2
  <2>3. CASE n < len
    <3>1. n + 1 \in 1..len
      BY <1>0, <2>3
    <3>2. t[n + 1] = s[n + 1]
      BY <1>1, <3>1
    <3>3. CanReduce(After(run, s, n), s[n + 1])
      BY <2>3 DEF Legal
    <3> QED
      BY <1>7, <2>1, <3>2, <3>3
  <2> QED
    BY <2>1, <2>2, <2>3
<1>9. Legal(run, t)
  <2> HIDE DEF len, t
  <2> QED
    BY <1>0, <1>1, <1>6, <1>8 DEF Legal
<1>10. After(run, t, len + 1) = Reduce(After(run, s, len), e)
  <2>1. len \in 0..2 /\ len \in 0..len
    BY <1>0, <1>6
  <2>2. Reduce(After(run, t, len), t[len + 1]) = After(run, t, len + 1)
    BY <2>1, AfterNext
  <2> QED
    BY <1>1, <1>7, <2>1, <2>2
<1> QED
  BY <1>0, <1>4, <1>5, <1>6, <1>9, <1>10

LEMMA EmptyIsLegal == \A run : Legal(run, <<>>)
BY DEF Legal

\* No projection of events is the absence of one.
LEMMA AfterIsNotAbsent ==
  ASSUME NEW run, NEW s, Legal(run, s), NEW n \in 0..Len(s)
  PROVE  /\ After(run, s, n) # NoHead
         /\ StateAt(s, n) \in LifecycleState
<1> DEFINE len == Len(s)
<1>0. len \in 0..3 /\ n \in 0..len
  BY DEF Legal
<1>1. /\ StateAt(s, 0) = "INITIAL"
      /\ 1 <= len => StateAt(s, 1) = "CREATED"
      /\ 2 <= len => StateAt(s, 2) = "ACTIVE"
      /\ 3 <= len => StateAt(s, 3) \in {"COMPLETED", "FAILED"}
  BY LegalStates
<1> HIDE DEF len
<1>2. StateAt(s, n) \in LifecycleState
  <2>1. n = 0 \/ n = 1 \/ n = 2 \/ n = 3
    BY <1>0
  <2> QED
    BY <1>0, <1>1, <2>1 DEF LifecycleState
<1>3. NoHead.state = "absent" /\ "absent" \notin LifecycleState
  BY DEF NoHead, LifecycleState
<1>4. After(run, s, n).state = StateAt(s, n)
  BY AfterFields
<1> QED
  BY <1>2, <1>3, <1>4

-----------------------------------------------------------------------------
(* PostgreSQL: what is committed and what is in flight *)

\* The committed rows of a run are a lifecycle, and its head is their replay.
StreamInv(r) ==
  /\ Filed(RowsOf(r), EventsOf(r))
  /\ Legal(r, EventsOf(r))
  /\ heads[r] = IF EventsOf(r) = <<>> THEN NoHead ELSE After(r, EventsOf(r), Len(EventsOf(r)))

\* Steps with the lock held, steps that have read the head, and steps with an
\* inserted row.
Holding == Waiting \ {"begun"}
Informed == {"headRead", "verified", "built", "inserted", "written"}
Inserting == {"inserted", "written"}

\* The run's own event, on the head that this session read and still holds.
SessionInv(s) ==
  LET x == session[s]
      r == session[s].call.run
  IN  /\ x.pc \in {"idle", "ok", "conflict", "unavailable"} \cup Waiting
      /\ x.pc \in Waiting => r \in Runs
      /\ x.pc \in Holding => lockedBy[r] = s
      /\ x.pc \in Informed => x.head = heads[r]
      /\ x.pc \in Waiting /\ x.call.kind = "append" => x.event.run = r /\ x.event.id \in EventIds
      /\ x.pc = "built" => x.event.run = r /\ x.event.id \in EventIds
      /\ x.pc \in Inserting => /\ x.event.run = r /\ x.event.id \in EventIds
                               /\ CanReduce(HeadOrEmpty(r, x.head), x.event)
                               /\ x.new = Reduce(HeadOrEmpty(r, x.head), x.event)
                               /\ \A o \in rows : o.id # x.event.id

\* Two inserted rows that wait for their commits have different identifiers.
ApartInv ==
  \A s, t \in Sessions :
    s # t /\ session[s].pc \in Inserting /\ session[t].pc \in Inserting
      => session[s].event.id # session[t].event.id

TypeInv ==
  /\ heads = [r \in Runs |-> heads[r]]
  /\ session = [s \in Sessions |-> session[s]]
  /\ lockedBy \in [Runs -> Sessions \cup {NoSession}]

RowsInv == (\A e \in rows : e.run \in Runs) /\ (\A d, e \in rows : d.id = e.id => d = e)

PgInv ==
  /\ TypeInv /\ RowsInv /\ ApartInv
  /\ \A r \in Runs : StreamInv(r)
  /\ \A s \in Sessions : SessionInv(s)

LEMMA AtFields ==
  ASSUME NEW pc, NEW call, NEW head, NEW event, NEW new
  PROVE  /\ At(pc, call, head, event, new).pc = pc
         /\ At(pc, call, head, event, new).call = call
         /\ At(pc, call, head, event, new).head = head
         /\ At(pc, call, head, event, new).event = event
         /\ At(pc, call, head, event, new).new = new
BY DEF At

LEMMA Set ==
  ASSUME TypeInv, NEW s \in Sessions, NEW x, session' = [session EXCEPT ![s] = x]
  PROVE  /\ session' = [t \in Sessions |-> session'[t]]
         /\ session'[s] = x
         /\ \A t \in Sessions : t # s => session'[t] = session[t]
BY DEF TypeInv

LEMMA Stepped ==
  ASSUME TypeInv, NEW s \in Sessions, NEW pc, NEW head, NEW event, NEW new,
         Step(s, pc, head, event, new)
  PROVE  /\ session' = [t \in Sessions |-> session'[t]]
         /\ session'[s].pc = pc /\ session'[s].call = session[s].call
         /\ session'[s].head = head /\ session'[s].event = event /\ session'[s].new = new
         /\ \A t \in Sessions : t # s => session'[t] = session[t]
<1> DEFINE x == At(pc, session[s].call, head, event, new)
<1>1. session' = [session EXCEPT ![s] = x]
  BY DEF Step, TypeInv
<1>2. /\ x.pc = pc /\ x.call = session[s].call /\ x.head = head /\ x.event = event /\ x.new = new
  BY AtFields
<1> HIDE DEF x
<1> QED
  BY <1>1, <1>2, Set

LEMMA Gone ==
  ASSUME TypeInv, NEW s \in Sessions, NEW result, Return(s, result)
  PROVE  /\ session' = [t \in Sessions |-> session'[t]]
         /\ session'[s].pc = result
         /\ \A t \in Sessions : t # s => session'[t] = session[t]
<1>1. Done(result).pc = result
  BY AtFields DEF Done
<1> QED
  BY <1>1, Set DEF Return

\* A step that commits nothing: only its own session's account is due.
LEMMA Uncommitted ==
  ASSUME PgInv, NEW s \in Sessions, UNCHANGED <<rows, heads>>,
         session' = [t \in Sessions |-> session'[t]],
         \A t \in Sessions : t # s => session'[t] = session[t],
         lockedBy' \in [Runs -> Sessions \cup {NoSession}],
         \A r \in Runs : lockedBy'[r] = lockedBy[r] \/ lockedBy[r] \in {s, NoSession},
         SessionInv(s)',
         session'[s].pc \in Inserting =>
           \A t \in Sessions : t # s /\ session[t].pc \in Inserting
             => session'[s].event.id # session[t].event.id
  PROVE  PgInv'
<1>1. TypeInv' /\ RowsInv'
  BY DEF PgInv, TypeInv, RowsInv
<1>2. ApartInv'
  BY DEF PgInv, ApartInv
<1>3. ASSUME NEW r \in Runs
      PROVE  StreamInv(r)'
  <2>1. /\ StreamInv(r)
        /\ heads'[r] = heads[r]
        /\ RowsOf(r)' = RowsOf(r)
        /\ EventsOf(r)' = EventsOf(r)
    BY DEF PgInv, RowsOf, EventsOf
  <2> QED
    BY <2>1 DEF StreamInv
<1>4. ASSUME NEW t \in Sessions
      PROVE  SessionInv(t)'
  <2>1. CASE t = s
    BY <2>1
  <2>2. CASE t # s
    <3>1. session'[t] = session[t] /\ SessionInv(t) /\ t # NoSession
      BY <2>2, SessionsAssumption DEF PgInv
    <3>2. session[t].pc \in Holding => lockedBy'[session[t].call.run] = t
      BY <2>2, <3>1 DEF SessionInv, Holding
    <3> QED
      BY <3>1, <3>2 DEF SessionInv
  <2> QED
    BY <2>1, <2>2
<1> QED
  BY <1>1, <1>2, <1>3, <1>4 DEF PgInv

\* The rows are in sequence.
LEMMA EventsAreInSequence == \A r : EventsOf(r) = InSequence(RowsOf(r))
BY DEF EventsOf, InSequence

LEMMA EmptyFiled == \A R : R = {} => Filed(R, <<>>)
BY DEF Filed

LEMMA PgInitial == Init => PgInv
<1> SUFFICES ASSUME Init PROVE PgInv
  OBVIOUS
<1>1. TypeInv /\ RowsInv
  BY DEF Init, TypeInv, RowsInv
<1>2. \A s \in Sessions : session[s].pc = "idle"
  <2>1. Done("idle").pc = "idle"
    BY AtFields DEF Done
  <2> QED
    BY <2>1 DEF Init
<1>3. ApartInv /\ \A s \in Sessions : SessionInv(s)
  BY <1>2 DEF ApartInv, SessionInv, Inserting, Waiting, Holding, Informed
<1>4. ASSUME NEW r \in Runs
      PROVE  StreamInv(r)
  <2>1. RowsOf(r) = {} /\ heads[r] = NoHead
    BY DEF RowsOf, Init
  <2>2. EventsOf(r) = <<>>
    BY <2>1, EmptyFiled, FiledInSequence, EventsAreInSequence
  <2> QED
    BY <2>1, <2>2, EmptyFiled, EmptyIsLegal DEF StreamInv
<1> QED
  BY <1>1, <1>3, <1>4 DEF PgInv

\* What holds of a session with its call at some step.
LEMMA InSession ==
  ASSUME PgInv, NEW s \in Sessions, session[s].pc \in Waiting
  PROVE  /\ session[s].call.run \in Runs
         /\ session[s].pc \in Holding => lockedBy[session[s].call.run] = s
         /\ session[s].pc \in Informed => session[s].head = heads[session[s].call.run]
BY DEF PgInv, SessionInv

\* The lock may be given back by its holder only.
LEMMA Unlocked ==
  ASSUME TypeInv, NEW s \in Sessions, Unlock(s)
  PROVE  /\ lockedBy' \in [Runs -> Sessions \cup {NoSession}]
         /\ \A r \in Runs : lockedBy'[r] = lockedBy[r] \/ lockedBy[r] = s
BY DEF TypeInv, Unlock

\* A call that ends without a commit.
LEMMA Leaves ==
  ASSUME PgInv, NEW s \in Sessions, NEW result \in {"ok", "conflict", "unavailable"},
         Return(s, result), Unlock(s), UNCHANGED <<rows, heads>>
  PROVE  PgInv'
<1>1. TypeInv
  BY DEF PgInv
<1>2. session'[s].pc = result
  BY <1>1, Gone
<1>3. SessionInv(s)' /\ session'[s].pc \notin Inserting
  BY <1>2 DEF SessionInv, Waiting, Holding, Informed, Inserting
<1>4. /\ session' = [t \in Sessions |-> session'[t]]
      /\ \A t \in Sessions : t # s => session'[t] = session[t]
  BY <1>1, Gone
<1>5. /\ lockedBy' \in [Runs -> Sessions \cup {NoSession}]
      /\ \A r \in Runs : lockedBy'[r] = lockedBy[r] \/ lockedBy[r] \in {s, NoSession}
  BY <1>1, Unlocked
<1> QED
  BY <1>3, <1>4, <1>5, Uncommitted

\* A call that goes on without a commit.
LEMMA GoesOn ==
  ASSUME PgInv, NEW s \in Sessions, NEW pc, NEW head, NEW event, NEW new,
         Step(s, pc, head, event, new), UNCHANGED <<rows, heads>>,
         lockedBy' \in [Runs -> Sessions \cup {NoSession}],
         \A r \in Runs : lockedBy'[r] = lockedBy[r] \/ lockedBy[r] \in {s, NoSession},
         SessionInv(s)',
         pc \in Inserting =>
           \A t \in Sessions :
             t # s /\ session[t].pc \in Inserting => event.id # session[t].event.id
  PROVE  PgInv'
<1>1. TypeInv
  BY DEF PgInv
<1>2. /\ session' = [t \in Sessions |-> session'[t]]
      /\ session'[s].pc = pc /\ session'[s].event = event
      /\ \A t \in Sessions : t # s => session'[t] = session[t]
  BY <1>1, Stepped
<1> QED
  BY <1>2, Uncommitted

LEMMA BeginStep ==
  ASSUME PgInv, NEW s \in Sessions, NEW call, NEW e, Begin(s, call, e), call.run \in Runs,
         call.kind = "append" => e.run = call.run /\ e.id \in EventIds
  PROVE  PgInv'
<1> DEFINE x == At("begun", call, NoHead, e, NoHead)
<1>1. TypeInv /\ session' = [session EXCEPT ![s] = x]
  BY DEF PgInv, Begin
<1>2. x.pc = "begun" /\ x.call = call /\ x.event = e
  BY AtFields
<1> HIDE DEF x
<1>3. /\ session' = [t \in Sessions |-> session'[t]]
      /\ session'[s] = x
      /\ \A t \in Sessions : t # s => session'[t] = session[t]
  BY <1>1, Set
<1>4. SessionInv(s)' /\ session'[s].pc \notin Inserting
  BY <1>2, <1>3 DEF SessionInv, Waiting, Holding, Informed, Inserting
<1>5. UNCHANGED <<rows, heads, lockedBy>>
  BY DEF Begin
<1>6. /\ lockedBy' \in [Runs -> Sessions \cup {NoSession}]
      /\ \A r \in Runs : lockedBy'[r] = lockedBy[r] \/ lockedBy[r] \in {s, NoSession}
  BY <1>1, <1>5 DEF TypeInv
<1> QED
  BY <1>3, <1>4, <1>5, <1>6, Uncommitted

LEMMA BeginsStep ==
  ASSUME PgInv, NEW s \in Sessions, Begins(s)
  PROVE  PgInv'
<1>1. ASSUME NEW r \in Runs, NEW type, Begin(s, IngestCall(r, type), NoEvent)
      PROVE  PgInv'
  <2>1. IngestCall(r, type).run = r /\ IngestCall(r, type).kind = "ingest"
    BY DEF IngestCall
  <2> QED
    BY <1>1, <2>1, BeginStep
<1>2. ASSUME NEW r \in Runs, NEW type, NEW id \in EventIds,
             Begin(s, AppendCall(CallerEvent(r, type, id)), CallerEvent(r, type, id))
      PROVE  PgInv'
  <2> DEFINE e == CallerEvent(r, type, id)
  <2>1. e.run = r /\ e.id = id
    BY DEF CallerEvent
  <2>2. AppendCall(e).run = e.run
    BY DEF AppendCall
  <2> HIDE DEF e
  <2>3. Begin(s, AppendCall(e), e)
    BY <1>2 DEF e
  <2> QED
    BY <2>1, <2>2, <2>3, BeginStep
<1>3. ASSUME NEW r \in Runs, Begin(s, ReadCall(r), NoEvent)
      PROVE  PgInv'
  <2>1. ReadCall(r).run = r /\ ReadCall(r).kind = "read"
    BY DEF ReadCall
  <2> QED
    BY <1>3, <2>1, BeginStep
<1> QED
  BY <1>1, <1>2, <1>3 DEF Begins, BeginIngest, BeginAppend, BeginRead

LEMMA LockStep ==
  ASSUME PgInv, NEW s \in Sessions, Lock(s)
  PROVE  PgInv'
<1> DEFINE r == session[s].call.run
<1>1. /\ TypeInv
      /\ SessionInv(s)
      /\ session[s].pc = "begun"
      /\ r \in Runs
      /\ lockedBy[r] = NoSession
      /\ lockedBy' = [lockedBy EXCEPT ![r] = s] /\ UNCHANGED <<rows, heads>>
      /\ Step(s, "locked", session[s].head, session[s].event, session[s].new)
  BY DEF PgInv, Lock, Goto, SessionInv, Waiting
<1>2. /\ session'[s].pc = "locked" /\ session'[s].call = session[s].call
      /\ session'[s].event = session[s].event
  BY <1>1, Stepped
<1>3. /\ lockedBy' \in [Runs -> Sessions \cup {NoSession}] /\ lockedBy'[r] = s
      /\ \A q \in Runs : lockedBy'[q] = lockedBy[q] \/ lockedBy[q] \in {s, NoSession}
  BY <1>1 DEF TypeInv
<1>4. SessionInv(s)'
  BY <1>1, <1>2, <1>3 DEF SessionInv, Waiting, Holding, Informed, Inserting
<1> QED
  BY <1>1, <1>3, <1>4, GoesOn DEF Inserting

LEMMA SameLocks ==
  ASSUME PgInv, NEW s, UNCHANGED lockedBy
  PROVE  /\ lockedBy' \in [Runs -> Sessions \cup {NoSession}]
         /\ \A q \in Runs : lockedBy'[q] = lockedBy[q] \/ lockedBy[q] \in {s, NoSession}
BY DEF PgInv, TypeInv

LEMMA ReadHeadStep ==
  ASSUME PgInv, NEW s \in Sessions, ReadHead(s)
  PROVE  PgInv'
<1> DEFINE r == session[s].call.run
<1>1. /\ TypeInv /\ SessionInv(s) /\ session[s].pc = "locked" /\ r \in Runs /\ lockedBy[r] = s
      /\ UNCHANGED <<rows, heads, lockedBy>>
      /\ Step(s, "headRead", heads[r], session[s].event, session[s].new)
  BY DEF PgInv, ReadHead, SessionInv, Waiting, Holding
<1>2. /\ session'[s].pc = "headRead" /\ session'[s].call = session[s].call
      /\ session'[s].head = heads[r] /\ session'[s].event = session[s].event
  BY <1>1, Stepped
<1>3. SessionInv(s)'
  BY <1>1, <1>2 DEF SessionInv, Waiting, Holding, Informed, Inserting
<1> QED
  BY <1>1, <1>3, SameLocks, GoesOn DEF Inserting

\* What the head says is what a replay of the rows says.
LEMMA HeadVerified ==
  ASSUME PgInv, NEW r \in Runs
  PROVE  Verified(r, heads[r])
<1> DEFINE q == EventsOf(r)
<1>1. /\ Legal(r, q) /\ q \in Seq(RowsOf(r))
      /\ heads[r] = IF q = <<>> THEN NoHead ELSE After(r, q, Len(q))
  BY DEF PgInv, StreamInv, Filed
<1>2. ProjectEvents(r, q) = After(r, q, Len(q))
  BY <1>1, Projected
<1>3. After(r, q, Len(q)) # NoHead
  BY <1>1, AfterIsNotAbsent
<1> QED
  BY <1>1, <1>2, <1>3 DEF Verified

LEMMA ReadEventsStep ==
  ASSUME PgInv, NEW s \in Sessions, ReadEvents(s)
  PROVE  PgInv'
<1> DEFINE r == session[s].call.run
<1>1. /\ TypeInv /\ SessionInv(s) /\ session[s].pc = "headRead" /\ r \in Runs
      /\ session[s].head = heads[r] /\ lockedBy[r] = s
  BY DEF PgInv, ReadEvents, SessionInv, Waiting, Holding, Informed
<1>2. Verified(r, session[s].head)
  BY <1>1, HeadVerified
<1>3. /\ UNCHANGED <<rows, heads, lockedBy>>
      /\ Step(s, "verified", session[s].head, session[s].event, session[s].new)
  BY <1>2 DEF ReadEvents, Goto
<1>4. /\ session'[s].pc = "verified" /\ session'[s].call = session[s].call
      /\ session'[s].head = session[s].head /\ session'[s].event = session[s].event
  BY <1>1, <1>3, Stepped
<1>5. SessionInv(s)'
  BY <1>1, <1>3, <1>4 DEF SessionInv, Waiting, Holding, Informed, Inserting
<1> QED
  BY <1>3, <1>5, SameLocks, GoesOn DEF Inserting

LEMMA BuildStep ==
  ASSUME PgInv, NEW s \in Sessions, Build(s)
  PROVE  PgInv'
<1> DEFINE r == session[s].call.run
           type == session[s].call.type
           p == HeadOrEmpty(r, session[s].head)
<1>1. /\ TypeInv /\ SessionInv(s) /\ session[s].pc = "verified" /\ r \in Runs /\ lockedBy[r] = s
      /\ session[s].head = heads[r] /\ session[s].call.kind = "ingest"
      /\ UNCHANGED <<rows, heads, lockedBy>>
  BY DEF PgInv, Build, SessionInv, Waiting, Holding, Informed
<1>2. PICK id \in EventIds :
        Step(s, "built", session[s].head,
             [ id |-> id, run |-> r, seq |-> p.seq + 1,
               type |-> type, prior |-> p.last, intact |-> TRUE ], session[s].new)
  BY DEF Build
<1> DEFINE e == [ id |-> id, run |-> r, seq |-> p.seq + 1,
                  type |-> type, prior |-> p.last, intact |-> TRUE ]
<1>3. e.id = id /\ e.run = r
  OBVIOUS
<1> HIDE DEF e
<1>4. Step(s, "built", session[s].head, e, session[s].new)
  BY <1>2 DEF e
<1>5. /\ session'[s].pc = "built" /\ session'[s].call = session[s].call
      /\ session'[s].head = session[s].head /\ session'[s].event = e
  BY <1>1, <1>4, Stepped
<1>6. SessionInv(s)'
  BY <1>1, <1>3, <1>5 DEF SessionInv, Waiting, Holding, Informed, Inserting
<1> QED
  BY <1>1, <1>4, <1>6, SameLocks, GoesOn DEF Inserting

LEMMA InsertEventStep ==
  ASSUME PgInv, NEW s \in Sessions, InsertEvent(s)
  PROVE  PgInv'
<1> DEFINE r == session[s].call.run
           e == session[s].event
           p == HeadOrEmpty(r, session[s].head)
<1>1. /\ TypeInv /\ SessionInv(s) /\ session[s].pc \in {"verified", "built"}
      /\ session[s].pc = "verified" => session[s].call.kind = "append"
      /\ UNCHANGED <<rows, heads, lockedBy>>
  BY DEF PgInv, InsertEvent, ReadyToInsert
<1>2. /\ r \in Runs
      /\ lockedBy[r] = s
      /\ session[s].head = heads[r]
      /\ e.run = r
      /\ e.id \in EventIds
  BY <1>1 DEF SessionInv, Waiting, Holding, Informed
<1>3. /\ CanReduce(p, e) /\ ~ Collides(e, rows \cup InFlight(s))
      /\ Step(s, "inserted", session[s].head, e, Reduce(p, e))
  BY <1>2 DEF InsertEvent
<1>4. /\ session'[s].pc = "inserted" /\ session'[s].call = session[s].call
      /\ session'[s].head = session[s].head /\ session'[s].event = e
      /\ session'[s].new = Reduce(p, e)
  BY <1>1, <1>3, Stepped
<1>5. /\ \A o \in rows : o.id # e.id
      /\ \A t \in Sessions : t # s /\ session[t].pc \in Inserting => e.id # session[t].event.id
  BY <1>3 DEF Collides, InFlight, Inserting
<1> HIDE DEF e
<1>6. SessionInv(s)'
  BY <1>1, <1>2, <1>3, <1>4, <1>5 DEF SessionInv, Waiting, Holding, Informed, Inserting
<1> QED
  BY <1>1, <1>3, <1>5, <1>6, SameLocks, GoesOn

LEMMA WriteHeadStep ==
  ASSUME PgInv, NEW s \in Sessions, WriteHead(s)
  PROVE  PgInv'
<1>1. /\ TypeInv /\ SessionInv(s) /\ session[s].pc = "inserted"
      /\ UNCHANGED <<rows, heads, lockedBy>>
      /\ Step(s, "written", session[s].head, session[s].event, session[s].new)
  BY DEF PgInv, WriteHead, Goto
<1>2. /\ session'[s].pc = "written" /\ session'[s].call = session[s].call
      /\ session'[s].head = session[s].head /\ session'[s].event = session[s].event
      /\ session'[s].new = session[s].new
  BY <1>1, Stepped
<1>3. SessionInv(s)'
  BY <1>1, <1>2 DEF SessionInv, Waiting, Holding, Informed, Inserting
<1>4. \A t \in Sessions :
        t # s /\ session[t].pc \in Inserting => session[s].event.id # session[t].event.id
  BY <1>1 DEF PgInv, ApartInv, Inserting
<1> QED
  BY <1>1, <1>3, <1>4, SameLocks, GoesOn

\* What a commit adds.
Publishes(s, r, e) ==
  /\ session[s].pc = "written" /\ r \in Runs /\ e = session[s].event
  /\ r = session[s].call.run
  /\ e.run = r /\ e.id \in EventIds /\ lockedBy[r] = s
  /\ CanReduce(After(r, EventsOf(r), Len(EventsOf(r))), e)
  /\ \A o \in rows : o.id # e.id
  /\ rows' = rows \cup {e}
  /\ heads' = [heads EXCEPT ![r] = Reduce(After(r, EventsOf(r), Len(EventsOf(r))), e)]

\* The head in place of the replay.
LEMMA HeadIsReplay ==
  ASSUME PgInv, NEW r \in Runs
  PROVE  HeadOrEmpty(r, heads[r]) = After(r, EventsOf(r), Len(EventsOf(r)))
<1> DEFINE q == EventsOf(r)
<1>1. /\ Legal(r, q)
      /\ heads[r] = IF q = <<>> THEN NoHead ELSE After(r, q, Len(q))
  BY DEF PgInv, StreamInv
<1>2. CASE q = <<>>
  <2>1. Len(q) = 0
    BY <1>2
  <2>2. After(r, q, 0) = EmptyProjection(r)
    BY AfterEmpty
  <2>3. HeadOrEmpty(r, heads[r]) = After(r, q, Len(q))
    <3> HIDE DEF q
    <3> QED
      BY <1>1, <1>2, <2>1, <2>2 DEF HeadOrEmpty
  <2> QED
    BY <2>3
<1>3. CASE q # <<>>
  <2>1. After(r, q, Len(q)) # NoHead
    BY <1>1, AfterIsNotAbsent DEF Legal
  <2>3. HeadOrEmpty(r, heads[r]) = After(r, q, Len(q))
    <3> HIDE DEF q
    <3> QED
      BY <1>1, <1>3, <2>1 DEF HeadOrEmpty
  <2> QED
    BY <2>3
<1> QED
  BY <1>2, <1>3

LEMMA CommitPublishes ==
  ASSUME PgInv, NEW s \in Sessions, session[s].pc = "written", Publish(s)
  PROVE  Publishes(s, session[s].call.run, session[s].event)
<1> DEFINE r == session[s].call.run
<1>1. /\ SessionInv(s) /\ r \in Runs
  BY DEF PgInv, SessionInv, Waiting
<1>2. /\ session[s].head = heads[r] /\ lockedBy[r] = s
      /\ session[s].event.run = r /\ session[s].event.id \in EventIds
      /\ CanReduce(HeadOrEmpty(r, session[s].head), session[s].event)
      /\ session[s].new = Reduce(HeadOrEmpty(r, session[s].head), session[s].event)
      /\ \A o \in rows : o.id # session[s].event.id
  BY <1>1 DEF SessionInv, Holding, Waiting, Informed, Inserting
<1> QED
  BY <1>1, <1>2, HeadIsReplay DEF Publishes, Publish

\* The stream of the run grows by the event, the other streams stay.
LEMMA PublishedStreams ==
  ASSUME PgInv, NEW s \in Sessions, NEW r, NEW e, Publishes(s, r, e)
  PROVE  /\ EventsOf(r)' = Append(EventsOf(r), e)
         /\ StreamInv(r)'
         /\ \A x \in Runs : x # r => /\ RowsOf(x)' = RowsOf(x) /\ EventsOf(x)' = EventsOf(x)
                                     /\ heads'[x] = heads[x]
<1> DEFINE q == EventsOf(r)
           t == Append(q, e)
           R == RowsOf(r) \cup {e}
<1>1. r \in Runs /\ Legal(r, q) /\ Filed(RowsOf(r), q) /\ TypeInv
  BY DEF Publishes, PgInv, StreamInv
<1>2. /\ e.run = r /\ CanReduce(After(r, q, Len(q)), e)
      /\ rows' = rows \cup {e}
      /\ heads' = [heads EXCEPT ![r] = Reduce(After(r, q, Len(q)), e)]
  BY DEF Publishes
<1>3. RowsOf(r)' = R
  BY <1>2 DEF RowsOf
<1>4. q \in Seq(RowsOf(r)) /\ Len(q) \in 0..3
  BY <1>1 DEF Filed
<1>5. /\ Legal(r, t) /\ e.seq = Len(q) + 1 /\ Len(q) \in 0..2
      /\ After(r, t, Len(q) + 1) = Reduce(After(r, q, Len(q)), e)
  BY <1>1, <1>2, <1>4, LegalAppend
<1>6. /\ t \in Seq(R) /\ Len(t) = Len(q) + 1 /\ t[Len(q) + 1] = e
      /\ \A i \in 1..Len(q) : t[i] = q[i]
      /\ t # <<>>
  <2>1. q \in Seq(RowsOf(r))
    BY <1>4
  <2> HIDE DEF q
  <2> QED
    BY <2>1, Appended
<1>7. Filed(R, t)
  <2> DEFINE len == Len(q)
  <2>1. \A d \in RowsOf(r) : \E i \in 1..len : q[i] = d
    BY <1>1 DEF Filed
  <2>2. \A i \in 1..len : q[i].seq = i
    BY <1>1 DEF Filed
  <2>3. len \in 0..2 /\ Len(t) = len + 1 /\ t[len + 1] = e /\ e.seq = len + 1 /\ \A i \in 1..len : t[i] = q[i]
    BY <1>5, <1>6
  <2> HIDE DEF len, t, q
  <2>4. \A d \in R : \E i \in 1..len + 1 : t[i] = d
    <3> TAKE d \in R
    <3>1. CASE d = e
      BY <2>3, <3>1
    <3>2. CASE d \in RowsOf(r)
      BY <2>1, <2>3, <3>2
    <3> QED
      BY <3>1, <3>2
  <2>5. \A i \in 1..len + 1 : t[i].seq = i
    BY <2>2, <2>3
  <2> HIDE DEF R
  <2> QED
    BY <1>6, <2>3, <2>4, <2>5 DEF Filed
<1>8. EventsOf(r)' = t
  <2>1. EventsOf(r)' = InSequence(R)
    BY <1>3 DEF EventsOf, InSequence
  <2> HIDE DEF R, t
  <2> QED
    BY <1>7, <2>1, FiledInSequence
<1>9. heads'[r] = After(r, t, Len(t))
  BY <1>1, <1>2, <1>5, <1>6 DEF TypeInv
<1>10. StreamInv(r)'
  <2> HIDE DEF t, R
  <2> QED
    BY <1>3, <1>5, <1>6, <1>7, <1>8, <1>9 DEF StreamInv
<1>11. ASSUME NEW x \in Runs, x # r
       PROVE  /\ RowsOf(x)' = RowsOf(x) /\ EventsOf(x)' = EventsOf(x)
              /\ heads'[x] = heads[x]
  <2>1. RowsOf(x)' = RowsOf(x)
    BY <1>2, <1>11 DEF RowsOf
  <2>2. EventsOf(x)' = EventsOf(x)
    BY <2>1 DEF EventsOf
  <2> QED
    BY <1>1, <1>2, <1>11, <2>1, <2>2 DEF TypeInv
<1> QED
  BY <1>8, <1>10, <1>11

LEMMA CommitStep ==
  ASSUME PgInv, NEW s \in Sessions, session[s].pc = "written", Publish(s),
         NEW result \in {"ok", "unavailable"}, Return(s, result), Unlock(s)
  PROVE  PgInv'
<1> DEFINE r == session[s].call.run
           e == session[s].event
<1>0. TypeInv /\ Publishes(s, r, e)
  BY CommitPublishes DEF PgInv
<1>1. /\ session' = [t \in Sessions |-> session'[t]] /\ session'[s].pc = result
      /\ \A t \in Sessions : t # s => session'[t] = session[t]
  BY <1>0, Gone
<1>2. /\ lockedBy' \in [Runs -> Sessions \cup {NoSession}]
      /\ \A x \in Runs : lockedBy'[x] = lockedBy[x] \/ lockedBy[x] = s
  BY <1>0, Unlocked
<1>3. /\ r \in Runs /\ e.run = r /\ rows' = rows \cup {e} /\ \A o \in rows : o.id # e.id
      /\ lockedBy[r] = s /\ session[s].pc \in Inserting
  BY <1>0 DEF Publishes, Inserting
<1>4. TypeInv'
  BY <1>0, <1>1, <1>2 DEF TypeInv, Publishes
<1>5. RowsInv'
  BY <1>3 DEF PgInv, RowsInv
<1>6. ApartInv'
  BY <1>1 DEF PgInv, ApartInv, Inserting
<1>7. ASSUME NEW x \in Runs
      PROVE  StreamInv(x)'
  <2>1. CASE x = r
    BY <1>0, <2>1, PublishedStreams
  <2>2. CASE x # r
    <3>1. /\ StreamInv(x)
          /\ RowsOf(x)' = RowsOf(x)
          /\ EventsOf(x)' = EventsOf(x)
          /\ heads'[x] = heads[x]
      BY <1>0, <2>2, PublishedStreams DEF PgInv
    <3> QED
      BY <3>1 DEF StreamInv
  <2> QED
    BY <2>1, <2>2
<1>8. ASSUME NEW t \in Sessions
      PROVE  SessionInv(t)'
  <2>1. CASE t = s
    BY <1>1, <2>1 DEF SessionInv, Waiting, Holding, Informed, Inserting
  <2>2. CASE t # s
    <3> DEFINE x == session[t].call.run
    <3>1. session'[t] = session[t] /\ SessionInv(t)
      BY <1>1, <2>2 DEF PgInv
    <3>2. session[t].pc \in Holding => x \in Runs /\ lockedBy[x] = t
      BY <3>1 DEF SessionInv, Holding
    <3>3. session[t].pc \in Holding => lockedBy'[x] = t /\ x # r
      BY <1>2, <1>3, <2>2, <3>2
    <3>4. session[t].pc \in Informed => heads'[x] = heads[x]
      <4>1. session[t].pc \in Informed => session[t].pc \in Holding
        BY DEF Informed, Holding, Waiting
      <4> QED
        BY <1>0, <3>2, <3>3, <4>1, PublishedStreams
    <3>5. session[t].pc \in Inserting => \A o \in rows' : o.id # session[t].event.id
      <4>1. session[t].pc \in Inserting => e.id # session[t].event.id
        BY <1>3, <2>2 DEF PgInv, ApartInv
      <4>2. session[t].pc \in Inserting => \A o \in rows : o.id # session[t].event.id
        BY <3>1 DEF SessionInv
      <4> QED
        BY <1>3, <4>1, <4>2
    <3> QED
      BY <3>1, <3>3, <3>4, <3>5 DEF SessionInv
  <2> QED
    BY <2>1, <2>2
<1> QED
  BY <1>4, <1>5, <1>6, <1>7, <1>8 DEF PgInv

LEMMA PgStep ==
  ASSUME PgInv, [Next]_vars
  PROVE  PgInv'
<1>1. CASE UNCHANGED vars
  <2>1. UNCHANGED <<rows, heads, lockedBy, session>>
    BY <1>1 DEF vars
  <2>2. (TypeInv /\ RowsInv /\ ApartInv)'
    BY <2>1 DEF PgInv, TypeInv, RowsInv, ApartInv
  <2>3. ASSUME NEW r \in Runs
        PROVE  StreamInv(r)'
    <3>1. RowsOf(r)' = RowsOf(r) /\ EventsOf(r)' = EventsOf(r) /\ StreamInv(r)
      BY <2>1 DEF PgInv, RowsOf, EventsOf
    <3> QED
      BY <2>1, <3>1 DEF StreamInv
  <2>4. \A s \in Sessions : SessionInv(s)'
    BY <2>1 DEF PgInv, SessionInv
  <2> QED
    BY <2>2, <2>3, <2>4 DEF PgInv
<1>2. ASSUME NEW s \in Sessions, Begins(s) \/ Lock(s) \/ Advance(s) \/ Fail(s)
      PROVE  PgInv'
  <2>1. CASE Begins(s)
    BY <2>1, BeginsStep
  <2>2. CASE Lock(s)
    BY <2>2, LockStep
  <2>3. CASE ReadHead(s)
    BY <2>3, ReadHeadStep
  <2>4. CASE ReadEvents(s)
    BY <2>4, ReadEventsStep
  <2>5. CASE Build(s)
    BY <2>5, BuildStep
  <2>6. CASE Conflict(s)
    BY <2>6, Leaves DEF Conflict
  <2>7. CASE InsertEvent(s)
    BY <2>7, InsertEventStep
  <2>8. CASE WriteHead(s)
    BY <2>8, WriteHeadStep
  <2>9. CASE Commit(s)
    BY <2>9, CommitStep DEF Commit
  <2>10. CASE CommitUnreported(s)
    BY <2>10, CommitStep DEF CommitUnreported
  <2>11. CASE ReturnRead(s)
    BY <2>11, Leaves DEF ReturnRead
  <2>12. CASE Fail(s)
    BY <2>12, Leaves DEF Fail
  <2> QED
    BY <1>2, <2>1, <2>2, <2>3, <2>4, <2>5, <2>6, <2>7, <2>8, <2>9, <2>10, <2>11, <2>12 DEF Advance
<1> QED
  BY <1>1, <1>2 DEF Next

\* No call ends with the verdict that the store is corrupt (store.py
\* _load_verified_run): the advisory lock keeps the head and the rows that a
\* call reads by two statements together.
LEMMA PgNoCorruption == PgInv => NoCorruptionVerdict
BY DEF PgInv, SessionInv, NoCorruptionVerdict, Waiting

-----------------------------------------------------------------------------
(* The stream of names *)

\* What the abstract stream keeps of an event, and of a sequence of them.
NameOf(e) == [id |-> e.id, type |-> e.type]
Names(q) == [i \in DOMAIN q |-> [id |-> q[i].id, type |-> q[i].type]]

LEMMA NamedStream ==
  ASSUME NEW q, NEW A, q \in Seq(A), Len(q) \in 0..3
  PROVE  /\ Names(q) \in Seq({NameOf(a) : a \in A})
         /\ Len(Names(q)) = Len(q)
         /\ \A i \in 1..Len(q) : Names(q)[i].id = q[i].id /\ Names(q)[i].type = q[i].type
         /\ StateAfter(Names(q)) = StateAt(q, Len(q))
<1> DEFINE len == Len(q)
           N == Names(q)
<1>1. DOMAIN q = 1..len /\ len \in 0..3 /\ \A i \in 1..len : q[i] \in A
  OBVIOUS
<1>2. N = [i \in 1..len |-> NameOf(q[i])]
  BY <1>1 DEF Names, NameOf
<1> HIDE DEF len, N
<1>3. /\ N \in Seq({NameOf(a) : a \in A}) /\ Len(N) = len
      /\ \A i \in 1..len : N[i] = NameOf(q[i])
  <2> DEFINE B == {NameOf(a) : a \in A}
  <2>1. N \in [1..len -> B]
    BY <1>1, <1>2
  <2> HIDE DEF B
  <2>2. N \in Seq(B) /\ Len(N) = len
    BY <1>1, <2>1
  <2>3. \A i \in 1..len : N[i] = NameOf(q[i])
    BY <1>2
  <2> QED
    BY <2>2, <2>3 DEF B
<1>4. \A i \in 1..len : N[i].id = q[i].id /\ N[i].type = q[i].type
  BY <1>3 DEF NameOf
<1>5. StateAfter(N) = StateAt(N, len)
  BY <1>1, <1>3, StateIsAt
<1>6. StateAt(N, len) = StateAt(q, len)
  <2>1. CASE len = 0
    BY <2>1 DEF StateAt
  <2>2. CASE len = 1
    <3>1. N[1].type = q[1].type
      BY <1>4, <2>2
    <3> QED
      BY <2>2, <3>1 DEF StateAt
  <2>3. CASE len = 2
    <3>1. N[1].type = q[1].type /\ N[2].type = q[2].type
      BY <1>4, <2>3
    <3> QED
      BY <2>3, <3>1 DEF StateAt
  <2>4. CASE len = 3
    <3>1. N[1].type = q[1].type /\ N[2].type = q[2].type /\ N[3].type = q[3].type
      BY <1>4, <2>4
    <3> QED
      BY <2>4, <3>1 DEF StateAt
  <2> QED
    BY <1>1, <2>1, <2>2, <2>3, <2>4
<1> QED
  BY <1>3, <1>4, <1>5, <1>6 DEF len, N

LEMMA NamedAppend ==
  ASSUME NEW q, NEW A, q \in Seq(A), Len(q) \in 0..3, NEW e
  PROVE  Names(Append(q, e)) = Append(Names(q), [id |-> e.id, type |-> e.type])
<1> DEFINE len == Len(q)
           t == Append(q, e)
           N == Names(q)
           B == {NameOf(a) : a \in A}
           v == [id |-> e.id, type |-> e.type]
           M == Append(N, v)
<1>1. /\ t \in Seq(A \cup {e}) /\ len \in 0..3 /\ Len(t) = len + 1 /\ t[len + 1] = e
      /\ \A i \in 1..len : t[i] = q[i]
  BY Appended
<1>2. N \in Seq(B) /\ Len(N) = len
  BY NamedStream
<1>3. DOMAIN q = 1..len /\ DOMAIN t = 1..(len + 1)
  BY <1>1
<1>4. N = [i \in 1..len |-> [id |-> q[i].id, type |-> q[i].type]]
  BY <1>3 DEF Names
<1>5. Names(t) = [i \in 1..(len + 1) |-> [id |-> t[i].id, type |-> t[i].type]]
  BY <1>3 DEF Names
<1> HIDE DEF len, t, N, B
<1>6. /\ M \in Seq(B \cup {v}) /\ Len(M) = len + 1 /\ M[len + 1] = v
      /\ \A i \in 1..len : M[i] = N[i]
  <2> HIDE DEF v
  <2> QED
    BY <1>2, Appended
<1>7. M = [i \in 1..(len + 1) |-> M[i]]
  <2> HIDE DEF M
  <2> QED
    BY <1>1, <1>6
<1>8. ASSUME NEW i \in 1..(len + 1)
      PROVE  M[i] = [id |-> t[i].id, type |-> t[i].type]
  <2>1. CASE i = len + 1
    BY <1>1, <1>6, <2>1
  <2>2. CASE i # len + 1
    <3>1. i \in 1..len
      BY <1>1, <2>2
    <3>2. M[i] = N[i] /\ t[i] = q[i] /\ N[i] = [id |-> q[i].id, type |-> q[i].type]
      BY <1>1, <1>4, <1>6, <3>1
    <3> QED
      BY <3>2
  <2> QED
    BY <2>1, <2>2
<1>9. Names(t) = M
  <2> HIDE DEF M
  <2> QED
    BY <1>5, <1>7, <1>8
<1> QED
  BY <1>9 DEF t, N

-----------------------------------------------------------------------------
(* PostgreSQL implements the stream *)

LEMMA RowsChange ==
  ASSUME PgInv, [Next]_vars
  PROVE  \/ rows' = rows
         \/ \E s \in Sessions : Publishes(s, session[s].call.run, session[s].event)
<1>1. CASE UNCHANGED vars
  BY <1>1 DEF vars
<1>2. ASSUME NEW s \in Sessions, Begins(s) \/ Lock(s) \/ Advance(s) \/ Fail(s)
      PROVE  \/ rows' = rows
             \/ Publishes(s, session[s].call.run, session[s].event)
  <2>1. CASE Commit(s) \/ CommitUnreported(s)
    BY <2>1, CommitPublishes DEF Commit, CommitUnreported
  <2>2. CASE Begins(s)
    BY <2>2 DEF Begins, BeginIngest, BeginAppend, BeginRead, Begin
  <2>3. CASE Lock(s) \/ ReadHead(s) \/ ReadEvents(s) \/ Build(s) \/ Conflict(s) \/ InsertEvent(s)
             \/ WriteHead(s) \/ ReturnRead(s) \/ Fail(s)
    BY <2>3 DEF Lock, ReadHead, ReadEvents, Build, Conflict, InsertEvent, WriteHead, ReturnRead,
                Fail
  <2> QED
    BY <1>2, <2>1, <2>2, <2>3 DEF Advance
<1> QED
  BY <1>1, <1>2 DEF Next

LEMMA AbstractIsLifecycle ==
  /\ \A x : Abstract!StateAfter(x) = StateAfter(x)
  /\ \A x, y : Abstract!Allowed(x, y) <=> Allowed(x, y)
BY DEF Abstract!StateAfter, StateAfter, Abstract!Target, Target, Abstract!Allowed, Allowed,
       Abstract!Transitions, Transitions, Abstract!LifecycleState, LifecycleState

LEMMA PgStreamStep ==
  ASSUME PgInv, [Next]_vars
  PROVE  \/ \E r \in Runs, id \in EventIds, type \in EventType : Abstract!Record(r, id, type)
         \/ [r \in Runs |-> Recorded(r)]' = [r \in Runs |-> Recorded(r)]
<1>1. CASE rows' = rows
  BY <1>1 DEF Recorded, EventsOf, RowsOf
<1>2. ASSUME NEW s \in Sessions, NEW r, NEW e, Publishes(s, r, e)
      PROVE  \E x \in Runs, id \in EventIds, type \in EventType : Abstract!Record(x, id, type)
  <2> DEFINE q == EventsOf(r)
             names == [x \in Runs |-> Recorded(x)]
  <2>1. /\ r \in Runs /\ e.id \in EventIds /\ CanReduce(After(r, q, Len(q)), e)
        /\ \A o \in rows : o.id # e.id
    BY <1>2 DEF Publishes
  <2>2. ASSUME NEW x \in Runs
        PROVE  /\ EventsOf(x) \in Seq(RowsOf(x)) /\ Len(EventsOf(x)) \in 0..3
               /\ Recorded(x) = Names(EventsOf(x))
    BY DEF PgInv, StreamInv, Filed, Recorded, Names
  <2>3. Allowed(StateAfter(Recorded(r)), e.type) /\ e.type \in EventType
    <3>1. Allowed(StateAt(q, Len(q)), e.type)
      <4>1. After(r, q, Len(q)).state = StateAt(q, Len(q))
        BY AfterFields
      <4> QED
        BY <2>1, <4>1 DEF CanReduce
    <3>2. StateAfter(Recorded(r)) = StateAt(q, Len(q))
      BY <2>1, <2>2, NamedStream
    <3> QED
      BY <3>1, <3>2, TransitionTable DEF EventType
  <2>4. e.id \notin Abstract!SpentIds
    <3>1. ASSUME NEW x \in Runs, NEW i \in DOMAIN Recorded(x)
          PROVE  Recorded(x)[i].id # e.id
      <4> DEFINE len == Len(EventsOf(x))
      <4>1. DOMAIN Recorded(x) = 1..len /\ EventsOf(x)[i] \in rows
        <5>1. DOMAIN EventsOf(x) = 1..len
          BY <2>2
        <5>2. DOMAIN Recorded(x) = 1..len
          BY <2>2, <5>1 DEF Names
        <5>3. EventsOf(x)[i] \in RowsOf(x)
          BY <2>2, <3>1, <5>2
        <5> QED
          BY <5>2, <5>3 DEF RowsOf
      <4>2. Recorded(x)[i].id = EventsOf(x)[i].id
        BY <2>2, <3>1, <4>1, NamedStream
      <4> QED
        BY <2>1, <4>1, <4>2
    <3>2. Abstract!SpentIds = UNION { { names[x][i].id : i \in DOMAIN names[x] } : x \in Runs }
      BY DEF Abstract!SpentIds
    <3>3. ASSUME NEW x \in Runs
          PROVE  names[x] = Recorded(x)
      OBVIOUS
    <3> HIDE DEF names
    <3> QED
      BY <3>1, <3>2, <3>3
  <2>5. names' = [names EXCEPT ![r] = Append(@, [id |-> e.id, type |-> e.type])]
    <3>1. Recorded(r)' = Append(Recorded(r), [id |-> e.id, type |-> e.type])
      <4>1. EventsOf(r)' = Append(q, e)
        BY <1>2, PublishedStreams
      <4>2. Recorded(r)' = Names(Append(q, e))
        BY <4>1 DEF Recorded, Names
      <4> QED
        BY <2>1, <2>2, <4>2, NamedAppend
    <3>2. \A x \in Runs : x # r => Recorded(x)' = Recorded(x)
      BY <1>2, PublishedStreams DEF Recorded
    <3> QED
      BY <2>1, <3>1, <3>2
  <2>6. Abstract!Record(r, e.id, e.type)
    <3>1. names[r] = Recorded(r)
      BY <2>1
    <3>2. Abstract!Allowed(Abstract!StateAfter(names[r]), e.type)
      BY <2>3, <3>1, AbstractIsLifecycle
    <3> QED
      BY <2>4, <2>5, <3>2 DEF Abstract!Record
  <2> QED
    BY <2>1, <2>3, <2>6
<1> QED
  BY <1>1, <1>2, RowsChange

LEMMA PgStreamInitial == Init => Abstract!Init
<1> SUFFICES ASSUME Init PROVE Abstract!Init
  OBVIOUS
<1>1. ASSUME NEW r \in Runs
      PROVE  Recorded(r) = <<>>
  <2>1. RowsOf(r) = {}
    BY DEF RowsOf, Init
  <2>2. EventsOf(r) = <<>>
    BY <2>1, EmptyFiled, FiledInSequence, EventsAreInSequence
  <2> QED
    BY <2>2 DEF Recorded
<1> QED
  BY <1>1 DEF Abstract!Init

EitherVars == <<vars, memory, migrations, log>>

LEMMA EitherIsPg == [EitherNext]_EitherVars => [Next]_vars
BY DEF EitherNext, EitherVars

LEMMA PgAlways == EitherSpec => [](PgInv) /\ [][Next]_vars
<1>1. EitherInit => PgInv
  BY PgInitial DEF EitherInit
<1>2. PgInv /\ [EitherNext]_EitherVars => PgInv'
  BY EitherIsPg, PgStep
<1> QED
  BY <1>1, <1>2, EitherIsPg, PTL DEF EitherSpec, EitherVars

\* No load of a run ever finds its own stored head and events at odds,
\* whatever sessions interleave, fail, or die with a commit unreported
\* (store.py, _load_verified_run).
THEOREM NeverCorrupt == EitherSpec => []NoCorruptionVerdict
BY PgAlways, PgNoCorruption, PTL

\* What is committed to PostgreSQL is, run by run, the lifecycle stream:
\* one event at a time, each legal after the ones before, none changed and
\* no id used twice (store.py, append under the lock of the run).
THEOREM PostgresImplementsStream == EitherSpec => ImplementsStream
<1>1. Init => Abstract!Init
  BY PgStreamInitial
<1>2. PgInv /\ [Next]_vars => [Abstract!Next]_[r \in Runs |-> Recorded(r)]
  BY PgStreamStep DEF Abstract!Next, Abstract!EventType, EventType
<1>3. EitherSpec => Init
  BY DEF EitherSpec, EitherInit
<1> QED
  BY <1>1, <1>2, <1>3, PgAlways, PTL DEF ImplementsStream, Abstract!Spec

-----------------------------------------------------------------------------
(* Hashes of a legal stream *)

LEMMA HashesExtend ==
  ASSUME NEW run, NEW s, Legal(run, s), NEW n \in 1..Len(s)
  PROVE  /\ EventHash(s[n]) # <<>> /\ StreamAt(s, n) # <<>>
<1> DEFINE len == Len(s)
           link(e) == <<e.id, e.run, e.seq, e.type>>
           L == {link(s[1]), link(s[2]), link(s[3])}
           M == {s[1], s[2], s[3]}
<1>0. len \in 0..3 /\ n \in 1..len
  BY DEF Legal
<1>p. ASSUME NEW m \in 1..2, m + 1 <= len
      PROVE  s[m + 1].prior = EventHash(s[m])
  <2>1. m \in 0..2 /\ m < len /\ m \in 0..len /\ m # 0
    BY <1>0, <1>p
  <2>2. s[m + 1].prior = (IF After(run, s, m).seq # 0 THEN After(run, s, m).last ELSE GenesisHash)
    BY <2>1, NextEvent
  <2>3. After(run, s, m).seq = m
    BY <2>1, SequenceIsLength
  <2>4. After(run, s, m).last = EventHash(s[m])
    BY <2>1, AfterFields
  <2> QED
    BY <2>1, <2>2, <2>3, <2>4
<1>1. 1 <= len => EventHash(s[1]) \in Seq(L) /\ EventHash(s[1]) # <<>>
  <2>1. 1 <= len => s[1].prior = <<>>
    <3>1. 1 <= len =>
            s[0 + 1].prior = (IF After(run, s, 0).seq # 0 THEN After(run, s, 0).last ELSE GenesisHash)
      <4>1. 1 <= len => 0 < Len(s)
        OBVIOUS
      <4> QED
        BY <4>1, NextEvent
    <3>2. After(run, s, 0).seq = 0
      BY AfterFields
    <3> QED
      BY <3>1, <3>2 DEF GenesisHash
  <2>2. <<>> \in Seq(L) /\ link(s[1]) \in L
    OBVIOUS
  <2> HIDE DEF L, link
  <2>3. Append(<<>>, link(s[1])) \in Seq(L) /\ Append(<<>>, link(s[1])) # <<>>
    BY <2>2, AppendProperties
  <2> QED
    BY <2>1, <2>3 DEF EventHash, link
<1>2. 2 <= len => EventHash(s[2]) \in Seq(L) /\ EventHash(s[2]) # <<>>
  <2>1. 2 <= len => s[2].prior = EventHash(s[1])
    BY <1>0, <1>p
  <2>2. link(s[2]) \in L
    OBVIOUS
  <2> HIDE DEF L, link
  <2>3. 2 <= len =>
          Append(EventHash(s[1]), link(s[2])) \in Seq(L) /\ Append(EventHash(s[1]), link(s[2])) # <<>>
    BY <1>0, <1>1, <2>2, AppendProperties
  <2>4. EventHash(s[2]) = Append(s[2].prior, link(s[2]))
    BY DEF EventHash, link
  <2> QED
    BY <2>1, <2>3, <2>4
<1>3. 3 <= len => EventHash(s[3]) # <<>>
  <2>1. 3 <= len => s[3].prior = EventHash(s[2])
    BY <1>0, <1>p
  <2>2. link(s[3]) \in L
    OBVIOUS
  <2> HIDE DEF L, link
  <2>3. 3 <= len => Append(EventHash(s[2]), link(s[3])) # <<>>
    BY <1>0, <1>2, <2>2, AppendProperties
  <2>4. EventHash(s[3]) = Append(s[3].prior, link(s[3]))
    BY DEF EventHash, link
  <2> QED
    BY <2>1, <2>3, <2>4
<1>4. /\ Append(<<>>, s[1]) \in Seq(M) /\ Append(<<>>, s[1]) # <<>>
      /\ Append(Append(<<>>, s[1]), s[2]) \in Seq(M) /\ Append(Append(<<>>, s[1]), s[2]) # <<>>
      /\ Append(Append(Append(<<>>, s[1]), s[2]), s[3]) # <<>>
  <2>1. <<>> \in Seq(M) /\ s[1] \in M /\ s[2] \in M /\ s[3] \in M
    OBVIOUS
  <2> HIDE DEF M
  <2>2. Append(<<>>, s[1]) \in Seq(M) /\ Append(<<>>, s[1]) # <<>>
    BY <2>1, AppendProperties
  <2>3. Append(Append(<<>>, s[1]), s[2]) \in Seq(M) /\ Append(Append(<<>>, s[1]), s[2]) # <<>>
    BY <2>1, <2>2, AppendProperties
  <2>4. Append(Append(Append(<<>>, s[1]), s[2]), s[3]) # <<>>
    BY <2>1, <2>3, AppendProperties
  <2> QED
    BY <2>2, <2>3, <2>4
<1> HIDE DEF len, L, M
<1>5. n = 1 \/ n = 2 \/ n = 3
  BY <1>0
<1>6. EventHash(s[n]) # <<>>
  BY <1>0, <1>1, <1>2, <1>3, <1>5
<1>7. StreamAt(s, n) # <<>>
  <2>1. CASE n = 1
    BY <1>4, <2>1 DEF StreamAt, AdvanceHash, GenesisHash
  <2>2. CASE n = 2
    BY <1>4, <2>2 DEF StreamAt, AdvanceHash, GenesisHash
  <2>3. CASE n = 3
    BY <1>4, <2>3 DEF StreamAt, AdvanceHash, GenesisHash
  <2> QED
    BY <1>5, <2>1, <2>2, <2>3
<1> QED
  BY <1>6, <1>7

LEMMA ValidAfter ==
  ASSUME NEW run, NEW s, Legal(run, s), NEW n \in 0..Len(s)
  PROVE  ValidProjection(After(run, s, n))
<1> DEFINE len == Len(s)
           p == After(run, s, n)
<1>0. len \in 0..3 /\ n \in 0..len
  BY DEF Legal
<1>1. p.intact
  <2>1. p.intact = TRUE
    BY ProjectionFields DEF After
  <2> QED
    BY <2>1
<1>2. p.seq = n
  BY SequenceIsLength
<1>3. p.state = StateAt(s, n) /\ p.stream = StreamAt(s, n) /\ p.last = (IF n = 0 THEN GenesisHash ELSE EventHash(s[n]))
  BY AfterFields
<1>4. n # 0 => EventHash(s[n]) # GenesisHash /\ StreamAt(s, n) # GenesisHash
  <2>1. n # 0 => n \in 1..Len(s)
    BY <1>0
  <2> QED
    BY <2>1, HashesExtend DEF GenesisHash
<1>5. /\ n = 0 => StateAt(s, n) = "INITIAL"
      /\ n = 1 => StateAt(s, n) = "CREATED"
      /\ n = 2 => StateAt(s, n) = "ACTIVE"
      /\ n = 3 => StateAt(s, n) \in {"COMPLETED", "FAILED"}
  <2>1. /\ StateAt(s, 0) = "INITIAL"
        /\ 1 <= len => StateAt(s, 1) = "CREATED"
        /\ 2 <= len => StateAt(s, 2) = "ACTIVE"
        /\ 3 <= len => StateAt(s, 3) \in {"COMPLETED", "FAILED"}
    BY LegalStates
  <2> HIDE DEF len
  <2> QED
    BY <1>0, <2>1
<1> HIDE DEF len, p
<1>6. n = 0 \/ n = 1 \/ n = 2 \/ n = 3
  BY <1>0
<1>7. p.seq = ExpectedSequence[p.state]
  BY <1>2, <1>3, <1>5, <1>6 DEF ExpectedSequence
<1>8. /\ p.state = "INITIAL" <=> n = 0
      /\ n = 0 => StreamAt(s, n) = GenesisHash
  BY <1>3, <1>5, <1>6 DEF StreamAt
<1>9. ValidProjection(p)
  BY <1>1, <1>3, <1>4, <1>7, <1>8 DEF ValidProjection
<1> QED
  BY <1>9 DEF p

-----------------------------------------------------------------------------
(* In memory *)

LEMMA MemoryIsLifecycle ==
  /\ \A x : Memory!StateAfter(x) = StateAfter(x)
  /\ \A x, y : Memory!Allowed(x, y) <=> Allowed(x, y)
  /\ \A x : Memory!EventHash(x) = EventHash(x)
  /\ Memory!GenesisHash = GenesisHash
  /\ \A x, y : Memory!CanReduce(x, y) <=> CanReduce(x, y)
  /\ \A x, y : Memory!ProjectEvents(x, y) = ProjectEvents(x, y)
  /\ \A x : Memory!ValidProjection(x) <=> ValidProjection(x)
  /\ Memory!Rejected = Rejected
  /\ \A x : Memory!TransitionChecksum(x) = TransitionChecksum(x)
  /\ \A x : Memory!NoDuplicateIds(x) <=> NoDuplicateIds(x)
<1>1. /\ \A x, y : Memory!Allowed(x, y) <=> Allowed(x, y)
      /\ \A x, y : Memory!Target(x, y) = Target(x, y)
      /\ \A x : Memory!StateAfter(x) = StateAfter(x)
  BY DEF Memory!StateAfter, StateAfter, Memory!Target, Target, Memory!Allowed, Allowed,
         Memory!Transitions, Transitions, Memory!LifecycleState, LifecycleState
<1>2. /\ \A x : Memory!EventHash(x) = EventHash(x)
      /\ Memory!GenesisHash = GenesisHash
      /\ Memory!Rejected = Rejected
      /\ \A x : Memory!NoDuplicateIds(x) <=> NoDuplicateIds(x)
      /\ Memory!ExpectedSequence = ExpectedSequence
      /\ \A x, y : Memory!AdvanceHash(x, y) = AdvanceHash(x, y)
      /\ \A x, y : Memory!AdvanceChecksum(x, y) = AdvanceChecksum(x, y)
      /\ \A r, x, n, y, z : Memory!Projection(r, x, n, y, z) = Projection(r, x, n, y, z)
  BY DEF Memory!EventHash, EventHash, Memory!GenesisHash, GenesisHash, Memory!Rejected, Rejected,
         Memory!NoDuplicateIds, NoDuplicateIds, Memory!ExpectedSequence, ExpectedSequence,
         Memory!AdvanceHash, AdvanceHash, Memory!AdvanceChecksum, AdvanceChecksum,
         Memory!Projection, Projection
<1>3. \A x : Memory!TransitionChecksum(x) = TransitionChecksum(x)
  BY DEF Memory!TransitionChecksum, TransitionChecksum, Memory!AdvanceChecksum, AdvanceChecksum,
         Memory!GenesisHash, GenesisHash
<1>4. \A x : Memory!ValidProjection(x) <=> ValidProjection(x)
  BY <1>2 DEF Memory!ValidProjection, ValidProjection
<1>5. \A x, y : Memory!CanReduce(x, y) <=> CanReduce(x, y)
  BY <1>1, <1>2, <1>4 DEF Memory!CanReduce, CanReduce
<1>6. \A x, y : Memory!Reduce(x, y) = Reduce(x, y)
  BY <1>1, <1>2 DEF Memory!Reduce, Reduce
<1>7. \A x, y : Memory!ReduceOrReject(x, y) = ReduceOrReject(x, y)
  BY <1>2, <1>5, <1>6 DEF Memory!ReduceOrReject, ReduceOrReject
<1>8. \A x : Memory!EmptyProjection(x) = EmptyProjection(x)
  BY <1>2 DEF Memory!EmptyProjection, EmptyProjection
<1>9. \A x, y : Memory!ProjectEvents(x, y) = ProjectEvents(x, y)
  BY <1>7, <1>8 DEF Memory!ProjectEvents, ProjectEvents
<1> QED
  BY <1>1, <1>2, <1>3, <1>4, <1>5, <1>9

\* Every run's events are a lifecycle, and no identifier is used twice.
MemInv ==
  /\ eventsByRun = [r \in Runs |-> eventsByRun[r]]
  /\ \A r \in Runs : /\ eventsByRun[r] \in Seq(EventsIn(eventsByRun[r]))
                     /\ Legal(r, eventsByRun[r])
                     /\ \A i \in 1..Len(eventsByRun[r]) : eventsByRun[r][i].id \in eventIds
                     /\ \A i, j \in 1..Len(eventsByRun[r]) :
                          eventsByRun[r][i].id = eventsByRun[r][j].id => i = j
  /\ frames \in Seq({frames[i] : i \in 1..Len(frames)})
  /\ \A i \in 1..Len(frames) : frames[i].run \in Runs

\* _append_validated admits what reduce_lifecycle_event reduces.
LEMMA AdmissibleIsReducible ==
  ASSUME MemInv, NEW r \in Runs, NEW e, e.run = r
  PROVE  /\ ProjectEvents(r, eventsByRun[r]) = After(r, eventsByRun[r], Len(eventsByRun[r]))
         /\ Memory!Admissible(e) <=> /\ e.id \notin eventIds
                                     /\ CanReduce(After(r, eventsByRun[r], Len(eventsByRun[r])), e)
<1> DEFINE s == eventsByRun[r]
           len == Len(s)
           p == After(r, s, len)
<1>0. Legal(r, s) /\ s \in Seq(EventsIn(s)) /\ len \in 0..3
  BY DEF MemInv, Legal
<1>1. ProjectEvents(r, s) = p
  BY <1>0, Projected
<1>2. /\ p.seq = len /\ p.run = r /\ p.state = StateAt(s, len)
      /\ p.last = IF len = 0 THEN GenesisHash ELSE EventHash(s[len])
  BY <1>0, SequenceIsLength, AfterFields
<1>3. ValidProjection(p)
  BY <1>0, ValidAfter
<1>4. Memory!CurrentState(r) = StateAt(s, len) /\ Memory!NextSequence(r) = len + 1
  BY <1>0, StateIsAt, MemoryIsLifecycle DEF Memory!CurrentState, Memory!NextSequence,
      Memory!Events
<1>5. Memory!PriorHash(r) = IF len = 0 THEN GenesisHash ELSE EventHash(s[len])
  <2>1. s = <<>> <=> len = 0
    BY <1>0
  <2>2. Memory!Last(s) = s[len]
    BY DEF Memory!Last
  <2> QED
    BY <2>1, <2>2, MemoryIsLifecycle DEF Memory!PriorHash, Memory!Events
<1> HIDE DEF len, p
<1>6. CanReduce(p, e) <=> /\ e.intact /\ e.seq = len + 1
                          /\ e.prior = (IF len = 0 THEN GenesisHash ELSE EventHash(s[len]))
                          /\ Allowed(StateAt(s, len), e.type)
  <2>1. e.prior = (IF p.seq # 0 THEN p.last ELSE GenesisHash)
          <=> e.prior = (IF len = 0 THEN GenesisHash ELSE EventHash(s[len]))
    BY <1>2
  <2> QED
    BY <1>2, <1>3, <2>1 DEF CanReduce
<1>7. Memory!Admissible(e) <=> e.id \notin eventIds /\ CanReduce(p, e)
  BY <1>4, <1>5, <1>6, MemoryIsLifecycle DEF Memory!Admissible
<1> QED
  BY <1>1, <1>7 DEF p, len

\* A frame less, or one more on a run.
LEMMA FramesShrink ==
  ASSUME MemInv, frames # <<>>, frames' = Memory!Front(frames)
  PROVE  /\ frames' \in Seq({frames'[i] : i \in 1..Len(frames')})
         /\ \A i \in 1..Len(frames') : frames'[i].run \in Runs
         /\ Memory!Last(frames).run \in Runs
<1> DEFINE n == Len(frames)
           f == frames'
<1>1. /\ n \in Nat /\ n # 0
      /\ \A i \in 1..n : frames[i].run \in Runs
  BY DEF MemInv
<1>2. f = [i \in 1..(n - 1) |-> frames[i]]
  <2>1. f = SubSeq(frames, 1, n - 1)
    BY DEF Memory!Front
  <2> QED
    BY <1>1, <2>1
<1>3. Memory!Last(frames) = frames[n]
  BY DEF Memory!Last
<1> HIDE DEF n, f
<1>4. f \in Seq({f[i] : i \in 1..(n - 1)}) /\ Len(f) = n - 1
  <2> DEFINE A == {f[i] : i \in 1..(n - 1)}
  <2>1. f \in [1..(n - 1) -> A]
    BY <1>2
  <2> HIDE DEF A
  <2>2. f \in Seq(A) /\ Len(f) = n - 1
    BY <1>1, <2>1
  <2> QED
    BY <2>2 DEF A
<1>5. \A i \in 1..(n - 1) : f[i].run \in Runs
  BY <1>1, <1>2
<1> QED
  BY <1>1, <1>3, <1>4, <1>5 DEF f

LEMMA FramesGrow ==
  ASSUME MemInv, NEW x, x.run \in Runs, frames' = Append(frames, x)
  PROVE  /\ frames' \in Seq({frames'[i] : i \in 1..Len(frames')})
         /\ \A i \in 1..Len(frames') : frames'[i].run \in Runs
<1> DEFINE n == Len(frames)
           f == frames'
           A == {frames[i] : i \in 1..n} \cup {x}
<1>1. /\ f \in Seq(A) /\ n \in Nat /\ Len(f) = n + 1 /\ f[n + 1] = x
      /\ \A i \in 1..n : f[i] = frames[i]
  BY Appended DEF MemInv
<1>2. \A i \in 1..n : frames[i].run \in Runs
  BY DEF MemInv
<1> HIDE DEF n, f
<1>3. \A a \in A : \E i \in 1..(n + 1) : f[i] = a
  BY <1>1
<1>4. A = {f[i] : i \in 1..(n + 1)}
  <2> HIDE DEF A
  <2> QED
    BY <1>1, <1>3
<1>5. \A i \in 1..(n + 1) : f[i].run \in Runs
  BY <1>1, <1>2
<1> HIDE DEF A
<1> QED
  BY <1>1, <1>4, <1>5 DEF f

LEMMA StoreStep ==
  ASSUME MemInv, NEW e, e.run \in Runs, Memory!Admissible(e), Memory!Store(e),
         frames' \in Seq({frames'[i] : i \in 1..Len(frames')}),
         \A i \in 1..Len(frames') : frames'[i].run \in Runs
  PROVE  MemInv'
<1> DEFINE r == e.run
           s == eventsByRun[r]
           t == Append(s, e)
           len == Len(s)
<1>1. /\ s \in Seq(EventsIn(s)) /\ Legal(r, s) /\ len \in 0..3
      /\ \A i \in 1..len : s[i].id \in eventIds
      /\ \A i, j \in 1..len : s[i].id = s[j].id => i = j
  BY DEF MemInv, Legal
<1>2. /\ e.id \notin eventIds /\ CanReduce(After(r, s, len), e)
  BY AdmissibleIsReducible
<1>3. Legal(r, t)
  BY <1>1, <1>2, LegalAppend
<1>4. /\ t \in Seq(EventsIn(s) \cup {e}) /\ Len(t) = len + 1 /\ t[len + 1] = e
      /\ \A i \in 1..len : t[i] = s[i]
  BY <1>1, Appended
<1>5. EventsIn(t) = EventsIn(s) \cup {e}
  <2>1. EventsIn(s) = {s[i] : i \in 1..len} /\ EventsIn(t) = {t[i] : i \in 1..(len + 1)}
    BY <1>4 DEF EventsIn
  <2> HIDE DEF len, t, s
  <2>2. \A d \in EventsIn(s) \cup {e} : \E i \in 1..(len + 1) : t[i] = d
    BY <1>1, <1>4, <2>1
  <2>3. \A i \in 1..(len + 1) : t[i] \in EventsIn(s) \cup {e}
    BY <1>1, <1>4, <2>1
  <2>4. \A d : d \in {t[i] : i \in 1..(len + 1)} <=> d \in EventsIn(s) \cup {e}
    <3> DEFINE E == EventsIn(s) \cup {e}
    <3>1. \A d \in E : \E i \in 1..(len + 1) : t[i] = d
      BY <2>2
    <3>2. \A i \in 1..(len + 1) : t[i] \in E
      BY <2>3
    <3>3. \A d : d \in {t[i] : i \in 1..(len + 1)} <=> d \in E
      <4> HIDE DEF E
      <4> QED
        BY <3>1, <3>2
    <3> QED
      BY <3>3
  <2>5. EventsIn(t) = EventsIn(s) \cup {e}
    BY <2>1, <2>4
  <2> QED
    BY <2>5
<1>6. /\ eventsByRun' = [eventsByRun EXCEPT ![r] = t] /\ eventIds' = eventIds \cup {e.id}
  BY DEF Memory!Store
<1>7. /\ eventsByRun' = [x \in Runs |-> eventsByRun'[x]]
      /\ eventsByRun'[r] = t
      /\ \A x \in Runs : x # r => eventsByRun'[x] = eventsByRun[x]
  <2> HIDE DEF t
  <2> QED
    BY <1>6 DEF MemInv
<1>8. /\ \A i \in 1..(len + 1) : t[i].id \in eventIds'
      /\ \A i, j \in 1..(len + 1) : t[i].id = t[j].id => i = j
  <2> HIDE DEF len, t, s
  <2>1. \A i \in 1..(len + 1) : i = len + 1 \/ i \in 1..len
    BY <1>1
  <2>2. \A i \in 1..len : t[i].id \in eventIds /\ t[i].id = s[i].id
    BY <1>1, <1>4
  <2>3. t[len + 1].id = e.id /\ e.id \notin eventIds /\ eventIds' = eventIds \cup {e.id}
    BY <1>2, <1>4, <1>6
  <2>4. \A i \in 1..(len + 1) : t[i].id \in eventIds'
    BY <2>1, <2>2, <2>3
  <2>5. \A i, j \in 1..(len + 1) : t[i].id = t[j].id => i = j
    <3> TAKE i, j \in 1..(len + 1)
    <3>1. CASE i \in 1..len /\ j \in 1..len
      BY <1>1, <2>2, <3>1
    <3>2. CASE i = len + 1 \/ j = len + 1
      BY <2>1, <2>2, <2>3, <3>2
    <3> QED
      BY <2>1, <3>1, <3>2
  <2> QED
    BY <2>4, <2>5
<1>9. ASSUME NEW x \in Runs
      PROVE  /\ eventsByRun'[x] \in Seq(EventsIn(eventsByRun'[x]))
             /\ Legal(x, eventsByRun'[x])
             /\ \A i \in 1..Len(eventsByRun'[x]) : eventsByRun'[x][i].id \in eventIds'
             /\ \A i, j \in 1..Len(eventsByRun'[x]) :
                  eventsByRun'[x][i].id = eventsByRun'[x][j].id => i = j
  <2>1. CASE x = r
    <3> HIDE DEF t, len
    <3> QED
      BY <1>3, <1>4, <1>5, <1>7, <1>8, <2>1
  <2>2. CASE x # r
    BY <1>6, <1>7, <2>2 DEF MemInv
  <2> QED
    BY <2>1, <2>2
<1> QED
  BY <1>7, <1>9 DEF MemInv

LEMMA MemStep ==
  ASSUME MemInv, [Memory!Next]_memory
  PROVE  MemInv'
<1> DEFINE Good == /\ frames' \in Seq({frames'[i] : i \in 1..Len(frames')})
                   /\ \A i \in 1..Len(frames') : frames'[i].run \in Runs
<1>a. ASSUME UNCHANGED <<eventsByRun, eventIds>>, Good
      PROVE  MemInv'
  BY <1>a DEF MemInv
<1>b. ASSUME UNCHANGED frames
      PROVE  Good
  BY <1>b DEF MemInv
<1> HIDE DEF Good
<1>1. CASE UNCHANGED memory
  BY <1>1, <1>a, <1>b DEF memory
<1>2. ASSUME NEW e \in Memory!CandidateEvents, Memory!AppendEvent(e)
      PROVE  MemInv'
  <2>1. e.run \in Runs
    BY DEF Memory!CandidateEvents
  <2>2. Good
    BY <1>2, <1>b DEF Memory!AppendEvent
  <2> QED
    BY <1>2, <2>1, <2>2, StoreStep DEF Memory!AppendEvent, Good
<1>3. ASSUME NEW r \in Runs, NEW type \in Memory!EventType, Memory!IngestBegin(r, type)
      PROVE  MemInv'
  <2> DEFINE x == [run |-> r, type |-> type, seq |-> Memory!NextSequence(r), prior |-> Memory!PriorHash(r)]
  <2>1. x.run = r /\ frames' = Append(frames, x) /\ UNCHANGED <<eventsByRun, eventIds>>
    BY <1>3 DEF Memory!IngestBegin
  <2> HIDE DEF x
  <2>2. Good
    BY <2>1, FramesGrow DEF Good
  <2> QED
    BY <2>1, <2>2, <1>a
<1>4. ASSUME NEW id \in MemoryEventIds, Memory!IngestEnd(id)
      PROVE  MemInv'
  <2> DEFINE e == Memory!BuildEvent(Memory!Last(frames), id)
  <2>1. Good /\ Memory!Last(frames).run \in Runs
    BY <1>4, FramesShrink DEF Memory!IngestEnd, Good
  <2>2. e.run \in Runs
    BY <2>1 DEF Memory!BuildEvent
  <2>3. Memory!StoreBuilt(e)
    BY <1>4 DEF Memory!IngestEnd
  <2> HIDE DEF e
  <2>4. CASE Memory!Admissible(e)
    BY <2>1, <2>2, <2>3, <2>4, StoreStep DEF Memory!StoreBuilt, Good
  <2>5. CASE ~ Memory!Admissible(e)
    BY <2>1, <2>3, <2>5, <1>a DEF Memory!StoreBuilt
  <2> QED
    BY <2>4, <2>5
<1>5. CASE Memory!BuilderRaises
  <2>1. Good
    BY <1>5, FramesShrink DEF Memory!BuilderRaises, Good
  <2> QED
    BY <1>5, <2>1, <1>a DEF Memory!BuilderRaises
<1> QED
  BY <1>1, <1>2, <1>3, <1>4, <1>5 DEF Memory!Next

LEMMA MemInitial == Memory!Init => MemInv
<1> SUFFICES ASSUME Memory!Init PROVE MemInv
  OBVIOUS
<1>1. eventsByRun = [r \in Runs |-> <<>>] /\ frames = <<>>
  BY DEF Memory!Init
<1>2. <<>> \in Seq(EventsIn(<<>>)) /\ Len(<<>>) = 0 /\ <<>> \in Seq({frames[i] : i \in 1..Len(frames)})
  OBVIOUS
<1> QED
  BY <1>1, <1>2, EmptyIsLegal DEF MemInv

LEMMA ChecksumIsAt ==
  ASSUME NEW s, Len(s) \in 0..3
  PROVE  TransitionChecksum(s) = ChecksumAt(s, Len(s))
<1> DEFINE len == Len(s)
           F(f) == f = [n \in 0..len |-> IF n = 0 THEN GenesisHash ELSE AdvanceChecksum(f[n - 1], s[n])]
           g == [n \in 0..len |-> ChecksumAt(s, n)]
<1>0. len \in 0..3
  OBVIOUS
<1> HIDE DEF len
<1>1. ASSUME NEW n \in 1..len
      PROVE  ChecksumAt(s, n) = AdvanceChecksum(ChecksumAt(s, n - 1), s[n])
  <2>1. n = 1 \/ n = 2 \/ n = 3
    BY <1>0
  <2> QED
    BY <2>1 DEF ChecksumAt
<1>2. F(g)
  <2>1. ASSUME NEW n \in 0..len
        PROVE  g[n] = IF n = 0 THEN GenesisHash ELSE AdvanceChecksum(g[n - 1], s[n])
    <3>1. CASE n = 0
      BY <3>1 DEF ChecksumAt
    <3>2. CASE n # 0
      <4>1. n \in 1..len /\ n - 1 \in 0..len
        BY <1>0, <3>2
      <4>2. g[n] = ChecksumAt(s, n) /\ g[n - 1] = ChecksumAt(s, n - 1)
        BY <4>1
      <4> HIDE DEF g
      <4> QED
        BY <1>1, <3>2, <4>1, <4>2
    <3> QED
      BY <3>1, <3>2
  <2>2. g = [n \in 0..len |-> g[n]]
    OBVIOUS
  <2> HIDE DEF g
  <2> QED
    BY <2>1, <2>2
<1>3. F(CHOOSE f : F(f))
  <2> HIDE DEF F
  <2> QED
    BY <1>2
<1> DEFINE h == CHOOSE f : F(f)
<1>4. TransitionChecksum(s) = h[len]
  BY DEF TransitionChecksum, len
<1>5. h = [n \in 0..len |-> IF n = 0 THEN GenesisHash ELSE AdvanceChecksum(h[n - 1], s[n])]
  BY <1>3
<1> HIDE DEF h
<1>6. h[0] = ChecksumAt(s, 0)
  BY <1>0, <1>5 DEF ChecksumAt
<1>7. 1 <= len => h[1] = ChecksumAt(s, 1)
  BY <1>0, <1>1, <1>5, <1>6
<1>8. 2 <= len => h[2] = ChecksumAt(s, 2)
  BY <1>0, <1>1, <1>5, <1>7
<1>9. 3 <= len => h[3] = ChecksumAt(s, 3)
  BY <1>0, <1>1, <1>5, <1>8
<1>10. h[len] = ChecksumAt(s, len)
  BY <1>0, <1>6, <1>7, <1>8, <1>9
<1> QED
  BY <1>4, <1>10 DEF len


LEMMA ChecksumGrows ==
  ASSUME NEW s, NEW n \in 0..3
  PROVE  Len(ChecksumAt(s, n)) = n
<1> DEFINE link(e) == <<e.id, e.run, e.seq, e.type>>
           L == {link(s[1]), link(s[2]), link(s[3])}
<1>1. <<>> \in Seq(L) /\ Len(<<>>) = 0 /\ link(s[1]) \in L /\ link(s[2]) \in L /\ link(s[3]) \in L
  OBVIOUS
<1>2. \A c, e : AdvanceChecksum(c, e) = Append(c, link(e))
  BY DEF AdvanceChecksum
<1>3. ASSUME NEW c \in Seq(L), NEW e, link(e) \in L
      PROVE  AdvanceChecksum(c, e) \in Seq(L) /\ Len(AdvanceChecksum(c, e)) = Len(c) + 1
  <2> HIDE DEF L, link
  <2> QED
    BY <1>2, <1>3, AppendProperties
<1> HIDE DEF L, link
<1> DEFINE c1 == AdvanceChecksum(GenesisHash, s[1])
           c2 == AdvanceChecksum(c1, s[2])
           c3 == AdvanceChecksum(c2, s[3])
<1>4. c1 \in Seq(L) /\ Len(c1) = 0 + 1
  BY <1>1, <1>3 DEF GenesisHash
<1>5. c2 \in Seq(L) /\ Len(c2) = 1 + 1
  <2> HIDE DEF c1
  <2>1. AdvanceChecksum(c1, s[2]) \in Seq(L) /\ Len(AdvanceChecksum(c1, s[2])) = Len(c1) + 1
    BY <1>1, <1>3, <1>4
  <2> QED
    BY <1>4, <2>1
<1>6. Len(c3) = 2 + 1
  <2> HIDE DEF c2
  <2>1. Len(AdvanceChecksum(c2, s[3])) = Len(c2) + 1
    BY <1>1, <1>3, <1>5
  <2> QED
    BY <1>5, <2>1
<1>7. ChecksumAt(s, n) = IF n = 0 THEN <<>> ELSE IF n = 1 THEN c1 ELSE IF n = 2 THEN c2 ELSE c3
  BY DEF ChecksumAt, GenesisHash
<1> HIDE DEF c1, c2, c3
<1> QED
  BY <1>1, <1>4, <1>5, <1>6, <1>7

\* The projection and the checksum of a prefix.
LEMMA PrefixReplay ==
  ASSUME NEW r, NEW s, NEW A, s \in Seq(A), Legal(r, s), NEW n \in 0..Len(s)
  PROVE  /\ ProjectEvents(r, SubSeq(s, 1, n)) = After(r, s, n)
         /\ TransitionChecksum(SubSeq(s, 1, n)) = ChecksumAt(s, n)
<1> DEFINE len == Len(s)
           t == SubSeq(s, 1, n)
<1>0. len \in 0..3 /\ n \in 0..len /\ n \in 0..3
  <2>1. len \in 0..3 /\ n \in 0..len
    BY DEF Legal
  <2> HIDE DEF len
  <2> QED
    BY <2>1
<1>1. Len(t) = n /\ \A i \in 1..n : t[i] = s[i]
  OBVIOUS
<1> HIDE DEF t
<1>2. ASSUME NEW m \in 0..n
      PROVE  After(r, t, m) = After(r, s, m) /\ ChecksumAt(t, m) = ChecksumAt(s, m)
  <2>1. m \in 0..3 /\ \A i \in 1..m : t[i] = s[i]
    <3> HIDE DEF len
    <3> QED
      BY <1>0, <1>1
  <2> QED
    BY <2>1, SamePrefix
<1>3. Legal(r, t)
  <2>1. ASSUME NEW m \in 0..2, m < Len(t)
        PROVE  CanReduce(After(r, t, m), t[m + 1])
    <3>1. m \in 0..n /\ m + 1 \in 1..n /\ m < len
      <4> HIDE DEF len
      <4> QED
        BY <1>0, <1>1, <2>1
    <3>2. CanReduce(After(r, s, m), s[m + 1])
      BY <3>1 DEF Legal
    <3>3. t[m + 1] = s[m + 1]
      BY <1>1, <3>1
    <3> QED
      BY <1>2, <3>1, <3>2, <3>3
  <2>2. Len(t) \in 0..3
    BY <1>0, <1>1
  <2> QED
    BY <2>1, <2>2 DEF Legal
<1>4. ProjectEvents(r, t) = After(r, t, n)
  BY <1>1, <1>3, Projected
<1>5. TransitionChecksum(t) = ChecksumAt(t, n)
  BY <1>0, <1>1, ChecksumIsAt
<1>6. n \in 0..n
  BY <1>0
<1> QED
  BY <1>2, <1>4, <1>5, <1>6 DEF t

LEMMA VerifyIsExact ==
  ASSUME MemInv, NEW r \in Runs, NEW n \in 1..Len(eventsByRun[r]),
         NEW m \in 1..Len(eventsByRun[r])
  PROVE  Memory!VerifyReplay(eventsByRun[r], After(r, eventsByRun[r], n), ChecksumAt(eventsByRun[r], m))
           <=> n = Len(eventsByRun[r]) /\ m = Len(eventsByRun[r])
<1> DEFINE s == eventsByRun[r]
           len == Len(s)
<1>0. /\ s \in Seq(EventsIn(s)) /\ Legal(r, s) /\ len \in 0..3 /\ n \in 1..len /\ m \in 1..len
      /\ NoDuplicateIds(s)
  <2>1. s \in Seq(EventsIn(s)) /\ Legal(r, s) /\ len \in 0..3 /\ n \in 1..len /\ m \in 1..len
    BY DEF MemInv, Legal
  <2>2. DOMAIN s = 1..len
    BY <2>1
  <2> QED
    BY <2>1, <2>2 DEF MemInv, NoDuplicateIds
<1>1. s # <<>> /\ s[1].run = r
  <2>1. 0 < Len(s) /\ s[0 + 1].run = r
    BY <1>0, NextEvent
  <2> QED
    BY <1>0, <2>1
<1>2. n \in 0..len /\ len \in 0..len /\ m \in 0..3 /\ len \in 0..3
  <2> HIDE DEF len
  <2> QED
    BY <1>0
<1>3. ProjectEvents(r, s) = After(r, s, len) /\ After(r, s, len) # Rejected
  BY <1>0, <1>2, Projected, NotRejected
<1>4. ValidProjection(After(r, s, n))
  BY <1>0, <1>2, ValidAfter
<1>5. After(r, s, n) = After(r, s, len) <=> n = len
  BY <1>0, <1>2, SequenceIsLength
<1>6. TransitionChecksum(s) = ChecksumAt(s, len)
  BY <1>0, ChecksumIsAt
<1>7. ChecksumAt(s, m) = ChecksumAt(s, len) <=> m = len
  BY <1>2, ChecksumGrows
<1> HIDE DEF len
<1>8. Memory!VerifyReplay(s, After(r, s, n), ChecksumAt(s, m)) <=> n = len /\ m = len
  BY <1>0, <1>1, <1>3, <1>4, <1>5, <1>6, <1>7, MemoryIsLifecycle DEF Memory!VerifyReplay
<1> QED
  BY <1>8 DEF len

LEMMA MemExact == MemInv => ReplayIsExact
<1> SUFFICES ASSUME MemInv PROVE ReplayIsExact
  OBVIOUS
<1>1. ASSUME NEW e \in Memory!CandidateEvents
      PROVE  Memory!Admissible(e) <=>
               /\ e.id \notin eventIds
               /\ Memory!CanReduce(Memory!ProjectEvents(e.run, Memory!Events(e.run)), e)
  <2>1. e.run \in Runs
    BY DEF Memory!CandidateEvents
  <2> QED
    BY <2>1, AdmissibleIsReducible, MemoryIsLifecycle DEF Memory!Events
<1>2. Memory!AdmissionMatchesReducer
  BY <1>1 DEF Memory!AdmissionMatchesReducer
<1>3. ASSUME NEW r \in Runs, NEW n \in 1..Len(eventsByRun[r]), NEW m \in 1..Len(eventsByRun[r])
      PROVE  Memory!VerifyReplay(eventsByRun[r],
                                 Memory!ProjectEvents(r, SubSeq(eventsByRun[r], 1, n)),
                                 Memory!TransitionChecksum(SubSeq(eventsByRun[r], 1, m)))
               <=> n = Len(eventsByRun[r]) /\ m = Len(eventsByRun[r])
  <2> DEFINE s == eventsByRun[r]
  <2>1. s \in Seq(EventsIn(s)) /\ Legal(r, s) /\ Len(s) \in 0..3
    BY DEF MemInv, Legal
  <2>2. n \in 0..Len(s) /\ m \in 0..Len(s)
    BY <2>1
  <2>3. Memory!ProjectEvents(r, SubSeq(s, 1, n)) = After(r, s, n)
    BY <2>1, <2>2, PrefixReplay, MemoryIsLifecycle
  <2>4. Memory!TransitionChecksum(SubSeq(s, 1, m)) = ChecksumAt(s, m)
    BY <2>1, <2>2, PrefixReplay, MemoryIsLifecycle
  <2> QED
    BY <2>3, <2>4, VerifyIsExact
<1>4. Memory!VerificationIsExact
  BY <1>3 DEF Memory!VerificationIsExact, Memory!Events
<1> QED
  BY <1>2, <1>4 DEF ReplayIsExact

MemoryNamed(r) ==
  [i \in DOMAIN Memory!Events(r) |->
     [id |-> Memory!Events(r)[i].id, type |-> Memory!Events(r)[i].type]]

MemoryStreams == [r \in Runs |-> MemoryNamed(r)]

LEMMA MemoryAbstractIsLifecycle ==
  /\ \A x : Memory!Abstract!StateAfter(x) = StateAfter(x)
  /\ \A x, y : Memory!Abstract!Allowed(x, y) <=> Allowed(x, y)
BY DEF Memory!Abstract!StateAfter, StateAfter, Memory!Abstract!Target, Target,
       Memory!Abstract!Allowed, Allowed, Memory!Abstract!Transitions, Transitions,
       Memory!Abstract!LifecycleState, LifecycleState

LEMMA MemoryRecords ==
  ASSUME MemInv, NEW e, e.run \in Runs, e.id \in MemoryEventIds, Memory!Admissible(e),
         Memory!Store(e)
  PROVE  \E r \in Runs, id \in MemoryEventIds, type \in Memory!Abstract!EventType :
           Memory!Abstract!Record(r, id, type)
<1> DEFINE r == e.run
           s == eventsByRun[r]
           names == MemoryStreams
<1>1. ASSUME NEW x \in Runs
      PROVE  /\ eventsByRun[x] \in Seq(EventsIn(eventsByRun[x])) /\ Len(eventsByRun[x]) \in 0..3
             /\ MemoryNamed(x) = Names(eventsByRun[x]) /\ names[x] = Names(eventsByRun[x])
  BY DEF MemInv, Legal, MemoryNamed, MemoryStreams, Memory!Events, Names
<1>2. /\ e.id \notin eventIds /\ CanReduce(After(r, s, Len(s)), e)
  BY AdmissibleIsReducible
<1>3. Allowed(StateAfter(names[r]), e.type) /\ e.type \in Memory!Abstract!EventType
  <2>1. After(r, s, Len(s)).state = StateAt(s, Len(s))
    BY AfterFields
  <2>2. Allowed(StateAt(s, Len(s)), e.type)
    BY <1>2, <2>1 DEF CanReduce
  <2>3. StateAfter(names[r]) = StateAt(s, Len(s))
    BY <1>1, NamedStream
  <2> QED
    BY <2>2, <2>3, TransitionTable DEF Memory!Abstract!EventType
<1>4. e.id \notin Memory!Abstract!SpentIds
  <2>1. ASSUME NEW x \in Runs, NEW i \in DOMAIN names[x]
        PROVE  names[x][i].id # e.id
    <3> DEFINE len == Len(eventsByRun[x])
    <3>1. DOMAIN names[x] = 1..len
      <4>1. DOMAIN eventsByRun[x] = 1..len
        BY <1>1
      <4> QED
        BY <1>1, <4>1 DEF Names
    <3>2. names[x][i].id = eventsByRun[x][i].id
      <4>1. \A j \in 1..len : Names(eventsByRun[x])[j].id = eventsByRun[x][j].id
        BY <1>1, NamedStream
      <4>2. i \in 1..len /\ names[x] = Names(eventsByRun[x])
        BY <1>1, <2>1, <3>1
      <4> HIDE DEF names, len
      <4> QED
        BY <4>1, <4>2
    <3>3. eventsByRun[x][i].id \in eventIds
      BY <2>1, <3>1 DEF MemInv
    <3> QED
      BY <1>2, <3>2, <3>3
  <2>2. Memory!Abstract!SpentIds = UNION { { names[x][i].id : i \in DOMAIN names[x] } : x \in Runs }
    BY DEF Memory!Abstract!SpentIds, MemoryStreams, MemoryNamed
  <2> HIDE DEF names
  <2> QED
    BY <2>1, <2>2
<1>5. names' = [names EXCEPT ![r] = Append(@, [id |-> e.id, type |-> e.type])]
  <2>1. eventsByRun' = [eventsByRun EXCEPT ![r] = Append(s, e)]
    BY DEF Memory!Store
  <2>2. eventsByRun'[r] = Append(s, e) /\ \A x \in Runs : x # r =>
          eventsByRun'[x] = eventsByRun[x]
    BY <2>1 DEF MemInv
  <2>3. \A x \in Runs : MemoryNamed(x)' = Names(eventsByRun'[x])
    BY DEF MemoryNamed, Memory!Events, Names
  <2>4. MemoryNamed(r)' = Append(MemoryNamed(r), [id |-> e.id, type |-> e.type])
    <3>1. MemoryNamed(r)' = Names(Append(s, e)) /\ MemoryNamed(r) = Names(s)
      BY <1>1, <2>2, <2>3
    <3>2. s \in Seq(EventsIn(s)) /\ Len(s) \in 0..3
      BY <1>1
    <3> QED
      BY <3>1, <3>2, NamedAppend
  <2>5. \A x \in Runs : x # r => MemoryNamed(x)' = MemoryNamed(x)
    BY <1>1, <2>2, <2>3
  <2> QED
    BY <2>4, <2>5 DEF MemoryStreams
<1>6. Memory!Abstract!Record(r, e.id, e.type)
  <2>1. Memory!Abstract!Allowed(Memory!Abstract!StateAfter(names[r]), e.type)
    BY <1>3, MemoryAbstractIsLifecycle
  <2> QED
    BY <1>4, <1>5, <2>1 DEF Memory!Abstract!Record, MemoryStreams, MemoryNamed
<1> QED
  BY <1>3, <1>6

LEMMA MemoryStreamStep ==
  ASSUME MemInv, [Memory!Next]_memory
  PROVE  Memory!Abstract!Next \/ MemoryStreams' = MemoryStreams
<1>a. ASSUME UNCHANGED eventsByRun
      PROVE  MemoryStreams' = MemoryStreams
  BY <1>a DEF MemoryStreams, MemoryNamed, Memory!Events
<1>b. ASSUME NEW e, e.run \in Runs, e.id \in MemoryEventIds, Memory!Admissible(e), Memory!Store(e)
      PROVE  Memory!Abstract!Next
  BY <1>b, MemoryRecords DEF Memory!Abstract!Next
<1>1. CASE UNCHANGED memory
  BY <1>1, <1>a DEF memory
<1>2. ASSUME NEW e \in Memory!CandidateEvents, Memory!AppendEvent(e)
      PROVE  Memory!Abstract!Next
  <2>1. e.run \in Runs /\ e.id \in MemoryEventIds
    BY DEF Memory!CandidateEvents
  <2> QED
    BY <1>2, <2>1, <1>b DEF Memory!AppendEvent
<1>3. ASSUME NEW r \in Runs, NEW type \in Memory!EventType, Memory!IngestBegin(r, type)
      PROVE  MemoryStreams' = MemoryStreams
  BY <1>3, <1>a DEF Memory!IngestBegin
<1>4. ASSUME NEW id \in MemoryEventIds, Memory!IngestEnd(id)
      PROVE  Memory!Abstract!Next \/ MemoryStreams' = MemoryStreams
  <2> DEFINE e == Memory!BuildEvent(Memory!Last(frames), id)
  <2>1. Memory!Last(frames).run \in Runs
    BY <1>4, FramesShrink DEF Memory!IngestEnd
  <2>2. e.run \in Runs /\ e.id \in MemoryEventIds
    BY <2>1 DEF Memory!BuildEvent
  <2>3. Memory!StoreBuilt(e)
    BY <1>4 DEF Memory!IngestEnd
  <2> HIDE DEF e
  <2> QED
    BY <2>2, <2>3, <1>a, <1>b DEF Memory!StoreBuilt
<1>5. CASE Memory!BuilderRaises
  BY <1>5, <1>a DEF Memory!BuilderRaises
<1> QED
  BY <1>1, <1>2, <1>3, <1>4, <1>5 DEF Memory!Next

LEMMA MemoryStreamInitial == Memory!Init => Memory!Abstract!Init
<1> SUFFICES ASSUME Memory!Init PROVE Memory!Abstract!Init
  OBVIOUS
<1>1. \A r \in Runs : MemoryNamed(r) = <<>>
  BY DEF Memory!Init, MemoryNamed, Memory!Events
<1> QED
  BY <1>1 DEF Memory!Abstract!Init, MemoryNamed

LEMMA EitherIsMemory == [EitherNext]_EitherVars => [Memory!Next]_memory
BY DEF EitherNext, EitherVars, memory

LEMMA MemAlways == EitherSpec => [](MemInv) /\ [][Memory!Next]_memory
<1>1. EitherInit => MemInv
  BY MemInitial DEF EitherInit
<1>2. MemInv /\ [EitherNext]_EitherVars => MemInv'
  BY EitherIsMemory, MemStep
<1> QED
  BY <1>1, <1>2, EitherIsMemory, PTL DEF EitherSpec, EitherVars

\* In memory, whatever order of nested and direct appends built a stream, the
\* log admits exactly the events that the reducer would reduce after a replay
\* of the run, and verification accepts that replay and none that stops
\* short of the last event (event_log.py, _append_validated; reducer.py;
\* replay.py).
THEOREM ReplayExact == EitherSpec => []ReplayIsExact
BY MemAlways, MemExact, PTL

\* The in-memory log is that stream too, although a validator may append
\* to the log from inside an append (event_log.py, _append_validated).
THEOREM MemoryImplementsStream == EitherSpec => Memory!ImplementsStream
<1>1. EitherInit => Memory!Abstract!Init
  BY MemoryStreamInitial DEF EitherInit
<1>2. MemInv /\ [Memory!Next]_memory => [Memory!Abstract!Next]_MemoryStreams
  BY MemoryStreamStep
<1>3. EitherSpec => EitherInit
  BY DEF EitherSpec
<1> QED
  BY <1>1, <1>2, <1>3, MemAlways, PTL
  DEF Memory!ImplementsStream, Memory!Abstract!Spec, MemoryStreams, MemoryNamed

\* Both logs implement the stream, by the name the run checks.
THEOREM BothImplement == EitherSpec => BothImplementStream
BY PostgresImplementsStream, MemoryImplementsStream, PTL DEF BothImplementStream

-----------------------------------------------------------------------------
(* Migrations *)

\* The transaction of a call: what it ran, and of that what it recorded, is
\* what it read as pending, in order.
ProgressInv(r) ==
  LET ran == connection[r].ran
      rows1 == connection[r].rows
      pending == applying[r].pending
  IN  /\ Len(ran) <= Len(pending) /\ Len(rows1) <= Len(ran) /\ Len(ran) <= Len(rows1) + 1
      /\ \A i \in 1..Len(ran) : ran[i] = pending[i]
      /\ \A i \in 1..Len(rows1) : rows1[i] = ran[i]

CallInv(r) ==
  /\ ~ connection[r].open =>
       ~ connection[r].locked /\ connection[r].ran = <<>> /\ connection[r].rows = <<>>
  /\ applying[r].at \in {"lock", "read"} => connection[r].ran = <<>> /\ connection[r].rows = <<>>
  /\ applying[r].at \in {"lock", "read", "apply"} =>
       /\ connection[r].open /\ applying[r].package \in MCPackages /\ ~ applying[r].attempted
       /\ applying[r].made = <<>> /\ applying[r].verdict = "none"
  /\ applying[r].at \in {"read", "apply"} => connection[r].locked
  /\ applying[r].at = "apply" =>
       /\ Migration!IsPrefix(ledger, applying[r].package)
       /\ applying[r].pending = SubSeq(applying[r].package, Len(ledger) + 1, Len(applying[r].package))
       /\ ProgressInv(r)
  /\ applying[r].at = "undo" =>
       /\ applying[r].verdict = "none"
       /\ ~ applying[r].attempted => applying[r].made = <<>>
  /\ applying[r].made \in {<<>>, applying[r].pending}
  /\ applying[r].verdict = "returned" => applying[r].made = applying[r].pending
  /\ applying[r].verdict = "failed" => applying[r].made = <<>>

LockInv ==
  \A r, q \in Sessions : connection[r].locked /\ connection[q].locked => r = q

LedgerInv == ledger = schema /\ \E p \in MCPackages : Migration!IsPrefix(ledger, p)

MigInv ==
  /\ Migration!TypeOK /\ LockInv /\ LedgerInv
  /\ \A r \in Sessions : CallInv(r)

\* A step of one runner that commits nothing.
LEMMA RunnerOnly ==
  ASSUME MigInv, NEW r \in Sessions, UNCHANGED <<ledger, schema>>,
         connection' \in [Sessions -> Migration!Transaction],
         applying' \in [Sessions -> Migration!Call],
         \A q \in Sessions :
           q # r => connection'[q] = connection[q] /\ applying'[q] = applying[q],
         CallInv(r)',
         connection'[r].locked =>
           connection[r].locked \/ \A q \in Sessions : ~ connection[q].locked
  PROVE  MigInv'
<1>1. Migration!TypeOK' /\ LedgerInv'
  BY DEF MigInv, Migration!TypeOK, LedgerInv
<1>2. LockInv'
  BY DEF MigInv, LockInv
<1>3. ASSUME NEW q \in Sessions
      PROVE  CallInv(q)'
  <2>1. CASE q = r
    BY <2>1
  <2>2. CASE q # r
    <3>1. CallInv(q) /\ connection'[q] = connection[q] /\ applying'[q] = applying[q]
      BY <2>2 DEF MigInv
    <3> QED
      BY <3>1 DEF CallInv, ProgressInv
  <2> QED
    BY <2>1, <2>2
<1> QED
  BY <1>1, <1>2, <1>3 DEF MigInv

LEMMA MigTypes ==
  ASSUME MigInv
  PROVE  /\ connection \in [Sessions -> Migration!Transaction]
         /\ applying \in [Sessions -> Migration!Call]
         /\ ledger \in Seq(Migration!Migrations) /\ schema \in Seq(Migration!Migrations)
         /\ \A p \in MCPackages : p \in Seq(Migration!Migrations)
BY MigrationConstants DEF MigInv, Migration!TypeOK, Migration!PackagesAssumption

LEMMA Empty == <<>> \in Seq(Migration!Migrations)
OBVIOUS

LEMMA NoTransactionFields ==
  /\ Migration!NoTransaction \in Migration!Transaction
  /\ ~ Migration!NoTransaction.open /\ ~ Migration!NoTransaction.locked
  /\ Migration!NoTransaction.ran = <<>> /\ Migration!NoTransaction.rows = <<>>
<1>1. /\ ~ Migration!NoTransaction.open /\ ~ Migration!NoTransaction.locked
  BY DEF Migration!NoTransaction
<1> QED
  BY <1>1, Empty DEF Migration!NoTransaction, Migration!Transaction

LEMMA NoCallFields ==
  /\ Migration!NoCall \in Migration!Call
  /\ Migration!NoCall.at = "idle"
  /\ Migration!NoCall.made = <<>>
  /\ Migration!NoCall.verdict = "none"
  /\ ~ Migration!NoCall.attempted
<1>1. ~ Migration!NoCall.attempted
  BY DEF Migration!NoCall
<1> QED
  BY <1>1, Empty DEF Migration!NoCall, Migration!Call

\* A call that only moves on keeps every field but where it is.
LEMMA MovesOn ==
  ASSUME MigInv, NEW r \in Sessions, NEW x \in {"lock", "read", "apply", "undo"},
         applying' = [applying EXCEPT ![r].at = x]
  PROVE  /\ applying' \in [Sessions -> Migration!Call]
         /\ \A q \in Sessions : q # r => applying'[q] = applying[q]
         /\ applying'[r].at = x
         /\ applying'[r].package = applying[r].package
         /\ applying'[r].attempted = applying[r].attempted
         /\ applying'[r].pending = applying[r].pending
         /\ applying'[r].made = applying[r].made
         /\ applying'[r].verdict = applying[r].verdict
<1> DEFINE c == [applying[r] EXCEPT !.at = x]
<1>1. applying \in [Sessions -> Migration!Call] /\ applying[r] \in Migration!Call
  BY MigTypes
<1>2. c \in Migration!Call /\ c.at = x
  BY <1>1 DEF Migration!Call
<1>3. /\ c.package = applying[r].package /\ c.attempted = applying[r].attempted
      /\ c.pending = applying[r].pending
      /\ c.made = applying[r].made /\ c.verdict = applying[r].verdict
  BY <1>1 DEF Migration!Call
<1>4. applying' = [applying EXCEPT ![r] = c]
  BY <1>1
<1> HIDE DEF c
<1> QED
  BY <1>1, <1>2, <1>3, <1>4

LEMMA BeginMigrationStep ==
  ASSUME MigInv, NEW r \in Sessions, NEW p \in MCPackages, Migration!Begin(r, p)
  PROVE  MigInv'
<1> DEFINE c == [Migration!NoCall EXCEPT !.at = "lock", !.package = p]
<1>1. /\ applying' = [applying EXCEPT ![r] = c]
      /\ connection' = [connection EXCEPT ![r].open = TRUE]
      /\ ~ connection[r].open /\ UNCHANGED <<ledger, schema>>
  BY DEF Migration!Begin
<1>2. /\ c \in Migration!Call
      /\ c.at = "lock"
      /\ c.package = p
      /\ c.made = <<>>
      /\ c.verdict = "none"
      /\ ~ c.attempted
  BY NoCallFields DEF Migration!Call
<1> HIDE DEF c
<1>3. /\ applying' \in [Sessions -> Migration!Call] /\ applying'[r] = c
      /\ \A q \in Sessions : q # r => applying'[q] = applying[q]
  BY <1>1, <1>2, MigTypes
<1>4. /\ connection' \in [Sessions -> Migration!Transaction]
      /\ \A q \in Sessions : q # r => connection'[q] = connection[q]
      /\ connection'[r].open
      /\ connection'[r].ran = connection[r].ran /\ connection'[r].rows = connection[r].rows
      /\ connection'[r].locked = connection[r].locked
  BY <1>1, MigTypes DEF Migration!Transaction
<1>5. connection[r].ran = <<>> /\ connection[r].rows = <<>>
  BY <1>1 DEF MigInv, CallInv
<1>6. CallInv(r)'
  BY <1>2, <1>3, <1>4, <1>5 DEF CallInv
<1> QED
  BY <1>1, <1>3, <1>4, <1>6, RunnerOnly

LEMMA LockMigrationStep ==
  ASSUME MigInv, NEW r \in Sessions, Migration!Lock(r)
  PROVE  MigInv'
<1>1. /\ applying' = [applying EXCEPT ![r].at = "read"]
      /\ connection' = [connection EXCEPT ![r].locked = TRUE]
      /\ applying[r].at = "lock" /\ (\A q \in Sessions : ~ connection[q].locked)
      /\ UNCHANGED <<ledger, schema>>
  BY DEF Migration!Lock
<1>2. /\ applying' \in [Sessions -> Migration!Call]
      /\ \A q \in Sessions : q # r => applying'[q] = applying[q]
      /\ applying'[r].at = "read" /\ applying'[r].package = applying[r].package
      /\ applying'[r].attempted = applying[r].attempted
      /\ applying'[r].made = applying[r].made /\ applying'[r].verdict = applying[r].verdict
  BY <1>1, MovesOn
<1>3. /\ connection' \in [Sessions -> Migration!Transaction]
      /\ \A q \in Sessions : q # r => connection'[q] = connection[q]
      /\ connection'[r].locked /\ connection'[r].open = connection[r].open
      /\ connection'[r].ran = connection[r].ran /\ connection'[r].rows = connection[r].rows
  BY <1>1, MigTypes DEF Migration!Transaction
<1>4. /\ connection[r].ran = <<>> /\ connection[r].rows = <<>>
      /\ connection[r].open /\ applying[r].package \in MCPackages /\ ~ applying[r].attempted
      /\ applying[r].made = <<>> /\ applying[r].verdict = "none"
  BY <1>1 DEF MigInv, CallInv
<1>5. CallInv(r)'
  BY <1>2, <1>3, <1>4 DEF CallInv
<1> QED
  BY <1>1, <1>2, <1>3, <1>5, RunnerOnly

\* What holds while a call has the lock.
LEMMA Applying ==
  ASSUME MigInv, NEW r \in Sessions, applying[r].at = "apply"
  PROVE  /\ connection[r].open /\ connection[r].locked
         /\ applying[r].package \in MCPackages /\ ~ applying[r].attempted
         /\ applying[r].made = <<>> /\ applying[r].verdict = "none"
         /\ Migration!IsPrefix(ledger, applying[r].package)
         /\ applying[r].pending = SubSeq(applying[r].package, Len(ledger) + 1, Len(applying[r].package))
         /\ ProgressInv(r)
BY DEF MigInv, CallInv

LEMMA ReadMigrationStep ==
  ASSUME MigInv, NEW r \in Sessions, Migration!Read(r)
  PROVE  MigInv'
<1> DEFINE package == applying[r].package
           pending == SubSeq(package, Len(ledger) + 1, Len(package))
<1>1. /\ applying[r].at = "read" /\ UNCHANGED <<ledger, schema, connection>>
  BY DEF Migration!Read
<1>2. /\ connection[r].ran = <<>> /\ connection[r].rows = <<>> /\ connection[r].locked
      /\ connection[r].open /\ package \in MCPackages /\ ~ applying[r].attempted
      /\ applying[r].made = <<>> /\ applying[r].verdict = "none"
  BY <1>1 DEF MigInv, CallInv
<1>3. package \in Seq(Migration!Migrations) /\ ledger \in Seq(Migration!Migrations)
  BY <1>2, MigTypes
<1>4. CASE Migration!Verified(ledger, package)
  <2>1. applying' = [applying EXCEPT ![r].at = "apply", ![r].pending = pending]
    BY <1>4 DEF Migration!Read
  <2>2. pending \in Seq(Migration!Migrations) /\ Len(pending) \in Nat
    <3> HIDE DEF package
    <3>1. \A i \in (Len(ledger) + 1)..Len(package) : package[i] \in Migration!Migrations
      BY <1>3
    <3> QED
      BY <1>3, <3>1, SubSeqProperties
  <2> HIDE DEF pending
  <2>3. /\ applying' \in [Sessions -> Migration!Call]
        /\ \A q \in Sessions : q # r => applying'[q] = applying[q]
        /\ applying'[r].at = "apply" /\ applying'[r].package = package
        /\ applying'[r].pending = pending
        /\ applying'[r].attempted = applying[r].attempted
        /\ applying'[r].made = applying[r].made /\ applying'[r].verdict = applying[r].verdict
    BY <2>1, <2>2, MigTypes DEF Migration!Call
  <2>4. Migration!IsPrefix(ledger, package)
    BY <1>4 DEF Migration!Verified
  <2>5. ProgressInv(r)'
    BY <1>1, <1>2, <2>2, <2>3 DEF ProgressInv
  <2>6. CallInv(r)'
    BY <1>1, <1>2, <2>3, <2>4, <2>5 DEF CallInv, pending
  <2> QED
    BY <1>1, <1>2, <2>3, <2>6, MigTypes, RunnerOnly
<1>5. CASE ~ Migration!Verified(ledger, package)
  <2>1. applying' = [applying EXCEPT ![r].at = "undo"]
    BY <1>5 DEF Migration!Read
  <2>2. /\ applying' \in [Sessions -> Migration!Call]
        /\ \A q \in Sessions : q # r => applying'[q] = applying[q]
        /\ applying'[r].at = "undo" /\ applying'[r].verdict = applying[r].verdict
        /\ applying'[r].made = applying[r].made
    BY <2>1, MovesOn
  <2>3. CallInv(r)'
    BY <1>1, <1>2, <2>2 DEF CallInv
  <2> QED
    BY <1>1, <1>2, <2>2, <2>3, MigTypes, RunnerOnly
<1> QED
  BY <1>4, <1>5

LEMMA ExecuteStep ==
  ASSUME MigInv, NEW r \in Sessions, Migration!Execute(r)
  PROVE  MigInv'
<1> DEFINE ran == connection[r].ran
           pending == applying[r].pending
           next == pending[Len(ran) + 1]
           t == Append(ran, next)
<1>1. /\ applying[r].at = "apply" /\ Len(ran) < Len(pending) /\ Len(ran) = Len(connection[r].rows)
      /\ connection' = [connection EXCEPT ![r].ran = t]
      /\ UNCHANGED <<ledger, schema, applying>>
  BY DEF Migration!Execute
<1>2. /\ ran \in Seq(Migration!Migrations) /\ pending \in Seq(Migration!Migrations)
      /\ connection[r].rows \in Seq(Migration!Migrations)
  BY MigTypes DEF Migration!Transaction, Migration!Call
<1>3. next \in Migration!Migrations
  <2> HIDE DEF ran, pending
  <2>1. Len(ran) + 1 \in 1..Len(pending)
    BY <1>1, <1>2
  <2> QED
    BY <1>2, <2>1
<1> HIDE DEF next
<1>4. /\ t \in Seq(Migration!Migrations) /\ Len(t) = Len(ran) + 1 /\ t[Len(ran) + 1] = next
      /\ \A i \in 1..Len(ran) : t[i] = ran[i]
  BY <1>2, <1>3, AppendProperties
<1> HIDE DEF t
<1>5. /\ connection' \in [Sessions -> Migration!Transaction]
      /\ \A q \in Sessions : q # r => connection'[q] = connection[q]
      /\ connection'[r].ran = t /\ connection'[r].rows = connection[r].rows
      /\ connection'[r].open = connection[r].open /\ connection'[r].locked = connection[r].locked
  BY <1>1, <1>4, MigTypes DEF Migration!Transaction
<1>6. ProgressInv(r)'
  <2> DEFINE rows1 == connection[r].rows
             n == Len(ran)
             k == Len(rows1)
             len == Len(pending)
  <2>1. /\ k = n /\ n <= len
        /\ \A i \in 1..n : ran[i] = pending[i]
        /\ \A i \in 1..k : rows1[i] = ran[i]
    BY <1>1, Applying DEF ProgressInv
  <2>2. n \in Nat /\ k \in Nat /\ len \in Nat
    BY <1>2
  <2>3. /\ n < len /\ Len(t) = n + 1 /\ t[n + 1] = pending[n + 1]
        /\ \A i \in 1..n : t[i] = ran[i]
    BY <1>1, <1>4 DEF next
  <2> HIDE DEF n, k, len, ran, rows1
  <2>4. \A i \in 1..(n + 1) : t[i] = pending[i]
    BY <2>1, <2>2, <2>3
  <2>5. \A i \in 1..k : rows1[i] = t[i]
    BY <2>1, <2>2, <2>3
  <2>6. n + 1 <= len /\ k <= n + 1 /\ n + 1 <= k + 1
    BY <2>1, <2>2, <2>3
  <2> QED
    BY <1>1, <1>5, <2>3, <2>4, <2>5, <2>6 DEF ProgressInv, n, k, len, rows1
<1>7. CallInv(r)'
  BY <1>1, <1>5, <1>6, Applying DEF CallInv
<1> QED
  BY <1>1, <1>5, <1>7, MigTypes, RunnerOnly

LEMMA RecordStep ==
  ASSUME MigInv, NEW r \in Sessions, Migration!Record(r)
  PROVE  MigInv'
<1> DEFINE ran == connection[r].ran
           rows1 == connection[r].rows
           pending == applying[r].pending
           last == ran[Len(ran)]
           t == Append(rows1, last)
<1>1. /\ applying[r].at = "apply" /\ Len(rows1) < Len(ran)
      /\ UNCHANGED <<ledger, schema, applying>>
  BY DEF Migration!Record
<1>2. connection' = [connection EXCEPT ![r].rows = t]
  <2>1. connection' = [connection EXCEPT ![r].rows = Append(@, last)]
    BY DEF Migration!Record, Migration!Last
  <2> HIDE DEF last
  <2> QED
    BY <2>1, MigTypes DEF Migration!Transaction
<1>3. /\ ran \in Seq(Migration!Migrations) /\ rows1 \in Seq(Migration!Migrations)
      /\ pending \in Seq(Migration!Migrations)
  BY MigTypes DEF Migration!Transaction, Migration!Call
<1>4. last \in Migration!Migrations
  <2> HIDE DEF ran, rows1
  <2>1. Len(ran) \in 1..Len(ran)
    BY <1>1, <1>3
  <2> QED
    BY <1>3, <2>1
<1> HIDE DEF last
<1>5. /\ t \in Seq(Migration!Migrations) /\ Len(t) = Len(rows1) + 1 /\ t[Len(rows1) + 1] = last
      /\ \A i \in 1..Len(rows1) : t[i] = rows1[i]
  BY <1>3, <1>4, AppendProperties
<1> HIDE DEF t
<1>6. /\ connection' \in [Sessions -> Migration!Transaction]
      /\ \A q \in Sessions : q # r => connection'[q] = connection[q]
      /\ connection'[r].rows = t /\ connection'[r].ran = connection[r].ran
      /\ connection'[r].open = connection[r].open /\ connection'[r].locked = connection[r].locked
  BY <1>2, <1>5, MigTypes DEF Migration!Transaction
<1>7. ProgressInv(r)'
  <2> DEFINE n == Len(ran)
             k == Len(rows1)
             len == Len(pending)
  <2>1. /\ k <= n /\ n <= k + 1 /\ n <= len
        /\ \A i \in 1..n : ran[i] = pending[i]
        /\ \A i \in 1..k : rows1[i] = ran[i]
    BY <1>1, Applying DEF ProgressInv
  <2>2. n \in Nat /\ k \in Nat /\ len \in Nat /\ k < n
    BY <1>1, <1>3
  <2>3. /\ Len(t) = k + 1 /\ t[k + 1] = ran[n]
        /\ \A i \in 1..k : t[i] = rows1[i]
    BY <1>5 DEF last
  <2> HIDE DEF n, k, len, ran, rows1
  <2>4. n = k + 1
    BY <2>1, <2>2
  <2>5. \A i \in 1..(k + 1) : t[i] = ran[i]
    BY <2>1, <2>2, <2>3, <2>4
  <2> QED
    BY <1>1, <1>6, <2>1, <2>2, <2>3, <2>4, <2>5 DEF ProgressInv, n, k, len, ran
<1>8. CallInv(r)'
  BY <1>1, <1>6, <1>7, Applying DEF CallInv
<1> QED
  BY <1>1, <1>6, <1>8, MigTypes, RunnerOnly

\* A transaction about to commit ran and recorded all that was pending, and
\* what was pending completes the ledger.
LEMMA ReadyIsComplete ==
  ASSUME MigInv, NEW r \in Sessions, Migration!Ready(r)
  PROVE  /\ connection[r].ran = applying[r].pending
         /\ connection[r].rows = applying[r].pending
         /\ ledger \o applying[r].pending = applying[r].package
         /\ applying[r].package \in MCPackages
<1> DEFINE ran == connection[r].ran
           rows1 == connection[r].rows
           pending == applying[r].pending
           package == applying[r].package
           n == Len(ran)
           k == Len(rows1)
           len == Len(pending)
<1>1. applying[r].at = "apply" /\ k = len
  BY DEF Migration!Ready
<1>2. /\ ran \in Seq(Migration!Migrations) /\ rows1 \in Seq(Migration!Migrations)
      /\ pending \in Seq(Migration!Migrations) /\ ledger \in Seq(Migration!Migrations)
  BY MigTypes DEF Migration!Transaction, Migration!Call
<1>3. /\ k <= n /\ n <= len
      /\ \A i \in 1..n : ran[i] = pending[i]
      /\ \A i \in 1..k : rows1[i] = ran[i]
      /\ package \in MCPackages /\ Migration!IsPrefix(ledger, package)
      /\ pending = SubSeq(package, Len(ledger) + 1, Len(package))
  BY <1>1, Applying DEF ProgressInv
<1>4. package \in Seq(Migration!Migrations)
  BY <1>3, MigTypes
<1>5. n \in Nat /\ k \in Nat /\ len \in Nat
  BY <1>2
<1>6. n = len /\ k = len
  <2> HIDE DEF n, k, len
  <2> QED
    BY <1>1, <1>3, <1>5
<1>7. /\ ran = [i \in 1..n |-> ran[i]]
      /\ rows1 = [i \in 1..k |-> rows1[i]]
      /\ pending = [i \in 1..len |-> pending[i]]
  BY <1>2
<1>8. ran = pending /\ rows1 = pending
  <2> HIDE DEF n, k, len, ran, rows1, pending
  <2>1. \A i \in 1..len : ran[i] = pending[i] /\ rows1[i] = pending[i]
    BY <1>3, <1>6
  <2> QED
    BY <1>6, <1>7, <2>1
<1>9. ledger \o pending = package
  <2> DEFINE l == Len(ledger)
             m == Len(package)
  <2>1. l \in Nat /\ m \in Nat /\ l <= m
    BY <1>2, <1>3, <1>4 DEF Migration!IsPrefix
  <2>2. \A i \in 1..l : ledger[i] = package[i]
    <3>1. SubSeq(ledger, 1, l) = SubSeq(package, 1, l)
      BY <1>3 DEF Migration!IsPrefix
    <3>2. \A i \in 1..l :
            SubSeq(ledger, 1, l)[i] = ledger[i] /\ SubSeq(package, 1, l)[i] = package[i]
      <4> HIDE DEF package
      <4> QED
        BY <1>2, <1>4, <2>1
    <3> QED
      BY <3>1, <3>2
  <2>3. Len(pending) = m - l /\ \A i \in 1..(m - l) : pending[i] = package[l + i]
    <3>1. pending = SubSeq(package, l + 1, m)
      BY <1>3
    <3> HIDE DEF pending, package, l, m
    <3>2. SubSeq(package, l + 1, m) = [i \in 1..(m - l) |-> package[l + i]]
      BY <1>4, <2>1
    <3>3. pending = [i \in 1..(m - l) |-> package[l + i]] /\ m - l \in Nat
      BY <2>1, <3>1, <3>2
    <3> QED
      BY <3>3
  <2> DEFINE both == ledger \o pending
  <2>4. /\ both \in Seq(Migration!Migrations) /\ Len(both) = l + len
        /\ \A i \in 1..l : both[i] = ledger[i]
        /\ \A i \in (l + 1)..(l + len) : both[i] = pending[i - l]
    <3> HIDE DEF pending
    <3> QED
      BY <1>2, ConcatProperties
  <2> HIDE DEF l, m, both, pending, package, len
  <2>5. \A i \in 1..m : both[i] = package[i]
    <3> TAKE i \in 1..m
    <3>1. CASE i \in 1..l
      BY <2>2, <2>4, <3>1
    <3>2. CASE i \notin 1..l
      <4>1. i \in (l + 1)..(l + len) /\ i - l \in 1..(m - l) /\ l + (i - l) = i
        BY <2>1, <2>3, <3>2 DEF len
      <4> QED
        BY <2>3, <2>4, <4>1
    <3> QED
      BY <3>1, <3>2
  <2>6. Len(both) = m
    BY <2>1, <2>3, <2>4 DEF len
  <2>7. both = [i \in 1..m |-> both[i]] /\ package = [i \in 1..m |-> package[i]]
    BY <1>4, <2>4, <2>6 DEF m
  <2>8. both = package
    BY <2>5, <2>7
  <2> QED
    BY <2>8 DEF both
<1> QED
  BY <1>3, <1>8, <1>9

\* What a committed call is told.
LEMMA Outcomes ==
  ASSUME NEW c0 \in Migration!Call, NEW m \in Seq(Migration!Migrations), NEW c,
         c = [c0 EXCEPT !.made = m]
  PROVE  /\ Migration!CommitReturns(c) \in Migration!Call
         /\ Migration!CommitReturns(c).at = "exit"
         /\ Migration!CommitReturns(c).verdict = "returned"
         /\ Migration!CommitReturns(c).made = m /\ Migration!CommitReturns(c).pending = c0.pending
         /\ Migration!CommitRaises(c) \in Migration!Call
         /\ Migration!CommitRaises(c).at = "undo"
         /\ Migration!CommitRaises(c).verdict = c0.verdict
         /\ Migration!CommitRaises(c).attempted
         /\ Migration!CommitRaises(c).made = m /\ Migration!CommitRaises(c).pending = c0.pending
<1>1. /\ c \in Migration!Call /\ c.made = m /\ c.pending = c0.pending /\ c.verdict = c0.verdict
  BY DEF Migration!Call
<1> QED
  BY <1>1 DEF Migration!CommitReturns, Migration!CommitRaises, Migration!Call

LEMMA CommitMigrationStep ==
  ASSUME MigInv, NEW r \in Sessions, Migration!Commit(r)
  PROVE  MigInv'
<1> DEFINE package == applying[r].package
           pending == applying[r].pending
           c == [applying[r] EXCEPT !.made = connection[r].ran]
<1>1. /\ Migration!Ready(r) /\ applying[r].at = "apply"
      /\ ledger' = ledger \o connection[r].rows /\ schema' = schema \o connection[r].ran
      /\ connection' = [connection EXCEPT ![r] = Migration!NoTransaction]
      /\ \/ applying' = [applying EXCEPT ![r] = Migration!CommitReturns(c)]
         \/ applying' = [applying EXCEPT ![r] = Migration!CommitRaises(c)]
  BY DEF Migration!Commit, Migration!Ready
<1>2. /\ connection[r].ran = pending /\ connection[r].rows = pending
      /\ ledger \o pending = package /\ package \in MCPackages
  BY <1>1, ReadyIsComplete
<1>3. /\ connection[r].locked /\ applying[r].verdict = "none"
  BY <1>1, Applying
<1>4. /\ applying[r] \in Migration!Call /\ connection[r].ran \in Seq(Migration!Migrations)
  BY MigTypes DEF Migration!Transaction
<1>5. /\ Migration!CommitReturns(c) \in Migration!Call
      /\ Migration!CommitReturns(c).at = "exit" /\ Migration!CommitReturns(c).verdict = "returned"
      /\ Migration!CommitReturns(c).made = pending /\ Migration!CommitReturns(c).pending = pending
      /\ Migration!CommitRaises(c) \in Migration!Call
      /\ Migration!CommitRaises(c).at = "undo" /\ Migration!CommitRaises(c).verdict = "none"
      /\ Migration!CommitRaises(c).attempted
      /\ Migration!CommitRaises(c).made = pending /\ Migration!CommitRaises(c).pending = pending
  BY <1>2, <1>3, <1>4, Outcomes
<1> HIDE DEF c
<1>6. ledger' = package /\ schema' = package
  BY <1>1, <1>2 DEF MigInv, LedgerInv
<1>7. package \in Seq(Migration!Migrations)
  BY <1>2, MigTypes
<1>8. LedgerInv'
  <2>1. Migration!IsPrefix(package, package)
    <3> HIDE DEF package
    <3> QED
      BY <1>7 DEF Migration!IsPrefix
  <2> QED
    BY <1>2, <1>6, <2>1 DEF LedgerInv
<1>9. /\ connection' \in [Sessions -> Migration!Transaction]
      /\ connection'[r] = Migration!NoTransaction
      /\ \A q \in Sessions : q # r => connection'[q] = connection[q]
  BY <1>1, MigTypes, NoTransactionFields
<1>10. /\ applying' \in [Sessions -> Migration!Call]
       /\ applying'[r] \in {Migration!CommitReturns(c), Migration!CommitRaises(c)}
       /\ \A q \in Sessions : q # r => applying'[q] = applying[q]
  BY <1>1, <1>5, MigTypes
<1>11. Migration!TypeOK'
  BY <1>6, <1>7, <1>9, <1>10 DEF Migration!TypeOK
<1>12. LockInv'
  BY <1>9, NoTransactionFields DEF MigInv, LockInv
<1>13. ASSUME NEW q \in Sessions
       PROVE  CallInv(q)'
  <2>1. CASE q = r
    BY <1>5, <1>9, <1>10, <2>1, NoTransactionFields DEF CallInv
  <2>2. CASE q # r
    <3>1. /\ CallInv(q) /\ connection'[q] = connection[q] /\ applying'[q] = applying[q]
      BY <1>9, <1>10, <2>2 DEF MigInv
    <3>2. ~ connection[q].locked
      BY <1>3, <2>2 DEF MigInv, LockInv
    <3> QED
      BY <3>1, <3>2 DEF CallInv
  <2> QED
    BY <2>1, <2>2
<1> QED
  BY <1>8, <1>11, <1>12, <1>13 DEF MigInv

LEMMA CommitFailsStep ==
  ASSUME MigInv, NEW r \in Sessions, Migration!CommitFails(r)
  PROVE  MigInv'
<1> DEFINE c == Migration!CommitRaises(applying[r])
<1>1. /\ applying[r].at = "apply" /\ UNCHANGED <<ledger, schema, connection>>
      /\ applying' = [applying EXCEPT ![r] = c]
  BY MigTypes DEF Migration!CommitFails, Migration!Ready
<1>c. /\ c \in Migration!Call
      /\ c.at = "undo" /\ c.attempted /\ c.verdict = applying[r].verdict
      /\ c.made = applying[r].made
  <2>1. applying[r] \in Migration!Call
    BY MigTypes
  <2> QED
    BY <2>1 DEF Migration!CommitRaises, Migration!Call
<1> HIDE DEF c
<1>2. /\ applying' \in [Sessions -> Migration!Call] /\ applying'[r] = c
      /\ \A q \in Sessions : q # r => applying'[q] = applying[q]
  BY <1>1, <1>c, MigTypes
<1>3. CallInv(r)'
  BY <1>1, <1>c, <1>2, Applying DEF CallInv
<1> QED
  BY <1>1, <1>2, <1>3, MigTypes, RunnerOnly

LEMMA FailMigrationStep ==
  ASSUME MigInv, NEW r \in Sessions, Migration!Fail(r)
  PROVE  MigInv'
<1>1. /\ applying[r].at \in {"lock", "read", "apply"} /\ UNCHANGED <<ledger, schema, connection>>
      /\ applying' = [applying EXCEPT ![r].at = "undo"]
  BY DEF Migration!Fail
<1>2. /\ applying' \in [Sessions -> Migration!Call]
      /\ \A q \in Sessions : q # r => applying'[q] = applying[q]
      /\ applying'[r].at = "undo" /\ applying'[r].verdict = applying[r].verdict
      /\ applying'[r].made = applying[r].made
  BY <1>1, MovesOn
<1>3. applying[r].verdict = "none" /\ applying[r].made = <<>> /\ connection[r].open
  BY <1>1 DEF MigInv, CallInv
<1>4. CallInv(r)'
  BY <1>1, <1>2, <1>3 DEF CallInv
<1> QED
  BY <1>1, <1>2, <1>4, MigTypes, RunnerOnly

\* The body of a call is over, or there is no call.
LEMMA EndsBody ==
  ASSUME MigInv, NEW r \in Sessions, UNCHANGED <<ledger, schema>>,
         connection' = connection \/ connection' = [connection EXCEPT ![r] = Migration!NoTransaction],
         applying' \in [Sessions -> Migration!Call],
         \A q \in Sessions : q # r => applying'[q] = applying[q],
         applying'[r].at \in {"exit", "idle"},
         applying'[r].made \in {<<>>, applying'[r].pending},
         applying'[r].verdict = "returned" => applying'[r].made = applying'[r].pending,
         applying'[r].verdict = "failed" => applying'[r].made = <<>>
  PROVE  MigInv'
<1>1. /\ connection' \in [Sessions -> Migration!Transaction]
      /\ connection'[r] = connection[r] \/ connection'[r] = Migration!NoTransaction
      /\ \A q \in Sessions : q # r => connection'[q] = connection[q]
  BY MigTypes, NoTransactionFields
<1>2. /\ connection'[r].locked => connection[r].locked
      /\ ~ connection'[r].open =>
           ~ connection'[r].locked /\ connection'[r].ran = <<>> /\ connection'[r].rows = <<>>
  BY <1>1, NoTransactionFields DEF MigInv, CallInv
<1>3. CallInv(r)'
  BY <1>2 DEF CallInv
<1> QED
  BY <1>1, <1>2, <1>3, RunnerOnly

LEMMA RefuseStep ==
  ASSUME MigInv, NEW r \in Sessions, Migration!Refuse(r)
  PROVE  MigInv'
<1>1. PICK at \in {"idle", "exit"} :
        applying' = [applying EXCEPT ![r] = [Migration!NoCall EXCEPT !.at = at, !.verdict = "failed"]]
  BY DEF Migration!Refuse
<1>2. UNCHANGED <<ledger, schema, connection>>
  BY DEF Migration!Refuse
<1> DEFINE c == [Migration!NoCall EXCEPT !.at = at, !.verdict = "failed"]
<1>3. c \in Migration!Call /\ c.at = at /\ c.verdict = "failed" /\ c.made = <<>>
  BY NoCallFields DEF Migration!Call
<1> HIDE DEF c
<1>4. /\ applying' \in [Sessions -> Migration!Call] /\ applying'[r] = c
      /\ \A q \in Sessions : q # r => applying'[q] = applying[q]
  BY <1>1, <1>3, MigTypes DEF c
<1> QED
  BY <1>2, <1>3, <1>4, EndsBody

LEMMA RollBackStep ==
  ASSUME MigInv, NEW r \in Sessions, Migration!RollBack(r) \/ Migration!RollBackFails(r)
  PROVE  MigInv'
<1> DEFINE v == IF applying[r].attempted THEN "ambiguous" ELSE "failed"
<1>1. PICK x \in {v, "ambiguous"} : applying' = [applying EXCEPT ![r].at = "exit", ![r].verdict = x]
  BY DEF Migration!RollBack, Migration!RollBackFails
<1>2. /\ applying[r].at = "undo" /\ UNCHANGED <<ledger, schema>>
      /\ connection' = connection \/ connection' = [connection EXCEPT ![r] = Migration!NoTransaction]
  BY DEF Migration!RollBack, Migration!RollBackFails
<1>3. x = "ambiguous" \/ (x = "failed" /\ ~ applying[r].attempted)
  OBVIOUS
<1>4. /\ applying' \in [Sessions -> Migration!Call]
      /\ \A q \in Sessions : q # r => applying'[q] = applying[q]
      /\ applying'[r].at = "exit" /\ applying'[r].verdict = x
      /\ applying'[r].made = applying[r].made /\ applying'[r].pending = applying[r].pending
  <2> DEFINE c == [applying[r] EXCEPT !.at = "exit", !.verdict = x]
  <2>1. applying \in [Sessions -> Migration!Call] /\ applying[r] \in Migration!Call
    BY MigTypes
  <2>2. /\ c \in Migration!Call /\ c.at = "exit" /\ c.verdict = x
        /\ c.made = applying[r].made /\ c.pending = applying[r].pending
    BY <1>3, <2>1 DEF Migration!Call
  <2>3. applying' = [applying EXCEPT ![r] = c]
    BY <1>1, <2>1
  <2> HIDE DEF c
  <2> QED
    BY <2>1, <2>2, <2>3
<1>5. /\ ~ applying[r].attempted => applying[r].made = <<>>
      /\ applying[r].made \in {<<>>, applying[r].pending}
  BY <1>2 DEF MigInv, CallInv
<1> QED
  BY <1>2, <1>3, <1>4, <1>5, EndsBody

LEMMA ExitMigrationStep ==
  ASSUME MigInv, NEW r \in Sessions, Migration!Exit(r)
  PROVE  MigInv'
<1> DEFINE Ended(x) == [applying[r] EXCEPT !.at = "idle", !.package = <<>>,
                                          !.attempted = FALSE, !.verdict = x]
<1>1. PICK x \in {applying[r].verdict, "exit_raised"} :
        applying' = [applying EXCEPT ![r] = Ended(x)]
  BY DEF Migration!Exit
<1>2. UNCHANGED <<ledger, schema, connection>>
  BY DEF Migration!Exit
<1> DEFINE c == Ended(x)
<1>3. applying \in [Sessions -> Migration!Call] /\ applying[r] \in Migration!Call
  BY MigTypes
<1>4. /\ c \in Migration!Call /\ c.at = "idle" /\ c.verdict = x
      /\ c.made = applying[r].made /\ c.pending = applying[r].pending
  BY <1>3 DEF Migration!Call
<1>5. applying' = [applying EXCEPT ![r] = c]
  BY <1>1
<1> HIDE DEF c, Ended
<1>6. /\ applying' \in [Sessions -> Migration!Call] /\ applying'[r] = c
      /\ \A q \in Sessions : q # r => applying'[q] = applying[q]
  BY <1>3, <1>4, <1>5
<1>7. x \in {applying[r].verdict, "exit_raised"}
  BY <1>1
<1>8. /\ applying[r].made \in {<<>>, applying[r].pending}
      /\ applying[r].verdict = "returned" => applying[r].made = applying[r].pending
      /\ applying[r].verdict = "failed" => applying[r].made = <<>>
  BY DEF MigInv, CallInv
<1> QED
  BY <1>2, <1>4, <1>6, <1>7, <1>8, EndsBody

LEMMA DieStep ==
  ASSUME MigInv, NEW r \in Sessions, Migration!Die(r)
  PROVE  MigInv'
<1>1. /\ applying' = [applying EXCEPT ![r] = Migration!NoCall]
      /\ UNCHANGED <<ledger, schema, connection>>
  BY DEF Migration!Die
<1>2. /\ applying' \in [Sessions -> Migration!Call] /\ applying'[r] = Migration!NoCall
      /\ \A q \in Sessions : q # r => applying'[q] = applying[q]
  BY <1>1, MigTypes, NoCallFields
<1> QED
  BY <1>1, <1>2, NoCallFields, EndsBody

LEMMA ServerAbortsStep ==
  ASSUME MigInv, NEW r \in Sessions, Migration!ServerAborts(r)
  PROVE  MigInv'
<1>1. /\ applying[r].at \in {"exit", "idle"} /\ UNCHANGED <<ledger, schema, applying>>
      /\ connection' = [connection EXCEPT ![r] = Migration!NoTransaction]
  BY DEF Migration!ServerAborts
<1>2. CallInv(r)
  BY DEF MigInv
<1> QED
  BY <1>1, <1>2, MigTypes, EndsBody DEF CallInv

LEMMA MigStep ==
  ASSUME MigInv, [Migration!Next]_migrations
  PROVE  MigInv'
<1>1. CASE UNCHANGED migrations
  <2>1. UNCHANGED <<ledger, schema, connection, applying>>
    BY <1>1 DEF migrations
  <2> QED
    BY <2>1 DEF MigInv, Migration!TypeOK, LockInv, LedgerInv, CallInv, ProgressInv
<1>2. ASSUME NEW r \in Sessions,
             \/ Migration!Refuse(r) \/ (\E p \in MCPackages : Migration!Begin(r, p))
             \/ Migration!Lock(r) \/ Migration!Read(r) \/ Migration!Execute(r) \/ Migration!Record(r)
             \/ Migration!Commit(r) \/ Migration!CommitFails(r) \/ Migration!Fail(r)
             \/ Migration!RollBack(r) \/ Migration!RollBackFails(r) \/ Migration!Exit(r)
             \/ Migration!Die(r) \/ Migration!ServerAborts(r)
      PROVE  MigInv'
  BY <1>2, RefuseStep, BeginMigrationStep, LockMigrationStep, ReadMigrationStep, ExecuteStep,
     RecordStep,
     CommitMigrationStep, CommitFailsStep, FailMigrationStep, RollBackStep,
     ExitMigrationStep, DieStep, ServerAbortsStep
<1> QED
  BY <1>1, <1>2 DEF Migration!Next

LEMMA MigInitial == Migration!Init => MigInv
<1> SUFFICES ASSUME Migration!Init PROVE MigInv
  OBVIOUS
<1>1. /\ connection = [r \in Sessions |-> Migration!NoTransaction]
      /\ applying = [r \in Sessions |-> Migration!NoCall]
      /\ ledger = <<>> /\ schema = <<>>
  BY DEF Migration!Init
<1>2. Migration!TypeOK
  BY <1>1, NoTransactionFields, NoCallFields, Empty DEF Migration!TypeOK
<1>3. LockInv
  BY <1>1, NoTransactionFields DEF LockInv
<1>4. LedgerInv
  <2>1. PICK p \in MCPackages : p \in Seq(Migration!Migrations)
    BY MigrationConstants DEF Migration!PackagesAssumption
  <2>2. Migration!IsPrefix(<<>>, p)
    BY <2>1 DEF Migration!IsPrefix
  <2> QED
    BY <1>1, <2>2 DEF LedgerInv
<1>5. \A r \in Sessions : CallInv(r)
  BY <1>1, NoTransactionFields, NoCallFields DEF CallInv
<1> QED
  BY <1>2, <1>3, <1>4, <1>5 DEF MigInv

LEMMA MigExact == MigInv => MigrationsAreExact
BY DEF MigInv, LedgerInv, CallInv, MigrationsAreExact, Migration!MigrationsAreExact

LEMMA EitherIsMigration == [EitherNext]_EitherVars => [Migration!Next]_migrations
BY DEF EitherNext, EitherVars, migrations

\* Whatever packages compete and whichever commit is lost or goes
\* unreported, the ledger is the schema and a prefix of one package.  A call
\* made all that was pending or nothing; if it returns, all, and if the error
\* it raised itself has no note of an ambiguous outcome, nothing (runner.py,
\* apply_pending).  Of a call that ends with an error of its lease's exit,
\* which never has the note, only the first is said.
THEOREM MigrationsExact == EitherSpec => []MigrationsAreExact
<1>1. EitherInit => MigInv
  BY MigInitial DEF EitherInit
<1>2. MigInv /\ [EitherNext]_EitherVars => MigInv'
  BY EitherIsMigration, MigStep
<1> QED
  BY <1>1, <1>2, MigExact, PTL DEF EitherSpec, EitherVars
=============================================================================
