--------------------------- MODULE PingPongProofs ---------------------------
(***************************************************************************)
(* Proofs about PingPong for every period, timeout, delay and depth, any   *)
(* number of iterations and losses: the types, and that the answers stay   *)
(* in phase with the questions.                                            *)
(***************************************************************************)
EXTENDS PingPong, SequenceTheorems, FiniteSetTheorems, TLAPS

\* The samples that can be under way at time n, when c were published, and the
\* records that can be made of them.
Sent(n, c) == {m \in Sample : m.data < c /\ m.time_sent <= n /\ m.at <= n}
Recorded(c) == {r \in Record : r.data < c}

QueueInv ==
  /\ pings \in Seq(Sent(now, count)) /\ pongs \in Seq(Sent(now, count))
  /\ pongInbox \in Seq(Sent(now, count)) /\ pingInbox \in Seq(Sent(now, count))
  /\ samples \in Seq(Recorded(count))

\* The data in a sequence of samples or records, and their order.
Datas(q) == {q[k].data : k \in DOMAIN q}
Ordered(q) == \A j, k \in DOMAIN q : j < k => q[j].data < q[k].data
Below(A, B) == \A a \in A, b \in B : a < b

\* Samples do not overtake one another, neither on a topic nor on their way
\* from one topic to the other.
OrderInv ==
  /\ Ordered(samples) /\ Ordered(pingInbox) /\ Ordered(pongs)
  /\ Ordered(pongInbox) /\ Ordered(pings)
  /\ Below(Datas(samples), Datas(pingInbox) \cup Datas(pongs)
                             \cup Datas(pongInbox) \cup Datas(pings))
  /\ Below(Datas(pingInbox),
           Datas(pongs) \cup Datas(pongInbox) \cup Datas(pings))
  /\ Below(Datas(pongs), Datas(pongInbox) \cup Datas(pings))
  /\ Below(Datas(pongInbox), Datas(pings))

-----------------------------------------------------------------------------
(* Queues.                                                                  *)

LEMMA AppendData ==
  ASSUME NEW S, NEW q \in Seq(S), NEW m
  PROVE  /\ Datas(Append(q, m)) = Datas(q) \cup {m.data}
         /\ Ordered(q) /\ (\A a \in Datas(q) : a < m.data) =>
              Ordered(Append(q, m))
<1> DEFINE r == Append(q, m)
<1>1. /\ Len(q) \in Nat /\ DOMAIN q = 1..Len(q)
      /\ Len(r) = Len(q) + 1 /\ DOMAIN r = 1..(Len(q) + 1)
  OBVIOUS
<1>2. r[Len(q) + 1] = m /\ \A i \in 1..Len(q) : r[i] = q[i]
  OBVIOUS
<1>3. \A i \in 1..(Len(q) + 1) : i \in 1..Len(q) \/ i = Len(q) + 1
  BY <1>1
<1>4. \A i \in 1..Len(q) : i \in 1..(Len(q) + 1)
  BY <1>1
<1>5. Len(q) + 1 \in 1..(Len(q) + 1)
  BY <1>1
<1> HIDE DEF r
<1>6. Datas(r) = Datas(q) \cup {m.data}
  BY <1>1, <1>2, <1>3, <1>4, <1>5 DEF Datas
<1>7. ASSUME Ordered(q), \A a \in Datas(q) : a < m.data,
             NEW j \in DOMAIN r, NEW k \in DOMAIN r, j < k
      PROVE  r[j].data < r[k].data
  <2>1. j \in 1..Len(q)
    BY <1>1, <1>3, <1>7
  <2>2. CASE k \in 1..Len(q)
    BY <1>1, <1>2, <1>7, <2>1, <2>2 DEF Ordered
  <2>3. CASE k = Len(q) + 1
    <3>1. q[j].data \in Datas(q)
      BY <1>1, <2>1 DEF Datas
    <3>2. QED
      BY <1>2, <1>7, <2>1, <2>3, <3>1
  <2>4. QED
    BY <1>1, <1>3, <2>2, <2>3
<1>8. QED
  BY <1>6, <1>7 DEF Ordered, r

LEMMA TailData ==
  ASSUME NEW S, NEW q \in Seq(S), q # << >>
  PROVE  /\ Head(q) \in S /\ Tail(q) \in Seq(S) /\ Len(Tail(q)) = Len(q) - 1
         /\ Head(q).data \in Datas(q) /\ Datas(Tail(q)) \subseteq Datas(q)
         /\ Ordered(q) => /\ Ordered(Tail(q))
                          /\ \A b \in Datas(Tail(q)) : Head(q).data < b
<1> DEFINE r == Tail(q)
<1>1. Len(q) \in Nat /\ Len(q) > 0 /\ DOMAIN q = 1..Len(q)
  OBVIOUS
<1>2. Head(q) = q[1] /\ Head(q) \in S /\ r \in Seq(S) /\ Len(r) = Len(q) - 1
  OBVIOUS
<1>3. DOMAIN r = 1..(Len(q) - 1) /\ \A i \in DOMAIN r : r[i] = q[i + 1]
  BY <1>1, <1>2
<1>4. \A i \in DOMAIN r : i \in Int /\ 1 < i + 1 /\ i + 1 \in DOMAIN q
  BY <1>1, <1>3
<1>5. 1 \in DOMAIN q
  BY <1>1
<1> HIDE DEF r
<1>6. Head(q).data \in Datas(q) /\ Datas(r) \subseteq Datas(q)
  BY <1>2, <1>3, <1>4, <1>5 DEF Datas
<1>7. ASSUME Ordered(q), NEW j \in DOMAIN r, NEW k \in DOMAIN r, j < k
      PROVE  r[j].data < r[k].data
  BY <1>3, <1>4, <1>7 DEF Ordered
<1>8. ASSUME Ordered(q), NEW b \in Datas(r) PROVE Head(q).data < b
  <2>1. PICK k \in DOMAIN r : b = r[k].data
    BY DEF Datas
  <2>2. QED
    BY <1>2, <1>3, <1>4, <1>5, <1>8, <2>1 DEF Ordered
<1>9. QED
  BY <1>2, <1>6, <1>7, <1>8 DEF Ordered, r

\* A KEEP_LAST history forgets, but invents and reorders nothing.
LEMMA KeepLastData ==
  ASSUME NEW S, NEW q \in Seq(S), NEW m \in S
  PROVE  /\ KeepLast(q, m) \in Seq(S)
         /\ Len(q) <= Depth => Len(KeepLast(q, m)) <= Depth
         /\ Datas(KeepLast(q, m)) \subseteq Datas(q) \cup {m.data}
         /\ Ordered(q) /\ (\A a \in Datas(q) : a < m.data) =>
              Ordered(KeepLast(q, m))
<1>1. Depth \in Nat \ {0}
  BY TimesAssumption DEF TimesAssumption
<1>2. Len(q) \in Nat
  OBVIOUS
<1>3. CASE Len(q) < Depth
  <2>1. KeepLast(q, m) = Append(q, m)
    BY <1>3 DEF KeepLast
  <2>2. Len(Append(q, m)) = Len(q) + 1 /\ Append(q, m) \in Seq(S)
    OBVIOUS
  <2>3. QED
    BY <1>1, <1>2, <1>3, <2>1, <2>2, AppendData
<1>4. CASE ~(Len(q) < Depth)
  <2> DEFINE r == Tail(q)
  <2>1. KeepLast(q, m) = Append(r, m) /\ q # << >>
    BY <1>1, <1>2, <1>4 DEF KeepLast
  <2>2. /\ r \in Seq(S) /\ Len(r) = Len(q) - 1 /\ Datas(r) \subseteq Datas(q)
        /\ Ordered(q) => Ordered(r)
    BY <2>1, TailData
  <2> HIDE DEF r
  <2>3. Len(Append(r, m)) = Len(r) + 1 /\ Append(r, m) \in Seq(S)
    BY <2>2
  <2>4. QED
    BY <1>1, <1>2, <2>1, <2>2, <2>3, AppendData
<1>5. QED
  BY <1>3, <1>4

-----------------------------------------------------------------------------
(* The types.                                                               *)

LEMMA Constants ==
  /\ PingSetup \in Nat /\ PongSetup \in Nat /\ Period \in Nat
  /\ Timeout \in Nat \ {0} /\ Iterations \in Nat /\ Depth \in Nat \ {0}
  /\ PingStart \in Nat
  /\ \A d \in Delays : d \in Nat
  /\ \A t \in PongStarts : t \in Nat
  BY TimesAssumption DEF TimesAssumption

LEMMA Timeouts ==
  /\ PingTimeout \in Nat \ {0} /\ PongTimeout \in Nat \ {0}
  /\ PingSlack \in Nat /\ PongSlack \in Nat
  BY Constants DEF PingTimeout, PongTimeout, WaitOf, PingSlack, PongSlack, Slack

\* As time goes on and more is published, what was under way still is.
LEMMA Grows ==
  ASSUME NEW n \in Nat, NEW n2 \in Nat, NEW c \in Nat, NEW c2 \in Nat,
         n <= n2, c <= c2
  PROVE  /\ \A q \in Seq(Sent(n, c)) : q \in Seq(Sent(n2, c2))
         /\ \A q \in Seq(Recorded(c)) : q \in Seq(Recorded(c2))
<1>1. Sent(n, c) \subseteq Sent(n2, c2)
  BY DEF Sent, Sample
<1>2. Recorded(c) \subseteq Recorded(c2)
  BY DEF Recorded, Record
<1>3. QED
  BY <1>1, <1>2, SeqMonotonic

TypeInv == TypeOK /\ QueueInv

LEMMA TypeInit == Init => TypeInv
<1> SUFFICES ASSUME Init PROVE TypeInv
  OBVIOUS
<1>1. \A S : << >> \in Seq(S)
  OBVIOUS
<1>2. /\ PingStart + PingSetup + Period \in Nat
      /\ pongStart + PongSetup \in Nat /\ pongStart \in PongStarts
  BY Constants DEF Init
<1>3. Len(pongInbox) <= Depth /\ Len(pingInbox) <= Depth
  BY Constants DEF Init
<1>4. TypeOK
  BY <1>1, <1>2, <1>3, Constants DEF Init, LoopTest, TypeOK
<1>5. QED
  BY <1>1, <1>4 DEF TypeInv, QueueInv, Init

\* The part of the types that the queues have no share in.
ControlOK ==
  /\ maxDelay \in Delays
  /\ layers \in [ping : PingLayers, pong : PongLayers]
  /\ now \in Nat /\ pongStart \in PongStarts
  /\ ping \in {"sleeping", "waiting", "done"} /\ pingDue \in Nat
  /\ pong \in {"starting", "spinning", "done"} /\ pongDue \in Nat
  /\ count \in 0..Iterations
  /\ served \in Seq(Nat)
  /\ lost \subseteq 0..(Iterations - 1)

LEMMA TypeParts ==
  ASSUME ControlOK, QueueInv, Len(pongInbox) <= Depth, Len(pingInbox) <= Depth
  PROVE  TypeInv
<1>1. Sent(now, count) \subseteq Sample /\ Recorded(count) \subseteq Record
  BY DEF Sent, Recorded
<1>2. /\ pings \in Seq(Sample) /\ pongs \in Seq(Sample)
      /\ pongInbox \in Seq(Sample) /\ pingInbox \in Seq(Sample)
      /\ samples \in Seq(Record)
  BY <1>1, SeqMonotonic DEF QueueInv
<1>3. QED
  BY <1>2 DEF TypeInv, TypeOK, ControlOK

LEMMA ControlStep == TypeInv /\ [Next]_vars => ControlOK'
<1> SUFFICES ASSUME TypeOK, QueueInv, [Next]_vars PROVE ControlOK'
  BY DEF TypeInv
<1> USE DEF ControlOK, TypeOK, world, setting, pingSide, pongSide
<1>1. CASE PingPublish
  <2>1. count' \in 0..Iterations /\ pingDue' \in Nat
    BY <1>1, Timeouts, Constants DEF PingPublish
  <2>2. QED
    BY <1>1, <2>1 DEF PingPublish
<1>2. CASE PingHandle \/ PingGivesUp
  <2>1. /\ ping' \in {"sleeping", "done"} /\ pingDue' \in Nat
        /\ count' = count
    BY <1>2, Constants DEF PingHandle, PingGivesUp, NextIteration, LoopTest
  <2>2. QED
    BY <1>2, <2>1 DEF PingHandle, PingGivesUp
<1>3. CASE PongSpin
  <2>1. pongDue' \in Nat
    BY <1>3, Timeouts DEF PongSpin
  <2>2. QED
    BY <1>3, <2>1 DEF PongSpin
<1>4. CASE PongHandle
  <2>1. pongDue' \in Nat
    BY <1>4, Timeouts DEF PongHandle
  <2>2. Head(pongInbox).data \in Nat
    <3>1. Head(pongInbox) \in Sample
      BY <1>4 DEF PongHandle
    <3>2. QED
      BY <3>1 DEF Sample
  <2>3. served' \in Seq(Nat)
    BY <1>4, <2>2 DEF PongHandle
  <2>4. QED
    BY <1>4, <2>1, <2>3 DEF PongHandle
<1>5. CASE PongGivesUp
  BY <1>5 DEF PongGivesUp
<1>6. CASE DeliverPing \/ DeliverPong
  BY <1>6 DEF DeliverPing, DeliverPong
<1>7. CASE Lose
  <2>1. \A q \in Seq(Sent(now, count)) : q # << >> =>
          Head(q).data \in 0..(Iterations - 1)
    <3>1. \A m \in Sent(now, count) : m.data \in 0..(Iterations - 1)
      BY Constants DEF Sent, Sample
    <3>2. QED
      BY <3>1
  <2>2. lost' \subseteq 0..(Iterations - 1)
    BY <1>7, <2>1 DEF Lose, QueueInv
  <2>3. QED
    BY <1>7, <2>2 DEF Lose
<1>8. CASE Tick
  BY <1>8 DEF Tick
<1>9. CASE UNCHANGED vars
  BY <1>9 DEF vars
<1>10. QED
  BY <1>1, <1>2, <1>3, <1>4, <1>5, <1>6, <1>7, <1>8, <1>9 DEF Next, Done

\* What is sent on is as the sample that was taken.
LEMMA Resend ==
  ASSUME NEW m \in Sent(now, count), now \in Nat
  PROVE  /\ [m EXCEPT !.at = now] \in Sent(now, count)
         /\ [m EXCEPT !.at = now].data = m.data
         /\ [m EXCEPT !.at = now].time_sent = m.time_sent
         /\ [m EXCEPT !.at = now].at = now
  BY DEF Sent, Sample

LEMMA QueueStep ==
  TypeInv /\ [Next]_vars =>
    QueueInv' /\ Len(pongInbox') <= Depth /\ Len(pingInbox') <= Depth
<1> SUFFICES ASSUME TypeOK, QueueInv, [Next]_vars
             PROVE  QueueInv' /\ Len(pongInbox') <= Depth
                              /\ Len(pingInbox') <= Depth
  BY DEF TypeInv
<1> DEFINE S == Sent(now, count)
<1>t. /\ now \in Nat /\ count \in Nat
      /\ Len(pongInbox) <= Depth /\ Len(pingInbox) <= Depth
      /\ Len(pongInbox) \in Nat /\ Len(pingInbox) \in Nat /\ Depth \in Nat
  BY Constants DEF TypeOK
<1>q. /\ pings \in Seq(S) /\ pongs \in Seq(S)
      /\ pongInbox \in Seq(S) /\ pingInbox \in Seq(S)
      /\ samples \in Seq(Recorded(count))
  BY DEF QueueInv
<1> USE DEF QueueInv, world, setting, pingSide, pongSide
<1>1. CASE PingPublish
  <2> DEFINE m == [data |-> count, time_sent |-> now, at |-> now]
             S2 == Sent(now, count + 1)
  <2>1. m \in S2
    BY <1>t DEF Sent, Sample
  <2>2. /\ pings \in Seq(S2) /\ pongs \in Seq(S2)
        /\ pongInbox \in Seq(S2) /\ pingInbox \in Seq(S2)
        /\ samples \in Seq(Recorded(count + 1))
    BY <1>t, <1>q, Grows
  <2>3. /\ pings' = Append(pings, m) /\ count' = count + 1 /\ now' = now
        /\ UNCHANGED <<pongs, pongInbox, pingInbox, samples>>
    BY <1>1 DEF PingPublish
  <2>4. Append(pings, m) \in Seq(S2)
    BY <2>1, <2>2
  <2> HIDE DEF m, S2
  <2>5. QED
    BY <1>t, <2>2, <2>3, <2>4 DEF S2
<1>2. CASE PingHandle
  <2> DEFINE m == Head(pingInbox)
             r == [data |-> m.data, iteration |-> count - 1,
                   latency |-> now - m.time_sent]
  <2>1. pingInbox # << >> /\ m \in S /\ Tail(pingInbox) \in Seq(S)
        /\ Len(Tail(pingInbox)) = Len(pingInbox) - 1
    BY <1>2, <1>q, TailData DEF PingHandle
  <2>2. r \in Recorded(count)
    <3>1. /\ m.data \in Nat /\ m.data < count
          /\ m.time_sent \in Nat /\ m.time_sent <= now
      BY <2>1 DEF Sent, Sample
    <3>2. count - 1 \in Nat /\ now - m.time_sent \in Nat
      BY <1>t, <3>1
    <3>3. QED
      BY <3>1, <3>2 DEF Recorded, Record
  <2>3. /\ samples' = Append(samples, r) /\ pingInbox' = Tail(pingInbox)
        /\ UNCHANGED <<now, count, pings, pongs, pongInbox>>
    BY <1>2 DEF PingHandle
  <2>4. Append(samples, r) \in Seq(Recorded(count))
    BY <1>q, <2>2
  <2> HIDE DEF m, r
  <2>5. QED
    BY <1>t, <1>q, <2>1, <2>3, <2>4
<1>3. CASE PingGivesUp \/ PongSpin \/ PongGivesUp \/ UNCHANGED vars
  BY <1>3, <1>t, <1>q DEF PingGivesUp, PongSpin, PongGivesUp, vars
<1>4. CASE PongHandle
  <2> DEFINE m == [Head(pongInbox) EXCEPT !.at = now]
  <2>1. pongInbox # << >> /\ Head(pongInbox) \in S
        /\ Tail(pongInbox) \in Seq(S)
        /\ Len(Tail(pongInbox)) = Len(pongInbox) - 1
    BY <1>4, <1>q, TailData DEF PongHandle
  <2>2. m \in S
    BY <1>t, <2>1, Resend
  <2>3. /\ pongs' = Append(pongs, m) /\ pongInbox' = Tail(pongInbox)
        /\ UNCHANGED <<now, count, pings, pingInbox, samples>>
    BY <1>4 DEF PongHandle
  <2>4. Append(pongs, m) \in Seq(S)
    BY <1>q, <2>2
  <2> HIDE DEF m
  <2>5. QED
    BY <1>t, <1>q, <2>1, <2>3, <2>4
<1>5. CASE DeliverPing
  <2>1. /\ pings # << >> /\ Head(pings) \in S /\ Tail(pings) \in Seq(S)
    BY <1>5, <1>q, TailData DEF DeliverPing
  <2>2. /\ KeepLast(pongInbox, Head(pings)) \in Seq(S)
        /\ Len(KeepLast(pongInbox, Head(pings))) <= Depth
    BY <1>t, <1>q, <2>1, KeepLastData
  <2>3. /\ pings' = Tail(pings)
        /\ pongInbox' \in {pongInbox, KeepLast(pongInbox, Head(pings))}
        /\ UNCHANGED <<now, count, pongs, pingInbox, samples>>
    BY <1>5 DEF DeliverPing
  <2>4. QED
    BY <1>t, <1>q, <2>1, <2>2, <2>3
<1>6. CASE DeliverPong
  <2>1. /\ pongs # << >> /\ Head(pongs) \in S /\ Tail(pongs) \in Seq(S)
    BY <1>6, <1>q, TailData DEF DeliverPong
  <2>2. /\ KeepLast(pingInbox, Head(pongs)) \in Seq(S)
        /\ Len(KeepLast(pingInbox, Head(pongs))) <= Depth
    BY <1>t, <1>q, <2>1, KeepLastData
  <2>3. /\ pongs' = Tail(pongs)
        /\ pingInbox' \in {pingInbox, KeepLast(pingInbox, Head(pongs))}
        /\ UNCHANGED <<now, count, pings, pongInbox, samples>>
    BY <1>6 DEF DeliverPong
  <2>4. QED
    BY <1>t, <1>q, <2>1, <2>2, <2>3
<1>7. CASE Lose
  <2>1. \A q \in Seq(S) : q # << >> => Tail(q) \in Seq(S)
    BY TailData
  <2>2. pings' \in {pings, Tail(pings)} /\ (pings' # pings => pings # << >>)
        /\ pongs' \in {pongs, Tail(pongs)} /\ (pongs' # pongs => pongs # << >>)
        /\ UNCHANGED <<now, count, pongInbox, pingInbox, samples>>
    BY <1>7 DEF Lose
  <2>3. QED
    BY <1>t, <1>q, <2>1, <2>2
<1>8. CASE Tick
  <2>1. /\ now' = now + 1
        /\ UNCHANGED <<count, pings, pongs, pongInbox, pingInbox, samples>>
    BY <1>8 DEF Tick
  <2>2. \A q \in Seq(S) : q \in Seq(Sent(now + 1, count))
    BY <1>t, Grows
  <2>3. QED
    BY <1>t, <1>q, <2>1, <2>2
<1>9. QED
  BY <1>1, <1>2, <1>3, <1>4, <1>5, <1>6, <1>7, <1>8 DEF Next, Done

LEMMA TypeStep == TypeInv /\ [Next]_vars => TypeInv'
<1> SUFFICES ASSUME TypeInv, [Next]_vars PROVE TypeInv'
  OBVIOUS
<1>1. ControlOK' /\ QueueInv' /\ Len(pongInbox') <= Depth
      /\ Len(pingInbox') <= Depth
  BY ControlStep, QueueStep
<1>2. Sent(now, count)' \subseteq Sample /\ Recorded(count)' \subseteq Record
  BY DEF Sent, Recorded
<1>3. QED
  BY <1>1, <1>2, SeqMonotonic DEF TypeInv, TypeOK, ControlOK, QueueInv

THEOREM TypeInvariant == Spec => []TypeInv
  BY TypeInit, TypeStep, PTL DEF Spec

\* Every variable keeps its type, with any delays and losses: no latency is
\* negative, and neither inbox ever holds more than Depth samples.
THEOREM TypeCorrect == Spec => []TypeOK
<1>1. TypeInv => TypeOK
  BY DEF TypeInv
<1>2. QED
  BY <1>1, TypeInvariant, PTL

-----------------------------------------------------------------------------
(* Nothing is overtaken.                                                    *)

LEMMA DataBounds ==
  ASSUME QueueInv
  PROVE  \A a \in Datas(samples) \cup Datas(pingInbox) \cup Datas(pongs)
                  \cup Datas(pongInbox) \cup Datas(pings) : a < count
<1>1. ASSUME NEW q, q \in Seq(Sent(now, count)) \/ q \in Seq(Recorded(count)),
             NEW a \in Datas(q)
      PROVE  a < count
  <2>1. PICK k \in DOMAIN q : a = q[k].data
    BY DEF Datas
  <2>2. q[k] \in Sent(now, count) \/ q[k] \in Recorded(count)
    BY <1>1
  <2>3. QED
    BY <2>1, <2>2 DEF Sent, Recorded
<1>2. QED
  BY <1>1 DEF QueueInv

LEMMA OrderInit == Init => OrderInv
<1>1. Datas(<< >>) = {} /\ Ordered(<< >>)
  BY DEF Datas, Ordered
<1>2. QED
  BY <1>1 DEF Init, OrderInv, Below

LEMMA OrderStep == TypeInv /\ OrderInv /\ [Next]_vars => OrderInv'
<1> SUFFICES ASSUME TypeOK, QueueInv, OrderInv, [Next]_vars PROVE OrderInv'
  BY DEF TypeInv
<1> DEFINE S == Sent(now, count)
<1>q. /\ pings \in Seq(S) /\ pongs \in Seq(S)
      /\ pongInbox \in Seq(S) /\ pingInbox \in Seq(S)
      /\ samples \in Seq(Recorded(count))
  BY DEF QueueInv
<1> USE DEF OrderInv, Below, world, setting, pingSide, pongSide
<1> HIDE DEF S
<1>1. CASE PingPublish
  <2> DEFINE m == [data |-> count, time_sent |-> now, at |-> now]
  <2>1. /\ pings' = Append(pings, m) /\ m.data = count
        /\ UNCHANGED <<pongs, pongInbox, pingInbox, samples>>
    BY <1>1 DEF PingPublish
  <2> HIDE DEF m
  <2>2. /\ Datas(Append(pings, m)) = Datas(pings) \cup {count}
        /\ Ordered(Append(pings, m))
    BY <1>q, <2>1, AppendData, DataBounds
  <2>3. QED
    BY <2>1, <2>2, DataBounds
<1>2. CASE PingHandle
  <2> DEFINE m == Head(pingInbox)
             r == [data |-> m.data, iteration |-> count - 1,
                   latency |-> now - m.time_sent]
  <2>1. /\ samples' = Append(samples, r) /\ pingInbox' = Tail(pingInbox)
        /\ UNCHANGED <<pings, pongs, pongInbox>>
        /\ pingInbox # << >> /\ r.data = m.data
    BY <1>2 DEF PingHandle
  <2> HIDE DEF r
  <2>2. /\ m.data \in Datas(pingInbox) /\ Ordered(Tail(pingInbox))
        /\ Datas(Tail(pingInbox)) \subseteq Datas(pingInbox)
        /\ \A b \in Datas(Tail(pingInbox)) : m.data < b
    BY <1>q, <2>1, TailData
  <2> HIDE DEF m
  <2>3. /\ Datas(Append(samples, r)) = Datas(samples) \cup {m.data}
        /\ Ordered(Append(samples, r))
    BY <1>q, <2>1, <2>2, AppendData
  <2>4. QED
    BY <2>1, <2>2, <2>3
<1>3. CASE PingGivesUp \/ PongSpin \/ PongGivesUp \/ Tick \/ UNCHANGED vars
  BY <1>3 DEF PingGivesUp, PongSpin, PongGivesUp, Tick, vars
<1>4. CASE PongHandle
  <2> DEFINE h == Head(pongInbox)
             m == [h EXCEPT !.at = now]
  <2>1. /\ pongs' = Append(pongs, m) /\ pongInbox' = Tail(pongInbox)
        /\ UNCHANGED <<pings, pingInbox, samples>> /\ pongInbox # << >>
    BY <1>4 DEF PongHandle
  <2>2. /\ h \in S /\ h.data \in Datas(pongInbox) /\ Ordered(Tail(pongInbox))
        /\ Datas(Tail(pongInbox)) \subseteq Datas(pongInbox)
        /\ \A b \in Datas(Tail(pongInbox)) : h.data < b
    BY <1>q, <2>1, TailData
  <2>3. m.data = h.data
    BY <2>2, Resend DEF S, TypeOK
  <2> HIDE DEF h, m
  <2>4. /\ Datas(Append(pongs, m)) = Datas(pongs) \cup {h.data}
        /\ Ordered(Append(pongs, m))
    BY <1>q, <2>2, <2>3, AppendData
  <2>5. QED
    BY <2>1, <2>2, <2>4
<1>5. CASE DeliverPing
  <2> DEFINE h == Head(pings)
             i == KeepLast(pongInbox, h)
  <2>1. /\ pings' = Tail(pings) /\ pongInbox' \in {pongInbox, i}
        /\ UNCHANGED <<pongs, pingInbox, samples>> /\ pings # << >>
    BY <1>5 DEF DeliverPing
  <2>2. /\ h \in S /\ h.data \in Datas(pings) /\ Ordered(Tail(pings))
        /\ Datas(Tail(pings)) \subseteq Datas(pings)
        /\ \A b \in Datas(Tail(pings)) : h.data < b
    BY <1>q, <2>1, TailData
  <2> HIDE DEF h
  <2>3. Datas(i) \subseteq Datas(pongInbox) \cup {h.data} /\ Ordered(i)
    BY <1>q, <2>2, KeepLastData
  <2> HIDE DEF i
  <2>4. CASE pongInbox' = pongInbox
    BY <2>1, <2>2, <2>4
  <2>5. CASE pongInbox' = i
    BY <2>1, <2>2, <2>3, <2>5
  <2>6. QED
    BY <2>1, <2>4, <2>5
<1>6. CASE DeliverPong
  <2> DEFINE h == Head(pongs)
             i == KeepLast(pingInbox, h)
  <2>1. /\ pongs' = Tail(pongs) /\ pingInbox' \in {pingInbox, i}
        /\ UNCHANGED <<pings, pongInbox, samples>> /\ pongs # << >>
    BY <1>6 DEF DeliverPong
  <2>2. /\ h \in S /\ h.data \in Datas(pongs) /\ Ordered(Tail(pongs))
        /\ Datas(Tail(pongs)) \subseteq Datas(pongs)
        /\ \A b \in Datas(Tail(pongs)) : h.data < b
    BY <1>q, <2>1, TailData
  <2> HIDE DEF h
  <2>3. Datas(i) \subseteq Datas(pingInbox) \cup {h.data} /\ Ordered(i)
    BY <1>q, <2>2, KeepLastData
  <2> HIDE DEF i
  <2>4. CASE pingInbox' = pingInbox
    BY <2>1, <2>2, <2>4
  <2>5. CASE pingInbox' = i
    BY <2>1, <2>2, <2>3, <2>5
  <2>6. QED
    BY <2>1, <2>4, <2>5
<1>7. CASE Lose
  <2>1. CASE pings # << >> /\ pings' = Tail(pings) /\ UNCHANGED pongs
    <3>1. Ordered(Tail(pings)) /\ Datas(Tail(pings)) \subseteq Datas(pings)
      BY <1>q, <2>1, TailData
    <3>2. QED
      BY <1>7, <2>1, <3>1 DEF Lose
  <2>2. CASE pongs # << >> /\ pongs' = Tail(pongs) /\ UNCHANGED pings
    <3>1. Ordered(Tail(pongs)) /\ Datas(Tail(pongs)) \subseteq Datas(pongs)
      BY <1>q, <2>2, TailData
    <3>2. QED
      BY <1>7, <2>2, <3>1 DEF Lose
  <2>3. QED
    BY <1>7, <2>1, <2>2 DEF Lose
<1>8. QED
  BY <1>1, <1>2, <1>3, <1>4, <1>5, <1>6, <1>7 DEF Next, Done

-----------------------------------------------------------------------------
(* A prompt answer belongs to the iteration that waits for it.              *)

\* How long a sample can wait in pong's inbox, at most, for pong to wake up.
Late == IF Spins <= Starts + Period THEN 0 ELSE PongSetup

\* Every answer comes before its iteration times out.
Tidy == 2 * maxDelay + Late < PingTimeout

\* The sample that the present iteration has published.
Current(m) == m.data = count - 1 /\ m.time_sent = pingDue - PingTimeout

UnderWay == Len(pings) + Len(pongInbox) + Len(pongs) + Len(pingInbox)

\* pong sleeps until Spins; ping waits for a sample that it published behind its
\* own startup sleeps and not in the future.
BeginInv ==
  /\ pong = "starting" => now <= pongDue /\ pongDue = Spins
  /\ ping = "sleeping" => pingDue >= Starts + Period
  /\ ping = "waiting" => /\ pingDue >= Starts + Period + PingTimeout
                         /\ pingDue <= now + PingTimeout

\* One sample at most is under way, that of the present iteration, and it is
\* on time wherever it is.
AloneInv ==
  /\ UnderWay <= 1
  /\ ping # "waiting" => UnderWay = 0
  /\ pings # << >> => LET m == Head(pings) IN
       Current(m) /\ m.at = m.time_sent /\ now <= m.time_sent + maxDelay
  /\ pongInbox # << >> => LET m == Head(pongInbox) IN
       /\ Current(m) /\ now <= m.time_sent + maxDelay + Late
       /\ pong = "starting" => Spins <= m.time_sent + maxDelay + Late
       /\ pong # "done"
  /\ pongs # << >> => LET m == Head(pongs) IN
       /\ Current(m) /\ now <= m.at + maxDelay
       /\ m.at <= m.time_sent + maxDelay + Late
  /\ pingInbox # << >> => LET m == Head(pingInbox) IN
       Current(m) /\ now <= m.time_sent + 2 * maxDelay + Late

RecordInv == \A k \in DOMAIN samples :
  /\ samples[k].data = samples[k].iteration
  /\ samples[k].latency <= 2 * maxDelay + Late

PhaseInv == Tidy => BeginInv /\ AloneInv /\ RecordInv

LEMMA SettingFixed ==
  [Next]_vars =>
    /\ UNCHANGED <<maxDelay, layers, pongStart>>
    /\ PingTimeout' = PingTimeout /\ PongTimeout' = PongTimeout
    /\ PingSlack' = PingSlack /\ PongSlack' = PongSlack
    /\ Spins' = Spins /\ Starts' = Starts
    /\ Late' = Late /\ Tidy' = Tidy
<1> SUFFICES ASSUME [Next]_vars
             PROVE  UNCHANGED <<maxDelay, layers, pongStart>>
  BY DEF PingTimeout, PongTimeout, WaitOf, PingSlack, PongSlack, Slack,
     Spins, Starts, Late, Tidy
<1>1. QED
  BY DEF Next, vars, PingPublish, PingHandle, PingGivesUp, PongSpin,
     PongHandle, PongGivesUp, DeliverPing, DeliverPong, Lose, Tick, Done,
     world, setting

LEMMA PhaseInit == Init => PhaseInv
<1> SUFFICES ASSUME Init, Tidy PROVE BeginInv /\ AloneInv /\ RecordInv
  BY DEF PhaseInv
<1>1. Len(<< >>) = 0
  OBVIOUS
<1>2. AloneInv /\ RecordInv
  BY <1>1 DEF Init, AloneInv, UnderWay, RecordInv
<1>3. pongStart \in Nat
  BY Constants DEF Init
<1>4. BeginInv
  BY <1>3, Constants DEF Init, LoopTest, BeginInv, Spins, Starts
<1>5. QED
  BY <1>2, <1>4

\* The numbers that the proofs below are about.
LEMMA Numbers ==
  ASSUME TypeOK, Tidy
  PROVE  /\ now \in Nat /\ count \in Nat /\ maxDelay \in Nat
         /\ pingDue \in Nat /\ pongDue \in Nat
         /\ PingTimeout \in Nat /\ 2 * maxDelay + Late < PingTimeout
         /\ Period \in Nat /\ Starts \in Nat /\ Spins \in Nat
         /\ Late \in Nat /\ pongStart \in Nat
         /\ Spins <= Starts + Period \/ Spins = pongStart + Late
<1>1. pongStart \in Nat /\ PingStart \in Nat
  BY Constants DEF TypeOK
<1>2. Starts \in Nat /\ Spins \in Nat
  BY <1>1, Constants DEF Starts, Spins
<1>3. /\ Late \in Nat
      /\ Spins <= Starts + Period \/ Spins = pongStart + Late
  BY Constants DEF Late, Spins
<1>4. QED
  BY <1>1, <1>2, <1>3, Constants, Timeouts DEF TypeOK, Tidy

LEMMA SampleNumbers ==
  ASSUME NEW m \in Sent(now, count), now \in Nat
  PROVE  /\ m.data \in Nat /\ m.time_sent \in Nat /\ m.at \in Nat
         /\ m.time_sent <= now /\ m.at <= now
  BY DEF Sent, Sample

LEMMA Lengths ==
  ASSUME QueueInv
  PROVE  /\ Len(pings) \in Nat /\ Len(pongInbox) \in Nat
         /\ Len(pongs) \in Nat /\ Len(pingInbox) \in Nat
         /\ pings # << >> <=> Len(pings) > 0
         /\ pongs # << >> <=> Len(pongs) > 0
         /\ pongInbox # << >> <=> Len(pongInbox) > 0
         /\ pingInbox # << >> <=> Len(pingInbox) > 0
  BY DEF QueueInv

LEMMA Single ==
  ASSUME NEW m
  PROVE  /\ Len(Append(<< >>, m)) = 1 /\ Head(Append(<< >>, m)) = m
         /\ Append(<< >>, m) # << >>
         /\ KeepLast(<< >>, m) = Append(<< >>, m)
<1>1. Len(<< >>) < Depth
  BY Constants
<1>2. QED
  BY <1>1 DEF KeepLast

LEMMA BeginStep ==
  ASSUME TypeInv, Tidy, BeginInv, [Next]_vars
  PROVE  BeginInv'
<1> TypeOK
  BY DEF TypeInv
<1>n. /\ now \in Nat /\ pingDue \in Nat /\ pongDue \in Nat
      /\ PingTimeout \in Nat /\ Period \in Nat /\ Starts \in Nat
  BY Numbers
<1>f. PingTimeout' = PingTimeout /\ Spins' = Spins /\ Starts' = Starts
  BY SettingFixed
<1> USE DEF BeginInv, world, pingSide, pongSide
<1>1. CASE PingPublish
  <2>1. /\ pingDue' = now + PingTimeout /\ now >= pingDue
        /\ ping = "sleeping" /\ ping' = "waiting"
        /\ UNCHANGED <<now, pong, pongDue>>
    BY <1>1 DEF PingPublish
  <2>2. QED
    BY <1>n, <1>f, <2>1
<1>2. CASE PingHandle \/ PingGivesUp
  <2>1. /\ ping = "waiting" /\ ping' \in {"sleeping", "done"}
        /\ pingDue' = now + Period /\ UNCHANGED <<now, pong, pongDue>>
    BY <1>2 DEF PingHandle, PingGivesUp, NextIteration, LoopTest
  <2>2. now >= Starts
    BY <1>n, <2>1
  <2>3. QED
    BY <1>n, <1>f, <2>1, <2>2
<1>3. CASE PongSpin \/ PongHandle \/ PongGivesUp
  BY <1>3, <1>f DEF PongSpin, PongHandle, PongGivesUp
<1>4. CASE DeliverPing \/ DeliverPong \/ Lose
  BY <1>4, <1>f DEF DeliverPing, DeliverPong, Lose
<1>5. CASE Tick
  <2>1. /\ now' = now + 1 /\ (pong = "starting" => now < pongDue)
        /\ UNCHANGED <<ping, pingDue, pong, pongDue>>
    BY <1>5 DEF Tick
  <2>2. QED
    BY <1>n, <1>f, <2>1
<1>6. CASE UNCHANGED vars
  BY <1>6, <1>f DEF vars
<1>7. QED
  BY <1>1, <1>2, <1>3, <1>4, <1>5, <1>6 DEF Next, Done

LEMMA RecordStep ==
  ASSUME TypeInv, Tidy, AloneInv, RecordInv, [Next]_vars
  PROVE  RecordInv'
<1>n. /\ TypeOK /\ QueueInv /\ now \in Nat /\ maxDelay \in Nat
      /\ Late \in Nat /\ maxDelay' = maxDelay /\ Late' = Late
  BY Numbers, SettingFixed DEF TypeInv
<1>1. CASE PingHandle
  <2> DEFINE m == Head(pingInbox)
             r == [data |-> m.data, iteration |-> count - 1,
                   latency |-> now - m.time_sent]
  <2>1. /\ samples' = Append(samples, r) /\ pingInbox # << >>
        /\ r.data = m.data /\ r.iteration = count - 1
        /\ r.latency = now - m.time_sent
    BY <1>1 DEF PingHandle
  <2>2. m.data = count - 1 /\ now <= m.time_sent + 2 * maxDelay + Late
    BY <2>1 DEF AloneInv, Current
  <2>3. m.time_sent \in Nat
    <3>1. m \in Sent(now, count)
      BY <1>n, <2>1, TailData DEF QueueInv
    <3>2. QED
      BY <1>n, <3>1, SampleNumbers
  <2>4. r.data = r.iteration /\ r.latency <= 2 * maxDelay + Late
    BY <1>n, <2>1, <2>2, <2>3
  <2>5. samples \in Seq(Recorded(count))
    BY <1>n DEF QueueInv
  <2> HIDE DEF m, r
  <2>6. \A k \in DOMAIN Append(samples, r) :
          \/ k \in DOMAIN samples /\ Append(samples, r)[k] = samples[k]
          \/ Append(samples, r)[k] = r
    BY <2>5
  <2>7. QED
    BY <1>n, <2>1, <2>4, <2>6 DEF RecordInv
<1>2. CASE samples' = samples
  BY <1>2, <1>n DEF RecordInv
<1>3. PingHandle \/ samples' = samples
  BY DEF Next, vars, PingPublish, PingGivesUp, PongSpin, PongHandle,
     PongGivesUp, DeliverPing, DeliverPong, Lose, Tick, Done, pingSide
<1>4. QED
  BY <1>1, <1>2, <1>3

\* With one sample under way at most, a queue that holds one is emptied by the
\* step that takes it, and all other queues are empty.
LEMMA Emptied ==
  ASSUME QueueInv, UnderWay <= 1
  PROVE  /\ pings # << >> => /\ Tail(pings) = << >> /\ pongs = << >>
                             /\ pongInbox = << >> /\ pingInbox = << >>
         /\ pongs # << >> => /\ Tail(pongs) = << >> /\ pings = << >>
                             /\ pongInbox = << >> /\ pingInbox = << >>
         /\ pongInbox # << >> => /\ Tail(pongInbox) = << >> /\ pings = << >>
                                 /\ pongs = << >> /\ pingInbox = << >>
         /\ pingInbox # << >> => /\ Tail(pingInbox) = << >> /\ pings = << >>
                                 /\ pongs = << >> /\ pongInbox = << >>
<1>1. ASSUME NEW q \in Seq(Sent(now, count)), Len(q) = 1 PROVE Tail(q) = << >>
  <2>1. q # << >>
    BY <1>1
  <2>2. Tail(q) \in Seq(Sent(now, count)) /\ Len(Tail(q)) = 0
    BY <1>1, <2>1, TailData
  <2>3. QED
    BY ONLY <2>2, EmptySeq
<1>2. QED
  BY <1>1, Lengths DEF UnderWay, QueueInv

LEMMA NoneUnderWay ==
  ASSUME QueueInv, UnderWay = 0
  PROVE  pings = << >> /\ pongs = << >> /\ pongInbox = << >> /\ pingInbox = << >>
  BY Lengths DEF UnderWay

LEMMA AloneStep ==
  ASSUME TypeInv, Tidy, BeginInv, AloneInv, [Next]_vars
  PROVE  AloneInv'
<1>q. TypeOK /\ QueueInv
  BY DEF TypeInv
<1>n. /\ now \in Nat /\ count \in Nat /\ maxDelay \in Nat
      /\ pingDue \in Nat /\ pongDue \in Nat
      /\ PingTimeout \in Nat /\ 2 * maxDelay + Late < PingTimeout
      /\ Period \in Nat /\ Starts \in Nat /\ Spins \in Nat /\ Late \in Nat
  BY <1>q, Numbers
<1>f. /\ PingTimeout' = PingTimeout /\ maxDelay' = maxDelay
      /\ Late' = Late /\ Spins' = Spins
  BY SettingFixed
<1>0. Len(<< >>) = 0
  OBVIOUS
<1>s. \A q : q \in Seq(Sent(now, count)) /\ q # << >> =>
        /\ Head(q) \in Sent(now, count)
        /\ Head(q).data \in Nat /\ Head(q).time_sent \in Nat
        /\ Head(q).at \in Nat
        /\ Head(q).time_sent <= now /\ Head(q).at <= now
  BY <1>n, TailData, SampleNumbers
<1>e. UnderWay <= 1
  BY DEF AloneInv
<1>a. \A m : /\ Len(Append(<< >>, m)) = 1 /\ Head(Append(<< >>, m)) = m
             /\ KeepLast(<< >>, m) = Append(<< >>, m)
  BY Single
<1> DEFINE Same == UNCHANGED <<pings, pongs, pongInbox, pingInbox>>
<1>1. CASE PingPublish
  <2> DEFINE m == [data |-> count, time_sent |-> now, at |-> now]
  <2>1. /\ pings = << >> /\ pongs = << >>
        /\ pongInbox = << >> /\ pingInbox = << >>
    BY <1>1, <1>q, NoneUnderWay DEF PingPublish, AloneInv
  <2>2. /\ pings' = Append(<< >>, m) /\ pongs' = << >> /\ pongInbox' = << >>
        /\ pingInbox' = << >> /\ now' = now /\ count' = count + 1
        /\ ping' = "waiting" /\ pingDue' = now + PingTimeout
    BY <1>1, <2>1 DEF PingPublish
  <2>3. m.data = count /\ m.time_sent = now /\ m.at = now
    OBVIOUS
  <2> HIDE DEF m
  <2>4. Head(pings') = m /\ UnderWay' = 1
    BY <1>0, <1>a, <2>2 DEF UnderWay
  <2>5. QED
    BY <1>f, <1>n, <2>2, <2>3, <2>4 DEF AloneInv, Current
<1>2. CASE PingHandle
  <2>1. /\ pings' = << >> /\ pongs' = << >> /\ pongInbox' = << >>
        /\ pingInbox' = << >>
    BY <1>2, <1>q, <1>e, Emptied DEF PingHandle, pongSide
  <2>2. QED
    BY <1>0, <2>1 DEF AloneInv, UnderWay
<1>3. CASE PingGivesUp
  <2>1. pingInbox = << >> /\ now >= pingDue /\ Same
    BY <1>3 DEF PingGivesUp
  <2>2. /\ pings \in Seq(Sent(now, count)) /\ pongs \in Seq(Sent(now, count))
        /\ pongInbox \in Seq(Sent(now, count))
    BY <1>q DEF QueueInv
  <2>3. pings = << >>
    <3>1. pings # << >> => /\ Head(pings).time_sent = pingDue - PingTimeout
                           /\ now <= Head(pings).time_sent + maxDelay
      BY DEF AloneInv, Current
    <3>2. QED
      BY <1>n, <1>s, <2>1, <2>2, <3>1
  <2>4. pongs = << >>
    <3>1. pongs # << >> =>
            /\ Head(pongs).time_sent = pingDue - PingTimeout
            /\ Head(pongs).at <= Head(pongs).time_sent + maxDelay + Late
            /\ now <= Head(pongs).at + maxDelay
      BY DEF AloneInv, Current
    <3>2. QED
      BY <1>n, <1>s, <2>1, <2>2, <3>1
  <2>5. pongInbox = << >>
    <3>1. pongInbox # << >> =>
            /\ Head(pongInbox).time_sent = pingDue - PingTimeout
            /\ now <= Head(pongInbox).time_sent + maxDelay + Late
      BY DEF AloneInv, Current
    <3>2. QED
      BY <1>n, <1>s, <2>1, <2>2, <3>1
  <2>6. QED
    BY <1>0, <2>1, <2>3, <2>4, <2>5 DEF AloneInv, UnderWay
<1>4. CASE PongSpin \/ PongGivesUp
  <2>1. /\ Same /\ UNCHANGED <<now, ping, pingDue, count>>
        /\ pong' # "starting" /\ (pong' # "done" \/ pongInbox = << >>)
    BY <1>4 DEF PongSpin, PongGivesUp, pingSide
  <2>2. UnderWay' = UnderWay
    BY <2>1 DEF UnderWay
  <2>3. QED
    BY <1>f, <2>1, <2>2 DEF AloneInv, Current
<1>5. CASE PongHandle
  <2> DEFINE h == Head(pongInbox)
             m == [h EXCEPT !.at = now]
  <2>1. /\ pongInbox # << >> /\ pongs' = Append(pongs, m)
        /\ pongInbox' = Tail(pongInbox)
        /\ UNCHANGED <<now, ping, pingDue, count, pings, pingInbox>>
    BY <1>5 DEF PongHandle, pingSide
  <2>2. /\ pings = << >> /\ pongs = << >> /\ pingInbox = << >>
        /\ pongInbox' = << >>
    BY <1>e, <1>q, <2>1, Emptied
  <2>3. /\ m.data = h.data /\ m.time_sent = h.time_sent /\ m.at = now
        /\ h.time_sent \in Nat
    BY <1>n, <1>q, <1>s, <2>1, Resend DEF QueueInv
  <2>4. /\ h.data = count - 1 /\ h.time_sent = pingDue - PingTimeout
        /\ now <= h.time_sent + maxDelay + Late
    BY <2>1 DEF AloneInv, Current
  <2>5. ping = "waiting"
    BY <1>q, <2>1, NoneUnderWay DEF AloneInv
  <2> HIDE DEF h, m
  <2>6. Head(pongs') = m /\ UnderWay' = 1
    <3>1. /\ pongs' = Append(<< >>, m) /\ pongInbox' = << >>
          /\ pings' = << >> /\ pingInbox' = << >>
      BY <2>1, <2>2
    <3>2. QED
      BY <1>0, <1>a, <3>1 DEF UnderWay
  <2>7. QED
    BY <1>f, <1>n, <2>1, <2>2, <2>3, <2>4, <2>5, <2>6 DEF AloneInv, Current
<1>6. CASE DeliverPing
  <2> DEFINE h == Head(pings)
  <2>1. /\ pings # << >> /\ pings' = Tail(pings)
        /\ UNCHANGED <<now, ping, pingDue, pong, count, pongs, pingInbox>>
        /\ pongInbox' = IF PongListens THEN KeepLast(pongInbox, h)
                                       ELSE pongInbox
    BY <1>6 DEF DeliverPing, pingSide, pongSide
  <2>2. /\ pings' = << >> /\ pongs = << >> /\ pingInbox = << >>
        /\ pongInbox = << >>
    BY <1>e, <1>q, <2>1, Emptied
  <2>3. /\ h.data = count - 1 /\ h.time_sent = pingDue - PingTimeout
        /\ now <= h.time_sent + maxDelay
    BY <2>1 DEF AloneInv, Current
  <2>4. ping = "waiting"
    BY <1>q, <2>1, NoneUnderWay DEF AloneInv
  <2> HIDE DEF h
  <2>5. CASE PongListens
    <3>1. /\ pongInbox' = Append(<< >>, h) /\ pings' = << >>
          /\ pongs' = << >> /\ pingInbox' = << >>
      BY <1>a, <2>1, <2>2, <2>5
    <3>2. Head(pongInbox') = h /\ UnderWay' = 1
      BY <1>0, <1>a, <3>1 DEF UnderWay
    <3>3. pong # "done" /\ now >= pongStart
      <4>1. pongStart \in Nat /\ PongSetup \in Nat
        BY <1>q, Numbers, Constants
      <4>2. QED
        BY <1>n, <2>5, <4>1 DEF PongListens
    <3>4. h.time_sent \in Nat
      BY <1>q, <1>s, <2>1 DEF h, QueueInv
    <3>5. Spins <= h.time_sent + maxDelay + Late
      <4>1. h.time_sent >= Starts + Period
        BY <1>n, <2>3, <2>4 DEF BeginInv
      <4>2. /\ pongStart \in Nat
            /\ Spins <= Starts + Period \/ Spins = pongStart + Late
        BY <1>q, Numbers
      <4>3. QED
        BY <1>n, <2>3, <3>3, <3>4, <4>1, <4>2
    <3>6. now <= h.time_sent + maxDelay + Late
      BY <1>n, <2>3, <3>4
    <3>7. QED
      BY <1>f, <2>1, <2>2, <2>3, <2>4, <3>2, <3>3, <3>5, <3>6
         DEF AloneInv, Current
  <2>6. CASE ~PongListens
    BY <1>0, <2>1, <2>2, <2>4, <2>6 DEF AloneInv, UnderWay
  <2>7. QED
    BY <2>5, <2>6
<1>7. CASE DeliverPong
  <2> DEFINE h == Head(pongs)
  <2>1. /\ pongs # << >> /\ pongs' = Tail(pongs)
        /\ UNCHANGED <<now, ping, pingDue, pong, count, pings, pongInbox>>
        /\ pingInbox' = IF ping = "done" THEN pingInbox
                                         ELSE KeepLast(pingInbox, h)
    BY <1>7 DEF DeliverPong, pingSide, pongSide
  <2>2. /\ pongs' = << >> /\ pings = << >> /\ pingInbox = << >>
        /\ pongInbox = << >>
    BY <1>e, <1>q, <2>1, Emptied
  <2>3. /\ h.data = count - 1 /\ h.time_sent = pingDue - PingTimeout
        /\ h.at <= h.time_sent + maxDelay + Late /\ now <= h.at + maxDelay
        /\ h.time_sent \in Nat /\ h.at \in Nat
    BY <1>q, <1>s, <2>1 DEF AloneInv, Current, QueueInv
  <2>4. ping = "waiting"
    BY <1>q, <2>1, NoneUnderWay DEF AloneInv
  <2>5. now <= h.time_sent + 2 * maxDelay + Late
    BY <1>n, <2>3
  <2> HIDE DEF h
  <2>6. Head(pingInbox') = h /\ UnderWay' = 1
    <3>1. /\ pingInbox' = Append(<< >>, h) /\ pings' = << >>
          /\ pongs' = << >> /\ pongInbox' = << >>
      BY <1>a, <2>1, <2>2, <2>4
    <3>2. QED
      BY <1>0, <1>a, <3>1 DEF UnderWay
  <2>7. QED
    BY <1>f, <2>1, <2>2, <2>3, <2>4, <2>5, <2>6 DEF AloneInv, Current
<1>8. CASE Lose
  <2>1. pings # << >> \/ pongs # << >>
    BY <1>8 DEF Lose
  <2>2. /\ pings' = << >> /\ pongs' = << >> /\ pongInbox' = << >>
        /\ pingInbox' = << >>
    BY <1>8, <1>e, <1>q, Emptied DEF Lose
  <2>3. QED
    BY <1>0, <2>2 DEF AloneInv, UnderWay
<1>9. CASE Tick
  <2>1. /\ now' = now + 1 /\ Same /\ UNCHANGED <<ping, pingDue, pong, count>>
        /\ (ping = "waiting" => pingInbox = << >>)
        /\ (pong = "spinning" => pongInbox = << >>)
        /\ (pong = "starting" => now < pongDue)
        /\ (pings # << >> => now < Head(pings).at + maxDelay)
        /\ (pongs # << >> => now < Head(pongs).at + maxDelay)
    BY <1>9 DEF Tick, pingSide, pongSide
  <2>2. pingInbox = << >>
    BY <1>q, <2>1, NoneUnderWay DEF AloneInv
  <2>3. pongInbox # << >> =>
          /\ pong = "starting" /\ Head(pongInbox).time_sent \in Nat
          /\ now + 1 <= Spins
    <3>1. pongInbox # << >> => pong = "starting"
      BY <1>q, <2>1 DEF AloneInv, TypeOK
    <3>2. pong = "starting" => now + 1 <= Spins
      BY <1>n, <2>1 DEF BeginInv
    <3>3. QED
      BY <1>q, <1>s, <3>1, <3>2 DEF QueueInv
  <2>4. pings # << >> =>
          Head(pings).at = Head(pings).time_sent /\ Head(pings).at \in Nat
    BY <1>q, <1>s DEF AloneInv, QueueInv
  <2>5. pongs # << >> => Head(pongs).at \in Nat
    BY <1>q, <1>s DEF QueueInv
  <2>6. UnderWay' = UnderWay
    BY <2>1 DEF UnderWay
  <2>7. QED
    BY <1>f, <1>n, <2>1, <2>2, <2>3, <2>4, <2>5, <2>6 DEF AloneInv, Current
<1>10. CASE UNCHANGED vars
  <2>1. UnderWay' = UnderWay
    BY <1>10 DEF vars, UnderWay
  <2>2. QED
    BY <1>10, <1>f, <2>1 DEF vars, AloneInv, Current
<1>11. QED
  BY <1>1, <1>2, <1>3, <1>4, <1>5, <1>6, <1>7, <1>8, <1>9, <1>10
     DEF Next, Done

LEMMA PhaseStep == TypeInv /\ PhaseInv /\ [Next]_vars => PhaseInv'
<1> SUFFICES ASSUME TypeInv, PhaseInv, [Next]_vars, Tidy'
             PROVE  BeginInv' /\ AloneInv' /\ RecordInv'
  BY DEF PhaseInv
<1>1. Tidy
  BY SettingFixed
<1>2. QED
  BY <1>1, BeginStep, AloneStep, RecordStep DEF PhaseInv

\* Answers are recorded once and in the order of the questions; between sides
\* that are prompt, each one in the iteration that asked for it and with the
\* time that it was under way as its latency, whatever else is lost.
THEOREM StaysInPhase == Spec => []InPhase
<1>1. Init => OrderInv /\ PhaseInv
  BY OrderInit, PhaseInit
<1>2. TypeInv /\ OrderInv /\ PhaseInv /\ [Next]_vars => (OrderInv /\ PhaseInv)'
  BY OrderStep, PhaseStep
<1>3. TypeInv /\ OrderInv /\ PhaseInv => InPhase
  <2>1. Prompt /\ TypeInv => Tidy /\ Late = 0
    BY Constants DEF Prompt, Tidy, Late, TypeInv, TypeOK
  <2>2. TypeInv => 2 * maxDelay + 0 = 2 * maxDelay
    BY Constants DEF TypeInv, TypeOK
  <2>3. QED
    BY <2>1, <2>2 DEF OrderInv, PhaseInv, RecordInv, Ordered, InPhase
<1>4. QED
  BY <1>1, <1>2, <1>3, TypeInvariant, PTL DEF Spec
-----------------------------------------------------------------------------
(* A lost sample is the last one.                                           *)

Latest == served[Len(served)]

\* The samples that pong answered are one series.
Gapless == \A k \in DOMAIN served : served[k] = served[1] + k - 1

\* What is under way to pong is not yet answered, what is under way to ping is
\* the latest answer.
AnswerInv ==
  /\ served # << >> => Latest \in Nat /\ Latest < count
  /\ pong = "starting" => served = << >>
  /\ pings # << >> \/ pongInbox # << >> =>
       served = << >> \/ Latest < count - 1
  /\ pongs # << >> \/ pingInbox # << >> =>
       served # << >> /\ Latest = count - 1

\* Once a sample is published that pong has not answered, pong will have left
\* before the next one unless it answers this one.
LeaveInv ==
  /\ pong = "spinning" =>
       now <= pongDue + PongSlack /\ pongDue <= now + PongTimeout
  /\ pong = "spinning" /\ served # << >> =>
       \/ Latest = count - 1
       \/ /\ Latest = count - 2
          /\ ping = "waiting" => pongDue + PongSlack < pingDue + Period
          /\ ping # "waiting" => pongDue + PongSlack < pingDue

SeriesInv == QuickerThanPeriod => AnswerInv /\ LeaveInv /\ Gapless

LEMMA QuickIsTidy ==
  ASSUME TypeOK, QuickerThanPeriod
  PROVE  Tidy /\ Period > 0 /\ PongTimeout + PongSlack <= PingTimeout
<1>1. maxDelay \in Nat
  BY Constants DEF TypeOK
<1>2. Late \in Nat /\ Late <= PongSetup
  BY Constants DEF Late
<1>3. QED
  BY <1>1, <1>2, Constants, Timeouts DEF QuickerThanPeriod, Tidy

LEMMA QuickFixed == [Next]_vars => (QuickerThanPeriod' <=> QuickerThanPeriod)
  BY SettingFixed DEF QuickerThanPeriod

LEMMA SeriesInit == Init => SeriesInv
<1> SUFFICES ASSUME Init PROVE AnswerInv /\ LeaveInv /\ Gapless
  BY DEF SeriesInv
<1>1. DOMAIN << >> = {}
  OBVIOUS
<1>2. QED
  BY <1>1 DEF Init, AnswerInv, LeaveInv, Gapless

\* What an answer does to the series.
LEMMA Answered ==
  ASSUME NEW u \in Seq(Nat), NEW d
  PROVE  LET w == Append(u, d)
         IN  /\ w # << >> /\ Len(w) = Len(u) + 1 /\ w[Len(w)] = d
             /\ DOMAIN w = 1..(Len(u) + 1)
             /\ \A k \in 1..Len(u) : w[k] = u[k]
  OBVIOUS

LEMMA GaplessStep ==
  ASSUME TypeInv, Tidy, AloneInv, AnswerInv, LeaveInv, Gapless, [Next]_vars
  PROVE  Gapless'
<1>q. served \in Seq(Nat) /\ count \in Nat /\ Len(served) \in Nat
  BY Constants DEF TypeInv, TypeOK
<1>1. CASE PongHandle
  <2> DEFINE d == Head(pongInbox).data
             w == Append(served, d)
  <2>1. /\ pong = "spinning" /\ pongInbox # << >> /\ served' = w
    BY <1>1 DEF PongHandle
  <2>2. d = count - 1
    BY <2>1 DEF AloneInv, Current
  <2>3. served # << >> => Latest = d - 1 /\ Latest \in Nat
    BY <1>q, <2>1, <2>2 DEF AnswerInv, LeaveInv
  <2> HIDE DEF d
  <2>4. /\ DOMAIN w = 1..(Len(served) + 1) /\ w[Len(served) + 1] = d
        /\ \A k \in 1..Len(served) : w[k] = served[k]
    BY <1>q, Answered
  <2> HIDE DEF w
  <2>5. CASE served = << >>
    <3>1. Len(served) = 0 /\ d \in Int
      BY <1>q, <2>2, <2>5
    <3>2. DOMAIN w = 1..1 /\ w[1] = d
      BY <2>4, <3>1
    <3>3. QED
      BY <2>1, <3>1, <3>2 DEF Gapless
  <2>6. CASE served # << >>
    <3>1. Len(served) > 0 /\ DOMAIN served = 1..Len(served)
      BY <1>q, <2>6
    <3>2. Latest = served[1] + Len(served) - 1 /\ served[1] \in Nat
      BY <1>q, <3>1 DEF Gapless, Latest
    <3>3. w[1] = served[1] /\ d = served[1] + Len(served)
      BY <1>q, <2>2, <2>3, <2>4, <2>6, <3>1, <3>2
    <3>4. ASSUME NEW k \in DOMAIN w PROVE w[k] = w[1] + k - 1
      <4>1. CASE k = Len(served) + 1
        BY <1>q, <2>4, <3>2, <3>3, <4>1
      <4>2. CASE k \in 1..Len(served)
        BY <2>4, <3>1, <3>3, <4>2 DEF Gapless
      <4>3. QED
        BY <1>q, <2>4, <4>1, <4>2
    <3>5. QED
      BY <2>1, <3>4 DEF Gapless
  <2>7. QED
    BY <2>5, <2>6
<1>2. CASE served' = served
  BY <1>2 DEF Gapless
<1>3. PongHandle \/ served' = served
  BY DEF Next, vars, PingPublish, PingHandle, PingGivesUp, PongSpin,
     PongGivesUp, DeliverPing, DeliverPong, Lose, Tick, Done, pongSide
<1>4. QED
  BY <1>1, <1>2, <1>3

LEMMA AnswerStep ==
  ASSUME TypeInv, Tidy, AloneInv, AnswerInv, LeaveInv, [Next]_vars
  PROVE  AnswerInv'
<1>q. /\ TypeOK /\ QueueInv /\ served \in Seq(Nat) /\ count \in Nat
      /\ UnderWay <= 1
  BY Constants DEF TypeInv, TypeOK, AloneInv
<1>a. served' = served => Latest' = Latest
  BY DEF Latest
<1>1. CASE PingPublish
  <2>1. /\ pings = << >> /\ pongs = << >>
        /\ pongInbox = << >> /\ pingInbox = << >>
    BY <1>1, <1>q, NoneUnderWay DEF PingPublish, AloneInv
  <2>2. /\ pongs' = << >> /\ pingInbox' = << >>
        /\ count' = count + 1 /\ UNCHANGED <<served, pong>>
    BY <1>1, <2>1 DEF PingPublish, pongSide
  <2>3. QED
    BY <1>a, <1>q, <2>2 DEF AnswerInv
<1>2. CASE PingHandle
  <2>1. /\ pingInbox # << >> /\ pingInbox' = Tail(pingInbox)
        /\ UNCHANGED <<served, pong, count, pings, pongs, pongInbox>>
    BY <1>2 DEF PingHandle, pongSide
  <2>2. QED
    BY <1>a, <1>q, <2>1, Emptied DEF AnswerInv
<1>3. CASE PingGivesUp \/ Tick \/ UNCHANGED vars
  <2>1. UNCHANGED <<served, pong, count, pings, pongs, pongInbox, pingInbox>>
    BY <1>3 DEF PingGivesUp, Tick, vars, pingSide, pongSide
  <2>2. QED
    BY <1>a, <2>1 DEF AnswerInv
<1>4. CASE PongSpin \/ PongGivesUp
  <2>1. /\ pong' # "starting"
        /\ UNCHANGED <<served, count, pings, pongs, pongInbox, pingInbox>>
    BY <1>4 DEF PongSpin, PongGivesUp, pingSide
  <2>2. QED
    BY <1>a, <2>1 DEF AnswerInv
<1>5. CASE PongHandle
  <2> DEFINE d == Head(pongInbox).data
  <2>1. /\ pongInbox # << >> /\ served' = Append(served, d)
        /\ pongInbox' = Tail(pongInbox) /\ pong' # "starting"
        /\ UNCHANGED <<count, pings, pingInbox>>
    BY <1>5 DEF PongHandle, pingSide
  <2>2. d = count - 1
    BY <2>1 DEF AloneInv, Current
  <2>3. d \in Nat
    <3>1. Head(pongInbox) \in Sent(now, count)
      BY <1>q, <2>1, TailData DEF QueueInv
    <3>2. QED
      BY <3>1 DEF Sent, Sample
  <2>4. pings = << >> /\ pongInbox' = << >>
    BY <1>q, <2>1, Emptied
  <2> HIDE DEF d
  <2>5. served' # << >> /\ Latest' = d
    BY <1>q, <2>1, Answered DEF Latest
  <2>6. QED
    BY <1>q, <2>1, <2>2, <2>3, <2>4, <2>5 DEF AnswerInv
<1>6. CASE DeliverPing
  <2>1. /\ pings # << >>
        /\ UNCHANGED <<served, pong, count, pongs, pingInbox>>
    BY <1>6 DEF DeliverPing, pingSide, pongSide
  <2>2. QED
    BY <1>a, <2>1 DEF AnswerInv
<1>7. CASE DeliverPong
  <2>1. /\ pongs # << >>
        /\ UNCHANGED <<served, pong, count, pings, pongInbox>>
    BY <1>7 DEF DeliverPong, pingSide, pongSide
  <2>2. QED
    BY <1>a, <2>1 DEF AnswerInv
<1>8. CASE Lose
  <2>1. UNCHANGED <<served, pong, count, pongInbox, pingInbox>>
    BY <1>8 DEF Lose, pingSide, pongSide
  <2>2. /\ pings' # << >> => pings # << >>
        /\ pongs' # << >> => pongs # << >>
    BY <1>8 DEF Lose
  <2>3. QED
    BY <1>a, <2>1, <2>2 DEF AnswerInv
<1>9. QED
  BY <1>1, <1>2, <1>3, <1>4, <1>5, <1>6, <1>7, <1>8 DEF Next, Done

LEMMA LeaveStep ==
  ASSUME TypeInv, QuickerThanPeriod, AloneInv, AnswerInv, LeaveInv, [Next]_vars
  PROVE  LeaveInv'
<1>q. /\ TypeOK /\ served \in Seq(Nat) /\ count \in Nat /\ now \in Nat
      /\ pingDue \in Nat /\ pongDue \in Nat
  BY Constants DEF TypeInv, TypeOK
<1>n. /\ Period \in Nat /\ Period > 0 /\ PingTimeout \in Nat
      /\ PongTimeout \in Nat /\ PongSlack \in Nat
      /\ PongTimeout + PongSlack <= PingTimeout
  BY <1>q, QuickIsTidy, Constants, Timeouts
<1>f. /\ PongTimeout' = PongTimeout /\ PongSlack' = PongSlack
      /\ served' = served => Latest' = Latest
  BY SettingFixed DEF Latest
<1>l. served # << >> => Latest \in Nat
  BY DEF AnswerInv
<1>1. CASE PingPublish
  <2>1. /\ ping = "sleeping" /\ now >= pingDue /\ ping' = "waiting"
        /\ count' = count + 1 /\ pingDue' = now + PingTimeout
        /\ UNCHANGED <<now, pong, pongDue, served>>
    BY <1>1 DEF PingPublish, pongSide
  <2>2. QED
    BY <1>f, <1>l, <1>n, <1>q, <2>1 DEF LeaveInv
<1>2. CASE PingHandle
  <2>1. /\ served # << >> /\ Latest = count - 1
        /\ UNCHANGED <<now, pong, pongDue, served, count>>
    BY <1>2 DEF PingHandle, pongSide, AnswerInv
  <2>2. QED
    BY <1>f, <2>1 DEF LeaveInv
<1>3. CASE PingGivesUp
  <2>1. /\ ping = "waiting" /\ now >= pingDue /\ ping' # "waiting"
        /\ pingDue' = now + Period
        /\ UNCHANGED <<now, pong, pongDue, served, count>>
    BY <1>3 DEF PingGivesUp, NextIteration, LoopTest, pongSide
  <2>2. QED
    BY <1>f, <1>n, <1>q, <2>1 DEF LeaveInv
<1>4. CASE PongSpin
  <2>1. /\ pong = "starting" /\ pongDue' = now + PongTimeout
        /\ UNCHANGED <<now, served>>
    BY <1>4 DEF PongSpin
  <2>2. QED
    BY <1>f, <1>n, <1>q, <2>1 DEF LeaveInv, AnswerInv
<1>5. CASE PongGivesUp
  BY <1>5 DEF PongGivesUp, LeaveInv
<1>6. CASE PongHandle
  <2> DEFINE d == Head(pongInbox).data
  <2>1. /\ pongInbox # << >> /\ served' = Append(served, d)
        /\ pongDue' = now + PongTimeout /\ UNCHANGED <<now, count>>
    BY <1>6 DEF PongHandle, pingSide
  <2>2. d = count - 1
    BY <2>1 DEF AloneInv, Current
  <2> HIDE DEF d
  <2>3. Latest' = d
    BY <1>q, <2>1, Answered DEF Latest
  <2>4. QED
    BY <1>f, <1>n, <1>q, <2>1, <2>2, <2>3 DEF LeaveInv
<1>7. CASE DeliverPing \/ DeliverPong \/ Lose \/ UNCHANGED vars
  <2>1. UNCHANGED <<now, ping, pingDue, pong, pongDue, served, count>>
    BY <1>7 DEF DeliverPing, DeliverPong, Lose, vars, pingSide, pongSide
  <2>2. QED
    BY <1>f, <2>1 DEF LeaveInv
<1>8. CASE Tick
  <2>1. /\ now' = now + 1 /\ (pong = "spinning" => now < pongDue + PongSlack)
        /\ UNCHANGED <<ping, pingDue, pong, pongDue, served, count>>
    BY <1>8 DEF Tick, pingSide, pongSide
  <2>2. QED
    BY <1>f, <1>n, <1>q, <2>1 DEF LeaveInv
<1>9. QED
  BY <1>1, <1>2, <1>3, <1>4, <1>5, <1>6, <1>7, <1>8 DEF Next, Done

LEMMA SeriesStep ==
  TypeInv /\ PhaseInv /\ SeriesInv /\ [Next]_vars => SeriesInv'
<1> SUFFICES ASSUME TypeInv, PhaseInv, SeriesInv, [Next]_vars,
                    QuickerThanPeriod'
             PROVE  AnswerInv' /\ LeaveInv' /\ Gapless'
  BY DEF SeriesInv
<1>1. QuickerThanPeriod /\ Tidy
  BY QuickFixed, QuickIsTidy DEF TypeInv
<1>2. AloneInv /\ AnswerInv /\ LeaveInv /\ Gapless
  BY <1>1 DEF PhaseInv, SeriesInv
<1>3. QED
  BY <1>1, <1>2, AnswerStep, LeaveStep, GaplessStep

\* Where pong's longest wait is no longer than ping's shortest and the delays
\* stay below the period, pong answers one series without a gap: once it has
\* answered a sample, the first one that is lost on its way to pong ends the
\* measurement.
THEOREM LossIsTheEnd == Spec => []NoRecovery
<1>1. Init => PhaseInv /\ SeriesInv
  BY PhaseInit, SeriesInit
<1>2. TypeInv /\ PhaseInv /\ SeriesInv /\ [Next]_vars => (PhaseInv /\ SeriesInv)'
  BY PhaseStep, SeriesStep
<1>3. SeriesInv => NoRecovery
  BY DEF SeriesInv, Gapless, NoRecovery
<1>4. QED
  BY <1>1, <1>2, <1>3, TypeInvariant, PTL DEF Spec
-----------------------------------------------------------------------------
(* Where the times fit, nothing is missing but what was lost.               *)

Losses == Cardinality(lost)
Fit == WellTimed(Losses)

ToPong == pings # << >> \/ pongInbox # << >>
ToPing == pongs # << >> \/ pingInbox # << >>

\* The next sample is published by then, at the latest: each one that was lost
\* since the beginning may have put it off.
Answers == pongDue - PongTimeout
Base == IF served = << >> THEN Starts ELSE Answers + maxDelay
Budget == Base + Gap(Losses)

\* ping keeps to the budget, and pong lives on as long as ping does.
PaceInv ==
  /\ ping # "done" => pong # "done"
  /\ ping = "sleeping" => now <= pingDue
  /\ ping = "waiting" => now <= pingDue + PingSlack
  /\ pong = "starting" => served = << >>
  /\ pong = "spinning" /\ served = << >> => pongDue = Spins + PongTimeout
  /\ ping = "sleeping" => pingDue <= Budget
  /\ ping = "waiting" =>
       /\ ToPong => pingDue <= Budget + PingTimeout
       /\ ToPing => served # << >> /\ pingDue <= Answers + PingTimeout
       /\ UnderWay = 0 => pingDue + PingSlack + Period <= Budget
  /\ pongs # << >> => Head(pongs).at = Answers
  /\ pingInbox # << >> => now <= Answers + maxDelay

\* A sample that was published is recorded, lost, or under way: one of the three.
WhereInv ==
  /\ lost \subseteq 0..(count - 1)
  /\ UnderWay # 0 => count - 1 \notin lost \cup Datas(samples)
  /\ Datas(samples) \cap lost = {}
  /\ \A d \in 0..(count - 1) :
       \/ d \in lost \cup Datas(samples)
       \/ ping = "waiting" /\ UnderWay # 0 /\ d = count - 1
  /\ ping = "waiting" => count > 0
  /\ ping = "done" => count = Iterations

FitInv == Fit => PaceInv /\ WhereInv
\* Where the one sample can be.
Placed ==
  /\ UnderWay # 0 <=> ToPong \/ ToPing
  /\ ~(ToPong /\ ToPing)
  /\ pongs = << >> \/ pingInbox = << >>
  /\ ToPong \/ ToPing => ping = "waiting"

LEMMA Places == TypeInv /\ AloneInv => Placed
<1> SUFFICES ASSUME TypeInv, AloneInv PROVE Placed
  OBVIOUS
<1>1. QueueInv /\ UnderWay <= 1 /\ (ping # "waiting" => UnderWay = 0)
  BY DEF TypeInv, AloneInv
<1>2. UnderWay # 0 <=> ToPong \/ ToPing
  BY <1>1, Lengths DEF UnderWay, ToPong, ToPing
<1>3. ~(ToPong /\ ToPing) /\ (pongs = << >> \/ pingInbox = << >>)
  BY <1>1, Lengths DEF UnderWay, ToPong, ToPing
<1>4. QED
  BY <1>1, <1>2, <1>3 DEF Placed

LEMMA PlacesNext == (TypeInv /\ AloneInv => Placed)'
  BY Places, PTL

\* What a loss costs.
LEMMA GapFacts ==
  ASSUME TypeOK, NEW n \in Nat
  PROVE  /\ Gap(n) \in Nat /\ Gap(n) >= Period
         /\ Gap(n + 1) = Gap(n) + PingTimeout + PingSlack + Period
         /\ Gap(0) = Period
<1>1. PingTimeout \in Nat /\ PingSlack \in Nat /\ Period \in Nat
  BY Timeouts, Constants
<1> DEFINE p == PingTimeout + PingSlack + Period
<1>2. p \in Nat
  BY <1>1
<1> HIDE DEF p
<1>3. n * p \in Nat /\ (n + 1) * p = n * p + p /\ 0 * p = 0
  BY <1>2
<1>4. \A k : Gap(k) = Period + k * p
  BY DEF Gap, p
<1>5. p = PingTimeout + PingSlack + Period
  BY DEF p
<1>6. Gap(n) = Period + n * p /\ Gap(n + 1) = Period + (n + 1) * p
  BY <1>4
<1>7. Gap(0) = Period
  BY <1>1, <1>3, <1>4
<1>8. QED
  BY <1>1, <1>2, <1>3, <1>5, <1>6, <1>7

LEMMA LossFacts ==
  ASSUME TypeOK
  PROVE  /\ Losses \in Nat
         /\ \A d : Cardinality(lost \cup {d})
                     = IF d \in lost THEN Losses ELSE Losses + 1
<1>1. IsFiniteSet(0..(Iterations - 1))
  BY Constants, FS_Interval
<1>2. IsFiniteSet(lost)
  BY <1>1, FS_Subset DEF TypeOK
<1>3. QED
  BY <1>2, FS_CardinalityType, FS_AddElement DEF Losses

\* Times that fit leave room for one more delay, whatever was lost.
LEMMA FitFacts ==
  ASSUME TypeOK, Fit
  PROVE  /\ Tidy /\ Late = 0 /\ Spins <= Starts + Period
         /\ Gap(Losses) + 2 * maxDelay < PongTimeout
         /\ Starts + Gap(Losses) + maxDelay < Spins + PongTimeout
<1>1. Prompt => Tidy /\ Late = 0
  BY Constants DEF Prompt, Tidy, Late, TypeOK
<1>2. QED
  BY <1>1 DEF Fit, WellTimed, Prompt

\* A loss makes it harder for the times to fit, nothing makes it easier.
LEMMA FitBefore ==
  ASSUME TypeInv, [Next]_vars, Fit'
  PROVE  Fit /\ (lost' = lost => Losses' = Losses /\ Gap(Losses)' = Gap(Losses))
<1>0. TypeOK
  BY DEF TypeInv
<1>1. lost' = lost \/ \E d : lost' = lost \cup {d}
  BY DEF Next, vars, world, PingPublish, PingHandle, PingGivesUp, PongSpin,
     PongHandle, PongGivesUp, DeliverPing, DeliverPong, Lose, Tick, Done
<1>2. Losses' = Cardinality(lost')
  BY DEF Losses
<1>3. Losses \in Nat /\ (Losses' = Losses \/ Losses' = Losses + 1)
  BY <1>0, <1>1, <1>2, LossFacts DEF Losses
<1>f. /\ maxDelay' = maxDelay /\ Spins' = Spins /\ Starts' = Starts
      /\ PingTimeout' = PingTimeout /\ PongTimeout' = PongTimeout
      /\ PingSlack' = PingSlack
  BY SettingFixed
<1>4. \A n : Gap(n)' = Gap(n)
  BY <1>f DEF Gap
<1>5. lost' = lost => Losses' = Losses /\ Gap(Losses)' = Gap(Losses)
  BY <1>2, <1>f DEF Losses, Gap
<1>6. /\ Prompt' /\ Starts + Gap(Losses') + maxDelay < Spins + PongTimeout
      /\ Gap(Losses') + 2 * maxDelay < PongTimeout
  BY <1>f DEF Fit, WellTimed, Gap
<1>7. Prompt
  BY <1>6, <1>f DEF Prompt
<1>8. CASE Losses' = Losses
  BY <1>5, <1>6, <1>7, <1>8 DEF Fit, WellTimed
<1>9. CASE Losses' = Losses + 1
  <2>1. /\ Gap(Losses) \in Nat
        /\ Gap(Losses + 1) = Gap(Losses) + PingTimeout + PingSlack + Period
    BY <1>0, <1>3, GapFacts
  <2>2. /\ maxDelay \in Nat /\ Starts \in Nat /\ Spins \in Nat
        /\ PongTimeout \in Nat /\ PingTimeout \in Nat /\ PingSlack \in Nat
        /\ Period \in Nat
    BY <1>0, Constants, Timeouts DEF TypeOK, Starts, Spins
  <2>3. /\ Starts + Gap(Losses) + maxDelay < Spins + PongTimeout
        /\ Gap(Losses) + 2 * maxDelay < PongTimeout
    BY <1>6, <1>9, <2>1, <2>2
  <2>4. QED
    BY <1>5, <1>7, <1>9, <2>3 DEF Fit, WellTimed
<1>10. QED
  BY <1>3, <1>5, <1>8, <1>9

\* The numbers that the pace is about.
LEMMA FitNumbers ==
  ASSUME TypeOK, Fit
  PROVE  /\ now \in Nat /\ maxDelay \in Nat /\ pingDue \in Nat
         /\ pongDue \in Nat /\ Starts \in Nat /\ Spins \in Nat
         /\ PingTimeout \in Nat /\ PongTimeout \in Nat /\ Period \in Nat
         /\ PingSlack \in Nat
         /\ Gap(Losses) \in Nat /\ Gap(Losses) >= Period
         /\ Answers \in Int /\ Base \in Int /\ Budget = Base + Gap(Losses)
         /\ PingTimeout > 2 * maxDelay
<1>1. Tidy /\ Late = 0
  BY FitFacts
<1>2. /\ now \in Nat /\ maxDelay \in Nat /\ pingDue \in Nat
      /\ pongDue \in Nat /\ Starts \in Nat /\ Spins \in Nat
      /\ PingTimeout \in Nat /\ Period \in Nat /\ PingTimeout > 2 * maxDelay
  BY <1>1, Numbers
<1>3. PongTimeout \in Nat /\ PingSlack \in Nat
  BY Timeouts
<1>4. Gap(Losses) \in Nat /\ Gap(Losses) >= Period
  BY LossFacts, GapFacts
<1>5. Answers \in Int /\ Base \in Int
  BY <1>2, <1>3 DEF Answers, Base
<1>6. QED
  BY <1>2, <1>3, <1>4, <1>5 DEF Budget

LEMMA FitInit == Init => FitInv
<1> SUFFICES ASSUME Init, Fit PROVE PaceInv /\ WhereInv
  BY DEF FitInv
<1>1. TypeOK
  BY TypeInit DEF TypeInv
<1>2. pingDue = Starts + Period /\ now = 0 /\ served = << >>
  BY DEF Init, Starts
<1>3. lost = {} /\ count = 0 /\ samples = << >>
  BY DEF Init
<1>4. UnderWay = 0 /\ 0..(count - 1) = {} /\ Datas(samples) = {}
  <2>1. Len(<< >>) = 0 /\ DOMAIN << >> = {}
    OBVIOUS
  <2>2. QED
    BY <1>3, <2>1 DEF Init, UnderWay, Datas
<1>5. /\ ping \in {"sleeping", "done"} /\ (ping = "done" => count = Iterations)
  BY <1>1, <1>3, Constants DEF Init, LoopTest
<1>6. WhereInv
  BY <1>3, <1>4, <1>5 DEF WhereInv
<1>7. pingDue <= Budget /\ now <= pingDue
  BY <1>1, <1>2, FitNumbers DEF Base
<1>8. PaceInv
  BY <1>2, <1>5, <1>7 DEF Init, PaceInv
<1>9. QED
  BY <1>6, <1>8

\* A sample that arrives finds pong listening.
LEMMA Listening ==
  ASSUME TypeInv, Fit, BeginInv, AloneInv, Placed, PaceInv, pings # << >>
  PROVE  PongListens
<1> DEFINE h == Head(pings)
<1>q. TypeOK /\ pings \in Seq(Sent(now, count))
  BY DEF TypeInv, QueueInv
<1>n. /\ now \in Nat /\ pingDue \in Nat /\ Starts \in Nat /\ Spins \in Nat
      /\ PingTimeout \in Nat /\ Period \in Nat /\ Spins <= Starts + Period
  BY <1>q, FitNumbers, FitFacts
<1>1. h.time_sent <= now /\ h.time_sent \in Nat
  BY <1>n, <1>q, TailData, SampleNumbers
<1>2. h.time_sent = pingDue - PingTimeout
  BY DEF AloneInv, Current
<1>3. ping = "waiting"
  BY DEF Placed, ToPong
<1>4. pingDue >= Starts + Period + PingTimeout
  BY <1>3 DEF BeginInv
<1>5. now >= Spins
  BY <1>n, <1>1, <1>2, <1>4
<1>6. pongStart \in Nat /\ PongSetup \in Nat
  BY <1>q, Constants DEF TypeOK
<1>7. QED
  BY <1>n, <1>3, <1>5, <1>6 DEF PaceInv, PongListens, Spins

LEMMA PaceStep ==
  ASSUME TypeInv, Fit, BeginInv, AloneInv, AloneInv', Placed, Placed',
         PaceInv, WhereInv, [Next]_vars,
         lost' = lost => Losses' = Losses /\ Gap(Losses)' = Gap(Losses)
  PROVE  PaceInv'
<1>q. TypeOK /\ QueueInv /\ UnderWay <= 1
  BY DEF TypeInv, AloneInv
<1>n. /\ now \in Nat /\ maxDelay \in Nat /\ pingDue \in Nat
      /\ pongDue \in Nat /\ Starts \in Nat /\ Spins \in Nat
      /\ PingTimeout \in Nat /\ PongTimeout \in Nat /\ Period \in Nat
      /\ PingSlack \in Nat
      /\ Gap(Losses) \in Nat /\ Gap(Losses) >= Period
      /\ Answers \in Int /\ Base \in Int /\ Budget = Base + Gap(Losses)
  BY <1>q, FitNumbers
<1>g. /\ Gap(Losses) + 2 * maxDelay < PongTimeout
      /\ Starts + Gap(Losses) + maxDelay < Spins + PongTimeout
      /\ Spins <= Starts + Period
  BY <1>q, FitFacts
<1>f. /\ PingTimeout' = PingTimeout /\ PongTimeout' = PongTimeout
      /\ PingSlack' = PingSlack
      /\ maxDelay' = maxDelay /\ Spins' = Spins /\ Starts' = Starts
  BY SettingFixed
<1>b. /\ UNCHANGED pongDue => Answers' = Answers
      /\ UNCHANGED <<pongDue, served>> => Base' = Base
      /\ UNCHANGED <<pongDue, served, lost>> => Budget' = Budget
  BY <1>f DEF Answers, Base, Budget
<1>s. \A q : q \in Seq(Sent(now, count)) /\ q # << >> =>
        /\ Head(q).time_sent \in Nat /\ Head(q).at \in Nat
        /\ Head(q).time_sent <= now
  BY <1>n, TailData, SampleNumbers
<1>0. \A m : Append(<< >>, m) # << >> /\ Head(Append(<< >>, m)) = m
             /\ KeepLast(<< >>, m) = Append(<< >>, m)
  BY Single
<1>1. CASE PingPublish
  <2>1. /\ ping = "sleeping" /\ now >= pingDue /\ ping' = "waiting"
        /\ pingDue' = now + PingTimeout
        /\ UNCHANGED <<now, lost, pong, pongDue, served, pongs, pingInbox>>
    BY <1>1 DEF PingPublish, world, pongSide
  <2>2. pings' # << >>
    <3>1. pings = << >>
      BY <2>1 DEF Placed, ToPong
    <3>2. QED
      BY <1>0, <1>1, <3>1 DEF PingPublish
  <2>3. ToPong' /\ ~ToPing' /\ UnderWay' # 0
    BY <2>2 DEF Placed, ToPong
  <2>4. now <= pingDue' + PingSlack /\ pingDue' <= Budget + PingTimeout
    BY <1>n, <2>1 DEF PaceInv
  <2>5. QED
    BY <1>b, <1>f, <2>1, <2>3, <2>4 DEF PaceInv, ToPing
<1>2. CASE PingHandle
  <2>1. /\ ping = "waiting" /\ pingInbox # << >> /\ pingDue' = now + Period
        /\ ping' # "waiting"
        /\ UNCHANGED <<now, lost, pong, pongDue, served>>
    BY <1>2 DEF PingHandle, NextIteration, LoopTest, world, pongSide
  <2>2. served # << >> /\ now <= Answers + maxDelay
    BY <2>1 DEF PaceInv, ToPing
  <2>3. now <= pingDue' /\ pingDue' <= Budget
    BY <1>n, <2>1, <2>2 DEF Base
  <2>4. pongs' = << >> /\ pingInbox' = << >>
    BY <2>1 DEF Placed, ToPing
  <2>5. QED
    BY <1>b, <1>f, <2>1, <2>3, <2>4 DEF PaceInv
<1>3. CASE PingGivesUp
  <2>1. /\ ping = "waiting" /\ now >= pingDue /\ pingDue' = now + Period
        /\ ping' # "waiting"
        /\ UNCHANGED <<now, lost, pong, pongDue, served, pings, pongs,
                       pongInbox, pingInbox>>
    BY <1>3 DEF PingGivesUp, NextIteration, LoopTest, world, pongSide
  <2>2. UnderWay = 0 /\ pongs' = << >> /\ pingInbox' = << >>
    BY <2>1 DEF Placed, ToPing, ToPong
  <2>3. now <= pingDue' /\ pingDue' <= Budget
    BY <1>n, <2>1, <2>2 DEF PaceInv
  <2>4. QED
    BY <1>b, <1>f, <2>1, <2>2, <2>3 DEF PaceInv
<1>4. CASE PongSpin
  <2>1. /\ pong = "starting" /\ now >= pongDue /\ pong' = "spinning"
        /\ pongDue' = now + PongTimeout
        /\ UNCHANGED <<now, lost, ping, pingDue, served, pings, pongs,
                       pongInbox, pingInbox>>
    BY <1>4 DEF PongSpin, world, pingSide
  <2>2. served = << >> /\ pongDue' = Spins + PongTimeout
    BY <1>n, <2>1 DEF PaceInv, BeginInv
  <2>3. pongs = << >> /\ pingInbox = << >>
    BY <2>2 DEF PaceInv, Placed, ToPing
  <2>4. Budget' = Budget
    BY <1>f, <2>1, <2>2 DEF Budget, Base
  <2>5. UnderWay' = UnderWay /\ ToPong' = ToPong
    BY <2>1 DEF UnderWay, ToPong
  <2>6. QED
    BY <1>f, <2>1, <2>2, <2>3, <2>4, <2>5 DEF PaceInv, ToPing
<1>5. CASE PongHandle
  <2> DEFINE m == [Head(pongInbox) EXCEPT !.at = now]
  <2>1. /\ pong = "spinning" /\ pongInbox # << >> /\ pongs' = Append(pongs, m)
        /\ served' = Append(served, Head(pongInbox).data)
        /\ pongDue' = now + PongTimeout
        /\ UNCHANGED <<now, lost, ping, pingDue, pong, pingInbox>>
    BY <1>5 DEF PongHandle, world, pingSide
  <2>2. ping = "waiting" /\ pongs = << >> /\ pingInbox = << >>
    BY <2>1 DEF Placed, ToPong, ToPing
  <2>3. m.at = now
    BY <1>n, <1>q, <2>1, TailData, Resend DEF QueueInv
  <2> HIDE DEF m
  <2>4. pongs' # << >> /\ Head(pongs') = m
    BY <1>0, <2>1, <2>2
  <2>5. ToPing' /\ ~ToPong' /\ UnderWay' # 0
    BY <2>4 DEF Placed, ToPing
  <2>6. served' # << >>
    <3>1. served \in Seq(Nat)
      BY <1>q DEF TypeOK
    <3>2. QED
      BY <2>1, <3>1, Answered
  <2>7. Answers' = now
    BY <1>f, <1>n, <2>1 DEF Answers
  <2>8. now <= pingDue + PingSlack /\ pingDue <= now + PingTimeout
    BY <2>2 DEF PaceInv, BeginInv
  <2>9. QED
    BY <1>f, <2>1, <2>2, <2>3, <2>4, <2>5, <2>6, <2>7, <2>8 DEF PaceInv
<1>6. CASE PongGivesUp
  <2>1. /\ pong = "spinning" /\ pongInbox = << >> /\ now >= pongDue
        /\ pong' = "done"
        /\ UNCHANGED <<now, lost, ping, pingDue, pongDue, served, pongs,
                       pingInbox>>
    BY <1>6 DEF PongGivesUp, world, pingSide
  <2>2. Budget + maxDelay < pongDue /\ (served # << >> => Answers + maxDelay < pongDue)
    BY <1>g, <1>n, <2>1 DEF PaceInv, Base, Answers
  <2>3. ping \in {"sleeping", "waiting", "done"}
    BY <1>q DEF TypeOK
  <2>4. CASE ping = "sleeping"
    BY <1>n, <2>1, <2>2, <2>4 DEF PaceInv
  <2>5. CASE ping = "waiting" /\ pings # << >>
    <3>1. pingDue <= Budget + PingTimeout
      BY <2>5 DEF PaceInv, ToPong
    <3>2. /\ Head(pings).time_sent = pingDue - PingTimeout
          /\ now <= Head(pings).time_sent + maxDelay
      BY <2>5 DEF AloneInv, Current
    <3>3. QED
      BY <1>n, <2>1, <2>2, <3>1, <3>2
  <2>6. CASE ping = "waiting" /\ ToPing
    <3>1. served # << >>
      BY <2>6 DEF PaceInv
    <3>2. now <= Answers + maxDelay
      BY <2>6 DEF PaceInv, AloneInv, ToPing
    <3>3. QED
      BY <1>n, <2>1, <2>2, <3>1, <3>2
  <2>7. CASE ping = "waiting" /\ UnderWay = 0
    <3>1. pingDue + PingSlack + Period <= Budget /\ now <= pingDue + PingSlack
      BY <2>7 DEF PaceInv
    <3>2. QED
      BY <1>n, <2>1, <2>2, <3>1
  <2>8. CASE ping = "done"
    <3>1. pongs = << >> /\ pingInbox = << >>
      BY <2>8 DEF Placed, ToPing
    <3>2. QED
      BY <2>1, <2>8, <3>1 DEF PaceInv
  <2>9. QED
    BY <2>1, <2>3, <2>4, <2>5, <2>6, <2>7, <2>8 DEF Placed, ToPong
<1>7. CASE DeliverPing
  <2> DEFINE h == Head(pings)
  <2>1. /\ pings # << >>
        /\ UNCHANGED <<now, lost, ping, pingDue, pong, pongDue, served, pongs,
                       pingInbox>>
        /\ pongInbox' = IF PongListens THEN KeepLast(pongInbox, h)
                                       ELSE pongInbox
    BY <1>7 DEF DeliverPing, world, pingSide, pongSide
  <2>2. /\ ping = "waiting" /\ pongInbox = << >> /\ ToPong
    BY <1>q, <2>1, Emptied DEF Placed, ToPong
  <2>3. PongListens
    BY <2>1, Listening
  <2>4. pongInbox' # << >>
    BY <1>0, <2>1, <2>2, <2>3
  <2>5. ToPong' /\ ~ToPing' /\ UnderWay' # 0
    BY <2>4 DEF Placed, ToPong
  <2>6. QED
    BY <1>b, <1>f, <2>1, <2>2, <2>5 DEF PaceInv, ToPing
<1>8. CASE DeliverPong
  <2> DEFINE h == Head(pongs)
  <2>1. /\ pongs # << >> /\ pongs' = Tail(pongs)
        /\ UNCHANGED <<now, lost, ping, pingDue, pong, pongDue, served>>
        /\ pingInbox' = IF ping = "done" THEN pingInbox
                                         ELSE KeepLast(pingInbox, h)
    BY <1>8 DEF DeliverPong, world, pingSide, pongSide
  <2>2. /\ ping = "waiting" /\ pingInbox = << >> /\ pongs' = << >> /\ ToPing
    BY <1>q, <2>1, Emptied DEF Placed, ToPing
  <2>3. now <= Answers + maxDelay
    BY <2>1 DEF AloneInv, PaceInv
  <2>4. pingInbox' # << >>
    BY <1>0, <2>1, <2>2
  <2>5. ToPing' /\ ~ToPong' /\ UnderWay' # 0
    BY <2>4 DEF Placed, ToPing
  <2>6. QED
    BY <1>b, <1>f, <2>1, <2>2, <2>3, <2>5 DEF PaceInv
<1>9. CASE Lose
  <2> DEFINE d == count - 1
  <2>1. /\ pings # << >> \/ pongs # << >>
        /\ UNCHANGED <<now, ping, pingDue, pong, pongDue, served>>
    BY <1>9 DEF Lose, setting, pingSide, pongSide
  <2>2. lost' = lost \cup {d}
    BY <1>9 DEF Lose, AloneInv, Current
  <2>3. /\ pings' = << >> /\ pongs' = << >>
        /\ pongInbox' = << >> /\ pingInbox' = << >>
    BY <1>9, <1>q, Emptied DEF Lose
  <2>4. ping = "waiting" /\ d \notin lost /\ (ToPong \/ ToPing)
    BY <2>1 DEF Placed, WhereInv, ToPong, ToPing
  <2> HIDE DEF d
  <2>5. Losses' = Losses + 1 /\ Losses \in Nat
    BY <1>q, <2>2, <2>4, LossFacts DEF Losses
  <2>6. Gap(Losses)' = Gap(Losses) + PingTimeout + PingSlack + Period
    <3>1. Gap(Losses)' = Gap(Losses')
      BY <1>f DEF Gap
    <3>2. QED
      BY <1>q, <2>5, <3>1, GapFacts
  <2>7. Budget' = Budget + PingTimeout + PingSlack + Period
    BY <1>b, <1>n, <2>1, <2>6 DEF Budget
  <2>8. pingDue <= Budget + PingTimeout
    BY <1>n, <2>4 DEF PaceInv, Base
  <2>9. pingDue + PingSlack + Period <= Budget'
    BY <1>n, <2>7, <2>8
  <2>10. ~ToPong' /\ ~ToPing'
    BY <2>3 DEF ToPong, ToPing
  <2>11. QED
    BY <1>f, <2>1, <2>3, <2>4, <2>9, <2>10 DEF PaceInv
<1>10. CASE Tick
  <2>1. /\ now' = now + 1
        /\ UNCHANGED <<lost, ping, pingDue, pong, pongDue, served, pings,
                       pongs, pongInbox, pingInbox>>
        /\ (ping = "waiting" => pingInbox = << >>)
        /\ (ping = "sleeping" => now < pingDue)
        /\ (ping = "waiting" => now < pingDue + PingSlack)
    BY <1>10 DEF Tick, world, pingSide, pongSide
  <2>2. pingInbox = << >>
    BY <2>1 DEF Placed, ToPing
  <2>3. /\ ping = "sleeping" => now' <= pingDue
        /\ ping = "waiting" => now' <= pingDue + PingSlack
    BY <1>n, <2>1
  <2>4. UnderWay' = UnderWay /\ ToPong' = ToPong /\ ToPing' = ToPing
    BY <2>1 DEF UnderWay, ToPong, ToPing
  <2>5. QED
    BY <1>b, <1>f, <2>1, <2>2, <2>3, <2>4 DEF PaceInv
<1>11. CASE UNCHANGED vars
  <2>1. UnderWay' = UnderWay /\ ToPong' = ToPong /\ ToPing' = ToPing
    BY <1>11 DEF vars, UnderWay, ToPong, ToPing
  <2>2. QED
    BY <1>11, <1>b, <1>f, <2>1 DEF vars, PaceInv
<1>12. QED
  BY <1>1, <1>2, <1>3, <1>4, <1>5, <1>6, <1>7, <1>8, <1>9, <1>10, <1>11
     DEF Next, Done

\* The steps that only move the sample on.
LEMMA WhereMoves ==
  ASSUME WhereInv, Placed, Placed', UNCHANGED <<lost, samples, count, ping>>,
         (ToPong \/ ToPing)' <=> (ToPong \/ ToPing)
  PROVE  WhereInv'
<1>1. UnderWay' # 0 <=> UnderWay # 0
  BY DEF Placed
<1>2. Datas(samples)' = Datas(samples)
  BY DEF Datas
<1>3. QED
  BY <1>1, <1>2 DEF WhereInv

LEMMA WhereStep ==
  ASSUME TypeInv, Fit, BeginInv, AloneInv, Placed, Placed',
         PaceInv, WhereInv, [Next]_vars
  PROVE  WhereInv'
<1>q. /\ TypeOK /\ QueueInv /\ UnderWay <= 1 /\ samples \in Seq(Recorded(count))
  BY DEF TypeInv, AloneInv, QueueInv
<1>c. count \in Nat /\ Iterations \in Nat /\ count <= Iterations
  BY <1>q, Constants DEF TypeOK
<1>l. LoopTest' = "done" /\ count' = count => count = Iterations
  BY <1>c DEF LoopTest
<1>0. \A m : Append(<< >>, m) # << >> /\ KeepLast(<< >>, m) = Append(<< >>, m)
  BY Single
<1>a. samples' = samples => Datas(samples)' = Datas(samples)
  BY DEF Datas
<1> DEFINE Status == (ToPong \/ ToPing)' <=> (ToPong \/ ToPing)
<1>1. CASE PingPublish
  <2>1. /\ ping = "sleeping" /\ ping' = "waiting" /\ count' = count + 1
        /\ UNCHANGED <<lost, samples>>
    BY <1>1 DEF PingPublish, world
  <2>2. UnderWay' # 0
    <3>1. pings = << >>
      BY <2>1 DEF Placed, ToPong
    <3>2. pings' # << >>
      BY <1>0, <1>1, <3>1 DEF PingPublish
    <3>3. QED
      BY <3>2 DEF Placed, ToPong
  <2>3. count \notin lost \cup Datas(samples)
    BY <1>c, <1>q, DataBounds DEF WhereInv
  <2>4. /\ \A d \in 0..count : d \in 0..(count - 1) \/ d = count
        /\ lost \subseteq 0..count /\ count + 1 - 1 = count
    BY <1>c DEF WhereInv
  <2>5. \A d \in 0..count : d \in lost \cup Datas(samples) \/ d = count
    BY <2>1, <2>4 DEF WhereInv
  <2>6. QED
    BY <1>a, <1>c, <2>1, <2>2, <2>3, <2>4, <2>5 DEF WhereInv
<1>2. CASE PingHandle
  <2> DEFINE m == Head(pingInbox)
             r == [data |-> m.data, iteration |-> count - 1,
                   latency |-> now - m.time_sent]
  <2>1. /\ ping = "waiting" /\ pingInbox # << >> /\ samples' = Append(samples, r)
        /\ ping' = LoopTest' /\ ping' # "waiting" /\ UNCHANGED <<lost, count>>
    BY <1>2 DEF PingHandle, NextIteration, LoopTest, world
  <2>2. r.data = count - 1
    BY <2>1 DEF AloneInv, Current
  <2> HIDE DEF m, r
  <2>3. Datas(samples)' = Datas(samples) \cup {count - 1}
    <3>1. Datas(Append(samples, r)) = Datas(samples) \cup {count - 1}
      BY <1>q, <2>2, AppendData
    <3>2. QED
      BY <2>1, <3>1 DEF Datas
  <2>4. UnderWay # 0 /\ UnderWay' = 0
    BY <2>1 DEF Placed, ToPing
  <2>5. count - 1 \notin lost
    BY <2>4 DEF WhereInv
  <2>6. QED
    BY <1>l, <2>1, <2>3, <2>4, <2>5 DEF WhereInv
<1>3. CASE PingGivesUp
  <2>1. /\ ping' = LoopTest' /\ ping' # "waiting"
        /\ UNCHANGED <<lost, count, samples, pings, pongs, pongInbox, pingInbox>>
    BY <1>3 DEF PingGivesUp, NextIteration, LoopTest, world
  <2>2. UnderWay' = UnderWay /\ UnderWay = 0
    BY <2>1 DEF Placed, UnderWay
  <2>3. QED
    BY <1>a, <1>l, <2>1, <2>2 DEF WhereInv
<1>4. CASE PongSpin \/ PongGivesUp \/ Tick \/ UNCHANGED vars
  <2>1. UNCHANGED <<lost, samples, count, ping, pings, pongs, pongInbox, pingInbox>>
    BY <1>4 DEF PongSpin, PongGivesUp, Tick, vars, world, pingSide
  <2>2. Status
    BY <2>1 DEF ToPong, ToPing
  <2>3. QED
    BY <2>1, <2>2, WhereMoves
<1>5. CASE PongHandle
  <2> DEFINE m == [Head(pongInbox) EXCEPT !.at = now]
  <2>1. /\ pongInbox # << >> /\ pongs' = Append(pongs, m)
        /\ UNCHANGED <<lost, samples, count, ping>>
    BY <1>5 DEF PongHandle, world, pingSide
  <2> HIDE DEF m
  <2>2. pongs' # << >>
    BY <1>0, <2>1 DEF Placed, ToPong, ToPing
  <2>3. Status
    BY <2>1, <2>2 DEF ToPong, ToPing
  <2>4. QED
    BY <2>1, <2>3, WhereMoves
<1>6. CASE DeliverPing
  <2>1. /\ pings # << >> /\ PongListens
        /\ pongInbox' = KeepLast(pongInbox, Head(pings))
        /\ UNCHANGED <<lost, samples, count, ping>>
    BY <1>6, Listening DEF DeliverPing, world, pingSide
  <2>2. pongInbox' # << >>
    BY <1>0, <1>q, <2>1, Emptied
  <2>3. Status
    BY <2>1, <2>2 DEF ToPong, ToPing
  <2>4. QED
    BY <2>1, <2>3, WhereMoves
<1>7. CASE DeliverPong
  <2>1. /\ pongs # << >> /\ UNCHANGED <<lost, samples, count, ping>>
        /\ pingInbox' = IF ping = "done" THEN pingInbox
                                         ELSE KeepLast(pingInbox, Head(pongs))
    BY <1>7 DEF DeliverPong, world, pingSide
  <2>2. pingInbox' # << >>
    BY <1>0, <1>q, <2>1, Emptied DEF Placed, ToPing
  <2>3. Status
    BY <2>1, <2>2 DEF ToPong, ToPing
  <2>4. QED
    BY <2>1, <2>3, WhereMoves
<1>8. CASE Lose
  <2>1. /\ pings # << >> \/ pongs # << >>
        /\ UNCHANGED <<samples, count, ping>>
    BY <1>8 DEF Lose, pingSide
  <2>2. lost' = lost \cup {count - 1}
    BY <1>8 DEF Lose, AloneInv, Current
  <2>3. /\ pings' = << >> /\ pongs' = << >>
        /\ pongInbox' = << >> /\ pingInbox' = << >>
    BY <1>8, <1>q, Emptied DEF Lose
  <2>4. UnderWay # 0 /\ UnderWay' = 0 /\ ping = "waiting"
    BY <2>1, <2>3 DEF Placed, ToPong, ToPing
  <2>5. /\ count - 1 \notin Datas(samples) /\ count > 0
        /\ count - 1 \in 0..(count - 1)
    BY <1>c, <2>4 DEF WhereInv
  <2>6. QED
    BY <1>a, <1>8, <2>2, <2>4, <2>5 DEF WhereInv, Lose, pingSide
<1>9. QED
  BY <1>1, <1>2, <1>3, <1>4, <1>5, <1>6, <1>7, <1>8 DEF Next, Done

LEMMA FitStep == TypeInv /\ PhaseInv /\ FitInv /\ [Next]_vars => FitInv'
<1> SUFFICES ASSUME TypeInv, PhaseInv, FitInv, [Next]_vars, Fit'
             PROVE  PaceInv' /\ WhereInv'
  BY DEF FitInv
<1>1. Fit /\ (lost' = lost => Losses' = Losses /\ Gap(Losses)' = Gap(Losses))
  BY FitBefore
<1>2. PaceInv /\ WhereInv
  BY <1>1 DEF FitInv
<1>3. Tidy /\ BeginInv /\ AloneInv
  BY <1>1, FitFacts DEF TypeInv, PhaseInv
<1>4. TypeInv' /\ AloneInv'
  BY <1>3, TypeStep, AloneStep
<1>5. Placed /\ Placed'
  BY <1>3, <1>4, Places, PlacesNext
<1>6. PaceInv'
  BY <1>1, <1>2, <1>3, <1>4, <1>5, PaceStep
<1>7. WhereInv'
  BY <1>1, <1>2, <1>3, <1>5, WhereStep
<1>8. QED
  BY <1>6, <1>7

\* If ping is done, and pong was in spin before the first sample, a round trip is
\* shorter than ping's shortest wait, and pong's shortest wait bridges both the
\* startup and the gap that as many losses as there were can leave: then every
\* iteration has recorded its sample, but for the lost ones.
THEOREM OnlyLossesMissing == Spec => []OnlyLostMissing
<1>1. Init => PhaseInv /\ FitInv
  BY PhaseInit, FitInit
<1>2. TypeInv /\ PhaseInv /\ FitInv /\ [Next]_vars => (PhaseInv /\ FitInv)'
  BY PhaseStep, FitStep
<1>3. TypeInv /\ FitInv => OnlyLostMissing
  <2> SUFFICES ASSUME TypeInv, FitInv, ping = "done",
                      WellTimed(Cardinality(lost))
               PROVE  Datas(samples) = (0..(Iterations - 1)) \ lost
    BY DEF OnlyLostMissing, Datas
  <2>1. WhereInv /\ count = Iterations
    BY DEF FitInv, Fit, Losses, WhereInv
  <2>2. Datas(samples) \subseteq 0..(Iterations - 1)
    <3>1. Datas(samples) \subseteq Nat
      <4>1. samples \in Seq(Record)
        BY DEF TypeInv, TypeOK
      <4>2. \A k \in DOMAIN samples : samples[k] \in Record
        BY <4>1
      <4>3. QED
        BY <4>2 DEF Datas, Record
    <3>2. \A a \in Datas(samples) : a < count
      BY DataBounds DEF TypeInv
    <3>3. QED
      BY <2>1, <3>1, <3>2, Constants
  <2>3. \A d \in 0..(Iterations - 1) : d \in lost \cup Datas(samples)
    BY <2>1 DEF WhereInv
  <2>4. QED
    BY <2>1, <2>2, <2>3 DEF WhereInv
<1>4. QED
  BY <1>1, <1>2, <1>3, TypeInvariant, PTL DEF Spec
=============================================================================
