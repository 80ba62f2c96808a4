------------------------- MODULE TypeSupportProofs -------------------------
(***************************************************************************)
(* Proofs about TypeSupport for every width of m_typeSize and every        *)
(* message type: the types, and that the two sides hear each other.        *)
(***************************************************************************)
EXTENDS TypeSupport, SequenceTheorems, TLAPS

\* Every variable has its type.
TypeOK ==
  /\ type \in Types /\ layers \in [Sides -> {"dds", "other"}]
  /\ wire \in [Sides ->
                 Seq([length : Nat, body : Messages(type) \cup {Empty}])]
  /\ serving \in BOOLEAN
  /\ {sent, heard} \subseteq [Sides -> Seq(Messages(type) \cup {Empty})]

\* What either side makes of a message m of type t when its size fits.
NoData(t) == t.bounded /\ t.max = 0
Payload(t, m) == IF NoData(t) THEN [length |-> 5, body |-> Empty]
                              ELSE [length |-> 4 + m.size, body |-> m]

Bodies(t)   == Messages(t) \cup {Empty}
Payloads(t) == [length : Nat, body : Bodies(t)]

\* What was heard, h, and what is under way, w, are what was sent, u, in order.
Link(t, h, w, u) ==
  /\ u \in Seq(Messages(t))
  /\ Len(u) = Len(h) + Len(w)
  /\ \A i \in 1..Len(h) : h[i] = u[i]
  /\ \A j \in 1..Len(w) : w[j] = Payload(t, u[Len(h) + j])

Linked ==
  Fits => \A s, o \in Sides : s # o => Link(type, heard[s], wire[s], sent[o])

IInv == TypeOK /\ Linked

-----------------------------------------------------------------------------
(* The types and their messages.                                            *)

LEMMA TypeFields ==
  ASSUME NEW t \in Types
  PROVE  /\ t.bounded \in BOOLEAN /\ t.max \in Nat
         /\ t.namespace \in {"", "message::msg"}
         /\ t.max = 0 => t.bounded
  BY SizeAssumption DEF SizeAssumption, Types

LEMMA Half ==
  ASSUME NEW n \in Nat
  PROVE  (n + 1) \div 2 \in Nat /\ (n > 0 => (n + 1) \div 2 <= n)
  OBVIOUS

LEMMA MessageSizes ==
  ASSUME NEW t \in Types, NEW m \in Bodies(t)
  PROVE  m.size \in Nat
<1>1. CASE m = Empty
  BY <1>1 DEF Empty
<1>2. CASE m \in Messages(t) /\ t.max # 0
  <2>1. t.max \in Nat /\ t.max + 1 \in Nat /\ (t.max + 1) \div 2 \in Nat
    <3>1. t.max \in Nat
      BY TypeFields
    <3>2. (t.max + 1) \div 2 \in Nat
      BY ONLY <3>1, Half, Zenon
    <3>3. QED
      BY <3>1, <3>2
  <2>2. m.size \in {t.max, IF t.bounded THEN (t.max + 1) \div 2 ELSE t.max + 1}
    BY <1>2 DEF Messages
  <2>3. QED
    BY <2>1, <2>2
<1>3. CASE m \in Messages(t) /\ t.max = 0
  BY <1>1, <1>3 DEF Messages
<1>4. QED
  BY <1>1, <1>2, <1>3 DEF Bodies

\* A bound type has no message larger than its bound.
LEMMA MessageBound ==
  ASSUME NEW t \in Types, NEW m \in Messages(t), t.bounded
  PROVE  m.size <= t.max
<1>1. t.max \in Nat
  BY TypeFields
<1>2. CASE t.max = 0
  BY <1>2 DEF Messages, Empty
<1>3. CASE t.max # 0
  <2>1. m.size \in {t.max, (t.max + 1) \div 2}
    BY <1>3 DEF Messages
  <2>2. (t.max + 1) \div 2 <= t.max
    BY <1>1, <1>3, Half
  <2>3. QED
    BY <1>1, <2>1, <2>2
<1>4. QED
  BY <1>2, <1>3

\* % Word is the identity below Word, and never leaves its range.
LEMMA Modulo ==
  ASSUME NEW n \in Nat
  PROVE  n % Word \in 0..(Word - 1) /\ (n < Word => n % Word = n)
<1>1. Word \in Nat /\ Word > 0
  BY SizeAssumption DEF SizeAssumption
<1>2. QED
  BY <1>1

\* When the type's size fits, every layer takes the same types for empty, and
\* estimates enough for every message.
LEMMA Supports ==
  ASSUME type \in Types, NEW s \in Sides
  PROVE  /\ Support(s).has_data_ \in BOOLEAN
         /\ Fits => Support(s).has_data_ = ~NoData(type)
         /\ Fits => \A m \in Messages(type) :
              serializeROSmessage(Support(s), m).length
                <= getEstimatedSerializedSize(Support(s), m)
<1>t. type.bounded \in BOOLEAN /\ type.max \in Nat
      /\ (type.max = 0 => type.bounded) /\ Word \in Nat /\ Word > 5
  BY TypeFields, SizeAssumption DEF SizeAssumption
<1> DEFINE d == type.max % Word
<1>d. d \in 0..(Word - 1) /\ (type.max < Word => d = type.max)
  BY <1>t, Modulo
<1>1. CASE layers[s] = "dds"
  <2>1. Support(s) = set_members(type)
    BY <1>1 DEF Support
  <2> DEFINE empty == type.bounded /\ d = 0
             size  == 4 + IF empty THEN 1 ELSE d
  <2>2. /\ Support(s).max_size_bound_ = type.bounded
        /\ Support(s).has_data_ = ~empty
        /\ Support(s).m_typeSize = size % Word
    BY <2>1 DEF set_members
  <2>3. size \in Nat
    BY <1>d, <1>t
  <2>4. size % Word \in 0..(Word - 1) /\ (size < Word => size % Word = size)
    BY <2>3, Modulo
  <2>5. ASSUME Fits PROVE empty <=> NoData(type)
    BY <1>t, <1>d, <2>5 DEF Fits, NoData
  <2>6. ASSUME Fits, NEW m \in Messages(type)
        PROVE  serializeROSmessage(Support(s), m).length
                 <= getEstimatedSerializedSize(Support(s), m)
    <3>1. m.size \in Nat
      BY MessageSizes, <1>t DEF Bodies
    <3>2. CASE ~type.bounded
      BY <2>2, <3>1, <3>2 DEF getEstimatedSerializedSize, serializeROSmessage
    <3>3. CASE type.bounded
      <4>1. d = type.max /\ 4 + type.max < Word
        BY <1>t, <1>d, <2>6, <3>3 DEF Fits
      <4>2. size % Word = size
        BY <1>t, <2>4, <4>1
      <4>3. m.size <= type.max
        BY <3>3, MessageBound, Zenon
      <4>4. CASE empty
        <5>1. size = 5
          BY <4>4
        <5>2. /\ Support(s).max_size_bound_ /\ ~Support(s).has_data_
              /\ Support(s).m_typeSize = 5
          BY <2>2, <3>3, <4>2, <4>4, <5>1
        <5>3. QED
          BY <5>2 DEF getEstimatedSerializedSize, serializeROSmessage
      <4>5. CASE ~empty
        <5>1. size = 4 + type.max
          BY <4>1, <4>5
        <5>2. QED
          BY <1>t, <2>2, <3>1, <3>3, <4>2, <4>3, <4>5, <5>1
             DEF getEstimatedSerializedSize, serializeROSmessage
      <4>6. QED
        BY <4>4, <4>5
    <3>4. QED
      BY <1>t, <3>2, <3>3
  <2>7. Support(s).has_data_ \in BOOLEAN
    BY <2>2
  <2>8. Fits => Support(s).has_data_ = ~NoData(type)
    BY <2>2, <2>5
  <2>9. QED
    BY <2>2, <2>4, <2>6, <2>7, <2>8
<1>2. CASE layers[s] # "dds"
  <2>1. Support(s) = RosTypeSupport(type)
    BY <1>2 DEF Support
  <2>2. /\ Support(s).max_size_bound_ = FALSE
        /\ Support(s).has_data_ = ~NoData(type)
        /\ Support(s).m_typeSize = 0
    BY <2>1 DEF RosTypeSupport, NoData
  <2>3. ASSUME NEW m \in Messages(type)
        PROVE  serializeROSmessage(Support(s), m).length
                 <= getEstimatedSerializedSize(Support(s), m)
    <3>1. m.size \in Nat
      BY MessageSizes, <1>t DEF Bodies
    <3>2. QED
      BY <2>2, <3>1 DEF getEstimatedSerializedSize, serializeROSmessage
  <2>4. QED
    BY <1>t, <2>2, <2>3
<1>3. QED
  BY <1>1, <1>2


-----------------------------------------------------------------------------
(* Who hears whom.                                                          *)

LEMMA Concatenation ==
  ASSUME NEW S, NEW x \in Seq(S), NEW y \in Seq(S), NEW z \in Seq(S),
         Len(x) = 2, Len(y) = 3, Len(z) = 5,
         z[1] = x[1], z[2] = x[2], z[3] = y[1], z[4] = y[2], z[5] = y[3]
  PROVE  x \o y = z
<1> DEFINE q == x \o y
<1>1. q \in Seq(S) /\ Len(q) = Len(x) + Len(y)
  BY ConcatProperties
<1>2. \A i \in 1..Len(x) + Len(y) :
        q[i] = IF i <= Len(x) THEN x[i] ELSE y[i - Len(x)]
  BY ConcatProperties
<1>3. Len(q) = 5
  BY <1>1
<1> HIDE DEF q
<1>4. \A i \in 1..5 : q[i] = IF i <= 2 THEN x[i] ELSE y[i - 2]
  <2>1. Len(x) = 2 /\ Len(x) + Len(y) = 5
    OBVIOUS
  <2>2. QED
    BY <1>2, <2>1, Zenon
<1>5. q[1] = x[1] /\ q[2] = x[2] /\ q[3] = y[1] /\ q[4] = y[2] /\ q[5] = y[3]
  BY <1>4
<1>6. \A i \in 1..5 : i = 1 \/ i = 2 \/ i = 3 \/ i = 4 \/ i = 5
  OBVIOUS
<1>7. \A i \in 1..5 : q[i] = z[i]
  BY <1>5, <1>6
<1>8. q = z
  BY <1>1, <1>3, <1>7, SeqEqual
<1>9. QED
  BY <1>8 DEF q

\* Both layers announce the same name for a type.
LEMMA SameTypeName ==
  ASSUME NEW t
  PROVE  _create_type_name(t) =
           IF t.namespace = "" THEN << "dds_::", "Data", "_" >>
           ELSE << t.namespace, "::", "dds_::", "Data", "_" >>
<1> DEFINE S == {t.namespace, "::", "dds_::", "Data", "_"}
           x == << t.namespace, "::" >>
           y == << "dds_::", "Data", "_" >>
           z == << t.namespace, "::", "dds_::", "Data", "_" >>
<1>1. x \in Seq(S) /\ y \in Seq(S) /\ z \in Seq(S)
  OBVIOUS
<1>2. Len(x) = 2 /\ Len(y) = 3 /\ Len(z) = 5
  OBVIOUS
<1>3. z[1] = x[1] /\ z[2] = x[2] /\ z[3] = y[1] /\ z[4] = y[2] /\ z[5] = y[3]
  OBVIOUS
<1> HIDE DEF S, x, y, z
<1>4. x \o y = z
  BY <1>1, <1>2, <1>3, Concatenation
<1>5. << >> \o y = y
  BY <1>1, ConcatEmptySeq
<1>6. _create_type_name(t) = IF t.namespace = "" THEN y ELSE z
  BY <1>4, <1>5 DEF _create_type_name, x, y
<1>7. QED
  BY <1>6 DEF y, z

\* A side hears the other one, whichever layers they use, and not itself.
LEMMA MatchedOther ==
  ASSUME type \in Types, NEW w \in Sides, NEW r \in Sides
  PROVE  Matched(w, r) <=> w # r
<1> DEFINE n == IF type.namespace = "" THEN << "dds_::", "Data", "_" >>
                ELSE << type.namespace, "::", "dds_::", "Data", "_" >>
<1>1. /\ Announced(w, Writes(w)) = << << "rt", Writes(w) >>, n >>
      /\ Announced(r, Reads(r)) = << << "rt", Reads(r) >>, n >>
  BY SameTypeName DEF Announced, _create_topic_name, ros_topic_prefix
<1>2. (Writes(w) = Reads(r)) <=> w # r
  <2>1. CASE w = "ping"
    BY <2>1 DEF Sides, Writes, Reads
  <2>2. CASE w = "pong"
    BY <2>2 DEF Sides, Writes, Reads
  <2>3. QED
    BY <2>1, <2>2 DEF Sides
<1> HIDE DEF n
<1>3. << << "rt", Writes(w) >>, n >> = << << "rt", Reads(r) >>, n >>
        <=> Writes(w) = Reads(r)
  OBVIOUS
<1>4. QED
  BY <1>1, <1>2, <1>3 DEF Matched

\* What is written reaches the other side and nobody else, whole.
LEMMA WrittenTo ==
  ASSUME type \in Types, Fits, NEW s \in Sides, NEW m \in Messages(type),
         NEW w
  PROVE  Written(s, m, w) = [r \in Sides |->
           IF r # s THEN Append(w[r], Payload(type, m)) ELSE w[r]]
<1> DEFINE p == serializeROSmessage(Support(s), m)
<1>1. p = Payload(type, m)
  BY Supports DEF serializeROSmessage, Payload
<1>2. p.length <= getEstimatedSerializedSize(Support(s), m)
  BY Supports
<1>3. \A r \in Sides : Matched(s, r) <=> r # s
  BY MatchedOther
<1>4. QED
  BY <1>1, <1>2, <1>3 DEF Written

-----------------------------------------------------------------------------
(* One sample more, and one sample less under way.                          *)

LEMMA LinkInit ==
  ASSUME NEW t
  PROVE  Link(t, << >>, << >>, << >>)
  BY DEF Link

LEMMA LinkPublish ==
  ASSUME NEW t, NEW S, NEW P, NEW h \in Seq(S), NEW w \in Seq(P), NEW u,
         NEW m \in Messages(t), Payload(t, m) \in P, Link(t, h, w, u)
  PROVE  Link(t, h, Append(w, Payload(t, m)), Append(u, m))
<1> DEFINE w2 == Append(w, Payload(t, m))
           u2 == Append(u, m)
<1>1. /\ u \in Seq(Messages(t)) /\ Len(u) = Len(h) + Len(w)
      /\ \A i \in 1..Len(h) : h[i] = u[i]
      /\ \A j \in 1..Len(w) : w[j] = Payload(t, u[Len(h) + j])
  BY DEF Link
<1>2. Len(h) \in Nat /\ Len(w) \in Nat
  OBVIOUS
<1>3. /\ u2 \in Seq(Messages(t)) /\ Len(u2) = Len(u) + 1
      /\ u2[Len(u) + 1] = m /\ \A i \in 1..Len(u) : u2[i] = u[i]
  <2>1. u \in Seq(Messages(t))
    BY <1>1
  <2>2. QED
    BY <2>1, AppendProperties
<1>4. /\ Len(w2) = Len(w) + 1 /\ w2[Len(w) + 1] = Payload(t, m)
      /\ \A j \in 1..Len(w) : w2[j] = w[j]
  OBVIOUS
<1> HIDE DEF w2, u2
<1>5. \A i \in 1..Len(h) : h[i] = u2[i]
  BY <1>1, <1>2, <1>3
<1>6. ASSUME NEW j \in 1..Len(w2) PROVE w2[j] = Payload(t, u2[Len(h) + j])
  <2>1. CASE j \in 1..Len(w)
    <3>1. Len(h) + j \in 1..Len(u)
      BY <1>1, <1>2, <2>1
    <3>2. QED
      BY <1>1, <1>3, <1>4, <2>1, <3>1
  <2>2. CASE j = Len(w) + 1
    <3>1. Len(h) + j = Len(u) + 1
      BY <1>1, <1>2, <2>2
    <3>2. QED
      BY <1>3, <1>4, <2>2, <3>1
  <2>3. QED
    BY <1>2, <1>4, <2>1, <2>2
<1>7. Len(u2) = Len(h) + Len(w2)
  BY <1>1, <1>2, <1>3, <1>4
<1>8. Link(t, h, w2, u2)
  BY <1>3, <1>5, <1>6, <1>7 DEF Link
<1>9. QED
  BY <1>8 DEF w2, u2

LEMMA LinkHear ==
  ASSUME NEW t, NEW S, NEW P, NEW h \in Seq(S), NEW w \in Seq(P), NEW u,
         w # << >>, NEW m \in S, m = u[Len(h) + 1], Link(t, h, w, u)
  PROVE  Link(t, Append(h, m), Tail(w), u)
<1> DEFINE w2 == Tail(w)
           h2 == Append(h, m)
<1>1. /\ u \in Seq(Messages(t)) /\ Len(u) = Len(h) + Len(w)
      /\ \A i \in 1..Len(h) : h[i] = u[i]
      /\ \A j \in 1..Len(w) : w[j] = Payload(t, u[Len(h) + j])
  BY DEF Link
<1>2. Len(h) \in Nat /\ Len(w) \in Nat /\ Len(w) > 0
  OBVIOUS
<1>3. /\ Len(h2) = Len(h) + 1 /\ h2[Len(h) + 1] = m
      /\ \A i \in 1..Len(h) : h2[i] = h[i]
  OBVIOUS
<1>4. Len(w2) = Len(w) - 1 /\ \A j \in 1..Len(w2) : w2[j] = w[j + 1]
  BY <1>2
<1> HIDE DEF w2, h2
<1>5. ASSUME NEW i \in 1..Len(h2) PROVE h2[i] = u[i]
  <2>1. CASE i \in 1..Len(h)
    BY <1>1, <1>3, <2>1
  <2>2. CASE i = Len(h) + 1
    BY <1>3, <2>2
  <2>3. QED
    BY <1>2, <1>3, <2>1, <2>2
<1>6. ASSUME NEW j \in 1..Len(w2) PROVE w2[j] = Payload(t, u[Len(h2) + j])
  <2>1. j + 1 \in 1..Len(w) /\ Len(h2) + j = Len(h) + (j + 1)
    BY <1>2, <1>3, <1>4
  <2>2. QED
    BY <1>1, <1>4, <2>1
<1>7. Len(u) = Len(h2) + Len(w2)
  BY <1>1, <1>2, <1>3, <1>4
<1>8. Link(t, h2, w2, u)
  BY <1>1, <1>5, <1>6, <1>7 DEF Link
<1>9. QED
  BY <1>8 DEF w2, h2

-----------------------------------------------------------------------------
(* The types.                                                               *)

LEMMA WrittenType ==
  ASSUME type \in Types, NEW s \in Sides, NEW m \in Bodies(type),
         NEW w \in [Sides -> Seq(Payloads(type))]
  PROVE  Written(s, m, w) \in [Sides -> Seq(Payloads(type))]
<1> DEFINE p == serializeROSmessage(Support(s), m)
<1>1. m.size \in Nat /\ 4 + m.size \in Nat
  BY MessageSizes
<1>2. p \in Payloads(type)
  <2>1. Empty \in Bodies(type)
    BY DEF Bodies
  <2>2. CASE Support(s).has_data_
    BY <1>1, <2>2 DEF serializeROSmessage, Payloads
  <2>3. CASE ~Support(s).has_data_
    BY <2>1, <2>3 DEF serializeROSmessage, Payloads
  <2>4. QED
    BY <2>2, <2>3
<1>3. \A r \in Sides : w[r] \in Seq(Payloads(type))
                         /\ Append(w[r], p) \in Seq(Payloads(type))
  BY <1>2
<1>4. QED
  BY <1>3 DEF Written

\* What a side hears is a message, or the empty one.
LEMMA HeardType ==
  ASSUME TypeOK, NEW s \in Sides, wire[s] # << >>,
         Readable(Support(s), Head(wire[s]))
  PROVE  deserializeROSmessage(Support(s), Head(wire[s])) \in Bodies(type)
  BY DEF Readable, deserializeROSmessage, Bodies

LEMMA TypeInit == Init => TypeOK
<1> SUFFICES ASSUME Init PROVE TypeOK
  OBVIOUS
<1>1. \A S : << >> \in Seq(S)
  OBVIOUS
<1>2. type \in Types /\ layers \in [Sides -> {"dds", "other"}]
  BY DEF Init
<1>3. QED
  BY <1>1, <1>2 DEF Init, TypeOK

LEMMA TypeStep == TypeOK /\ [Next]_vars => TypeOK'
<1> SUFFICES ASSUME TypeOK, [Next]_vars PROVE TypeOK'
  OBVIOUS
<1> DEFINE M == Bodies(type)
           W == [Sides -> Seq(Payloads(type))]
           H == [Sides -> Seq(M)]
<1>1. type \in Types /\ wire \in W /\ sent \in H /\ heard \in H
  BY DEF TypeOK, Payloads, Bodies
<1>2. UNCHANGED <<type, layers>>
  BY DEF Next, PingPublish, Hear, Oops, vars
<1>3. wire' \in W /\ sent' \in H /\ heard' \in H
  <2>1. ASSUME NEW m \in Messages(type),
               wire' = Written("ping", m, wire),
               sent' = [sent EXCEPT !["ping"] = Append(@, m)], heard' = heard
        PROVE  wire' \in W /\ sent' \in H /\ heard' \in H
    <3>1. m \in M /\ "ping" \in Sides
      BY DEF Bodies, Sides
    <3>2. wire' \in W
      BY <1>1, <2>1, <3>1, WrittenType
    <3>3. Append(sent["ping"], m) \in Seq(M)
      BY <1>1, <3>1
    <3>4. sent' \in H
      BY <1>1, <2>1, <3>1, <3>3
    <3>5. QED
      BY <1>1, <2>1, <3>2, <3>4
  <2>2. ASSUME NEW s \in Sides, Hear(s)
        PROVE  wire' \in W /\ sent' \in H /\ heard' \in H
    <3> DEFINE m    == deserializeROSmessage(Support(s), Head(wire[s]))
               rest == [wire EXCEPT ![s] = Tail(@)]
    <3>1. m \in M
      BY <2>2, HeardType DEF Hear
    <3>2. rest \in W
      BY <1>1, <2>2 DEF Hear
    <3>3. Written(s, m, rest) \in W
      BY <1>1, <3>1, <3>2, WrittenType
    <3>4. Append(heard[s], m) \in Seq(M) /\ Append(sent[s], m) \in Seq(M)
      BY <1>1, <3>1
    <3>5. /\ [heard EXCEPT ![s] = Append(@, m)] \in H
          /\ [sent EXCEPT ![s] = Append(@, m)] \in H
      BY <1>1, <3>4
    <3>6. /\ heard' = [heard EXCEPT ![s] = Append(@, m)]
          /\ wire' \in {Written(s, m, rest), rest}
          /\ sent' \in {sent, [sent EXCEPT ![s] = Append(@, m)]}
      BY <2>2 DEF Hear
    <3> HIDE DEF m, rest
    <3>7. QED
      BY <1>1, <3>2, <3>3, <3>5, <3>6
  <2>3. ASSUME NEW s \in Sides, Oops(s)
        PROVE  wire' \in W /\ sent' \in H /\ heard' \in H
    BY <1>1, <2>3 DEF Oops
  <2>4. CASE UNCHANGED vars
    BY <1>1, <2>4 DEF vars
  <2>5. CASE PingPublish
    BY <2>1, <2>5 DEF PingPublish
  <2>6. QED
    BY <2>2, <2>3, <2>4, <2>5 DEF Next
<1>4. serving' \in BOOLEAN
  <2>1. serving \in BOOLEAN
    BY DEF TypeOK
  <2>2. ASSUME NEW s \in Sides, Oops(s) PROVE serving' \in BOOLEAN
    BY <2>1, <2>2 DEF Oops
  <2>3. QED
    BY <2>1, <2>2 DEF Next, PingPublish, Hear, vars
<1>5. QED
  BY <1>2, <1>3, <1>4 DEF TypeOK, Payloads, Bodies, Messages

-----------------------------------------------------------------------------
(* The link between the two sides.                                          *)

\* What is under way is the next message not heard yet, and can be read.
LEMMA HeardIsSent ==
  ASSUME TypeOK, Fits, NEW s \in Sides, NEW o \in Sides,
         Link(type, heard[s], wire[s], sent[o]), wire[s] # << >>
  PROVE  /\ Readable(Support(s), Head(wire[s]))
         /\ deserializeROSmessage(Support(s), Head(wire[s]))
              = sent[o][Len(heard[s]) + 1]
         /\ sent[o][Len(heard[s]) + 1] \in Messages(type)
<1> DEFINE m == sent[o][Len(heard[s]) + 1]
<1>1. /\ wire[s] \in Seq(Payloads(type)) /\ heard[s] \in Seq(Bodies(type))
      /\ type \in Types
  BY DEF TypeOK, Payloads, Bodies
<1>2. Len(wire[s]) \in Nat /\ Len(wire[s]) > 0 /\ Len(heard[s]) \in Nat
  BY <1>1
<1>3. Head(wire[s]) = Payload(type, m)
  <2>1. Head(wire[s]) = wire[s][1] /\ 1 \in 1..Len(wire[s])
    BY <1>1, <1>2
  <2>2. QED
    BY <2>1 DEF Link
<1>4. m \in Messages(type)
  <2>1. /\ sent[o] \in Seq(Messages(type))
        /\ Len(sent[o]) = Len(heard[s]) + Len(wire[s])
    BY DEF Link
  <2>2. Len(sent[o]) = Len(heard[s]) + Len(wire[s])
    BY <2>1
  <2>3. Len(heard[s]) + 1 \in 1..Len(sent[o])
    <3>1. \A a, b \in Nat : b > 0 => a + 1 \in 1..(a + b)
      OBVIOUS
    <3>2. QED
      BY ONLY <1>2, <2>2, <3>1
  <2>4. QED
    BY <2>1, <2>3, ElementOfSeq
<1>5. Support(s).has_data_ = ~NoData(type)
  BY <1>1, Supports
<1> HIDE DEF m
<1>6. CASE NoData(type)
  <2>1. m = Empty
    BY <1>4, <1>6 DEF NoData, Messages
  <2>2. QED
    BY <1>3, <1>4, <1>5, <1>6, <2>1
       DEF Readable, deserializeROSmessage, Payload, m
<1>7. CASE ~NoData(type)
  <2>1. Head(wire[s]).body = m
    BY <1>3, <1>7 DEF Payload
  <2>2. Support(s).has_data_
    BY <1>5, <1>7
  <2>3. QED
    BY <1>4, <2>1, <2>2 DEF Readable, deserializeROSmessage, m
<1>8. QED
  BY <1>6, <1>7

LEMMA PublishLink ==
  ASSUME TypeOK, Fits, Linked, PingPublish
  PROVE  \A s, o \in Sides : s # o =>
           Link(type, heard'[s], wire'[s], sent'[o])
<1>1. PICK m \in Messages(type) :
        /\ wire' = Written("ping", m, wire)
        /\ sent' = [sent EXCEPT !["ping"] = Append(@, m)]
  BY DEF PingPublish
<1>2. /\ type \in Types /\ wire \in [Sides -> Seq(Payloads(type))]
      /\ heard \in [Sides -> Seq(Bodies(type))]
      /\ sent \in [Sides -> Seq(Bodies(type))]
  BY DEF TypeOK, Payloads, Bodies
<1>3. /\ wire'["pong"] = Append(wire["pong"], Payload(type, m))
      /\ wire'["ping"] = wire["ping"]
  <2>1. wire' = [r \in Sides |->
          IF r # "ping" THEN Append(wire[r], Payload(type, m)) ELSE wire[r]]
    BY <1>1, <1>2, WrittenTo DEF Sides
  <2>2. QED
    BY <2>1 DEF Sides
<1>4. sent'["ping"] = Append(sent["ping"], m) /\ sent'["pong"] = sent["pong"]
  BY <1>1, <1>2 DEF Sides
<1>5. heard' = heard
  BY DEF PingPublish
<1>6. /\ Link(type, heard["pong"], wire["pong"], sent["ping"])
      /\ Link(type, heard["ping"], wire["ping"], sent["pong"])
  BY DEF Linked, Sides
<1>7. Link(type, heard["pong"], Append(wire["pong"], Payload(type, m)),
           Append(sent["ping"], m))
  <2>1. /\ heard["pong"] \in Seq(Bodies(type))
        /\ wire["pong"] \in Seq(Payloads(type) \cup {Payload(type, m)})
    BY <1>2 DEF Sides
  <2>2. QED
    BY <1>6, <2>1, LinkPublish
<1>8. QED
  BY <1>3, <1>4, <1>5, <1>6, <1>7 DEF Sides

LEMMA HearLink ==
  ASSUME TypeOK, Fits, Linked, NEW s \in Sides, Hear(s)
  PROVE  \A r, o \in Sides : r # o =>
           Link(type, heard'[r], wire'[r], sent'[o])
<1> DEFINE m    == deserializeROSmessage(Support(s), Head(wire[s]))
           rest == [wire EXCEPT ![s] = Tail(@)]
<1>1. /\ type \in Types /\ wire \in [Sides -> Seq(Payloads(type))]
      /\ heard \in [Sides -> Seq(Bodies(type))]
      /\ sent \in [Sides -> Seq(Bodies(type))]
  BY DEF TypeOK, Payloads, Bodies
<1>2. PICK o \in Sides : o # s
  BY DEF Sides
<1>3. \A r \in Sides : r = s \/ r = o
  BY <1>2 DEF Sides
<1>4. /\ Link(type, heard[s], wire[s], sent[o])
      /\ Link(type, heard[o], wire[o], sent[s])
  BY <1>2 DEF Linked
<1>5. wire[s] # << >>
  BY DEF Hear
<1>6. m = sent[o][Len(heard[s]) + 1] /\ m \in Messages(type)
  BY <1>4, <1>5, HeardIsSent
<1>7. heard' = [heard EXCEPT ![s] = Append(@, m)]
  BY DEF Hear
<1>8. IF s = "pong" THEN /\ wire' = Written(s, m, rest)
                         /\ sent' = [sent EXCEPT ![s] = Append(@, m)]
                    ELSE wire' = rest /\ sent' = sent
  BY DEF Hear
<1>9. rest[s] = Tail(wire[s]) /\ rest[o] = wire[o]
  BY <1>1, <1>2
<1> HIDE DEF m, rest
<1>10. heard'[s] = Append(heard[s], m) /\ heard'[o] = heard[o]
  BY <1>1, <1>2, <1>7
<1>11. Link(type, Append(heard[s], m), Tail(wire[s]), sent[o])
  <2>1. /\ heard[s] \in Seq(Bodies(type)) /\ wire[s] \in Seq(Payloads(type))
        /\ m \in Bodies(type)
    BY <1>1, <1>6 DEF Bodies
  <2>2. QED
    BY <1>4, <1>5, <1>6, <2>1, LinkHear
<1>12. CASE s = "pong"
  <2>1. wire'[s] = rest[s] /\ wire'[o] = Append(rest[o], Payload(type, m))
    <3>1. wire' = [r \in Sides |->
            IF r # s THEN Append(rest[r], Payload(type, m)) ELSE rest[r]]
      BY <1>1, <1>6, <1>8, <1>12, WrittenTo
    <3>2. QED
      BY <1>2, <3>1
  <2>2. sent'[s] = Append(sent[s], m) /\ sent'[o] = sent[o]
    BY <1>1, <1>2, <1>8, <1>12
  <2>3. Link(type, heard[o], Append(wire[o], Payload(type, m)),
             Append(sent[s], m))
    <3>1. /\ heard[o] \in Seq(Bodies(type))
          /\ wire[o] \in Seq(Payloads(type) \cup {Payload(type, m)})
      BY <1>1
    <3>2. QED
      BY <1>4, <1>6, <3>1, LinkPublish
  <2>4. QED
    BY <1>3, <1>9, <1>10, <1>11, <2>1, <2>2, <2>3
<1>13. CASE s # "pong"
  <2>1. wire'[s] = Tail(wire[s]) /\ wire'[o] = wire[o] /\ sent' = sent
    BY <1>8, <1>9, <1>13
  <2>2. QED
    BY <1>3, <1>4, <1>10, <1>11, <2>1
<1>14. QED
  BY <1>12, <1>13

LEMMA TypeFixed == [Next]_vars => type' = type
<1> SUFFICES ASSUME [Next]_vars PROVE type' = type
  OBVIOUS
<1>1. CASE PingPublish
  BY <1>1 DEF PingPublish
<1>2. ASSUME NEW s \in Sides, Hear(s) \/ Oops(s) PROVE type' = type
  BY <1>2 DEF Hear, Oops
<1>3. CASE UNCHANGED vars
  BY <1>3 DEF vars
<1>4. QED
  BY <1>1, <1>2, <1>3 DEF Next

LEMMA LinkedStep == IInv /\ [Next]_vars => Linked'
<1> SUFFICES ASSUME TypeOK, Linked, [Next]_vars, Fits
             PROVE  \A s, o \in Sides : s # o =>
                      Link(type, heard'[s], wire'[s], sent'[o])
  BY TypeFixed DEF IInv, Linked, Fits
<1>1. CASE PingPublish
  BY <1>1, PublishLink
<1>2. ASSUME NEW s \in Sides, Hear(s)
      PROVE  \A r, o \in Sides : r # o =>
               Link(type, heard'[r], wire'[r], sent'[o])
  BY <1>2, HearLink
<1>3. ASSUME NEW s \in Sides, Oops(s) PROVE FALSE
  <2>1. PICK o \in Sides : o # s
    BY DEF Sides
  <2>2. Link(type, heard[s], wire[s], sent[o])
    BY <2>1 DEF Linked
  <2>3. QED
    BY <1>3, <2>2, HeardIsSent DEF Oops
<1>4. CASE UNCHANGED vars
  BY <1>4 DEF vars, Linked
<1>5. QED
  BY <1>1, <1>2, <1>3, <1>4 DEF Next

THEOREM Invariant == Spec => []IInv
<1>1. Init => IInv
  <2>1. Init => Linked
    BY LinkInit DEF Init, Linked
  <2>2. QED
    BY <2>1, TypeInit DEF IInv
<1>2. IInv /\ [Next]_vars => IInv'
  BY TypeStep, LinkedStep DEF IInv
<1>3. QED
  BY <1>1, <1>2, PTL DEF Spec

\* As long as the largest payload of a bound type has a size below Word, each
\* side hears all of what the other publishes, unchanged and in order, on the
\* same layer or on two.
THEOREM RoundTripHolds == Spec => []RoundTrip
<1>1. IInv => RoundTrip
  <2> SUFFICES ASSUME TypeOK, Linked, Fits,
                      NEW s \in Sides, NEW o \in Sides, s # o
               PROVE  /\ IsPrefix(heard[s], sent[o])
                      /\ wire[s] = << >> => heard[s] = sent[o]
    BY DEF IInv, RoundTrip
  <2> DEFINE h == heard[s]
             u == sent[o]
  <2>1. Link(type, h, wire[s], u)
    BY DEF Linked
  <2>2. h \in Seq(Bodies(type)) /\ u \in Seq(Bodies(type))
        /\ Len(wire[s]) \in Nat
    BY DEF TypeOK, Bodies
  <2>3. Len(h) \in Nat /\ Len(u) = Len(h) + Len(wire[s])
        /\ \A i \in 1..Len(h) : h[i] = u[i]
    BY <2>1, <2>2 DEF Link
  <2> HIDE DEF h, u
  <2>4. SubSeq(h, 1, Len(h)) = SubSeq(u, 1, Len(h))
    <3>1. \A i \in 1..Len(h) : i \in 1..Len(u)
      BY <2>2, <2>3
    <3>2. /\ SubSeq(h, 1, Len(h)) = [i \in 1..Len(h) |-> h[i]]
          /\ SubSeq(u, 1, Len(h)) = [i \in 1..Len(h) |-> u[i]]
      BY <2>2, <2>3
    <3>3. QED
      BY <2>3, <3>2
  <2>5. IsPrefix(h, u)
    BY <2>2, <2>3, <2>4 DEF IsPrefix
  <2>6. ASSUME wire[s] = << >> PROVE h = u
    <3>1. Len(u) = Len(h)
      BY <2>3, <2>6
    <3>2. QED
      BY <2>2, <2>3, <3>1, SeqEqual
  <2>7. QED
    BY <2>5, <2>6 DEF h, u
<1>2. QED
  BY <1>1, Invariant, PTL
=============================================================================
