----------------------------- MODULE TypeSupport -----------------------------
(***************************************************************************)
(* What a sample is on its way through the dds layer: the names under      *)
(* which writers and readers find each other, and MyMessageTypeSupport     *)
(* (my_message_type_support.cpp), which sizes, writes and reads the        *)
(* payload.  Both imitate rmw, so that a side that runs on the dds layer   *)
(* can talk to one that runs on any other: the other layers' names and     *)
(* payloads are part of the model, as ROS 2 prescribes them.               *)
(*                                                                         *)
(* A message is a size and a value; the value stands for the bytes that    *)
(* the generated callbacks of the type write and read.                      *)
(***************************************************************************)
EXTENDS Integers, Sequences, SequencesExt

CONSTANTS
  Word,      \* data_size and m_typeSize are numbers below Word (2^32)
  MaxSizes,  \* what max_serialized_size may return, a 64 bit number
  MaxMsgs    \* bound: samples that ping publishes

ASSUME SizeAssumption ==
  /\ Word \in Nat /\ Word > 5 /\ MaxSizes \subseteq Nat /\ MaxMsgs \in Nat

VARIABLES
  type,     \* the message type of both topics
  layers,   \* "dds" or "other", for either side
  wire,     \* the payloads under way to the reader of each side
  serving,  \* pong is still in spin
  sent,     \* history: what each side has published
  heard     \* history: what each side has taken and called back with

vars == <<type, layers, wire, serving, sent, heard>>

Sides == {"ping", "pong"}

\* The types that code may be generated for.  max_serialized_size says that a
\* type is not bound when it has a member of any length, and counts the rest.
Types ==
  {t \in [bounded : BOOLEAN, max : MaxSizes, namespace : {"", "message::msg"}] :
     t.max = 0 => t.bounded}

\* Messages of a type, some large and some small; an empty one has no value.
Empty == [size |-> 0, value |-> 0]
Messages(t) ==
  IF t.max = 0 THEN {Empty}
  ELSE [size : {t.max, IF t.bounded THEN (t.max + 1) \div 2 ELSE t.max + 1},
        value : {0, 1}]

-----------------------------------------------------------------------------
(* The names.                                                               *)

_create_type_name(t) ==
  (IF t.namespace # "" THEN << t.namespace, "::" >> ELSE << >>)
  \o << "dds_::", "Data", "_" >>

_create_topic_name(prefix, base) == << prefix, base >>

ros_topic_prefix == "rt"

\* ping writes /ping and reads /pong, pong the other way round.
Writes(s) == IF s = "ping" THEN "/ping" ELSE "/pong"
Reads(s)  == IF s = "ping" THEN "/pong" ELSE "/ping"

\* What a participant announces for a topic: by the code of the dds layer, or
\* as rmw does it.
Announced(s, topic) ==
  IF layers[s] = "dds"
  THEN << _create_topic_name(ros_topic_prefix, topic), _create_type_name(type) >>
  ELSE << << "rt", topic >>,
          IF type.namespace = "" THEN << "dds_::", "Data", "_" >>
          ELSE << type.namespace, "::", "dds_::", "Data", "_" >> >>

Matched(w, r) == Announced(w, Writes(w)) = Announced(r, Reads(r))

-----------------------------------------------------------------------------
(* MyMessageTypeSupport.                                                    *)

\* A wrong size: the encapsulation is forgotten.
set_members_bare(t) ==
  LET data_size == t.max % Word
      empty     == t.bounded /\ data_size = 0
  IN [max_size_bound_ |-> t.bounded, has_data_ |-> ~empty,
      m_typeSize |-> IF empty THEN 1 ELSE data_size]

\* An empty message of a bound type gets a dummy byte.
set_members(t) ==
  LET data_size == t.max % Word
      empty     == t.bounded /\ data_size = 0
  IN [max_size_bound_ |-> t.bounded, has_data_ |-> ~empty,
      m_typeSize |-> (4 + IF empty THEN 1 ELSE data_size) % Word]

\* The other layers use the original, which is taken to do the same for every
\* type and to know every size.
RosTypeSupport(t) ==
  [max_size_bound_ |-> FALSE, has_data_ |-> ~(t.bounded /\ t.max = 0),
   m_typeSize |-> 0]

Support(s) == IF layers[s] = "dds" THEN set_members(type)
                                   ELSE RosTypeSupport(type)

serializeROSmessage(ts, m) ==
  IF ts.has_data_ THEN [length |-> 4 + m.size, body |-> m]
                  ELSE [length |-> 5, body |-> Empty]

getEstimatedSerializedSize(ts, m) ==
  IF ts.max_size_bound_ THEN ts.m_typeSize
                        ELSE serializeROSmessage(ts, m).length

\* Reading succeeds if the payload holds what the reader looks for.
Readable(ts, p) == IF ts.has_data_ THEN p.body \in Messages(type)
                                   ELSE p.length > 4
deserializeROSmessage(ts, p) == IF ts.has_data_ THEN p.body ELSE Empty

-----------------------------------------------------------------------------
Init ==
  /\ type \in Types
  /\ layers \in [Sides -> {"dds", "other"}]
  /\ wire = [s \in Sides |-> << >>] /\ serving = TRUE
  /\ sent = [s \in Sides |-> << >>] /\ heard = [s \in Sides |-> << >>]

\* publish: the payload has room for the estimated size; a message that does
\* not fit is not written ("cannot publish data"), and the caller is not told.
Written(s, m, w) ==
  LET ts == Support(s)
      p  == serializeROSmessage(ts, m)
  IN [r \in Sides |->
        IF p.length <= getEstimatedSerializedSize(ts, m) /\ Matched(s, r)
        THEN Append(w[r], p) ELSE w[r]]

PingPublish ==
  /\ Len(sent["ping"]) < MaxMsgs
  /\ \E m \in Messages(type) :
       /\ wire' = Written("ping", m, wire)
       /\ sent' = [sent EXCEPT !["ping"] = Append(@, m)]
  /\ UNCHANGED <<type, layers, serving, heard>>

\* ping reads in every iteration, pong for as long as it is in spin.
Reading(s) == s = "pong" => serving

\* Take a sample and call back; pong's callback publishes the same message.
Hear(s) ==
  LET p    == Head(wire[s])
      m    == deserializeROSmessage(Support(s), p)
      rest == [wire EXCEPT ![s] = Tail(@)]
  IN /\ Reading(s)
     /\ wire[s] # << >> /\ Readable(Support(s), p)
     /\ heard' = [heard EXCEPT ![s] = Append(@, m)]
     /\ IF s = "pong"
        THEN /\ wire' = Written(s, m, rest)
             /\ sent' = [sent EXCEPT ![s] = Append(@, m)]
        ELSE wire' = rest /\ UNCHANGED sent
     /\ UNCHANGED <<type, layers, serving>>

\* "oops, cannot takeNextData": spin_once returns, and the next iteration calls
\* it again; spin returns as well, and with it pong ends.  What a reader of
\* another layer makes of such a payload is left open: it goes on, or ends.
Oops(s) ==
  /\ Reading(s)
  /\ wire[s] # << >>
  /\ ~Readable(Support(s), Head(wire[s]))
  /\ wire' = [wire EXCEPT ![s] = Tail(@)]
  /\ IF s = "ping" THEN UNCHANGED serving
     ELSE serving' \in {FALSE, layers[s] # "dds"}
  /\ UNCHANGED <<type, layers, sent, heard>>

Next == PingPublish \/ \E s \in Sides : (Hear(s) \/ Oops(s))

Spec == Init /\ [][Next]_vars

-----------------------------------------------------------------------------
(* Correctness.                                                             *)

\* The type's largest payload has a size that fits m_typeSize.
Fits == type.bounded => 4 + type.max < Word

\* Whatever the type, bound or not, empty or not, and whichever side runs on
\* the dds layer: each side hears what the other has published, unchanged and
\* in order, and of what it publishes nothing is refused, misread or heard by
\* nobody.
RoundTrip ==
  Fits => \A s, o \in Sides : s # o =>
    /\ IsPrefix(heard[s], sent[o])
    /\ wire[s] = << >> => heard[s] = sent[o]
=============================================================================
